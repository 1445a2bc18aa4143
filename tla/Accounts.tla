-------------------------------- MODULE Accounts --------------------------------
(***************************************************************************)
(* How a person gets an account: by registration, with a referral code or  *)
(* without, by the Google button of the page, or by the Google redirect;   *)
(* and how its e-mail address is verified.  One affiliate advertises a     *)
(* code and counts its referrals.                                          *)
(*                                                                         *)
(* A request looks first and inserts later, so the unique keys of users    *)
(* decide between two requests.  Registration commits twice, and the       *)
(* redirect up to three times: a request that dies leaves a part behind.   *)
(***************************************************************************)
EXTENDS Naturals, FiniteSets

CONSTANTS
    P,              \* the persons, each with an e-mail address and a Google account
    Sessions,       \* the requests that are served at the same time
    MaxName,        \* the usernames are 0 .. MaxName; 0 is the prefix of every address
    MaxFailures,    \* bound on failures, lost and expired mails
    None

ASSUME AccountsAssumption ==
    /\ {MaxName, MaxFailures} \subseteq Nat
    /\ None \notin Nat

VARIABLES
    name,           \* name[p]: the username of p's account, or None without one
    verified,       \* the persons whose account is_verified
    google,         \* the persons whose account has a google_id
    referredBy,     \* the persons with referred_by_affiliate_id
    referral,       \* the persons with a row of referrals
    affiliate,      \* the status of the affiliate; "pending" is any that is not active
    total,          \* total_referrals of the affiliate
    mailed,         \* the persons who have a mail with a valid, unused token
    work,           \* work[s]: where session s stands
    made,           \* history: made[p]: how many accounts were inserted for p
    lost,           \* history: a count of referrals was overwritten
    failures        \* history: the number of failures

userVars == <<name, verified, google, referredBy, made>>
codeVars == <<referral, affiliate, total, lost>>
vars == <<name, verified, google, referredBy, referral, affiliate, total, mailed, work,
          made, lost, failures>>

Names == 0 .. MaxName
Prefix == 0

Idle == [at |-> "idle"]

\* insert, inserted, token: registration; button: the first look of the
\* Google button was in vain; create: an account of Google's; link: an account to
\* be linked; verify: the last commit of the redirect.
Active == [at : {"code", "insert", "inserted", "token", "button", "create", "link", "verify"},
           p : P, name : Names \cup {None}, referred : BOOLEAN, seen : Nat, redirect : BOOLEAN]

TypeOK ==
    /\ name \in [P -> Names \cup {None}]
    /\ verified \subseteq P /\ google \subseteq P
    /\ referredBy \subseteq P /\ referral \subseteq P
    /\ affiliate \in {"none", "pending", "active"}
    /\ total \in Nat
    /\ mailed \subseteq P
    /\ work \in [Sessions -> Active \cup {Idle}]
    /\ made \in [P -> Nat]
    /\ lost \in BOOLEAN
    /\ failures \in 0 .. MaxFailures

Init ==
    /\ name = [p \in P |-> None]
    /\ verified = {} /\ google = {} /\ referredBy = {} /\ referral = {}
    /\ affiliate = "none" /\ total = 0
    /\ mailed = {}
    /\ work = [s \in Sessions |-> Idle]
    /\ made = [p \in P |-> 0]
    /\ lost = FALSE /\ failures = 0

-----------------------------------------------------------------------------
At(s, label) == work[s].at = label
Goto(s, label) == work' = [work EXCEPT ![s].at = label]
End(s) == work' = [work EXCEPT ![s] = Idle]

Begin(s, p, label, redirect) ==
    /\ At(s, "idle")
    /\ work' = [work EXCEPT ![s] = [at |-> label, p |-> p, name |-> None, referred |-> FALSE,
                                    seen |-> 0, redirect |-> redirect]]

HasAccount(p) == name[p] # None
Free(n) == \A p \in P : name[p] # n

\* An insert waits for one of the same address or name that is not committed ...
MayInsert(s) ==
    \A t \in Sessions \ {s} : At(t, "inserted") =>
        work[t].p # work[s].p /\ work[t].name # work[s].name

\* Mutant: only the address is unique.
MutantUnique(s) == ~HasAccount(work[s].p)

\* ... and raises if it was.
Unique(s) == ~HasAccount(work[s].p) /\ Free(work[s].name)

Store(s) ==
    /\ name' = [name EXCEPT ![work[s].p] = work[s].name]
    /\ made' = [made EXCEPT ![work[s].p] = @ + 1]

-----------------------------------------------------------------------------
(* Registration.                                                           *)

\* Neither the address nor the name is in use.
Register(s, p, n, withCode) ==
    /\ At(s, "idle") /\ ~HasAccount(p) /\ Free(n)
    /\ work' = [work EXCEPT ![s] = [at |-> IF withCode THEN "code" ELSE "insert", p |-> p, name |-> n,
                                    referred |-> FALSE, seen |-> 0, redirect |-> FALSE]]
    /\ UNCHANGED <<userVars, codeVars, mailed, failures>>

\* The affiliate that is read here is the object whose count is raised later.
FindCode(s) ==
    /\ At(s, "code")
    /\ work' = [work EXCEPT ![s] = [@ EXCEPT !.at = "insert", !.referred = affiliate = "active",
                                            !.seen = IF affiliate = "active" THEN total ELSE 0]]
    /\ UNCHANGED <<userVars, codeVars, mailed, failures>>

Insert(s) ==
    /\ At(s, "insert") /\ MayInsert(s)
    /\ IF Unique(s) THEN Goto(s, "inserted") ELSE End(s)
    /\ UNCHANGED <<userVars, codeVars, mailed, failures>>

\* Mutant: the account is committed first, and an error of register_referral is
\* swallowed.
MutantCommit(s) ==
    LET p == work[s].p  referred == work[s].referred IN
    /\ At(s, "inserted")
    /\ Store(s)
    /\ referredBy' = IF referred THEN referredBy \cup {p} ELSE referredBy
    /\ Goto(s, "token")
    /\ UNCHANGED <<verified, google, codeVars, mailed, failures>>

\* register_referral commits the account, the referral and the count together.
Commit(s) ==
    LET p == work[s].p  referred == work[s].referred IN
    /\ At(s, "inserted")
    /\ Store(s)
    /\ referredBy' = IF referred THEN referredBy \cup {p} ELSE referredBy
    /\ referral' = IF referred THEN referral \cup {p} ELSE referral
    /\ total' = IF referred THEN work[s].seen + 1 ELSE total
    /\ lost' = (lost \/ (referred /\ total # work[s].seen))
    /\ Goto(s, "token")
    /\ UNCHANGED <<verified, google, affiliate, mailed, failures>>

\* A second transaction stores the token; then it is mailed.  A session that
\* fails between them leaves a token that nobody knows.
SendToken(s) ==
    /\ At(s, "token")
    /\ mailed' = mailed \cup {work[s].p}
    /\ End(s)
    /\ UNCHANGED <<userVars, codeVars, failures>>

\* Mutant: an account of Google's needs no verification mail.
MutantResend(s, p) ==
    /\ HasAccount(p) /\ p \notin verified \cup google /\ p \notin mailed
    /\ Begin(s, p, "token", FALSE)
    /\ UNCHANGED <<userVars, codeVars, mailed, failures>>

Resend(s, p) ==
    /\ HasAccount(p) /\ p \notin verified /\ p \notin mailed
    /\ Begin(s, p, "token", FALSE)
    /\ UNCHANGED <<userVars, codeVars, mailed, failures>>

VerifyEmail(p) ==
    /\ p \in mailed
    /\ mailed' = mailed \ {p}
    /\ verified' = verified \cup {p}
    /\ UNCHANGED <<name, google, referredBy, made, codeVars, work, failures>>

-----------------------------------------------------------------------------
(* Google.                                                                 *)

\* The button finds the account by its google_id or its address, or looks for the
\* first free name; an account with a google_id is only signed in.
Button(s, p) ==
    /\ p \notin google
    /\ Begin(s, p, IF HasAccount(p) THEN "link" ELSE "button", FALSE)
    /\ UNCHANGED <<userVars, codeVars, mailed, failures>>

PickName(s) ==
    /\ At(s, "button")
    /\ \E n \in Names :
          /\ Free(n) /\ \A m \in Names : m < n => ~Free(m)
          /\ work' = [work EXCEPT ![s] = [@ EXCEPT !.at = "create", !.name = n]]
    /\ UNCHANGED <<userVars, codeVars, mailed, failures>>

\* The redirect looks for the address only and takes the prefix for the name.
Redirect(s, p) ==
    /\ At(s, "idle")
    /\ ~(p \in google /\ p \in verified)
    /\ LET next == IF ~HasAccount(p) THEN "create" ELSE IF p \in google THEN "verify" ELSE "link"
       IN  work' = [work EXCEPT ![s] = [at |-> next, p |-> p, referred |-> FALSE, seen |-> 0,
                                        name |-> IF HasAccount(p) THEN None ELSE Prefix,
                                        redirect |-> TRUE]]
    /\ UNCHANGED <<userVars, codeVars, mailed, failures>>

Create(s) ==
    LET p == work[s].p IN
    /\ At(s, "create") /\ MayInsert(s)
    /\ IF ~Unique(s)
       THEN End(s) /\ UNCHANGED userVars
       ELSE /\ Store(s)
            /\ google' = google \cup {p}
            /\ verified' = IF work[s].redirect THEN verified ELSE verified \cup {p}
            /\ IF work[s].redirect THEN Goto(s, "verify") ELSE End(s)
            /\ UNCHANGED referredBy
    /\ UNCHANGED <<codeVars, mailed, failures>>

Link(s) ==
    LET p == work[s].p IN
    /\ At(s, "link")
    /\ google' = google \cup {p}
    /\ verified' = IF work[s].redirect THEN verified ELSE verified \cup {p}
    /\ IF work[s].redirect THEN Goto(s, "verify") ELSE End(s)
    /\ UNCHANGED <<name, referredBy, made, codeVars, mailed, failures>>

\* Google has verified the address: the last commit of the redirect.
MarkVerified(s) ==
    /\ At(s, "verify")
    /\ verified' = verified \cup {work[s].p}
    /\ End(s)
    /\ UNCHANGED <<name, google, referredBy, made, codeVars, mailed, failures>>

-----------------------------------------------------------------------------
(* The affiliate, and failures.                                            *)

CreateAffiliate ==
    /\ affiliate = "none"
    /\ affiliate' = "pending"
    /\ UNCHANGED <<userVars, referral, total, lost, mailed, work, failures>>

UpdateAffiliate(status) ==
    /\ affiliate # "none" /\ affiliate' = status
    /\ UNCHANGED <<userVars, referral, total, lost, mailed, work, failures>>

\* A session dies, or its mail is not delivered.
Fail(s) ==
    /\ ~At(s, "idle") /\ failures < MaxFailures
    /\ failures' = failures + 1
    /\ End(s)
    /\ UNCHANGED <<userVars, codeVars, mailed>>

\* The tokens are valid for a day.
ExpireToken(p) ==
    /\ p \in mailed /\ failures < MaxFailures
    /\ mailed' = mailed \ {p}
    /\ failures' = failures + 1
    /\ UNCHANGED <<userVars, codeVars, work>>

-----------------------------------------------------------------------------
Serve(s) ==
    \/ FindCode(s) \/ Insert(s) \/ Commit(s) \/ SendToken(s)
    \/ PickName(s) \/ Create(s) \/ Link(s) \/ MarkVerified(s)

Next ==
    \/ \E s \in Sessions : Serve(s) \/ Fail(s)
    \/ \E s \in Sessions, p \in P :
          \/ Resend(s, p) \/ Button(s, p) \/ Redirect(s, p)
          \/ \E n \in Names, withCode \in BOOLEAN : Register(s, p, n, withCode)
    \/ \E p \in P : VerifyEmail(p) \/ ExpireToken(p)
    \/ CreateAffiliate
    \/ \E status \in {"pending", "active"} : UpdateAffiliate(status)

\* A request that is being served goes on; a person whose account is not verified
\* follows the link in a mail, and asks again for one until there is room for it.
Fairness ==
    /\ \A s \in Sessions : WF_vars(Serve(s))
    /\ \A p \in P : WF_vars(VerifyEmail(p)) /\ SF_vars(\E s \in Sessions : Resend(s, p))

Spec == Init /\ [][Next]_vars /\ Fairness

-----------------------------------------------------------------------------
(* Properties.                                                             *)

\* However a person's requests and ways in overlap, an address gets one account
\* and a username belongs to one account.
OneAccount ==
    /\ \A p \in P : made[p] <= 1
    /\ \A p, q \in P : HasAccount(p) /\ p # q => name[p] # name[q]

\* An account that was referred has its referral, and only such an account; the
\* affiliate's count is never above the referrals, and equals them unless two
\* registrations have overwritten each other.
ReferralsCounted ==
    /\ referral = referredBy
    /\ total <= Cardinality(referral)
    /\ ~lost => total = Cardinality(referral)

\* Again and again all the accounts there are are verified: each is in the end,
\* whichever of its commits or mails is lost.
AccountsGetVerified == []<>(\A p \in P : HasAccount(p) => p \in verified)
=============================================================================
