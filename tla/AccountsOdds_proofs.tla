---------------------------- MODULE AccountsOdds_proofs ----------------------------
(***************************************************************************)
(* What TLAPS proves of two tables that are looked up before they are      *)
(* written.                                                                *)
(*                                                                         *)
(* Of Accounts, for any persons, sessions and names: however registrations *)
(* and sign-ins overlap and fail, an address and a name belong to one      *)
(* account, and the referrals of the affiliate are those of the accounts.  *)
(* There a unique key decides.                                             *)
(*                                                                         *)
(* Of OddsScraper, for any matches, leagues, seasons and days: no key      *)
(* decides, but only one job inserts, and a match is stored once for its   *)
(* time.  No result and no price is forgotten, the clean-up spares what it *)
(* should, and the pages show the table rightly.                           *)
(***************************************************************************)
EXTENDS Accounts, OddsScraper, FiniteSetTheorems, WellFoundedInduction, TLAPS

-----------------------------------------------------------------------------
(* Accounts.                                                               *)

Named == {"code", "insert", "inserted", "create"}

\* An insert that waits for its commit has no equal, stored or waiting.
InsertedUnique ==
    \A s \in Sessions : At(s, "inserted") => MayInsert(s) /\ Unique(s)

\* Every account was inserted once, with a name from the range.
InsertedOnce ==
    /\ \A p \in P : made[p] = IF HasAccount(p) THEN 1 ELSE 0
    /\ \A s \in Sessions : work[s].at \in Named => work[s].name \in Names

\* Only accounts are referred, and nobody has read more referrals than there are.
SeenReferrals ==
    /\ IsFiniteSet(referral)
    /\ \A p \in referral : HasAccount(p)
    /\ \A s \in Sessions : ~At(s, "idle") => work[s].seen <= Cardinality(referral)

IInv == TypeOK /\ OneAccount /\ ReferralsCounted /\ InsertedUnique /\ InsertedOnce /\ SeenReferrals

LEMMA InitIInv == Init => IInv
<1> SUFFICES ASSUME Init PROVE IInv  OBVIOUS
<1>1. TypeOK
  <2>1. name \in [P -> Names \cup {None}] /\ made \in [P -> Nat]  BY DEF Init
  <2>2. work \in [Sessions -> Active \cup {Idle}] /\ failures \in 0 .. MaxFailures
    BY AccountsAssumption DEF Init
  <2>3. total \in Nat /\ lost \in BOOLEAN  BY DEF Init
  <2> QED  BY <2>1, <2>2, <2>3 DEF Init, TypeOK
<1>2. OneAccount  BY DEF Init, OneAccount, HasAccount
<1>3. ReferralsCounted /\ SeenReferrals
  BY FS_EmptySet DEF Init, ReferralsCounted, SeenReferrals, At, Idle
<1>4. InsertedUnique /\ InsertedOnce
  BY DEF Init, InsertedUnique, InsertedOnce, HasAccount, Named, At, Idle
<1> QED  BY <1>1, <1>2, <1>3, <1>4 DEF IInv

-----------------------------------------------------------------------------
(* The steps that store no account and leave the referrals alone.          *)

LEMMA QuietIInv ==
    ASSUME IInv, TypeOK',
           UNCHANGED <<name, made, referredBy, referral, total, lost>>,
           \A s \in Sessions :
              work'[s] # work[s] =>
                 /\ work'[s].at # "inserted"
                 /\ work'[s].at \in Named => work'[s].name \in Names
                 /\ work'[s].at # "idle" => work'[s].seen <= Cardinality(referral)
    PROVE  IInv'
<1>1. OneAccount'  BY DEF IInv, OneAccount, HasAccount
<1>2. ReferralsCounted'  BY DEF IInv, ReferralsCounted
<1>3. InsertedUnique'
  BY DEF IInv, InsertedUnique, MayInsert, Unique, HasAccount, Free, At
<1>4. InsertedOnce'  BY DEF IInv, InsertedOnce, HasAccount
<1>5. SeenReferrals'  BY DEF IInv, SeenReferrals, HasAccount, At
<1> QED  BY <1>1, <1>2, <1>3, <1>4, <1>5 DEF IInv

LEMMA RegisterIInv ==
    ASSUME IInv, NEW s \in Sessions, NEW p \in P, NEW n \in Names, NEW withCode \in BOOLEAN,
           Register(s, p, n, withCode)
    PROVE  IInv'
<1> USE DEF Register, userVars, codeVars
<1>1. Cardinality(referral) \in Nat  BY FS_CardinalityType DEF IInv, SeenReferrals
<1>2. TypeOK'  BY DEF IInv, TypeOK, Active
<1>3. \A t \in Sessions : work'[t] # work[t] =>
         /\ work'[t].at # "inserted" /\ work'[t].name \in Names
         /\ work'[t].seen <= Cardinality(referral)
  BY <1>1 DEF IInv, TypeOK
<1> QED  BY <1>2, <1>3, QuietIInv

LEMMA FindCodeIInv ==
    ASSUME IInv, NEW s \in Sessions, FindCode(s)
    PROVE  IInv'
<1> USE DEF FindCode, userVars, codeVars
<1>1. Cardinality(referral) \in Nat /\ total <= Cardinality(referral)
  BY FS_CardinalityType DEF IInv, SeenReferrals, ReferralsCounted
<1>2. work[s] \in Active /\ work[s].name \in Names
  BY DEF IInv, TypeOK, InsertedOnce, Named, At, Idle
<1>3. TypeOK'  BY <1>2 DEF IInv, TypeOK, Active
<1>4. \A t \in Sessions : work'[t] # work[t] =>
         /\ work'[t].at # "inserted" /\ work'[t].name \in Names
         /\ work'[t].seen <= Cardinality(referral)
  BY <1>1, <1>2 DEF IInv, TypeOK, Active
<1> QED  BY <1>3, <1>4, QuietIInv

\* A session that begins, with a name or without one.
LEMMA BeginIInv ==
    ASSUME IInv, NEW s \in Sessions, NEW p \in P,
           NEW label \in {"button", "create", "link", "token", "verify"},
           NEW n \in Names \cup {None}, label = "create" => n \in Names, NEW redirect \in BOOLEAN,
           work' = [work EXCEPT ![s] = [at |-> label, p |-> p, name |-> n, referred |-> FALSE,
                                        seen |-> 0, redirect |-> redirect]],
           UNCHANGED <<userVars, codeVars, mailed, failures>>
    PROVE  IInv'
<1> USE DEF userVars, codeVars
<1>1. Cardinality(referral) \in Nat  BY FS_CardinalityType DEF IInv, SeenReferrals
<1>2. TypeOK'  BY DEF IInv, TypeOK, Active
<1>3. \A t \in Sessions : work'[t] # work[t] =>
         /\ work'[t].at # "inserted"
         /\ work'[t].at \in Named => work'[t].name \in Names
         /\ work'[t].seen <= Cardinality(referral)
  BY <1>1 DEF IInv, TypeOK, Named
<1> QED  BY <1>2, <1>3, QuietIInv

LEMMA ButtonIInv ==
    ASSUME IInv, NEW s \in Sessions, NEW p \in P, Button(s, p) \/ Resend(s, p)
    PROVE  IInv'
<1> None \in Names \cup {None}  OBVIOUS
<1>1. CASE Button(s, p)
  <2> DEFINE label == IF HasAccount(p) THEN "link" ELSE "button"
  <2> label \in {"button", "create", "link", "token", "verify"} /\ label # "create"  OBVIOUS
  <2> HIDE DEF label
  <2>1. /\ work' = [work EXCEPT ![s] = [at |-> label, p |-> p, name |-> None, referred |-> FALSE,
                                        seen |-> 0, redirect |-> FALSE]]
        /\ UNCHANGED <<userVars, codeVars, mailed, failures>>
    BY <1>1 DEF Button, Begin, label
  <2> QED  BY <2>1, BeginIInv
<1>2. CASE Resend(s, p)  BY <1>2, BeginIInv DEF Resend, Begin
<1> QED  BY <1>1, <1>2

LEMMA RedirectIInv ==
    ASSUME IInv, NEW s \in Sessions, NEW p \in P, Redirect(s, p)
    PROVE  IInv'
<1> DEFINE label == IF ~HasAccount(p) THEN "create" ELSE IF p \in google THEN "verify" ELSE "link"
           n == IF HasAccount(p) THEN None ELSE Prefix
<1>1. /\ label \in {"button", "create", "link", "token", "verify"}
      /\ n \in Names \cup {None} /\ (label = "create" => n \in Names)
  BY AccountsAssumption DEF Names, Prefix
<1>2. /\ work' = [work EXCEPT ![s] = [at |-> label, p |-> p, name |-> n, referred |-> FALSE,
                                      seen |-> 0, redirect |-> TRUE]]
      /\ UNCHANGED <<userVars, codeVars, mailed, failures>>
  BY DEF Redirect
<1> HIDE DEF label, n
<1> QED  BY <1>1, <1>2, BeginIInv

LEMMA PickNameIInv ==
    ASSUME IInv, NEW s \in Sessions, PickName(s)
    PROVE  IInv'
<1> USE DEF userVars, codeVars
<1>1. PICK n \in Names : work' = [work EXCEPT ![s] = [@ EXCEPT !.at = "create", !.name = n]]
  BY DEF PickName
<1>2. work[s] \in Active /\ work[s].seen <= Cardinality(referral)
  BY DEF PickName, IInv, TypeOK, SeenReferrals, At, Idle
<1>3. TypeOK'  BY <1>1, <1>2 DEF PickName, IInv, TypeOK, Active
<1>4. \A t \in Sessions : work'[t] # work[t] =>
         /\ work'[t].at # "inserted" /\ work'[t].name \in Names
         /\ work'[t].seen <= Cardinality(referral)
  BY <1>1, <1>2 DEF IInv, TypeOK, Active
<1> QED  BY <1>3, <1>4, QuietIInv DEF PickName

\* A session that ends or goes on to the last commit of the redirect.
LEMMA EndIInv ==
    ASSUME IInv, TypeOK', NEW s \in Sessions, End(s) \/ (~At(s, "idle") /\ Goto(s, "verify")),
           UNCHANGED <<name, made, referredBy, referral, total, lost>>
    PROVE  IInv'
<1>1. CASE End(s)
  <2>1. \A t \in Sessions : work'[t] # work[t] => work'[t].at = "idle"
    BY <1>1 DEF IInv, TypeOK, End, Idle
  <2> QED  BY <2>1, QuietIInv DEF Named
<1>2. CASE ~At(s, "idle") /\ Goto(s, "verify")
  <2>1. work[s] \in Active /\ work[s].seen <= Cardinality(referral)
    BY <1>2 DEF IInv, TypeOK, SeenReferrals, At, Idle
  <2>2. \A t \in Sessions : work'[t] # work[t] =>
           work'[t].at = "verify" /\ work'[t].seen <= Cardinality(referral)
    BY <1>2, <2>1 DEF IInv, TypeOK, Goto, Active
  <2> QED  BY <2>2, QuietIInv DEF Named
<1> QED  BY <1>1, <1>2

LEMMA EndingIInv ==
    ASSUME IInv, NEW s \in Sessions, SendToken(s) \/ Link(s) \/ MarkVerified(s) \/ Fail(s)
    PROVE  IInv'
<1>1. work[s] \in Active  BY DEF IInv, TypeOK, SendToken, Link, MarkVerified, Fail, At, Idle
<1>2. TypeOK'
  BY <1>1, AccountsAssumption
  DEF IInv, TypeOK, SendToken, Link, MarkVerified, Fail, End, Goto, userVars, codeVars, Active
<1>3. /\ End(s) \/ (~At(s, "idle") /\ Goto(s, "verify"))
      /\ UNCHANGED <<name, made, referredBy, referral, total, lost>>
  BY DEF SendToken, Link, MarkVerified, Fail, At, userVars, codeVars
<1> QED  BY <1>2, <1>3, EndIInv

\* The environment touches no session.
LEMMA OutsideIInv ==
    ASSUME IInv,
           \/ \E p \in P : VerifyEmail(p) \/ ExpireToken(p)
           \/ CreateAffiliate
           \/ \E status \in {"pending", "active"} : UpdateAffiliate(status)
    PROVE  IInv'
<1> USE DEF VerifyEmail, ExpireToken, CreateAffiliate, UpdateAffiliate, userVars, codeVars
<1>1. TypeOK'  BY AccountsAssumption DEF IInv, TypeOK
<1>2. UNCHANGED <<name, made, referredBy, referral, total, lost, work>>  OBVIOUS
<1> QED  BY <1>1, <1>2, QuietIInv

-----------------------------------------------------------------------------
(* The steps that insert or store an account.                              *)

LEMMA InsertIInv ==
    ASSUME IInv, NEW s \in Sessions, Insert(s)
    PROVE  IInv'
<1> USE DEF userVars, codeVars
<1>1. work[s] \in Active  BY DEF IInv, TypeOK, Insert, At, Idle
<1>2. TypeOK'  BY <1>1 DEF IInv, TypeOK, Insert, End, Goto, Active
<1>3. CASE End(s)  BY <1>2, <1>3, EndIInv DEF Insert
<1>4. CASE ~End(s)
  <2>1. Unique(s) /\ MayInsert(s) /\ work' = [work EXCEPT ![s].at = "inserted"]
    BY <1>4 DEF Insert, Goto
  <2>2. UNCHANGED <<name, made, referredBy, referral, total, lost>>  BY DEF Insert
  <2>3. /\ \A t \in Sessions \ {s} : work'[t] = work[t]
        /\ work'[s] = [work[s] EXCEPT !.at = "inserted"]
    BY <2>1 DEF IInv, TypeOK
  <2>4. work'[s].p = work[s].p /\ work'[s].name = work[s].name /\ work'[s].seen = work[s].seen
    BY <1>1, <2>3 DEF Active
  <2>5. InsertedUnique'
    BY <2>1, <2>2, <2>3, <2>4 DEF IInv, InsertedUnique, MayInsert, Unique, HasAccount, Free, At
  <2>6. InsertedOnce'
    BY <1>1, <2>2, <2>3, <2>4 DEF IInv, InsertedOnce, HasAccount, Insert, At, Named
  <2>7. SeenReferrals'
    BY <2>2, <2>3, <2>4 DEF IInv, SeenReferrals, HasAccount, Insert, At
  <2>8. OneAccount' /\ ReferralsCounted'
    BY <2>2 DEF IInv, OneAccount, ReferralsCounted, HasAccount
  <2> QED  BY <1>2, <2>5, <2>6, <2>7, <2>8 DEF IInv
<1> QED  BY <1>3, <1>4

\* What storing a unique account, whose session goes on without waiting in an
\* insert, does to the accounts.
LEMMA StoreAccounts ==
    ASSUME IInv, NEW s \in Sessions, work[s] \in Active, work[s].name \in Names,
           Store(s), Unique(s), MayInsert(s),
           \A t \in Sessions \ {s} : work'[t] = work[t],
           work'[s].at \in {"idle", "token", "verify"}
    PROVE  /\ OneAccount' /\ InsertedUnique' /\ InsertedOnce'
           /\ \A q \in P : HasAccount(q)' <=> HasAccount(q) \/ q = work[s].p
<1> DEFINE p == work[s].p
<1>1. p \in P  BY DEF Active
<1>2. /\ \A q \in P \ {p} : name'[q] = name[q] /\ made'[q] = made[q]
      /\ name'[p] = work[s].name /\ made'[p] = made[p] + 1
  BY <1>1 DEF Store, IInv, TypeOK
<1>3. work[s].name # None  BY AccountsAssumption DEF Names
<1>4. name[p] = None /\ made[p] = 0 /\ (\A q \in P : name[q] # work[s].name)
  BY <1>1 DEF Unique, HasAccount, Free, IInv, InsertedOnce
<1>5. \A q \in P : HasAccount(q)' <=> HasAccount(q) \/ q = p
  BY <1>2, <1>3 DEF HasAccount
<1>6. OneAccount'
  <2>1. \A q \in P : made'[q] <= 1  BY <1>2, <1>4 DEF IInv, OneAccount
  <2>2. \A q, r \in P : HasAccount(q)' /\ q # r => name'[q] # name'[r]
    BY <1>2, <1>4, <1>5 DEF IInv, OneAccount
  <2> QED  BY <2>1, <2>2 DEF OneAccount
<1>7. InsertedUnique'
  <2> SUFFICES ASSUME NEW t \in Sessions, At(t, "inserted")'
               PROVE  MayInsert(t)' /\ Unique(t)'
    BY DEF InsertedUnique
  <2>1. t # s /\ work'[t] = work[t] /\ At(t, "inserted")  BY DEF At
  <2>2. MayInsert(t) /\ Unique(t)  BY <2>1 DEF IInv, InsertedUnique
  <2>3. work[t].p # p /\ work[t].name # work[s].name  BY <2>1 DEF MayInsert
  <2>4. MayInsert(t)'  BY <2>1, <2>2 DEF MayInsert, At
  <2>5. work[t].p \in P  BY <2>1 DEF IInv, TypeOK, Active, At, Idle
  <2>6. Unique(t)'  BY <1>2, <2>1, <2>2, <2>3, <2>5 DEF Unique, HasAccount, Free
  <2> QED  BY <2>4, <2>6
<1>8. InsertedOnce'
  <2>1. \A q \in P : made'[q] = IF HasAccount(q)' THEN 1 ELSE 0
    BY <1>2, <1>4, <1>5 DEF IInv, InsertedOnce
  <2>2. \A t \in Sessions : work'[t].at \in Named => work'[t].name \in Names
    BY DEF IInv, InsertedOnce, Named
  <2> QED  BY <2>1, <2>2 DEF InsertedOnce, HasAccount
<1> QED  BY <1>5, <1>6, <1>7, <1>8

LEMMA CommitIInv ==
    ASSUME IInv, NEW s \in Sessions, Commit(s)
    PROVE  IInv'
<1> DEFINE p == work[s].p
<1>1. /\ work[s] \in Active /\ work[s].name \in Names /\ MayInsert(s) /\ Unique(s)
      /\ work[s].seen <= Cardinality(referral) /\ work[s].seen \in Nat
  BY DEF IInv, TypeOK, InsertedOnce, InsertedUnique, SeenReferrals, Named, Commit, At, Idle, Active
<1>2. /\ work' = [work EXCEPT ![s].at = "token"] /\ Store(s)
      /\ UNCHANGED <<verified, google, affiliate, mailed, failures>>
  BY DEF Commit, Goto
<1>3. /\ \A t \in Sessions \ {s} : work'[t] = work[t]
      /\ work'[s] = [work[s] EXCEPT !.at = "token"]
  BY <1>2 DEF IInv, TypeOK
<1>4. work'[s].at = "token" /\ work'[s].seen = work[s].seen /\ work'[s] \in Active
  BY <1>1, <1>3 DEF Active
<1>5. /\ OneAccount' /\ InsertedUnique' /\ InsertedOnce'
      /\ \A q \in P : HasAccount(q)' <=> HasAccount(q) \/ q = p
  BY <1>1, <1>2, <1>3, <1>4, StoreAccounts
<1>6. p \in P /\ p \notin referral
  BY <1>1 DEF IInv, SeenReferrals, Unique, Active
<1>7. IsFiniteSet(referral) /\ Cardinality(referral) \in Nat
  BY FS_CardinalityType DEF IInv, SeenReferrals
<1>8. IsFiniteSet(referral \cup {p}) /\ Cardinality(referral \cup {p}) = Cardinality(referral) + 1
  BY <1>6, <1>7, FS_AddElement
<1>9. TypeOK'
  <2>1. name' \in [P -> Names \cup {None}] /\ made' \in [P -> Nat]
    BY <1>1, <1>2, <1>6 DEF Store, IInv, TypeOK
  <2>2. /\ referredBy' \subseteq P /\ referral' \subseteq P
        /\ total' \in Nat /\ lost' \in BOOLEAN
    BY <1>1, <1>6 DEF Commit, IInv, TypeOK
  <2>3. work' \in [Sessions -> Active \cup {Idle}]  BY <1>2, <1>3, <1>4 DEF IInv, TypeOK
  <2> QED  BY <1>2, <2>1, <2>2, <2>3 DEF IInv, TypeOK
<1>10. CASE work[s].referred
  <2>1. /\ referral' = referral \cup {p} /\ referredBy' = referredBy \cup {p}
        /\ total' = work[s].seen + 1 /\ lost' = (lost \/ total # work[s].seen)
    BY <1>10 DEF Commit
  <2>2. ReferralsCounted'
    <3>1. /\ referral = referredBy /\ total \in Nat /\ total <= Cardinality(referral)
          /\ (~lost => total = Cardinality(referral))
      BY DEF IInv, TypeOK, ReferralsCounted
    <3>2. total' <= Cardinality(referral')  BY <1>1, <1>7, <1>8, <2>1, <3>1
    <3>3. ~lost' => ~lost /\ total = work[s].seen  BY <2>1
    <3>4. ~lost' => total' = Cardinality(referral')  BY <1>7, <1>8, <2>1, <3>1, <3>3
    <3> QED  BY <2>1, <3>1, <3>2, <3>4 DEF ReferralsCounted
  <2>3. \A q \in referral' : HasAccount(q)'
    BY <1>5, <1>6, <2>1 DEF IInv, TypeOK, SeenReferrals
  <2>4. \A t \in Sessions : ~At(t, "idle")' => work'[t].seen <= Cardinality(referral')
    <3> SUFFICES ASSUME NEW t \in Sessions, ~At(t, "idle")'
                 PROVE  work'[t].seen <= Cardinality(referral')
      OBVIOUS
    <3>1. CASE t = s  BY <1>1, <1>4, <1>7, <1>8, <2>1, <3>1
    <3>2. CASE t # s
      <4>1. work[t] \in Active /\ work[t].seen <= Cardinality(referral) /\ work'[t] = work[t]
        BY <1>3, <3>2 DEF IInv, TypeOK, SeenReferrals, At, Idle
      <4>2. work[t].seen \in Nat  BY <4>1 DEF Active
      <4> QED  BY <1>7, <1>8, <2>1, <4>1, <4>2
    <3> QED  BY <3>1, <3>2
  <2> QED  BY <1>5, <1>8, <1>9, <2>1, <2>2, <2>3, <2>4 DEF IInv, SeenReferrals
<1>11. CASE ~work[s].referred
  <2>1. UNCHANGED <<referral, referredBy, total, lost>>
    <3>1. work[s].referred = FALSE  BY <1>1, <1>11 DEF Active
    <3> QED  BY <3>1 DEF Commit, IInv, TypeOK
  <2>2. ReferralsCounted'  BY <2>1 DEF IInv, ReferralsCounted
  <2>3. SeenReferrals'
    BY <1>1, <1>3, <1>4, <1>5, <2>1 DEF IInv, TypeOK, SeenReferrals, At
  <2> QED  BY <1>5, <1>9, <2>2, <2>3 DEF IInv
<1> QED  BY <1>10, <1>11

LEMMA CreateIInv ==
    ASSUME IInv, NEW s \in Sessions, Create(s)
    PROVE  IInv'
<1> USE DEF userVars, codeVars
<1>1. /\ work[s] \in Active /\ work[s].name \in Names /\ MayInsert(s)
      /\ work[s].seen <= Cardinality(referral)
  BY DEF IInv, TypeOK, InsertedOnce, SeenReferrals, Named, Create, At, Idle
<1>2. CASE ~Unique(s)
  <2>1. End(s) /\ UNCHANGED <<userVars, codeVars, mailed, failures>>  BY <1>2 DEF Create
  <2>2. TypeOK'  BY <2>1 DEF End, IInv, TypeOK
  <2> QED  BY <2>1, <2>2, EndIInv
<1>3. CASE Unique(s)
  <2>1. /\ Store(s) /\ (End(s) \/ Goto(s, "verify"))
        /\ UNCHANGED <<referredBy, referral, affiliate, total, lost, mailed, failures>>
    BY <1>3 DEF Create
  <2>2. /\ \A t \in Sessions \ {s} : work'[t] = work[t]
        /\ \/ work'[s] = Idle
           \/ work'[s] = [work[s] EXCEPT !.at = "verify"]
    BY <2>1 DEF End, Goto, IInv, TypeOK
  <2>3. work'[s].at \in {"idle", "verify"} /\ work'[s] \in Active \cup {Idle}
    BY <1>1, <2>2 DEF Active, Idle
  <2>4. /\ OneAccount' /\ InsertedUnique' /\ InsertedOnce'
        /\ \A q \in P : HasAccount(q)' <=> HasAccount(q) \/ q = work[s].p
    BY <1>1, <1>3, <2>1, <2>2, <2>3, StoreAccounts
  <2>5. TypeOK'
    <3>1. work[s].p \in P  BY <1>1 DEF Active
    <3>2. name' \in [P -> Names \cup {None}] /\ made' \in [P -> Nat]
      BY <1>1, <2>1, <3>1 DEF Store, IInv, TypeOK
    <3>3. verified' \subseteq P /\ google' \subseteq P  BY <1>3, <3>1 DEF Create, IInv, TypeOK
    <3>4. work' \in [Sessions -> Active \cup {Idle}]
      BY <1>1, <2>1, <2>3 DEF End, Goto, IInv, TypeOK
    <3> QED  BY <2>1, <3>2, <3>3, <3>4 DEF IInv, TypeOK
  <2>6. ReferralsCounted'  BY <2>1 DEF IInv, ReferralsCounted
  <2>7. SeenReferrals'
    <3>1. work'[s].at # "idle" => work'[s].seen = work[s].seen
      BY <1>1, <2>2 DEF Active, Idle
    <3> QED  BY <1>1, <2>1, <2>2, <2>4, <3>1 DEF Create, IInv, TypeOK, SeenReferrals, At
  <2> QED  BY <2>4, <2>5, <2>6, <2>7 DEF IInv
<1> QED  BY <1>2, <1>3

-----------------------------------------------------------------------------
LEMMA NextIInv == IInv /\ [Next]_vars => IInv'
<1> SUFFICES ASSUME IInv, [Next]_vars PROVE IInv'  OBVIOUS
<1>1. ASSUME NEW s \in Sessions, Serve(s) \/ Fail(s) PROVE IInv'
  BY <1>1, FindCodeIInv, InsertIInv, CommitIInv, PickNameIInv, CreateIInv, EndingIInv DEF Serve
<1>2. ASSUME NEW s \in Sessions, NEW p \in P,
             \/ Resend(s, p) \/ Button(s, p) \/ Redirect(s, p)
             \/ \E n \in Names, withCode \in BOOLEAN : Register(s, p, n, withCode)
      PROVE  IInv'
  BY <1>2, ButtonIInv, RedirectIInv, RegisterIInv
<1>3. ASSUME NEW p \in P, VerifyEmail(p) \/ ExpireToken(p) PROVE IInv'
  BY <1>3, OutsideIInv
<1>4. CASE CreateAffiliate \/ \E status \in {"pending", "active"} : UpdateAffiliate(status)
  BY <1>4, OutsideIInv
<1>5. CASE UNCHANGED vars
  <2>1. TypeOK'  BY <1>5 DEF vars, IInv, TypeOK
  <2> QED  BY <1>5, <2>1, QuietIInv DEF vars
<1> QED  BY <1>1, <1>2, <1>3, <1>4, <1>5 DEF Next

\* The inductive invariant of Accounts: what an insert waited for stays true until
\* its commit.
THEOREM Invariance == Spec => []IInv
BY InitIInv, NextIInv, PTL DEF Spec

\* Every value keeps its type; in particular the count of referrals is a natural number.
THEOREM TypeCorrect == Spec => []TypeOK
<1>1. IInv => TypeOK  BY DEF IInv
<1> QED  BY <1>1, Invariance, PTL

\* However the requests of any persons overlap, an address gets one account and a
\* username belongs to one (auth.register, social_auth's button and redirect).
THEOREM AddressesAndNamesUnique == Spec => []OneAccount
<1>1. IInv => OneAccount  BY DEF IInv
<1> QED  BY <1>1, Invariance, PTL

\* An account and its referral are stored together, and the count is exact unless two
\* registrations overwrote each other (affiliate_service.register_referral).
THEOREM ReferralsAddUp == Spec => []ReferralsCounted
<1>1. IInv => ReferralsCounted  BY DEF IInv
<1> QED  BY <1>1, Invariance, PTL

-----------------------------------------------------------------------------
(* The odds: the invariant.                                                *)

\* The rows read from a page are of different matches.
OfDifferentMatches(values) == \A v, w \in values : v.match = w.match => v = w

\* No two rows have an id or stand for the same match at the same time.
DistinctRows == \A r, q \in odds : r # q => r.id # q.id /\ Match(r) # Match(q)

\* What a page is about to insert is still not in the table.
BatchIsNew ==
    run.at \in {"commit", "commitNext"} =>
        /\ OfDifferentMatches(run.batch.new)
        /\ \A r \in odds, v \in run.batch.new : ~Same(r, v)

\* Of every match that cleanup_duplicate_matches deletes rows of there is a row that
\* it leaves alone, with a result if one of those has one.
Spares(rows, r, q) ==
    /\ \A x \in rows : x.id # q.id
    /\ r.match = q.match /\ r.season = q.season /\ (r.result # Null => q.result # Null)

CleanupSpares ==
    (job # Stopped /\ job.script = "cleanup") =>
        \A r \in job.rows : \E q \in odds : Spares(job.rows, r, q)

TableInv == ScraperTypeOK /\ DistinctRows /\ BatchIsNew /\ CleanupSpares

-----------------------------------------------------------------------------
(* Where the job stands.                                                   *)

LEMMA OddsConstants ==
    /\ IsFiniteSet(M) /\ M \subseteq Nat
    /\ Leagues \in Nat \ {0} /\ MaxDay \in Nat \ {0} /\ Latest \in Nat
    /\ MaxMoves \in Nat /\ MaxCleanings \in Nat /\ MaxFaults \in Nat
    /\ Null \notin Nat
    /\ \A m \in M : LeagueOf(m) \in 1 .. Leagues /\ SeasonOf(m) \in 0 .. Latest
    /\ \A m \in M : FirstKick(m) \in [day : 0 .. MaxDay, time : Times \cup {Null}]
BY OddsAssumption

LEMMA RunTypes ==
    ASSUME ScraperTypeOK
    PROVE  /\ RunAt("season") \/ RunAt("next") => run.league \in 1 .. Leagues /\ run.season \in 0 .. Latest
           /\ RunAt("page") => /\ run.league \in 1 .. Leagues /\ run.season \in 0 .. Latest
                               /\ run.page \in Nat /\ run.pages \in Nat
           /\ RunAt("commit") => /\ run.league \in 1 .. Leagues /\ run.season \in 0 .. Latest
                                 /\ run.page \in Nat /\ run.pages \in Nat
                                 /\ run.batch \in Batch
           /\ RunAt("commitNext") => run.league \in 1 .. Leagues /\ run.batch \in Batch
<1>1. run \in Running \cup {Stopped}  BY DEF ScraperTypeOK
<1>2. run.at # "idle" => run \in Running  BY <1>1 DEF Stopped
<1> QED  BY <1>2 DEF RunAt, Running

LEMMA GoingOn ==
    ASSUME NEW l \in 1 .. Leagues, NEW s \in 0 .. Latest
    PROVE  /\ ToSeason(l, s) \in Running /\ ToSeason(l, s).at = "season"
           /\ AfterSeason(l, s) \in Running /\ AfterSeason(l, s).at \in {"season", "next"}
           /\ AfterNext(l) \in Running \cup {Stopped} /\ AfterNext(l).at \in {"season", "idle"}
<1>1. \A k \in 1 .. Leagues, t \in 0 .. Latest : ToSeason(k, t) \in Running /\ ToSeason(k, t).at = "season"
  BY DEF ToSeason, Running
<1>2. [at |-> "next", league |-> l, season |-> 0] \in Running
  <2>1. 0 \in 0 .. Latest  BY OddsConstants
  <2> QED  BY <2>1 DEF Running
<1>3. s # 0 => s - 1 \in 0 .. Latest  BY OddsConstants
<1>4. l # Leagues => l + 1 \in 1 .. Leagues  BY OddsConstants
<1>5. Latest \in 0 .. Latest  BY OddsConstants
<1>6. AfterSeason(l, s) \in Running /\ AfterSeason(l, s).at \in {"season", "next"}
  BY <1>1, <1>2, <1>3 DEF AfterSeason
<1>7. AfterNext(l) \in Running \cup {Stopped} /\ AfterNext(l).at \in {"season", "idle"}
  BY <1>1, <1>4, <1>5 DEF AfterNext, Stopped
<1> QED  BY <1>1, <1>6, <1>7

-----------------------------------------------------------------------------
(* What is read of a page.                                                 *)

LEMMA ReadRow ==
    ASSUME ScraperTypeOK, NEW m \in M, NEW s \in 0 .. Latest + 1, NEW result \in {"score", Null}
    PROVE  Row(m, s, result) \in Value /\ Row(m, s, result).match = m
<1>1. kick[m].day \in Days /\ kick[m].time \in Times \cup {Null}  BY DEF ScraperTypeOK
<1> QED  BY <1>1 DEF Row, Value, Values

LEMMA InferredSeasonType ==
    ASSUME NEW l, NEW d PROVE InferredSeason(l, d) \in 0 .. Latest + 1
BY OddsConstants DEF InferredSeason

LEMMA Misread ==
    ASSUME NEW v \in Value, NEW w \in Misreadings(v)
    PROVE  w \in Value /\ w.match = v.match
<1>1. PICK match \in M, season \in 0 .. Latest + 1, day \in Days, time \in Times \cup {Null},
           result \in {"score", "wrong", Null}, price \in {"odds", Null} :
         v = [match |-> match, season |-> season, day |-> day, time |-> time, result |-> result, price |-> price]
  BY DEF Value, Values
<1>2. CASE w = Untimed(v)  BY <1>1, <1>2 DEF Untimed, Value, Values
<1>3. CASE w = Unpriced(v)  BY <1>1, <1>3 DEF Unpriced, Value, Values
<1>4. CASE \E x \in {Null, "wrong"} : w = [v EXCEPT !.result = x]
  BY <1>1, <1>4 DEF Value, Values
<1> QED  BY <1>2, <1>3, <1>4 DEF Misreadings, Misscored

LEMMA PagesReadWell ==
    ASSUME NEW rows \in SUBSET Value, OfDifferentMatches(rows), NEW values \in PagesRead(rows)
    PROVE  values \in SUBSET Value /\ OfDifferentMatches(values)
<1>1. CASE values = rows  BY <1>1
<1>2. CASE \E r \in rows : values = rows \ {r}  BY <1>2 DEF OfDifferentMatches
<1>3. CASE \E r \in rows : \E v \in Misreadings(r) : values = (rows \ {r}) \cup {v}
  <2>0. PICK r \in rows : \E v \in Misreadings(r) : values = (rows \ {r}) \cup {v}  BY <1>3
  <2>1. PICK v \in Misreadings(r) : values = (rows \ {r}) \cup {v}  BY <2>0
  <2>2. v \in Value /\ v.match = r.match  BY Misread
  <2> QED  BY <2>1, <2>2 DEF OfDifferentMatches
<1> QED  BY <1>1, <1>2, <1>3 DEF PagesRead

LEMMA ReadTypes ==
    ASSUME ScraperTypeOK, NEW rows, NEW values \in SUBSET Value, Read(rows, values)
    PROVE  misread' \in SUBSET M /\ faults' \in 0 .. MaxFaults
<1>1. \A v \in values : v.match \in M  BY DEF Value, Values
<1>2. misread' \in SUBSET M  BY <1>1 DEF Read, ScraperTypeOK
<1>3. faults' \in 0 .. MaxFaults  BY OddsConstants DEF Read, ScraperTypeOK
<1> QED  BY <1>2, <1>3

-----------------------------------------------------------------------------
(* What a commit stores.                                                   *)

\* A set whose elements have keys of their own, of a finite set, is finite and no
\* larger than that.
LEMMA KeyedSets ==
    ASSUME NEW S, NEW K, IsFiniteSet(K), NEW key \in [S -> K],
           \A x, y \in S : key[x] = key[y] => x = y
    PROVE  IsFiniteSet(S) /\ Cardinality(S) <= Cardinality(K)
<1>1. key \in Injection(S, K)  BY DEF Injection, IsInjective
<1> QED  BY <1>1, FS_Injection

LEMMA PagesAreFinite ==
    ASSUME NEW values \in SUBSET Value, OfDifferentMatches(values)
    PROVE  IsFiniteSet(values) /\ Cardinality(values) \in Nat
<1> DEFINE key == [v \in values |-> v.match]
<1>1. key \in [values -> M]  BY DEF Value, Values
<1>2. \A v, w \in values : key[v] = key[w] => v = w  BY DEF OfDifferentMatches
<1> HIDE DEF key
<1>3. IsFiniteSet(values)  BY <1>1, <1>2, KeyedSets, OddsConstants
<1> QED  BY <1>3, FS_CardinalityType

\* The ids of new rows are new and differ.
LEMMA NewIds ==
    ASSUME lastId \in Nat, NEW new \in SUBSET Value, OfDifferentMatches(new)
    PROVE  /\ \A v \in new : /\ NewId(new, v) \in Nat
                             /\ NewId(new, v) > lastId /\ NewId(new, v) <= lastId + Cardinality(new)
           /\ \A v, w \in new : NewId(new, v) = NewId(new, w) => v = w
<1> DEFINE upTo(v) == {w \in new : w.match <= v.match}
<1>1. IsFiniteSet(new) /\ Cardinality(new) \in Nat  BY PagesAreFinite
<1>2. \A v \in new : v.match \in Nat  BY OddsConstants DEF Value, Values
<1>3. \A v \in new : upTo(v) \in SUBSET new /\ v \in upTo(v)  BY <1>2
<1>4. \A v, w \in new : v.match < w.match => upTo(v) \in SUBSET upTo(w) /\ upTo(v) # upTo(w)
  <2> SUFFICES ASSUME NEW v \in new, NEW w \in new, v.match < w.match
               PROVE  upTo(v) \in SUBSET upTo(w) /\ upTo(v) # upTo(w)
    OBVIOUS
  <2>1. w \in upTo(w) /\ w \notin upTo(v)  BY <1>2
  <2>2. \A u \in upTo(v) : u \in upTo(w)  BY <1>2
  <2> QED  BY <2>1, <2>2
<1>5. \A v \in new : NewId(new, v) = lastId + Cardinality(upTo(v))  BY DEF NewId
<1> HIDE DEF upTo
<1>6. \A v \in new : /\ IsFiniteSet(upTo(v)) /\ Cardinality(upTo(v)) \in Nat
                     /\ Cardinality(upTo(v)) <= Cardinality(new) /\ Cardinality(upTo(v)) # 0
  <2> TAKE v \in new
  <2>1. IsFiniteSet(upTo(v)) /\ Cardinality(upTo(v)) <= Cardinality(new)  BY <1>1, <1>3, FS_Subset
  <2> QED  BY <1>3, <2>1, FS_EmptySet, FS_CardinalityType
<1>7. \A v, w \in new : v.match < w.match => Cardinality(upTo(v)) < Cardinality(upTo(w))
  <2> SUFFICES ASSUME NEW v \in new, NEW w \in new, v.match < w.match
               PROVE  Cardinality(upTo(v)) < Cardinality(upTo(w))
    OBVIOUS
  <2>1. upTo(v) \in SUBSET upTo(w) /\ upTo(v) # upTo(w)  BY <1>4
  <2>2. Cardinality(upTo(v)) <= Cardinality(upTo(w)) /\ Cardinality(upTo(v)) # Cardinality(upTo(w))
    BY <1>6, <2>1, FS_Subset
  <2> QED  BY <1>6, <2>2
<1>8. \A v, w \in new : NewId(new, v) = NewId(new, w) => v = w
  <2> SUFFICES ASSUME NEW v \in new, NEW w \in new, NewId(new, v) = NewId(new, w), v # w
               PROVE  FALSE
    OBVIOUS
  <2>1. v.match < w.match \/ w.match < v.match  BY <1>2 DEF OfDifferentMatches
  <2>2. Cardinality(upTo(v)) = Cardinality(upTo(w))  BY <1>5, <1>6
  <2> QED  BY <1>6, <1>7, <2>1, <2>2
<1> QED  BY <1>1, <1>5, <1>6, <1>8

\* What an update keeps of a row.
Keeps(r, q) ==
    /\ q.id = r.id /\ q.match = r.match /\ q.season = r.season /\ q.day = r.day /\ q.time = r.time
    /\ (r.result # Null => q.result # Null) /\ (r.price # Null => q.price # Null)

LEMMA UpdateKeeps ==
    ASSUME odds \subseteq Stored, NEW known \in SUBSET Value
    PROVE  \E f \in [odds -> Stored] :
              /\ Update(odds, known) = {f[r] : r \in odds}
              /\ \A r \in odds : Keeps(r, f[r])
<1> DEFINE f == [r \in odds |->
                    IF \E v \in known : Same(r, v) THEN Updated(r, CHOOSE v \in known : Same(r, v)) ELSE r]
<1>1. Update(odds, known) = {f[r] : r \in odds}  BY DEF Update
<1>2. ASSUME NEW r \in odds PROVE f[r] \in Stored /\ Keeps(r, f[r])
  <2>1. PICK id \in 1 .. lastId, match \in M, season \in 0 .. Latest + 1, day \in Days,
             time \in Times \cup {Null}, result \in {"score", "wrong", Null}, price \in {"odds", Null} :
           r = [id |-> id, match |-> match, season |-> season, day |-> day, time |-> time,
                result |-> result, price |-> price]
    BY <1>2 DEF Stored
  <2>2. CASE \E v \in known : Same(r, v)
    <3>1. PICK v \in known : v = CHOOSE x \in known : Same(r, x)  BY <2>2
    <3>2. f[r] = Updated(r, v)  BY <2>2, <3>1
    <3>3. v.result \in {"score", "wrong", Null} /\ v.price \in {"odds", Null}  BY DEF Value, Values
    <3> HIDE DEF f
    <3>4. PICK newResult \in {"score", "wrong", Null} : newResult = Coalesce(v.result, result)
      BY <3>3 DEF Coalesce
    <3>5. PICK newPrice \in {"odds", Null} : newPrice = Coalesce(v.price, price)
      BY <3>3 DEF Coalesce
    <3>6. f[r] = [id |-> id, match |-> match, season |-> season, day |-> day, time |-> time,
                  result |-> newResult, price |-> newPrice]
      BY <2>1, <3>2, <3>4, <3>5 DEF Updated
    <3>7. (result # Null => newResult # Null) /\ (price # Null => newPrice # Null)
      BY <3>4, <3>5 DEF Coalesce
    <3> QED  BY <2>1, <3>6, <3>7 DEF Stored, Keeps
  <2>3. CASE ~\E v \in known : Same(r, v)  BY <1>2, <2>3 DEF Keeps
  <2> QED  BY <2>2, <2>3
<1>3. f \in [odds -> Stored]  BY <1>2
<1> HIDE DEF f
<1> QED  BY <1>1, <1>2, <1>3

LEMMA StoredGrows ==
    ASSUME lastId \in Nat, lastId' \in Nat, lastId' >= lastId
    PROVE  Stored \subseteq Stored'
<1>1. ASSUME NEW r \in Stored PROVE r \in Stored'
  <2>1. PICK id \in 1 .. lastId, match \in M, season \in 0 .. Latest + 1, day \in Days,
             time \in Times \cup {Null}, result \in {"score", "wrong", Null}, price \in {"odds", Null} :
           r = [id |-> id, match |-> match, season |-> season, day |-> day, time |-> time,
                result |-> result, price |-> price]
    BY DEF Stored
  <2>2. id \in 1 .. lastId'  OBVIOUS
  <2> QED  BY <2>1, <2>2 DEF Stored, Days
<1> QED  BY <1>1

\* A commit stores rows of its own next to those it updates.
LEMMA Committed ==
    ASSUME TableInv, NEW batch \in Batch, StoreBatch(batch),
           OfDifferentMatches(batch.new), \A r \in odds, v \in batch.new : ~Same(r, v)
    PROVE  /\ lastId' \in Nat /\ Stored \subseteq Stored'
           /\ odds' \subseteq Stored' /\ DistinctRows'
           /\ \A r \in odds : \E q \in odds' : Keeps(r, q)
           /\ \A r \in odds, q \in odds' : r.id = q.id => Keeps(r, q)
<1>1. PICK new \in SUBSET Value, known \in SUBSET Value : batch.new = new /\ batch.known = known
  BY DEF Batch
<1>2. OfDifferentMatches(new) /\ \A r \in odds, v \in new : ~Same(r, v)  BY <1>1
<1>3. PICK f \in [odds -> Stored] :
          /\ Update(odds, known) = {f[r] : r \in odds}
          /\ \A r \in odds : Keeps(r, f[r])
  BY UpdateKeeps DEF TableInv, ScraperTypeOK
<1>4. lastId \in Nat  BY DEF TableInv, ScraperTypeOK
<1>5. PICK n \in Nat : n = Cardinality(new)  BY <1>2, PagesAreFinite
<1>6. lastId' = lastId + n  BY <1>1, <1>5 DEF StoreBatch
<1> DEFINE g == [v \in new |-> WithId(v, NewId(new, v))]
<1>7. odds' = {f[r] : r \in odds} \cup {g[v] : v \in new}
  BY <1>1, <1>3 DEF StoreBatch
<1>8. ASSUME NEW v \in new
      PROVE  /\ g[v] \in Stored' /\ g[v].id = NewId(new, v) /\ g[v].id > lastId
             /\ Match(g[v]) = <<v.match, v.season, v.day, v.time>>
  <2>1. PICK id \in 1 .. lastId + n : id = NewId(new, v) /\ id > lastId
    BY <1>2, <1>4, <1>5, NewIds
  <2>2. /\ v.match \in M /\ v.season \in 0 .. Latest + 1 /\ v.day \in Days /\ v.time \in Times \cup {Null}
        /\ v.result \in {"score", "wrong", Null} /\ v.price \in {"odds", Null}
    BY DEF Value, Values
  <2>3. g[v] = [id |-> id, match |-> v.match, season |-> v.season, day |-> v.day, time |-> v.time,
                result |-> v.result, price |-> v.price]
    BY <2>1 DEF WithId
  <2> HIDE DEF g
  <2>4. id \in 1 .. lastId'  BY <1>6, <2>1
  <2> QED  BY <2>1, <2>2, <2>3, <2>4 DEF Stored, Match, Days
<1>9. \A v, w \in new : g[v] # g[w] => g[v].id # g[w].id /\ Match(g[v]) # Match(g[w])
  <2> SUFFICES ASSUME NEW v \in new, NEW w \in new, g[v] # g[w]
               PROVE  g[v].id # g[w].id /\ Match(g[v]) # Match(g[w])
    OBVIOUS
  <2>1. v # w  OBVIOUS
  <2> HIDE DEF g
  <2>2. NewId(new, v) # NewId(new, w)  BY <1>2, <1>4, <2>1, NewIds
  <2>3. v.match # w.match  BY <1>2, <2>1 DEF OfDifferentMatches
  <2> QED  BY <1>8, <2>2, <2>3
<1> HIDE DEF g
<1>10. \A r \in odds : /\ f[r] \in Stored /\ f[r].id = r.id /\ r.id \in 1 .. lastId
                       /\ Match(f[r]) = <<r.match, r.season, r.day, r.time>>
  <2>1. \A r \in odds : r.id \in 1 .. lastId  BY DEF TableInv, ScraperTypeOK, Stored
  <2> QED  BY <1>3, <2>1 DEF Keeps, Match
<1>11. Stored \subseteq Stored'
  <2>1. lastId' \in Nat /\ lastId' >= lastId  BY <1>4, <1>6
  <2> QED  BY <1>4, <2>1, StoredGrows
<1>12. odds' \subseteq Stored'  BY <1>7, <1>8, <1>10, <1>11
<1>13. \A r, q \in odds : f[r] # f[q] => f[r].id # f[q].id /\ Match(f[r]) # Match(f[q])
  <2> SUFFICES ASSUME NEW r \in odds, NEW q \in odds, f[r] # f[q]
               PROVE  f[r].id # f[q].id /\ Match(f[r]) # Match(f[q])
    OBVIOUS
  <2>1. r.id # q.id /\ Match(r) # Match(q)  BY DEF TableInv, DistinctRows
  <2> QED  BY <1>10, <2>1 DEF Match
<1>14. \A r \in odds, v \in new : f[r].id # g[v].id /\ Match(f[r]) # Match(g[v])
  <2> TAKE r \in odds, v \in new
  <2>1. f[r].id # g[v].id  BY <1>4, <1>8, <1>10
  <2>2. ~Same(r, v)  BY <1>2
  <2> QED  BY <1>8, <1>10, <2>1, <2>2 DEF Same
<1>15. DistinctRows'
  <2>1. ASSUME NEW r \in odds', NEW q \in odds', r # q
        PROVE  r.id # q.id /\ Match(r) # Match(q)
    <3>1. (\E x \in odds : r = f[x]) \/ (\E v \in new : r = g[v])  BY <1>7, <2>1
    <3>2. (\E x \in odds : q = f[x]) \/ (\E v \in new : q = g[v])  BY <1>7, <2>1
    <3> QED  BY <1>9, <1>13, <1>14, <2>1, <3>1, <3>2
  <2> QED  BY <2>1 DEF DistinctRows, Match
<1>16. \A r \in odds : \E q \in odds' : Keeps(r, q)  BY <1>3, <1>7
<1>17. ASSUME NEW r \in odds, NEW q \in odds', r.id = q.id PROVE Keeps(r, q)
  <2>1. CASE \E x \in odds : q = f[x]
    <3>1. PICK x \in odds : q = f[x]  BY <2>1
    <3>2. r.id = x.id  BY <1>10, <1>17, <3>1
    <3>3. r = x  BY <3>2 DEF TableInv, DistinctRows
    <3> QED  BY <1>3, <3>1, <3>3
  <2>2. CASE \E v \in new : q = g[v]  BY <1>4, <1>8, <1>10, <1>17, <2>2
  <2> QED  BY <1>7, <2>1, <2>2
<1> QED  BY <1>4, <1>5, <1>6, <1>11, <1>12, <1>15, <1>16, <1>17

-----------------------------------------------------------------------------
(* What the cleaning script leaves alone.                                  *)

LEMMA LeastOfNaturals ==
    ASSUME NEW D \in SUBSET Nat, D # {}
    PROVE  \E d \in D : \A e \in D : d <= e
<1>0. PICK R : R = {pair \in Nat \X Nat : pair[1] < pair[2]}  OBVIOUS
<1>1. IsWellFoundedOn(R, Nat)  BY <1>0, NatLessThanWellFounded DEF OpToRel
<1>2. \A d, e \in Nat : d < e => <<d, e>> \in R  BY <1>0
<1>3. PICK d \in D : \A e \in D : ~(<<e, d>> \in R)  BY <1>1, WFMin
<1>4. \A e \in D : ~(e < d)  BY <1>2, <1>3
<1> QED  BY <1>3, <1>4

\* Among the rows of a season's match with a result, or among all of them if there
\* are none, the earliest loses against no other.
LEMMA EarliestStays ==
    ASSUME odds \subseteq Stored, DistinctRows, NEW r \in Doomed(odds)
    PROVE  \E q \in odds : Spares(Doomed(odds), r, q)
<1>1. r \in odds
  <2>1. PICK x \in odds, y \in odds : r = Loser(x, y)  BY DEF Doomed
  <2> QED  BY <2>1 DEF Loser
<1>2. PICK all \in SUBSET odds : all = {q \in odds : q.match = r.match /\ q.season = r.season}
  OBVIOUS
<1>3. PICK best \in SUBSET all :
          /\ best # {}
          /\ \/ best = {q \in all : q.result # Null}
             \/ best = all /\ \A q \in all : q.result = Null
  <2>1. r \in all  BY <1>1, <1>2
  <2>2. CASE \E q \in all : q.result # Null  BY <2>2
  <2>3. CASE \A q \in all : q.result = Null  BY <2>1, <2>3
  <2> QED  BY <2>2, <2>3
<1>4. \A q \in odds : q.day \in Nat  BY OddsConstants DEF Stored, Days
<1>5. PICK q \in best : \A x \in best : q.day <= x.day
  <2>1. PICK D : D = {x.day : x \in best}  OBVIOUS
  <2>2. D \in SUBSET Nat  BY <1>2, <1>3, <1>4, <2>1
  <2>3. D # {}  BY <1>3, <2>1
  <2>4. \E d \in D : \A e \in D : d <= e  BY <2>2, <2>3, LeastOfNaturals
  <2> QED  BY <2>1, <2>4
<1>6. q \in odds /\ q.match = r.match /\ q.season = r.season /\ (r.result # Null => q.result # Null)
  BY <1>1, <1>2, <1>3
<1>7. ASSUME NEW x \in odds, NEW y \in odds, SameTeams(x, y), q = Loser(x, y) PROVE FALSE
  <2>1. x \in all /\ y \in all /\ x.day # y.day  BY <1>2, <1>6, <1>7 DEF SameTeams, Loser
  <2>2. CASE q = x
    <3>1. y.result # Null \/ x.result = Null  BY <1>7, <2>1, <2>2 DEF Loser
    <3>2. y \in best  BY <1>3, <2>1, <2>2, <3>1
    <3>3. x.day < y.day  BY <1>4, <1>5, <2>1, <2>2, <3>2
    <3>4. ~(x.result = Null /\ y.result # Null)  BY <1>3, <1>5, <2>1, <2>2
    <3> QED  BY <1>7, <2>1, <2>2, <3>3, <3>4 DEF Loser
  <2>3. CASE q = y
    <3>1. x.result # Null \/ y.result = Null  BY <1>7, <2>1, <2>3 DEF Loser
    <3>2. x \in best  BY <1>3, <2>1, <2>3, <3>1
    <3>3. y.day < x.day  BY <1>4, <1>5, <2>1, <2>3, <3>2
    <3>4. ~(y.result = Null /\ x.result # Null)  BY <1>3, <1>5, <2>1, <2>3
    <3>5. ~(x.day < y.day)  BY <1>4, <3>3
    <3> QED  BY <1>7, <2>1, <2>3, <3>4, <3>5 DEF Loser
  <2> QED  BY <1>7, <2>2, <2>3 DEF Loser
<1>8. \A x \in Doomed(odds) : x \in odds /\ x # q
  <2> TAKE x \in Doomed(odds)
  <2>1. PICK y \in odds, z \in odds : x = Loser(y, z) /\ SameTeams(y, z)
    <3>1. PICK p \in odds \X odds : x = Loser(p[1], p[2]) /\ SameTeams(p[1], p[2])  BY DEF Doomed
    <3> QED  BY <3>1
  <2> QED  BY <1>7, <2>1 DEF Loser
<1>9. \A x \in Doomed(odds) : x.id # q.id  BY <1>6, <1>8 DEF DistinctRows
<1> QED  BY <1>6, <1>9 DEF Spares

-----------------------------------------------------------------------------
(* The steps of the job, of the scripts and of the world.                  *)

LEMMA SameStored ==
    ASSUME UNCHANGED lastId
    PROVE  Stored' = Stored /\ Cleaning' = Cleaning
BY DEF Stored, Cleaning, Days

\* A step of the job that neither reads nor stores.
LEMMA QuietStep ==
    ASSUME TableInv, UNCHANGED <<siteVars, tableVars, job, misread, cleanings>>,
           faults' \in 0 .. MaxFaults,
           run' \in Running \cup {Stopped}, run'.at \notin {"commit", "commitNext"}
    PROVE  TableInv'
<1> USE DEF siteVars, tableVars
<1>1. ScraperTypeOK'
  <2>1. Stored' = Stored /\ Cleaning' = Cleaning  BY SameStored
  <2>2. Days' = Days /\ Running' = Running  BY DEF Days, Running, Batch, Value, Values
  <2> QED  BY <2>1, <2>2 DEF TableInv, ScraperTypeOK
<1>2. DistinctRows'  BY DEF TableInv, DistinctRows, Match
<1>3. BatchIsNew'  BY DEF BatchIsNew
<1>4. CleanupSpares'  BY DEF TableInv, CleanupSpares
<1> QED  BY <1>1, <1>2, <1>3, <1>4 DEF TableInv

\* A page is read and its batch checked.
LEMMA ReadStep ==
    ASSUME TableInv, NEW rows \in SUBSET Value, OfDifferentMatches(rows),
           NEW values \in PagesRead(rows), Read(rows, values), NEW mayUpdate,
           UNCHANGED <<siteVars, tableVars, job, cleanings>>,
           run'.batch = Check(values, mayUpdate),
           Check(values, mayUpdate) \in Batch => run' \in Running
    PROVE  TableInv'
<1> USE DEF siteVars, tableVars
<1>1. values \in SUBSET Value /\ OfDifferentMatches(values)  BY PagesReadWell
<1>2. misread' \in SUBSET M /\ faults' \in 0 .. MaxFaults  BY <1>1, ReadTypes DEF TableInv
<1>3. PICK new \in SUBSET Value, known \in SUBSET Value :
         /\ Check(values, mayUpdate) = [new |-> new, known |-> known]
         /\ new = {v \in values : Inserted(odds, v)}
  BY <1>1 DEF Check
<1>4. Check(values, mayUpdate) \in Batch  BY <1>3 DEF Batch
<1>5. run' \in Running /\ run'.batch.new = new  BY <1>3, <1>4
<1>6. ScraperTypeOK'
  <2>1. Stored' = Stored /\ Cleaning' = Cleaning  BY SameStored
  <2>2. Days' = Days /\ Running' = Running  BY DEF Days, Running, Batch, Value, Values
  <2> QED  BY <1>2, <1>5, <2>1, <2>2 DEF TableInv, ScraperTypeOK
<1>7. DistinctRows'  BY DEF TableInv, DistinctRows, Match
<1>8. OfDifferentMatches(new) /\ \A r \in odds, v \in new : ~Same(r, v)
  BY <1>1, <1>3 DEF OfDifferentMatches, Inserted
<1>9. BatchIsNew'  BY <1>5, <1>8 DEF BatchIsNew, OfDifferentMatches
<1>10. CleanupSpares'  BY DEF TableInv, CleanupSpares
<1> QED  BY <1>6, <1>7, <1>9, <1>10 DEF TableInv

\* A batch is committed.
LEMMA CommitStep ==
    ASSUME TableInv, run.at \in {"commit", "commitNext"}, run.batch \in Batch, StoreBatch(run.batch),
           UNCHANGED <<siteVars, job, misread, cleanings, faults>>,
           run' \in Running \cup {Stopped}, run'.at \notin {"commit", "commitNext"}
    PROVE  TableInv'
<1> USE DEF siteVars
<1>1. /\ lastId' \in Nat /\ Stored \subseteq Stored' /\ odds' \subseteq Stored' /\ DistinctRows'
      /\ \A r \in odds : \E q \in odds' : Keeps(r, q)
  BY Committed DEF TableInv, BatchIsNew
<1>2. ScraperTypeOK'
  <2>1. job' \in Cleaning' \cup {Stopped}
    <3>1. CASE job \in Cleaning  BY <1>1, <3>1 DEF Cleaning
    <3> QED  BY <3>1 DEF TableInv, ScraperTypeOK
  <2>2. Days' = Days /\ Running' = Running  BY DEF Days, Running, Batch, Value, Values
  <2> QED  BY <1>1, <2>1, <2>2 DEF TableInv, ScraperTypeOK
<1>3. BatchIsNew'  BY DEF BatchIsNew
<1>4. CleanupSpares'
  <2> SUFFICES ASSUME job # Stopped, job.script = "cleanup", NEW r \in job.rows
               PROVE  \E q \in odds' : Spares(job.rows, r, q)
    BY DEF CleanupSpares
  <2>1. PICK q \in odds : Spares(job.rows, r, q)  BY DEF TableInv, CleanupSpares
  <2>2. PICK x \in odds' : Keeps(q, x)  BY <1>1
  <2>3. Spares(job.rows, r, x)  BY <2>1, <2>2 DEF Spares, Keeps
  <2> QED  BY <2>3
<1> QED  BY <1>1, <1>2, <1>3, <1>4 DEF TableInv

\* A script lists what it is going to delete.
LEMMA ListStep ==
    ASSUME TableInv, CleaningStarts, UNCHANGED <<siteVars, tableVars, run, misread, faults>>,
           NEW script \in {"cleanup", "remove", "match"}, NEW rows \in SUBSET odds, rows # {},
           job' = [at |-> "delete", script |-> script, rows |-> rows],
           script = "cleanup" => \A r \in rows : \E q \in odds : Spares(rows, r, q)
    PROVE  TableInv'
<1> USE DEF siteVars, tableVars
<1>1. ScraperTypeOK'
  <2>1. Stored' = Stored /\ Cleaning' = Cleaning  BY SameStored
  <2>2. Days' = Days /\ Running' = Running  BY DEF Days, Running, Batch, Value, Values
  <2>3. rows \in (SUBSET Stored) \ {{}}  BY DEF TableInv, ScraperTypeOK
  <2>4. job' \in Cleaning  BY <2>3 DEF Cleaning
  <2>5. cleanings' \in 0 .. MaxCleanings  BY OddsConstants DEF CleaningStarts, TableInv, ScraperTypeOK
  <2> QED  BY <2>1, <2>2, <2>4, <2>5 DEF TableInv, ScraperTypeOK
<1>2. DistinctRows'  BY DEF TableInv, DistinctRows, Match
<1>3. BatchIsNew'  BY DEF TableInv, BatchIsNew, OfDifferentMatches
<1>4. CleanupSpares'  BY DEF CleanupSpares
<1> QED  BY <1>1, <1>2, <1>3, <1>4 DEF TableInv

LEMMA DeleteStep ==
    ASSUME TableInv, Delete
    PROVE  TableInv' /\ odds' \subseteq odds
<1> USE DEF siteVars, tableVars
<1>1. odds' \subseteq odds /\ job' = Stopped /\ UNCHANGED <<siteVars, lastId, run, misread, cleanings, faults>>
  BY DEF Delete
<1>2. ScraperTypeOK'
  <2>1. Stored' = Stored /\ Cleaning' = Cleaning  BY <1>1, SameStored
  <2>2. Days' = Days /\ Running' = Running  BY DEF Days, Running, Batch, Value, Values
  <2> QED  BY <1>1, <2>1, <2>2 DEF TableInv, ScraperTypeOK
<1>3. DistinctRows'  BY <1>1 DEF TableInv, DistinctRows, Match
<1>4. BatchIsNew'  BY <1>1 DEF TableInv, BatchIsNew, OfDifferentMatches
<1>5. CleanupSpares'  BY <1>1 DEF CleanupSpares
<1> QED  BY <1>1, <1>2, <1>3, <1>4, <1>5 DEF TableInv

\* The days pass and matches are moved.
LEMMA WorldStep ==
    ASSUME TableInv, today' \in Days, kick' \in [M -> [day : Days, time : Times \cup {Null}]],
           moved' \in SUBSET M, UNCHANGED <<tableVars, run, job, misread, cleanings, faults>>
    PROVE  TableInv'
<1> USE DEF tableVars
<1>1. ScraperTypeOK'
  <2>1. Stored' = Stored /\ Cleaning' = Cleaning  BY SameStored
  <2>2. Days' = Days /\ Running' = Running  BY DEF Days, Running, Batch, Value, Values
  <2> QED  BY <2>1, <2>2 DEF TableInv, ScraperTypeOK
<1>2. DistinctRows'  BY DEF TableInv, DistinctRows, Match
<1>3. BatchIsNew'  BY DEF TableInv, BatchIsNew, OfDifferentMatches
<1>4. CleanupSpares'  BY DEF TableInv, CleanupSpares
<1> QED  BY <1>1, <1>2, <1>3, <1>4 DEF TableInv

LEMMA InitTable == ScraperInit => TableInv
<1> SUFFICES ASSUME ScraperInit PROVE TableInv  OBVIOUS
<1>1. kick \in [M -> [day : Days, time : Times \cup {Null}]]
  BY OddsConstants DEF ScraperInit, Days
<1>2. today \in Days /\ 0 \in 0 .. MaxCleanings /\ 0 \in 0 .. MaxFaults
  BY OddsConstants DEF ScraperInit, Days
<1>3. ScraperTypeOK  BY <1>1, <1>2 DEF ScraperInit, ScraperTypeOK
<1>4. DistinctRows /\ BatchIsNew /\ CleanupSpares
  BY DEF ScraperInit, DistinctRows, BatchIsNew, CleanupSpares, Stopped
<1> QED  BY <1>3, <1>4 DEF TableInv

LEMMA NextTable == TableInv /\ [ScraperNext]_scraperVars => TableInv'
<1> SUFFICES ASSUME TableInv, [ScraperNext]_scraperVars PROVE TableInv'  OBVIOUS
<1>0. ScraperTypeOK  BY DEF TableInv
<1> DEFINE l == run.league
           s == run.season
<1>1. CASE UNCHANGED scraperVars
  <2>1. UNCHANGED <<tableVars, run, job, misread, cleanings, faults, today, kick, moved>>
    BY <1>1 DEF scraperVars, siteVars
  <2>2. today \in Days /\ kick \in [M -> [day : Days, time : Times \cup {Null}]] /\ moved \in SUBSET M
    BY <1>0 DEF ScraperTypeOK
  <2> QED  BY <2>1, <2>2, WorldStep
<1>2. CASE Start
  <2>1. 1 \in 1 .. Leagues /\ Latest \in 0 .. Latest  BY OddsConstants
  <2>2. run' \in Running /\ run'.at = "season"  BY <1>2, <2>1, GoingOn DEF Start
  <2> QED  BY <1>0, <1>2, <2>2, QuietStep DEF Start, ScraperTypeOK
<1>3. ASSUME faults < MaxFaults, faults' = faults + 1 PROVE faults' \in 0 .. MaxFaults
  BY <1>0, <1>3, OddsConstants DEF ScraperTypeOK
<1>4. CASE StartFails
  <2>1. run' \in Running \cup {Stopped} /\ run'.at = "idle"
    BY <1>0, <1>4 DEF StartFails, ScraperTypeOK, RunAt
  <2> QED  BY <1>3, <1>4, <2>1, QuietStep DEF StartFails
<1>5. CASE OpenSeason
  <2>1. l \in 1 .. Leagues /\ s \in 0 .. Latest  BY <1>0, <1>5, RunTypes DEF OpenSeason
  <2>2. Cardinality(Results(l, s)) \in Nat
    <3>1. Results(l, s) \in SUBSET M  BY DEF Results
    <3> QED  BY <3>1, OddsConstants, FS_Subset, FS_CardinalityType
  <2>3. [at |-> "page", league |-> l, season |-> s, page |-> 1, pages |-> Cardinality(Results(l, s))] \in Running
    BY <2>1, <2>2 DEF Running
  <2>4. AfterSeason(l, s) \in Running /\ AfterSeason(l, s).at \in {"season", "next"}  BY <2>1, GoingOn
  <2>5. run' \in Running /\ run'.at \in {"season", "next", "page"}
    BY <1>5, <2>3, <2>4 DEF OpenSeason
  <2> QED  BY <1>0, <1>5, <2>5, QuietStep DEF OpenSeason, ScraperTypeOK
<1>6. CASE GiveUpSeason
  <2>1. l \in 1 .. Leagues /\ s \in 0 .. Latest  BY <1>0, <1>6, RunTypes DEF GiveUpSeason
  <2>2. run' \in Running /\ run'.at \in {"season", "next"}  BY <1>6, <2>1, GoingOn DEF GiveUpSeason
  <2> QED  BY <1>3, <1>6, <2>2, QuietStep DEF GiveUpSeason
<1>7. CASE StopPaging
  <2>1. l \in 1 .. Leagues /\ s \in 0 .. Latest  BY <1>0, <1>7, RunTypes DEF StopPaging
  <2>2. run' \in Running /\ run'.at \in {"season", "next"}  BY <1>7, <2>1, GoingOn DEF StopPaging
  <2> QED  BY <1>3, <1>7, <2>2, QuietStep DEF StopPaging
<1>8. CASE Abort
  <2>1. run' = Stopped /\ run'.at = "idle"  BY <1>8 DEF Abort, Stopped
  <2> QED  BY <1>3, <1>8, <2>1, QuietStep DEF Abort
<1>9. CASE ReadPage
  <2>1. l \in 1 .. Leagues /\ s \in 0 .. Latest /\ run.page \in Nat /\ run.pages \in Nat
    BY <1>0, <1>9, RunTypes DEF ReadPage
  <2>2. PICK rows : rows = {Row(m, s, "score") : m \in OnPage(l, s, run.page)}  OBVIOUS
  <2>3. OnPage(l, s, run.page) \subseteq M  BY DEF OnPage, Results
  <2>4. s \in 0 .. Latest + 1  BY <2>1, OddsConstants
  <2> HIDE DEF l, s
  <2>5. rows \in SUBSET Value /\ OfDifferentMatches(rows)
    BY <1>0, <2>2, <2>3, <2>4, ReadRow DEF OfDifferentMatches
  <2> USE DEF l, s
  <2>6. PICK values \in PagesRead(rows) :
           /\ Read(rows, values)
           /\ run' = [at |-> "commit", league |-> l, season |-> s, page |-> run.page, pages |-> run.pages,
                      batch |-> Check(values, s = Latest)]
    BY <1>9, <2>2 DEF ReadPage
  <2>7. run'.batch = Check(values, s = Latest) /\ (Check(values, s = Latest) \in Batch => run' \in Running)
    BY <2>1, <2>6 DEF Running
  <2>8. UNCHANGED <<siteVars, tableVars, job, cleanings>>  BY <1>9 DEF ReadPage
  <2> QED  BY <2>5, <2>6, <2>7, <2>8, ReadStep
<1>10. CASE ReadNext
  <2>1. l \in 1 .. Leagues  BY <1>0, <1>10, RunTypes DEF ReadNext
  <2>2. PICK rows : rows = {Row(m, InferredSeason(l, kick[m].day), Null) : m \in Announced(l)}  OBVIOUS
  <2>3. Announced(l) \subseteq M  BY DEF Announced
  <2> HIDE DEF l
  <2>4. rows \in SUBSET Value /\ OfDifferentMatches(rows)
    <3>1. \A m \in M : /\ Row(m, InferredSeason(l, kick[m].day), Null) \in Value
                       /\ Row(m, InferredSeason(l, kick[m].day), Null).match = m
      BY <1>0, ReadRow, InferredSeasonType
    <3> QED  BY <2>2, <2>3, <3>1 DEF OfDifferentMatches
  <2> USE DEF l
  <2>5. PICK values \in PagesRead(rows) :
           /\ Read(rows, values)
           /\ run' = [at |-> "commitNext", league |-> l, batch |-> Check(values, FALSE)]
    BY <1>10, <2>2 DEF ReadNext
  <2>6. run'.batch = Check(values, FALSE) /\ (Check(values, FALSE) \in Batch => run' \in Running)
    BY <2>1, <2>5 DEF Running
  <2>7. UNCHANGED <<siteVars, tableVars, job, cleanings>>  BY <1>10 DEF ReadNext
  <2> QED  BY <2>4, <2>5, <2>6, <2>7, ReadStep
<1>11. CASE CommitPage
  <2>1. /\ l \in 1 .. Leagues /\ s \in 0 .. Latest /\ run.page \in Nat /\ run.pages \in Nat
        /\ run.at = "commit" /\ run.batch \in Batch
    BY <1>0, <1>11, RunTypes DEF CommitPage, RunAt
  <2>2. [at |-> "page", league |-> l, season |-> s, page |-> run.page + 1, pages |-> run.pages] \in Running
    BY <2>1 DEF Running
  <2>3. AfterSeason(l, s) \in Running /\ AfterSeason(l, s).at \in {"season", "next"}  BY <2>1, GoingOn
  <2>4. run' \in Running /\ run'.at \in {"season", "next", "page"}
    BY <1>11, <2>2, <2>3 DEF CommitPage
  <2>5. StoreBatch(run.batch) /\ UNCHANGED <<siteVars, job, misread, cleanings, faults>>
    BY <1>11 DEF CommitPage
  <2> QED  BY <2>1, <2>4, <2>5, CommitStep
<1>12. CASE CommitNext
  <2>1. l \in 1 .. Leagues /\ run.at = "commitNext" /\ run.batch \in Batch
    BY <1>0, <1>12, RunTypes DEF CommitNext, RunAt
  <2>2. run' \in Running \cup {Stopped} /\ run'.at \in {"season", "idle"}
    <3>1. 0 \in 0 .. Latest  BY OddsConstants
    <3> QED  BY <1>12, <2>1, <3>1, GoingOn DEF CommitNext
  <2>3. StoreBatch(run.batch) /\ UNCHANGED <<siteVars, job, misread, cleanings, faults>>
    BY <1>12 DEF CommitNext
  <2> QED  BY <2>1, <2>2, <2>3, CommitStep
<1>13. CASE ListDuplicates
  <2>1. Doomed(odds) \in SUBSET odds  BY DEF Doomed, Loser
  <2>2. \A r \in Doomed(odds) : \E q \in odds : Spares(Doomed(odds), r, q)
    BY EarliestStays DEF TableInv, ScraperTypeOK
  <2> QED  BY <1>13, <2>1, <2>2, ListStep DEF ListDuplicates
<1>14. CASE ListAlike
  <2>1. PICK r \in odds : job' = [at |-> "delete", script |-> "remove", rows |-> {r}]
    BY <1>14 DEF ListAlike
  <2>2. {r} \in SUBSET odds /\ {r} # {}  OBVIOUS
  <2>3. CleaningStarts /\ UNCHANGED <<siteVars, tableVars, run, misread, faults>>  BY <1>14 DEF ListAlike
  <2> QED  BY <2>1, <2>2, <2>3, ListStep
<1>15. CASE ListFake
  <2>1. PICK r \in odds : job' = [at |-> "delete", script |-> "match", rows |-> {r}]
    BY <1>15 DEF ListFake
  <2>2. {r} \in SUBSET odds /\ {r} # {}  OBVIOUS
  <2>3. CleaningStarts /\ UNCHANGED <<siteVars, tableVars, run, misread, faults>>  BY <1>15 DEF ListFake
  <2> QED  BY <2>1, <2>2, <2>3, ListStep
<1>16. CASE Delete  BY <1>16, DeleteStep
<1>17. CASE Tick
  <2>1. today' \in Days  BY <1>0, <1>17, OddsConstants DEF Tick, ScraperTypeOK, Days
  <2>2. kick' = kick /\ moved' = moved  BY <1>17 DEF Tick
  <2> QED  BY <1>0, <1>17, <2>1, <2>2, WorldStep DEF Tick, ScraperTypeOK
<1>18. ASSUME NEW m \in M, NEW d \in Days, NEW t \in Times, Move(m, d, t) PROVE TableInv'
  <2>1. kick' \in [M -> [day : Days, time : Times \cup {Null}]]  BY <1>0, <1>18 DEF Move, ScraperTypeOK
  <2>2. moved' \in SUBSET M /\ today' \in Days  BY <1>0, <1>18 DEF Move, ScraperTypeOK
  <2> QED  BY <1>18, <2>1, <2>2, WorldStep DEF Move
<1> QED  BY <1>1, <1>2, <1>4, <1>5, <1>6, <1>7, <1>8, <1>9, <1>10, <1>11, <1>12, <1>13, <1>14, <1>15,
            <1>16, <1>17, <1>18 DEF ScraperNext, Scrape

\* The inductive invariant.
THEOREM TableInvariance == ScraperSpec => []TableInv
<1> QED  BY InitTable, NextTable, PTL DEF ScraperSpec

\* The table is well-formed: no two rows of a match at the same time, whatever is
\* misread, moved, cleaned or aborted, although no key of the table forbids it.
THEOREM OddsTableOK == ScraperSpec => []TableOK
<1>1. TableInv => TableOK  BY DEF TableInv, TableOK, DistinctRows
<1> QED  BY <1>1, TableInvariance, PTL

\* What a row has of a result and of prices it keeps.
THEOREM RowsRemember == ScraperSpec => NothingForgotten
<1> DEFINE Remembers == \A r \in odds, q \in odds' : r.id = q.id =>
                            (r.result # Null => q.result # Null) /\ (r.price # Null => q.price # Null)
<1>1. ASSUME TableInv, ScraperNext PROVE Remembers
  <2>1. CASE odds' \subseteq odds  BY <1>1, <2>1 DEF TableInv, DistinctRows
  <2>2. CASE CommitPage \/ CommitNext
    <3>1. run.at \in {"commit", "commitNext"} /\ StoreBatch(run.batch)
      BY <2>2 DEF CommitPage, CommitNext, RunAt
    <3>2. run.batch \in Batch  BY <1>1, <3>1, RunTypes DEF TableInv, RunAt
    <3>3. \A r \in odds, q \in odds' : r.id = q.id => Keeps(r, q)
      BY <1>1, <3>1, <3>2, Committed DEF TableInv, BatchIsNew
    <3> QED  BY <3>3 DEF Keeps
  <2>3. (CommitPage \/ CommitNext) \/ odds' \subseteq odds
    BY <1>1 DEF ScraperNext, Scrape, Start, StartFails, OpenSeason, ReadPage, ReadNext, GiveUpSeason, StopPaging,
                Abort, ListDuplicates, ListAlike, ListFake, Delete, Tick, Move, tableVars
  <2> QED  BY <2>1, <2>2, <2>3
<1>2. TableInv /\ [ScraperNext]_scraperVars => [Remembers]_scraperVars  BY <1>1
<1> QED  BY <1>2, TableInvariance, PTL DEF ScraperSpec, NothingForgotten

\* cleanup_duplicate_matches leaves every match it deletes rows of a row, with a
\* result if it has deleted a result.
THEOREM CleanupSparesResults == ScraperSpec => CleanupKeepsResults
<1> DEFINE Spared == (job # Stopped /\ job' = Stopped /\ job.script = "cleanup") =>
                        \A r \in job.rows : \E q \in odds' :
                           r.match = q.match /\ r.season = q.season /\ (r.result # Null => q.result # Null)
<1>1. ASSUME TableInv, ScraperNext PROVE Spared
  <2> SUFFICES ASSUME job # Stopped, job' = Stopped, job.script = "cleanup", NEW r \in job.rows
               PROVE  \E q \in odds' :
                         r.match = q.match /\ r.season = q.season /\ (r.result # Null => q.result # Null)
    OBVIOUS
  <2>1. PICK q \in odds : Spares(job.rows, r, q)  BY <1>1 DEF TableInv, CleanupSpares
  <2>2. Delete
    BY <1>1 DEF ScraperNext, Scrape, Start, StartFails, OpenSeason, ReadPage, ReadNext, CommitPage, CommitNext,
                GiveUpSeason, StopPaging, Abort, ListDuplicates, ListAlike, ListFake, CleaningStarts, Tick, Move
  <2>3. q \in odds'  BY <2>1, <2>2 DEF Delete, Spares
  <2> QED  BY <2>1, <2>3 DEF Spares
<1>2. TableInv /\ [ScraperNext]_scraperVars => [Spared]_scraperVars  BY <1>1
<1> QED  BY <1>2, TableInvariance, PTL DEF ScraperSpec, CleanupKeepsResults

-----------------------------------------------------------------------------
(* What the pages show of the table.                                       *)

\* Rows that can be put in order.
OrderedRows(rows) ==
    /\ IsFiniteSet(rows)
    /\ \A r \in rows : r.day \in Nat /\ r.time \in Nat \cup {Null} /\ r.id \in Nat
    /\ \A r, q \in rows : r.id = q.id => r = q

LEMMA InOrderIsTotal ==
    ASSUME NEW rows, OrderedRows(rows)
    PROVE  /\ \A r, q \in rows : r # q => (InOrder(r, q) <=> ~InOrder(q, r))
           /\ \A p, q, r \in rows :
                 InOrder(p, q) /\ InOrder(q, r) /\ p # q /\ q # r => InOrder(p, r) /\ p # r
           /\ \A r \in rows : ~Before(r, r)
<1>0. Null \notin Nat  BY OddsConstants
<1>1. ASSUME NEW r \in rows, NEW q \in rows, r # q PROVE InOrder(r, q) <=> ~InOrder(q, r)
  <2>1. PICK a, b, c, d \in Nat : r.day = a /\ r.id = b /\ q.day = c /\ q.id = d /\ b # d
    BY <1>1 DEF OrderedRows
  <2>2. PICK t, u \in Nat \cup {Null} : r.time = t /\ q.time = u  BY DEF OrderedRows
  <2> QED  BY <1>0, <2>1, <2>2 DEF InOrder, Before
<1>2. ASSUME NEW p \in rows, NEW q \in rows, NEW r \in rows, InOrder(p, q), InOrder(q, r), p # q, q # r
      PROVE  InOrder(p, r) /\ p # r
  <2>1. PICK a, b, c \in Nat : p.day = a /\ q.day = b /\ r.day = c  BY DEF OrderedRows
  <2>2. PICK i, j, k \in Nat : p.id = i /\ q.id = j /\ r.id = k  BY DEF OrderedRows
  <2>3. PICK t, u, v \in Nat \cup {Null} : p.time = t /\ q.time = u /\ r.time = v  BY DEF OrderedRows
  <2>4. p # r  BY <1>1, <1>2
  <2>5. InOrder(p, r)  BY <1>0, <1>2, <2>1, <2>2, <2>3 DEF InOrder, Before
  <2> QED  BY <2>4, <2>5
<1>3. ASSUME NEW r \in rows PROVE ~Before(r, r)  BY DEF OrderedRows, Before
<1> QED  BY <1>1, <1>2, <1>3

\* In a finite total order, where below[x] is what is before x, there are k elements
\* with fewer than k before them.
LEMMA Ranking ==
    ASSUME NEW S, IsFiniteSet(S), NEW below \in [S -> SUBSET S],
           \A x \in S : x \notin below[x],
           \A x, y \in S : x # y => (x \in below[y] \/ y \in below[x]),
           \A x, y \in S : x \in below[y] => below[x] \subseteq below[y],
           NEW k \in 0 .. Cardinality(S)
    PROVE  /\ Cardinality({x \in S : Cardinality(below[x]) < k}) = k
           /\ \A x \in S : Cardinality(below[x]) \in Nat /\ Cardinality(below[x]) < Cardinality(S)
<1>1. PICK n \in Nat : n = Cardinality(S)  BY FS_CardinalityType
<1>2. \A x \in S : /\ IsFiniteSet(below[x]) /\ Cardinality(below[x]) \in Nat
                   /\ Cardinality(below[x]) < n
  <2> TAKE x \in S
  <2>1. IsFiniteSet(below[x]) /\ Cardinality(below[x]) <= n /\ Cardinality(below[x]) # n
    BY <1>1, FS_Subset
  <2>2. Cardinality(below[x]) \in Nat  BY <2>1, FS_CardinalityType
  <2> QED  BY <2>1, <2>2
<1>3. \A x, y \in S : x \in below[y] => Cardinality(below[x]) < Cardinality(below[y])
  <2> SUFFICES ASSUME NEW x \in S, NEW y \in S, x \in below[y]
               PROVE  Cardinality(below[x]) < Cardinality(below[y])
    OBVIOUS
  <2>1. below[x] \in SUBSET below[y] /\ below[x] # below[y]  OBVIOUS
  <2>2. Cardinality(below[x]) <= Cardinality(below[y]) /\ Cardinality(below[x]) # Cardinality(below[y])
    BY <1>2, <2>1, FS_Subset
  <2> QED  BY <1>2, <2>2
<1> DEFINE rank == [x \in S |-> Cardinality(below[x])]
<1>4. rank \in [S -> 0 .. n - 1]  BY <1>2
<1>5. \A x, y \in S : rank[x] = rank[y] => x = y  BY <1>2, <1>3
<1>6. \A x \in S : rank[x] = Cardinality(below[x])  OBVIOUS
<1> HIDE DEF rank
<1>7. IsFiniteSet(0 .. n - 1) /\ Cardinality(0 .. n - 1) = n
  <2>1. 0 \in Int /\ n - 1 \in Int  OBVIOUS
  <2>2. IsFiniteSet(0 .. n - 1) /\ Cardinality(0 .. n - 1) = IF 0 > n - 1 THEN 0 ELSE (n - 1) - 0 + 1
    BY <2>1, FS_Interval
  <2> QED  BY <2>2
<1>8. rank \in Surjection(S, 0 .. n - 1)
  <2>1. rank \in Injection(S, 0 .. n - 1)  BY <1>4, <1>5 DEF Injection, IsInjective
  <2> QED  BY <1>1, <1>7, <2>1, FS_Injection
<1>9. PICK T \in SUBSET S : T = {x \in S : Cardinality(below[x]) < k}  OBVIOUS
<1> DEFINE rankT == [x \in T |-> rank[x]]
<1>10. rankT \in [T -> 0 .. k - 1]  BY <1>1, <1>4, <1>6, <1>9
<1>11. \A x, y \in T : rankT[x] = rankT[y] => x = y  BY <1>5
<1>12. \A i \in 0 .. k - 1 : \E x \in T : rankT[x] = i
  <2> TAKE i \in 0 .. k - 1
  <2>1. i \in 0 .. n - 1 /\ i < k  BY <1>1
  <2>2. PICK x \in S : rank[x] = i  BY <1>8, <2>1 DEF Surjection
  <2>3. x \in T  BY <1>6, <1>9, <2>1, <2>2
  <2> QED  BY <2>2, <2>3
<1> HIDE DEF rankT
<1>13. rankT \in Injection(T, 0 .. k - 1)  BY <1>10, <1>11 DEF Injection, IsInjective
<1>14. rankT \in Surjection(T, 0 .. k - 1)  BY <1>10, <1>12 DEF Surjection
<1>15. IsFiniteSet(0 .. k - 1) /\ Cardinality(0 .. k - 1) = k
  <2>1. 0 \in Int /\ k - 1 \in Int /\ k \in Nat  BY <1>1
  <2>2. IsFiniteSet(0 .. k - 1) /\ Cardinality(0 .. k - 1) = IF 0 > k - 1 THEN 0 ELSE (k - 1) - 0 + 1
    BY <2>1, FS_Interval
  <2> QED  BY <2>1, <2>2
<1>16. Cardinality(T) = k  BY <1>13, <1>14, <1>15, FS_Injection
<1> QED  BY <1>1, <1>2, <1>9, <1>16

\* The first n rows are n, if there are as many.
LEMMA FirstRows ==
    ASSUME NEW rows, OrderedRows(rows), NEW n \in Nat
    PROVE  /\ First(rows, n) \in SUBSET rows /\ IsFiniteSet(First(rows, n))
           /\ Cardinality(First(rows, n)) = IF Cardinality(rows) < n THEN Cardinality(rows) ELSE n
<1> DEFINE below == [r \in rows |-> {q \in rows : q # r /\ InOrder(q, r)}]
<1>1. IsFiniteSet(rows) /\ Cardinality(rows) \in Nat  BY FS_CardinalityType DEF OrderedRows
<1>2. First(rows, n) = {r \in rows : Cardinality(below[r]) < n}  BY DEF First
<1>3. below \in [rows -> SUBSET rows] /\ \A r \in rows : r \notin below[r]  OBVIOUS
<1>4. \A r, q \in rows : r # q => (r \in below[q] \/ q \in below[r])  BY InOrderIsTotal
<1>5. \A r, q \in rows : r \in below[q] => below[r] \subseteq below[q]
  <2> SUFFICES ASSUME NEW r \in rows, NEW q \in rows, r \in below[q], NEW p \in below[r]
               PROVE  p \in below[q]
    OBVIOUS
  <2>1. p \in rows /\ p # r /\ InOrder(p, r) /\ r # q /\ InOrder(r, q)  OBVIOUS
  <2>2. InOrder(p, q) /\ p # q  BY <2>1, InOrderIsTotal
  <2> QED  BY <2>1, <2>2
<1> HIDE DEF below
<1>6. \A k \in 0 .. Cardinality(rows) :
         /\ Cardinality({r \in rows : Cardinality(below[r]) < k}) = k
         /\ \A r \in rows : Cardinality(below[r]) \in Nat /\ Cardinality(below[r]) < Cardinality(rows)
  BY <1>1, <1>3, <1>4, <1>5, Ranking
<1>7. First(rows, n) \in SUBSET rows  BY <1>2
<1>8. IsFiniteSet(First(rows, n))  BY <1>1, <1>7, FS_Subset
<1>9. CASE Cardinality(rows) < n
  <2>1. 0 \in 0 .. Cardinality(rows)  BY <1>1
  <2>2. ASSUME NEW r \in rows PROVE Cardinality(below[r]) < n
    <3>1. Cardinality(below[r]) \in Nat /\ Cardinality(below[r]) < Cardinality(rows)  BY <1>6, <2>1
    <3> QED  BY <1>1, <1>9, <3>1
  <2>3. First(rows, n) = rows  BY <1>2, <2>2
  <2> QED  BY <1>7, <1>8, <1>9, <2>3
<1>10. CASE ~(Cardinality(rows) < n)
  <2>1. n \in 0 .. Cardinality(rows)  BY <1>1, <1>10
  <2>2. Cardinality(First(rows, n)) = n  BY <1>2, <1>6, <2>1
  <2> QED  BY <1>7, <1>8, <1>10, <2>2
<1> QED  BY <1>9, <1>10

LEMMA SomeRows ==
    ASSUME NEW rows, OrderedRows(rows), NEW some \in SUBSET rows
    PROVE  OrderedRows(some)
BY FS_Subset DEF OrderedRows

LEMMA TableIsOrdered ==
    ASSUME TableInv
    PROVE  OrderedRows(odds)
<1> DEFINE key == [r \in odds |-> r.id]
<1>1. \A r \in odds : r.id \in 1 .. lastId /\ r.day \in Days /\ r.time \in Times \cup {Null}
  BY DEF TableInv, ScraperTypeOK, Stored
<1>2. lastId \in Nat /\ Times \subseteq Nat /\ Days \subseteq Nat
  BY OddsAssumption DEF TableInv, ScraperTypeOK, Days
<1>3. \A r, q \in odds : r.id = q.id => r = q  BY DEF TableInv, DistinctRows
<1>4. key \in [odds -> 1 .. lastId] /\ \A r, q \in odds : key[r] = key[q] => r = q  BY <1>1, <1>3
<1> HIDE DEF key
<1>5. IsFiniteSet(1 .. lastId)  BY <1>2, FS_Interval
<1>6. IsFiniteSet(odds)  BY <1>4, <1>5, KeyedSets
<1>7. \A r \in odds : r.day \in Nat /\ r.time \in Nat \cup {Null} /\ r.id \in Nat
  <2> TAKE r \in odds
  <2>1. PICK id \in 1 .. lastId : id = r.id  BY <1>1
  <2>2. id \in Nat  BY <1>2
  <2>3. r.day \in Nat /\ r.time \in Nat \cup {Null}  BY <1>1, <1>2
  <2> QED  BY <2>1, <2>2, <2>3
<1> QED  BY <1>3, <1>6, <1>7 DEF OrderedRows

LEMMA CountRows ==
    ASSUME NEW rows, OrderedRows(rows), NEW some \in SUBSET rows
    PROVE  /\ Cardinality(rows) \in Nat /\ Cardinality(some) \in Nat
           /\ Cardinality(rows \ some) = Cardinality(rows) - Cardinality(some)
           /\ Cardinality(some) <= Cardinality(rows)
           /\ \A more \in SUBSET (rows \ some) :
                 Cardinality(some \cup more) = Cardinality(some) + Cardinality(more)
<1>1. IsFiniteSet(rows)  BY DEF OrderedRows
<1>2. IsFiniteSet(some) /\ Cardinality(some) <= Cardinality(rows)  BY <1>1, FS_Subset
<1>3. Cardinality(rows) \in Nat /\ Cardinality(some) \in Nat  BY <1>1, <1>2, FS_CardinalityType
<1>4. Cardinality(rows \ some) = Cardinality(rows) - Cardinality(some)
  <2>1. rows \cap some = some  OBVIOUS
  <2> QED  BY <1>1, <2>1, FS_Difference
<1>5. ASSUME NEW more \in SUBSET (rows \ some)
      PROVE  Cardinality(some \cup more) = Cardinality(some) + Cardinality(more)
  <2>1. more \in SUBSET rows /\ some \cap more = {}  OBVIOUS
  <2>2. IsFiniteSet(more) /\ Cardinality(more) \in Nat  BY <1>1, <2>1, FS_Subset, FS_CardinalityType
  <2>3. Cardinality(some \cup more) = Cardinality(some) + Cardinality(more) - Cardinality({})
    BY <1>2, <2>1, <2>2, FS_Union
  <2> QED  BY <1>3, <2>2, <2>3, FS_EmptySet
<1> QED  BY <1>2, <1>3, <1>4, <1>5

\* As many of the fetched rows are chosen as fit, and countries are filled up only if
\* none of them is left within its share.
LEMMA ChosenFit ==
    ASSUME NEW rows, OrderedRows(rows)
    PROVE  /\ Chosen(rows) \subseteq rows
           /\ Cardinality(Chosen(rows)) = (IF Cardinality(rows) < Limit THEN Cardinality(rows) ELSE Limit)
           /\ Combined(rows) \subseteq Chosen(rows) \/ Chosen(rows) \subseteq Combined(rows)
<1>0. Limit \in Nat  BY BoardAssumption
<1>1. PICK famous \in SUBSET rows : famous = Capped(Famous(rows))  BY DEF Capped, Famous
<1>2. PICK other \in SUBSET rows : other = Capped(rows \ Famous(rows))  BY DEF Capped
<1>3. famous \cap other = {}  BY <1>1, <1>2 DEF Capped
<1>4. PICK capped \in SUBSET rows : capped = famous \cup other  OBVIOUS
<1>5. Combined(rows) = capped  BY <1>1, <1>2, <1>4 DEF Combined
<1>6. /\ Cardinality(rows) \in Nat /\ Cardinality(capped) \in Nat /\ Cardinality(famous) \in Nat
      /\ Cardinality(other) \in Nat /\ Cardinality(capped) <= Cardinality(rows)
  BY CountRows
<1>7. Cardinality(capped) = Cardinality(famous) + Cardinality(other)
  <2>1. other \in SUBSET (rows \ famous)  BY <1>3
  <2> QED  BY <1>4, <2>1, CountRows
<1>8. CASE Cardinality(capped) < Limit
  <2>1. PICK gap \in Nat : gap = Limit - Cardinality(capped)  BY <1>0, <1>6, <1>8
  <2>2. PICK left \in SUBSET rows : left = rows \ capped  OBVIOUS
  <2>3. PICK more : more = First(left, gap)  OBVIOUS
  <2>4. Chosen(rows) = capped \cup more
    BY <1>5, <1>8, <2>1, <2>2, <2>3 DEF Chosen, Filled
  <2>5. /\ more \in SUBSET left
        /\ Cardinality(more) = IF Cardinality(left) < gap THEN Cardinality(left) ELSE gap
    BY <2>2, <2>3, SomeRows, FirstRows
  <2>6. Cardinality(left) = Cardinality(rows) - Cardinality(capped)  BY <2>2, CountRows
  <2>7. Cardinality(capped \cup more) = Cardinality(capped) + Cardinality(more)
    <3>1. more \in SUBSET (rows \ capped)  BY <2>2, <2>5
    <3> QED  BY <3>1, CountRows
  <2>8. Cardinality(Chosen(rows)) = IF Cardinality(rows) < Limit THEN Cardinality(rows) ELSE Limit
    BY <1>0, <1>6, <2>1, <2>4, <2>5, <2>6, <2>7
  <2> QED  BY <1>5, <2>2, <2>4, <2>5, <2>8
<1>9. CASE ~(Cardinality(capped) < Limit) /\ Cardinality(famous) >= Limit
  <2>1. Chosen(rows) = First(famous, Limit)  BY <1>1, <1>5, <1>9 DEF Chosen
  <2>2. /\ Chosen(rows) \in SUBSET famous
        /\ Cardinality(Chosen(rows)) = IF Cardinality(famous) < Limit THEN Cardinality(famous) ELSE Limit
    BY <1>0, <2>1, SomeRows, FirstRows
  <2>3. Cardinality(Chosen(rows)) = Limit /\ ~(Cardinality(rows) < Limit)  BY <1>0, <1>6, <1>9, <2>2
  <2> QED  BY <1>4, <1>5, <2>2, <2>3
<1>10. CASE ~(Cardinality(capped) < Limit) /\ ~(Cardinality(famous) >= Limit)
  <2>1. PICK gap \in Nat : gap = Limit - Cardinality(famous)  BY <1>0, <1>6, <1>10
  <2>2. PICK more : more = First(other, gap)  OBVIOUS
  <2>3. Chosen(rows) = famous \cup more
    BY <1>1, <1>2, <1>5, <1>10, <2>1, <2>2 DEF Chosen
  <2>4. /\ more \in SUBSET other
        /\ Cardinality(more) = IF Cardinality(other) < gap THEN Cardinality(other) ELSE gap
    BY <2>2, SomeRows, FirstRows
  <2>5. Cardinality(famous \cup more) = Cardinality(famous) + Cardinality(more)
    <3>1. more \in SUBSET (rows \ famous)  BY <1>3, <2>4
    <3> QED  BY <3>1, CountRows
  <2>6. Cardinality(Chosen(rows)) = Limit /\ ~(Cardinality(rows) < Limit)
    BY <1>0, <1>6, <1>7, <1>10, <2>1, <2>3, <2>4, <2>5
  <2> QED  BY <1>4, <1>5, <2>3, <2>4, <2>6
<1> QED  BY <1>8, <1>9, <1>10

\* What precedes a fetched row is fetched.
LEMMA FetchedFromTheStart ==
    ASSUME NEW rows, OrderedRows(rows), NEW n \in Nat, NEW some \in SUBSET rows,
           NEW r \in some \cap First(rows, n)
    PROVE  {q \in some \cap First(rows, n) : q # r /\ InOrder(q, r)} = {q \in some : q # r /\ InOrder(q, r)}
<1>1. IsFiniteSet(rows) /\ r \in rows  BY DEF OrderedRows
<1>2. Cardinality({p \in rows : p # r /\ InOrder(p, r)}) < n  BY DEF First
<1>3. ASSUME NEW q \in some, q # r, InOrder(q, r)
      PROVE  q \in First(rows, n)
  <2>1. PICK U \in SUBSET rows : U = {p \in rows : p # q /\ InOrder(p, q)}  OBVIOUS
  <2>2. PICK V \in SUBSET rows : V = {p \in rows : p # r /\ InOrder(p, r)}  OBVIOUS
  <2>3. ASSUME NEW p \in U PROVE p \in V
    <3>1. p \in rows /\ p # q /\ InOrder(p, q)  BY <2>1, <2>3
    <3>2. InOrder(p, r) /\ p # r  BY <1>1, <1>3, <3>1, InOrderIsTotal
    <3> QED  BY <2>2, <3>1, <3>2
  <2>4. IsFiniteSet(V) /\ U \subseteq V  BY <1>1, <2>2, <2>3, FS_Subset
  <2>5. Cardinality(U) <= Cardinality(V) /\ IsFiniteSet(U)  BY <2>4, FS_Subset
  <2>6. Cardinality(U) \in Nat /\ Cardinality(V) \in Nat  BY <2>4, <2>5, FS_CardinalityType
  <2>7. Cardinality(U) < n  BY <1>2, <2>2, <2>5, <2>6
  <2> QED  BY <2>1, <2>7 DEF First
<1> QED  BY <1>3

\* Whether a fetched row is within its country's share does not depend on the cut.
LEMMA ShareOfFetched ==
    ASSUME NEW rows, OrderedRows(rows), NEW n \in Nat
    PROVE  Combined(First(rows, n)) = Combined(rows) \cap First(rows, n)
<1>1. PICK some \in SUBSET rows : some = First(rows, n)  BY DEF First
<1>2. Famous(some) = Famous(rows) \cap some /\ some \ Famous(some) = (rows \ Famous(rows)) \cap some
  BY DEF Famous
<1>3. ASSUME NEW list \in SUBSET rows
      PROVE  Capped(list \cap some) = Capped(list) \cap some
  <2> SUFFICES ASSUME NEW r \in list \cap some
               PROVE  r \in Capped(list \cap some) <=> r \in Capped(list)
    BY DEF Capped
  <2>1. PICK mine \in SUBSET rows : mine = {q \in list : Country(q) = Country(r)}  OBVIOUS
  <2>2. {q \in list \cap some : Country(q) = Country(r)} = mine \cap some  BY <2>1
  <2>3. r \in mine \cap some  BY <2>1
  <2>4. {q \in mine \cap some : q # r /\ InOrder(q, r)} = {q \in mine : q # r /\ InOrder(q, r)}
    BY <1>1, <2>3, FetchedFromTheStart
  <2>5. r \in First(mine \cap some, Cap) <=> r \in First(mine, Cap)  BY <2>3, <2>4 DEF First
  <2> QED  BY <2>1, <2>2, <2>5 DEF Capped
<1>4. Famous(rows) \in SUBSET rows /\ rows \ Famous(rows) \in SUBSET rows  BY DEF Famous
<1> QED  BY <1>1, <1>2, <1>3, <1>4 DEF Combined

\* What is shown of a week: as many matches as fit, and over the share only if what
\* is left within it comes after the cut.
LEMMA ShownOfWeek ==
    ASSUME NEW rows, OrderedRows(rows), NEW shown, shown = Chosen(Fetched(rows))
    PROVE  /\ shown \subseteq rows
           /\ Cardinality(shown) = (IF Cardinality(rows) < Limit THEN Cardinality(rows) ELSE Limit)
           /\ ~(shown \subseteq Combined(rows)) =>
                 \A q \in Combined(rows) \ shown :
                     Cardinality({r \in rows : r # q /\ InOrder(r, q)}) >= FetchSize
<1>1. Limit \in Nat /\ FetchSize \in Nat /\ Limit <= FetchSize /\ Cardinality(rows) \in Nat
  BY BoardAssumption, FS_CardinalityType DEF OrderedRows
<1>2. PICK some \in SUBSET rows :
          /\ some = Fetched(rows)
          /\ Cardinality(some) = IF Cardinality(rows) < FetchSize THEN Cardinality(rows) ELSE FetchSize
  BY <1>1, FirstRows DEF Fetched
<1>3. OrderedRows(some)  BY SomeRows
<1>4. /\ shown \subseteq some
      /\ Cardinality(shown) = (IF Cardinality(some) < Limit THEN Cardinality(some) ELSE Limit)
      /\ Combined(some) \subseteq shown \/ shown \subseteq Combined(some)
  BY <1>2, <1>3, ChosenFit
<1>5. Combined(some) = Combined(rows) \cap some  BY <1>1, <1>2, ShareOfFetched DEF Fetched
<1>6. ASSUME ~(shown \subseteq Combined(rows)), NEW q \in Combined(rows) \ shown
      PROVE  Cardinality({r \in rows : r # q /\ InOrder(r, q)}) >= FetchSize
  <2>1. q \notin some  BY <1>4, <1>5, <1>6
  <2>2. q \in rows  BY DEF Combined, Capped, Famous
  <2>3. PICK before \in SUBSET rows : before = {r \in rows : r # q /\ InOrder(r, q)}  OBVIOUS
  <2>4. Cardinality(before) \in Nat  BY FS_Subset, FS_CardinalityType DEF OrderedRows
  <2>5. ~(Cardinality(before) < FetchSize)  BY <1>2, <2>1, <2>2, <2>3 DEF Fetched, First
  <2> QED  BY <1>1, <2>3, <2>4, <2>5
<1> QED  BY <1>1, <1>2, <1>4, <1>6

\* A row that ties with no other is on one page.
LEMMA OnePage ==
    ASSUME NEW rows, OrderedRows(rows), NEW r \in rows, NEW size \in 1 .. 2,
           Cardinality(Ranks(rows, r)) = 1
    PROVE  Cardinality({p \in 1 .. Pages(rows, size) : MayBeOn(Ranks(rows, r), p, size)}) = 1
<1>1. PICK earlier \in SUBSET rows : earlier = {q \in rows : Before(q, r)}  OBVIOUS
<1>2. PICK tied \in SUBSET rows : tied = {q \in rows : ~Before(q, r) /\ ~Before(r, q)}  OBVIOUS
<1>3. PICK n, before, ties \in Nat :
          n = Cardinality(rows) /\ before = Cardinality(earlier) /\ ties = Cardinality(tied)
  BY CountRows
<1>4. r \notin earlier  BY <1>1, InOrderIsTotal
<1>5. before < n
  <2>1. {r} \in SUBSET (rows \ earlier)  BY <1>4
  <2>2. earlier \cup {r} \in SUBSET rows  OBVIOUS
  <2>3. Cardinality(earlier \cup {r}) = before + Cardinality({r})  BY <1>3, <2>1, CountRows
  <2>4. Cardinality(earlier \cup {r}) <= n  BY <1>3, <2>2, CountRows
  <2>5. Cardinality({r}) = 1  BY FS_Singleton
  <2> QED  BY <1>3, <2>3, <2>4, <2>5
<1>6. Ranks(rows, r) = before .. before + ties - 1  BY <1>1, <1>2, <1>3 DEF Ranks
<1>7. ties = 1
  <2>1. before \in Int /\ before + ties - 1 \in Int  BY <1>3
  <2>2. Cardinality(before .. before + ties - 1)
           = IF before > before + ties - 1 THEN 0 ELSE (before + ties - 1) - before + 1
    BY <2>1, FS_Interval
  <2> QED  BY <1>3, <1>6, <2>2
<1>8. Ranks(rows, r) = {before}  BY <1>3, <1>6, <1>7
<1>9. \A p : MayBeOn(Ranks(rows, r), p, size) <=> Offset(p, size) <= before /\ before < Offset(p, size) + size
  BY <1>8 DEF MayBeOn
<1>10. PICK pages \in Nat : pages = Pages(rows, size) /\ (size = 1 => pages = n) /\ (size = 2 => pages = (n + 1) \div 2)
  BY <1>3 DEF Pages
<1>11. PICK page \in 1 .. pages :
           \A p \in 1 .. pages : (Offset(p, size) <= before /\ before < Offset(p, size) + size) <=> p = page
  <2>1. CASE size = 1
    <3>1. PICK page : page = before + 1  OBVIOUS
    <3>2. page \in 1 .. pages  BY <1>3, <1>5, <1>10, <2>1, <3>1
    <3>3. ASSUME NEW p \in 1 .. pages
          PROVE  (Offset(p, size) <= before /\ before < Offset(p, size) + size) <=> p = page
      <4>1. p \in Int /\ Offset(p, size) = p - 1  BY <1>10, <2>1 DEF Offset
      <4> QED  BY <1>3, <2>1, <3>1, <4>1
    <3> QED  BY <3>2, <3>3
  <2>2. CASE size = 2
    <3>1. PICK k : k = before \div 2  OBVIOUS
    <3>2. k \in Nat /\ (before = 2 * k \/ before = 2 * k + 1)
      <4>1. \A i \in Nat : i \div 2 \in Nat  OBVIOUS
      <4>2. \A i \in Nat : 2 * (i \div 2) <= i /\ i < 2 * (i \div 2) + 2  OBVIOUS
      <4>3. k \in Nat /\ 2 * k <= before /\ before < 2 * k + 2  BY <1>3, <3>1, <4>1, <4>2
      <4> QED  BY <1>3, <4>3
    <3>3. PICK page : page = k + 1  OBVIOUS
    <3>4. page \in 1 .. pages  BY <1>3, <1>5, <1>10, <2>2, <3>2, <3>3
    <3>5. ASSUME NEW p \in 1 .. pages
          PROVE  (Offset(p, size) <= before /\ before < Offset(p, size) + size) <=> p = page
      <4>1. p \in Int /\ Offset(p, size) = 2 * p - 2  BY <1>10, <2>2 DEF Offset
      <4> QED  BY <1>3, <2>2, <3>2, <3>3, <4>1
    <3> QED  BY <3>4, <3>5
  <2> QED  BY <2>1, <2>2
<1>12. {p \in 1 .. Pages(rows, size) : MayBeOn(Ranks(rows, r), p, size)} = {page}  BY <1>9, <1>10, <1>11
<1> QED  BY <1>12, FS_Singleton

\* The featured matches are as many as fit, over the share of a country only if what
\* is left within a share comes after the cut, and the pages of the list leave nothing
\* out, on every table that the scraper and the cleaning scripts can leave.
THEOREM BoardAlwaysRight == ScraperSpec => []BoardIsRight
<1>1. ASSUME TableInv PROVE FeaturedSpread
  <2>1. PICK rows \in SUBSET odds : rows = Upcoming(odds, today)  BY DEF Upcoming
  <2>2. OrderedRows(rows)  BY <1>1, TableIsOrdered, SomeRows
  <2>3. PICK shown : shown = Featured(odds, today) /\ shown = Chosen(Fetched(rows))
    BY <2>1 DEF Featured
  <2> QED  BY <2>1, <2>2, <2>3, ShownOfWeek DEF FeaturedSpread
<1>2. ASSUME TableInv PROVE PagesCover
  <2> SUFFICES ASSUME NEW results \in BOOLEAN, NEW size \in 1 .. 2, NEW r \in Listed(odds, results, today),
                      Cardinality(Ranks(Listed(odds, results, today), r)) = 1
               PROVE  Cardinality({p \in 1 .. Pages(Listed(odds, results, today), size) :
                                     MayBeOn(Ranks(Listed(odds, results, today), r), p, size)}) = 1
    BY DEF PagesCover
  <2>1. PICK rows \in SUBSET odds : rows = Listed(odds, results, today)  BY DEF Listed
  <2>2. OrderedRows(rows)  BY <1>2, TableIsOrdered, SomeRows
  <2>3. r \in rows /\ Cardinality(Ranks(rows, r)) = 1  BY <2>1
  <2>4. Cardinality({p \in 1 .. Pages(rows, size) : MayBeOn(Ranks(rows, r), p, size)}) = 1
    BY <2>2, <2>3, OnePage
  <2> QED  BY <2>1, <2>4
<1>3. TableInv => BoardIsRight  BY <1>1, <1>2 DEF BoardIsRight
<1> QED  BY <1>3, TableInvariance, PTL

=============================================================================
