--------------------------- MODULE LegacyBets_proofs ----------------------------
(***************************************************************************)
(* What holds of the legacy balance and bets for any number of bets and    *)
(* sessions: what the provider did reaches the books or was cut off; the   *)
(* balance is what the transactions say while no update was lost; a bet    *)
(* that no two settlements had on their lists lives the life that          *)
(* LegacyBetLife says.                                                     *)
(***************************************************************************)
EXTENDS LegacyBets, FiniteSetTheorems, TLAPS

-----------------------------------------------------------------------------
(* The inductive invariant.                                                *)

\* Who is to call the provider will do so for a charge or a payout; the stake of
\* a bet is asked for before it is deducted, by one session.
FundsSound(p) ==
    work[p].at \in {"provider", "loaded"} =>
        LET w == work[p] IN
        /\ w.at = "provider" => ThroughProvider(w.kind)
        /\ w.kind = "deduct" <=> w.bet \in B
        /\ w.bet \in B => w.at = "loaded" /\ w.bet \notin staked
        /\ \A q \in Sessions \ {p} : w.bet \in B => ~Deducting(q, w.bet)

Settlers == {"list", "settling", "commission", "reverting"}

\* Nothing of b is left to commit in w.
Bare(w, b) == w.done[b] = "none" /\ w.new[b].won = 0 /\ w.new[b].lost = 0

\* b is in Listed of the session that stands at w.
Holds(w, b) ==
    /\ w.at \in {"settling", "commission", "reverting"}
    /\ (\E t \in w.todo : t[1] = b) \/ w.done[b] # "none"

\* Nothing is recorded of a bet whose stake was not deducted, and nobody settles
\* or reverts what is not recorded.
StakedFirst ==
    /\ \A b \in B : bet[b] # "none" => b \in staked
    /\ \A p \in Sessions, b \in B : Holds(work[p], b) => bet[b] # "none"

\* A bet is paid if and only if it is won, and announced as won at most once.
\* Here and below, status, n and pay are bet[b], ends[b] and paid[b].
BetSound(status, n, pay) ==
    /\ n.won <= 1 /\ (status # "won" => n.won = 0)
    /\ pay = IF status = "won" THEN 1 ELSE 0

\* A bet on a list is pending and there once; one that the session has settled
\* is off the list, and has or will have its transaction.
SettledSound(w, b, n) ==
    w.done[b] # "none" =>
        /\ \A t \in w.todo : t[1] # b
        /\ w.new[b].won <= 1 /\ w.new[b].lost <= 1
        /\ n.won + n.lost + w.new[b].won + w.new[b].lost >= 1
        /\ w.route = "records" /\ w.new[b].won + w.new[b].lost >= 1 => n.won = 0 /\ n.lost = 0

SettlingSound(w, b, status, n) ==
    w.at \in {"settling", "commission"} =>
        /\ \A t, u \in w.todo : t[1] = b /\ u[1] = b => t = u
        /\ Holds(w, b) => status = "pending"
        /\ w.done[b] = "none" => Bare(w, b)
        /\ w.gain[b] = IF w.done[b] = "won" THEN 1 ELSE 0
        /\ w.done[b] # "won" => w.new[b].won = 0
        /\ w.done[b] # "lost" => w.new[b].lost = 0
        /\ SettledSound(w, b, n)

\* What a revert has read of a bet is still so when it commits.
RevertingSound(w, b, status, n) ==
    w.at = "reverting" =>
        /\ w.done[b] = "none" => Bare(w, b)
        /\ w.done[b] # "none" => w.done[b] = status /\ w.new[b] = n

SessionSound(w, b, status, n) ==
    SettlingSound(w, b, status, n) /\ RevertingSound(w, b, status, n)

BetInv(b) ==
    b \notin contested =>
        /\ BetSound(bet[b], ends[b], paid[b])
        /\ \A p \in Sessions : SessionSound(work[p], b, bet[b], ends[b])
        /\ \A p \in Sessions, q \in Sessions : p # q => ~(Holds(work[p], b) /\ Holds(work[q], b))

\* The balance a session has is the one it shared last with the database, and
\* the wins it has not committed.
Wins(w) == {b \in B : w.done[b] = "won"}

Known(w) ==
    w.at \in Settlers =>
        /\ w.seen = None => Wins(w) = {}
        /\ w.seen # None =>
              w.seen = w.base + (IF w.at = "reverting" THEN 0 ELSE Win * Cardinality(Wins(w)))

MoneyKnown == contested = {} => \A p \in Sessions : Known(work[p])

\* A revert takes back no transaction that another has deleted.
Left(w, b, n) == w.at = "reverting" => w.new[b].won <= n.won /\ w.new[b].lost <= n.lost

RevertsLeft == \A p \in Sessions, b \in B : Left(work[p], b, ends[b])

\* A session that has not read its list holds nothing; a revert has read the
\* balance, and who has not shares none; only the betting records pay commissions.
Sane(w) ==
    /\ w.at = "list" => \A b \in B : Bare(w, b) /\ w.gain[b] = 0
    /\ w.at \in Settlers => (w.seen = None <=> w.base = None)
    /\ w.at = "reverting" => w.seen # None
    /\ w.at = "commission" => w.route = "records"

AllSane == \A p \in Sessions : Sane(work[p])

IInv ==
    /\ TypeOK /\ StakedFirst /\ RevertsLeft /\ AllSane
    /\ \A p \in Sessions : FundsSound(p)
    /\ \A b \in B : BetInv(b)
    /\ MoneyKnown /\ BooksBalance /\ ProviderIsBooked

-----------------------------------------------------------------------------
(* The records of the sessions.                                            *)

At(p, labels) == work[p].at \in labels

LEMMA Kind ==
    ASSUME TypeOK, NEW p \in Sessions
    PROVE  /\ At(p, Settlers) => work[p] \in Settling
           /\ At(p, {"provider", "loaded"}) => work[p] \in Active
           /\ work[p] = Idle <=> ~At(p, Settlers) /\ ~At(p, {"provider", "loaded"})
<1>1. work[p] \in Active \cup Settling \cup {Idle}  BY DEF TypeOK
<1>2. CASE work[p] \in Active  BY <1>2 DEF Active, At, Settlers, Idle
<1>3. CASE work[p] \in Settling  BY <1>3 DEF Settling, At, Settlers, Idle
<1>4. CASE work[p] = Idle  BY <1>4 DEF At, Settlers, Idle
<1> QED  BY <1>1, <1>2, <1>3, <1>4

IsFresh(f, route, seen) ==
    /\ f \in Settling
    /\ f.at = "list" /\ f.route = route /\ f.seen = seen /\ f.base = seen
    /\ f.rows = {} /\ f.todo = {}
    /\ \A b \in B : Bare(f, b) /\ f.gain[b] = 0

LEMMA FreshType ==
    ASSUME NEW route \in OwnRoutes \cup BulkRoutes \cup {"revert"}, NEW seen \in Int \cup {None}
    PROVE  IsFresh(Fresh(route, seen), route, seen)
BY DEF IsFresh, Fresh, Settling, NoEnds, Bare

LEMMA AllType ==
    ASSUME TypeOK
    PROVE  /\ All \in Settling
           /\ All.at = "settling" /\ All.route = "all" /\ All.seen = None /\ All.base = None
           /\ All.todo = {}
           /\ \A b \in B : Bare(All, b) /\ All.gain[b] = 0
<1>1. PICK f : f = Fresh("all", None)  OBVIOUS
<1>2. PICK rows : rows = {<<o, result[o]>> : o \in {o \in present : Valid(result[o])}}  OBVIOUS
<1>3. rows \in SUBSET (O \X Results)
  <2>1. \A o \in present : o \in O /\ result[o] \in Results  BY DEF TypeOK
  <2> QED  BY ONLY <1>2, <2>1
<1>4. All = [f EXCEPT !.at = "settling", !.rows = rows]  BY <1>1, <1>2 DEF All
<1>5. IsFresh(f, "all", None)  BY <1>1, FreshType DEF BulkRoutes
<1> QED  BY ONLY <1>3, <1>4, <1>5 DEF Settling, IsFresh, Bare

\* The list a session has read, and the rows it has left.
Reads(w, f, todo) ==
    /\ f \in Settling
    /\ f.at = "settling" /\ f.todo = todo /\ f.route = w.route
    /\ f.seen = w.seen /\ f.base = w.base
    /\ f.done = w.done /\ f.new = w.new /\ f.gain = w.gain

LEMMA AcceptType ==
    ASSUME NEW w \in Settling, NEW rows \in SUBSET (O \X Results),
           NEW todo \in SUBSET (B \X O \X Results), NEW f,
           f = [w EXCEPT !.at = "settling", !.rows = rows, !.todo = todo]
    PROVE  Reads(w, f, todo)
BY DEF Settling, Reads

\* A session that has settled one more bet.
LEMMA AnnouncedType ==
    ASSUME NEW n \in [won : Nat, lost : Nat], NEW outcome \in {"won", "lost"}
    PROVE  /\ Announced(n, outcome) \in [won : Nat, lost : Nat]
           /\ Announced(n, "won").won = n.won + 1 /\ Announced(n, "won").lost = n.lost
           /\ Announced(n, "lost").won = n.won /\ Announced(n, "lost").lost = n.lost + 1
BY DEF Announced

EndedAs(p, w, t, outcome, e, b, seen) ==
    /\ e \in Settling /\ e.at = w.at /\ e.route = w.route /\ e.todo = w.todo \ {t}
    /\ b \in B /\ seen \in Int
    /\ e.base = IF w.seen = None THEN funds ELSE w.base
    /\ e.seen = IF outcome = "won" THEN seen + Win ELSE seen
    /\ e.done = [w.done EXCEPT ![b] = outcome]
    /\ e.gain = [w.gain EXCEPT ![b] = IF outcome = "won" THEN @ + 1 ELSE @]
    /\ e.new = [w.new EXCEPT ![b] = IF Writes(p, b) THEN Announced(@, outcome) ELSE @]

LEMMA EndedType ==
    ASSUME TypeOK, NEW p \in Sessions, work[p] \in Settling, NEW t \in work[p].todo,
           NEW outcome \in {"won", "lost"}, NEW e, e = Ended(p, t, outcome),
           NEW w, w = work[p], NEW b, b = t[1],
           NEW seen, seen = IF w.seen = None THEN funds ELSE w.seen
    PROVE  EndedAs(p, w, t, outcome, e, b, seen)
<1>1. /\ w.todo \in SUBSET (B \X O \X Results) /\ w.seen \in Int \cup {None}
      /\ w.base \in Int \cup {None} /\ w.done \in [B -> {"none", "won", "lost"}]
      /\ w.new \in [B -> [won : Nat, lost : Nat]] /\ w.gain \in [B -> Nat]
  BY DEF Settling
<1>2. b \in B  BY <1>1
<1>3. funds \in Int /\ Win \in Nat  BY LegacyBetsAssumption DEF TypeOK, FundsTypeOK
<1>4. seen \in Int  BY <1>1, <1>3
<1>5. PICK s2 \in Int \cup {None} : s2 = IF outcome = "won" THEN seen + Win ELSE seen
  BY <1>3, <1>4
<1>6. PICK b2 \in Int \cup {None} : b2 = IF w.seen = None THEN funds ELSE w.base
  BY <1>1, <1>3
<1>7. PICK d2 \in [B -> {"none", "won", "lost"}] : d2 = [w.done EXCEPT ![b] = outcome]
  BY <1>1
<1>8. PICK g2 \in [B -> Nat] : g2 = [w.gain EXCEPT ![b] = IF outcome = "won" THEN @ + 1 ELSE @]
  <2>1. w.gain[b] \in Nat  BY ONLY <1>1, <1>2
  <2>2. PICK g \in Nat : g = IF outcome = "won" THEN w.gain[b] + 1 ELSE w.gain[b]  BY ONLY <2>1
  <2>3. [w.gain EXCEPT ![b] = g] \in [B -> Nat]  BY ONLY <1>1, <2>2
  <2> QED  BY ONLY <2>2, <2>3
<1>9. PICK n2 \in [B -> [won : Nat, lost : Nat]] :
        n2 = [w.new EXCEPT ![b] = IF Writes(p, b) THEN Announced(@, outcome) ELSE @]
  <2>1. w.new[b] \in [won : Nat, lost : Nat]  BY ONLY <1>1, <1>2
  <2>2. PICK n \in [won : Nat, lost : Nat] :
          n = IF Writes(p, b) THEN Announced(w.new[b], outcome) ELSE w.new[b]
    BY <2>1, AnnouncedType
  <2>3. [w.new EXCEPT ![b] = n] \in [B -> [won : Nat, lost : Nat]]  BY ONLY <1>1, <2>2
  <2> QED  BY ONLY <2>2, <2>3
<1>10. e = [w EXCEPT !.todo = w.todo \ {t}, !.base = b2, !.seen = s2, !.gain = g2,
                     !.done = d2, !.new = n2]
  <2>1. e = [w EXCEPT !.todo = @ \ {t},
                      !.base = IF w.seen = None THEN funds ELSE @,
                      !.seen = IF outcome = "won" THEN seen + Win ELSE seen,
                      !.gain[b] = IF outcome = "won" THEN @ + 1 ELSE @,
                      !.done[b] = outcome,
                      !.new[b] = IF Writes(p, b) THEN Announced(@, outcome) ELSE @]
    BY DEF Ended
  <2> QED  BY ONLY <2>1, <1>1, <1>5, <1>6, <1>7, <1>8, <1>9
<1>11. PICK l \in SUBSET (B \X O \X Results) : l = w.todo \ {t}  BY ONLY <1>1
<1>12. /\ e \in Settling /\ e.at = w.at /\ e.route = w.route /\ e.todo = l
       /\ e.base = b2 /\ e.seen = s2 /\ e.done = d2 /\ e.gain = g2 /\ e.new = n2
  BY ONLY <1>10, <1>11, work[p] \in Settling, w = work[p] DEF Settling
<1> QED  BY ONLY <1>2, <1>4, <1>5, <1>6, <1>7, <1>8, <1>9, <1>11, <1>12 DEF EndedAs

-----------------------------------------------------------------------------
(* Every step keeps the types.                                             *)

BetType ==
    /\ bet \in [B -> {"none", "pending", "won", "lost"}]
    /\ linked \subseteq B /\ contested \subseteq B
    /\ ends \in [B -> [won : Nat, lost : Nat]] /\ paid \in [B -> Int]

OddsType ==
    /\ present \subseteq O /\ played \subseteq O
    /\ result \in [O -> Results] /\ \A o \in O \ present : result[o] = "none"
    /\ twin \in BOOLEAN

WorkType == work \in [Sessions -> Active \cup Settling \cup {Idle}]

LEMMA Types == TypeOK <=> FundsTypeOK /\ WorkType /\ BetType /\ OddsType
BY DEF TypeOK, WorkType, BetType, OddsType

LEMMA TypesNext == TypeOK' <=> FundsTypeOK' /\ WorkType' /\ BetType' /\ OddsType'
BY DEF TypeOK, WorkType, BetType, OddsType

Put(p, w) == work' = [work EXCEPT ![p] = w]

LEMMA PutType ==
    ASSUME WorkType, NEW p \in Sessions, NEW w \in Active \cup Settling \cup {Idle}, Put(p, w)
    PROVE  /\ WorkType' /\ work'[p] = w
           /\ \A q \in Sessions \ {p} : work'[q] = work[q]
BY DEF WorkType, Put

LEMMA SameTypes ==
    /\ WorkType /\ UNCHANGED work => WorkType'
    /\ BetType /\ UNCHANGED betVars => BetType'
    /\ OddsType /\ UNCHANGED oddsVars => OddsType'
    /\ FundsTypeOK /\ UNCHANGED <<fundsVars, requests>> => FundsTypeOK'
BY DEF WorkType, BetType, OddsType, FundsTypeOK, betVars, oddsVars, fundsVars

LEMMA InitType == Init => TypeOK
<1> SUFFICES ASSUME Init PROVE TypeOK  OBVIOUS
<1> USE LegacyFundsAssumption, LegacyBetsAssumption
<1>1. FundsTypeOK
  <2>1. /\ funds = Opening /\ net = Opening /\ lock = None /\ unbooked = 0 /\ staked \in SUBSET B
        /\ requests = 0 /\ failures = 0 /\ overwritten = FALSE /\ adjusted = FALSE
    BY DEF Init, FundsInit
  <2>2. Opening \in Nat  BY LegacyFundsAssumption
  <2>3. overwritten \in BOOLEAN /\ adjusted \in BOOLEAN  BY ONLY <2>1, Zenon
  <2>4. /\ funds \in Int /\ net \in Int /\ lock \in Sessions \cup {None} /\ unbooked \in Int
        /\ staked \subseteq B /\ requests \in Nat /\ failures \in Nat
    BY ONLY <2>1, <2>2
  <2> QED  BY ONLY <2>3, <2>4 DEF FundsTypeOK
<1>2. WorkType
  <2>1. work = [p \in Sessions |-> Idle]  BY DEF Init, FundsInit
  <2> QED  BY ONLY <2>1 DEF WorkType
<1>3. BetType
  <2>1. ends \in [B -> [won : Nat, lost : Nat]]
    <3>1. CASE ends = NoEnds  BY <3>1 DEF NoEnds
    <3>2. CASE ends = [b \in B |-> [won |-> 0, lost |-> IF b \in staked THEN 2 ELSE 0]]  BY <3>2
    <3> QED  BY <3>1, <3>2 DEF Init
  <2> QED  BY <2>1 DEF Init, BetType
<1>4. OddsType
  <2>1. Row \in O /\ Other \in O /\ Row # Other /\ O = {Row, Other}  BY DEF O
  <2>2. present \subseteq O /\ played \subseteq O /\ twin \in BOOLEAN  BY <2>1 DEF Init
  <2>3. result \in [O -> Results]  BY <2>1 DEF Init, Results
  <2>4. \A o \in O \ present : result[o] = "none"  BY <2>1 DEF Init
  <2> QED  BY <2>2, <2>3, <2>4 DEF OddsType
<1> QED  BY <1>1, <1>2, <1>3, <1>4, Types

\* A request loads the user.
LEMMA LoadStep ==
    ASSUME TypeOK, NEW p \in Sessions, FundsRequest(p)
    PROVE  \E at \in {"provider", "loaded"}, kind \in Kinds, b \in B \cup {None} :
              /\ Put(p, [at |-> at, kind |-> kind, seen |-> funds, bet |-> b])
              /\ [at |-> at, kind |-> kind, seen |-> funds, bet |-> b] \in Active
              /\ Begin(p) /\ UNCHANGED fundsVars
              /\ at = "provider" => ThroughProvider(kind)
              /\ ThroughProvider(kind) => at = "provider"
              /\ kind = "deduct" <=> b \in B
              /\ b \in B => b \notin staked /\ \A q \in Sessions : ~Deducting(q, b)
<1>1. funds \in Int /\ None \notin B  BY LegacyFundsAssumption DEF TypeOK, FundsTypeOK
<1> DEFINE Result(at, kind, b) ==
        /\ Load(p, at, kind, b)
        /\ at = "provider" => ThroughProvider(kind)
        /\ ThroughProvider(kind) => at = "provider"
        /\ kind = "deduct" <=> b \in B
        /\ b \in B => b \notin staked /\ \A q \in Sessions : ~Deducting(q, b)
<1>2. \E at \in {"provider", "loaded"}, kind \in Kinds, b \in B \cup {None} : Result(at, kind, b)
  <2>1. CASE \E b \in B : DeductFunds(p, b)
    <3>1. PICK b \in B : DeductFunds(p, b)  BY <2>1
    <3>2. Result("loaded", "deduct", b)  BY <3>1 DEF DeductFunds, ThroughProvider
    <3> QED  BY <3>2 DEF Kinds
  <2>2. CASE ProcessCard(p)
    <3>1. Result("provider", "charge", None)  BY <1>1, <2>2 DEF ProcessCard, ThroughProvider
    <3> QED  BY <3>1 DEF Kinds
  <2>3. CASE SimulateCard(p) \/ ProcessBankTransfer(p) \/ ProcessPaypal(p) \/ AddFunds(p)
    <3>1. Result("loaded", "deposit", None)
      BY <1>1, <2>3 DEF SimulateCard, ProcessBankTransfer, ProcessPaypal, AddFunds, ThroughProvider
    <3> QED  BY <3>1 DEF Kinds
  <2>4. CASE ConfirmCrypto(p)
    <3>1. Result("loaded", "confirm", None)  BY <1>1, <2>4 DEF ConfirmCrypto, ThroughProvider
    <3> QED  BY <3>1 DEF Kinds
  <2>5. CASE WithdrawCrypto(p) \/ WithdrawPaypal(p)
    <3>1. Result("loaded", "withdraw", None)
      BY <1>1, <2>5 DEF WithdrawCrypto, WithdrawPaypal, ThroughProvider
    <3> QED  BY <3>1 DEF Kinds
  <2>6. CASE WithdrawToCard(p) \/ WithdrawToBank(p)
    <3>1. Result(Payout, "payout", None)
      BY <1>1, <2>6 DEF WithdrawToCard, WithdrawToBank, ThroughProvider, Payout
    <3> QED  BY <3>1 DEF Kinds, Payout
  <2>7. CASE AdjustFunds(p)
    <3>1. Result("loaded", "adjust", None)  BY <1>1, <2>7 DEF AdjustFunds, ThroughProvider
    <3> QED  BY <3>1 DEF Kinds
  <2> QED  BY <2>1, <2>2, <2>3, <2>4, <2>5, <2>6, <2>7 DEF FundsRequest
<1>3. PICK at \in {"provider", "loaded"}, kind \in Kinds, b \in B \cup {None} : Result(at, kind, b)
  BY <1>2
<1>4. [at |-> at, kind |-> kind, seen |-> funds, bet |-> b] \in Active  BY <1>1 DEF Active
<1> QED  BY <1>3, <1>4 DEF Load, Put

LEMMA FundsTypes ==
    ASSUME TypeOK, NEW p \in Sessions, FundsSound(p), FundsRequest(p) \/ FundsStep(p) \/ Fail(p)
    PROVE  FundsTypeOK' /\ WorkType'
<1> USE DEF FundsTypeOK
<1>0. FundsTypeOK /\ WorkType  BY Types
<1>1. CASE FundsRequest(p)
  <2>1. PICK x \in Active : Put(p, x) /\ Begin(p) /\ UNCHANGED fundsVars  BY <1>1, LoadStep
  <2>2. WorkType'  BY <1>0, <2>1, PutType
  <2> QED  BY <1>0, <2>1, <2>2 DEF Begin, fundsVars
<1>2. CASE Provide(p)
  <2>1. work[p] \in Active  BY <1>2, Kind DEF Provide, At
  <2>2. PICK x \in Active : x = [work[p] EXCEPT !.at = "loaded"]  BY ONLY <2>1 DEF Active
  <2>3. WorkType'  BY <1>0, <1>2, <2>2, PutType DEF Provide, Put
  <2> QED  BY <1>0, <1>2, <2>3 DEF Provide
<1>3. CASE UpdateUser(p)
  <2>1. work[p] \in Active  BY <1>3, Kind DEF UpdateUser, At
  <2>2. /\ work[p].seen \in Int /\ Delta(work[p].kind) \in Int /\ Booked(work[p].kind) \in Int
        /\ work[p].kind = "deduct" => work[p].bet \in B
    BY <1>3, <2>1 DEF Active, Delta, Booked, FundsSound, UpdateUser
  <2>3. WorkType'  BY <1>0, <1>3, PutType DEF UpdateUser, Put
  <2> QED  BY <1>0, <1>3, <2>1, <2>2, <2>3 DEF UpdateUser
<1>4. CASE Fail(p)
  <2>1. WorkType'  BY <1>0, <1>4, PutType DEF Fail, Abort, Put
  <2> QED  BY <1>0, <1>4, <2>1 DEF Fail, Abort
<1> QED  BY <1>1, <1>2, <1>3, <1>4 DEF FundsStep

LEMMA OddsTypes ==
    ASSUME TypeOK,
           \/ \E o \in O : KickOff(o) \/ ClearInvalid(o)
           \/ \E o \in O, r \in Results \ {"garbage"} : Scrape(o, r)
    PROVE  TypeOK'
<1>0. FundsTypeOK /\ WorkType /\ BetType /\ OddsType  BY Types
<1>1. UNCHANGED <<funds, net, lock, unbooked, staked, overwritten, adjusted, work, requests, betVars>>
      /\ failures' \in Nat
  BY <1>0 DEF KickOff, ClearInvalid, Scrape, Read, fundsVars, FundsTypeOK
<1>2. FundsTypeOK' /\ WorkType' /\ BetType'
  BY <1>0, <1>1, SameTypes DEF FundsTypeOK
<1>3. OddsType'
  <2>1. CASE \E o \in O : KickOff(o)  BY <1>0, <2>1 DEF KickOff, OddsType
  <2>2. CASE \E o \in O : ClearInvalid(o)  BY <1>0, <2>2 DEF ClearInvalid, OddsType, Results
  <2>3. CASE \E o \in O, r \in Results \ {"garbage"} : Scrape(o, r)
    <3>1. PICK o \in O, r \in Results : Scrape(o, r)  BY <2>3
    <3>2. /\ present' \subseteq O /\ o \in present' /\ present \subseteq present'
          /\ result' = [result EXCEPT ![o] = r]
      BY <1>0, <3>1 DEF Scrape, OddsType
    <3> QED  BY <1>0, <3>1, <3>2 DEF OddsType, Scrape
  <2> QED  BY <2>1, <2>2, <2>3
<1> QED  BY <1>2, <1>3, TypesNext

\* A session that begins to settle or to revert has nothing of a bet yet, or has
\* read all of it; one that has read a list has the bets that are pending.
Begun(p, f) ==
    /\ f \in Settling /\ Put(p, f)
    /\ UNCHANGED <<fundsVars, betVars, oddsVars>>
    /\ requests' \in Nat
    /\ f.at \in {"list", "settling"} /\ f.todo = {}
    /\ f.seen = f.base
    /\ \A b \in B : Bare(f, b) /\ f.gain[b] = 0

LEMMA Begins ==
    ASSUME TypeOK, NEW p \in Sessions,
           \/ \E route \in OwnRoutes : BeginOwn(p, route)
           \/ \E route \in {"finished", "specific"} : BeginBulk(p, route)
           \/ BeginAll(p) \/ (RunDaily /\ p = Daily)
    PROVE  (\E f : Begun(p, f)) /\ work[p] = Idle
<1>0. funds \in Int /\ requests \in Nat  BY DEF TypeOK, FundsTypeOK
<1>1. CASE \/ \E route \in OwnRoutes : BeginOwn(p, route)
           \/ \E route \in {"finished", "specific"} : BeginBulk(p, route)
  <2>1. PICK route \in OwnRoutes \cup BulkRoutes, seen \in Int \cup {None} :
          Begin(p) /\ Start(p, Fresh(route, seen))
    BY <1>0, <1>1 DEF BeginOwn, BeginBulk, BulkRoutes
  <2>2. IsFresh(Fresh(route, seen), route, seen)  BY FreshType
  <2>3. PICK f : f = Fresh(route, seen)  OBVIOUS
  <2>4. Begun(p, f)  BY <1>0, <2>1, <2>2, <2>3 DEF Begun, IsFresh, Begin, Start, Put
  <2> QED  BY <2>1, <2>4 DEF Begin
<1>2. CASE BeginAll(p) \/ (RunDaily /\ p = Daily)
  <2>1. Start(p, All) /\ requests' \in Nat /\ work[p] = Idle
    BY <1>0, <1>2 DEF BeginAll, RunDaily, Begin
  <2> QED  BY <2>1, AllType DEF Begun, Start, Put
<1> QED  BY <1>1, <1>2

\* A session has read bets: they are pending, and it has not settled them.
Lists(p, f, todo) ==
    /\ work[p] \in Settling /\ Put(p, f)
    /\ work[p].at = "list" \/ (work[p].at = "settling" /\ work[p].todo = {})
    /\ Reads(work[p], f, todo)
    /\ \A t \in todo : bet[t[1]] = "pending" /\ (work[p].at = "settling" => work[p].done[t[1]] = "none")
    /\ Contest(p, todo)
    /\ UNCHANGED <<funds, net, unbooked, staked, requests, failures, overwritten, adjusted,
                   bet, linked, ends, paid, oddsVars>>
    /\ lock' \in {lock, p}

LEMMA ListsSteps ==
    ASSUME TypeOK, NEW p \in Sessions,
           ListOwn(p) \/ ListFinished(p) \/ ListSpecific(p) \/ ListRow(p)
    PROVE  \E f, todo : Lists(p, f, todo)
<1>0. work[p] \in Settling
  BY Kind DEF ListOwn, ListFinished, ListSpecific, ListRow, At, Settlers
<1>1. present \subseteq O /\ result \in [O -> Results] /\ "none" \in Results
  BY DEF TypeOK, Results
<1>2. Pending \subseteq B /\ \A b \in Pending : bet[b] = "pending"  BY DEF Pending
<1>3. PICK rows \in SUBSET (O \X Results) : rows = work[p].rows  BY <1>0 DEF Settling
<1>4. ASSUME NEW todo, Accept(p, todo), work[p].at = "list",
             todo \in SUBSET (B \X O \X Results), \A t \in todo : bet[t[1]] = "pending"
      PROVE  \E f, l : Lists(p, f, l)
  <2>1. PICK w \in Settling : w = work[p] /\ w.rows = rows  BY <1>0, <1>3
  <2>2. PICK f : f = [w EXCEPT !.at = "settling", !.todo = todo]  OBVIOUS
  <2>3. f = [w EXCEPT !.at = "settling", !.rows = rows, !.todo = todo]
    BY ONLY <2>1, <2>2 DEF Settling
  <2>4. Reads(w, f, todo)  BY ONLY <2>3, <1>4, AcceptType
  <2>5. Put(p, f)  BY <1>4, <2>1, <2>2 DEF Accept, Put
  <2> QED  BY <1>4, <2>1, <2>4, <2>5 DEF Lists, Accept, fundsVars
<1>5. CASE ListOwn(p)
  <2>1. PICK todo : todo = UNION {{<<b, o, "none">> : o \in Found(b)} : b \in Pending}  OBVIOUS
  <2>2. \A b \in B : Found(b) \subseteq O  BY <1>1 DEF Found, O
  <2>3. \A t \in todo : \E b \in Pending, o \in O : t = <<b, o, "none">>  BY <1>2, <2>1, <2>2
  <2>4. todo \in SUBSET (B \X O \X Results)  BY <1>1, <1>2, <2>3
  <2>5. \A t \in todo : bet[t[1]] = "pending"  BY <1>2, <2>3
  <2> QED  BY <1>4, <1>5, <2>1, <2>4, <2>5 DEF ListOwn
<1>6. CASE ListFinished(p) \/ ListSpecific(p)
  <2>1. PICK from \in SUBSET O : ListJoined(p, from)
    BY <1>1, <1>6 DEF ListFinished, ListSpecific, WithResult
  <2> DEFINE todo == {t \in {<<b, o, result[o]>> : b \in Pending, o \in from} : Joins(t[1], t[2])}
  <2>3. \A t \in todo : \E b \in Pending, o \in O : t = <<b, o, result[o]>>  OBVIOUS
  <2>4. todo \in SUBSET (B \X O \X Results)  BY <1>1, <1>2, <2>3
  <2>5. \A t \in todo : bet[t[1]] = "pending"  BY <1>2, <2>3
  <2>6. Accept(p, todo) /\ work[p].at = "list"  BY <1>6, <2>1 DEF ListJoined, ListFinished, ListSpecific
  <2> HIDE DEF todo
  <2> QED  BY <1>4, <2>4, <2>5, <2>6
<1>7. CASE ListRow(p)
  <2>0. PICK row \in rows :
          LET list == {<<b, row[1], row[2]>> : b \in {b \in Pending : work[p].done[b] = "none"}} IN
          /\ work' = [work EXCEPT ![p].rows = @ \ {row}, ![p].todo = list]
          /\ Contest(p, list)
    BY <1>3, <1>7 DEF ListRow
  <2>1. PICK todo :
          /\ todo = {<<b, row[1], row[2]>> : b \in {b \in Pending : work[p].done[b] = "none"}}
          /\ work' = [work EXCEPT ![p].rows = @ \ {row}, ![p].todo = todo]
          /\ Contest(p, todo)
    BY <2>0
  <2>2. row[1] \in O /\ row[2] \in Results  OBVIOUS
  <2>3. \A t \in todo : \E b \in Pending : t = <<b, row[1], row[2]>> /\ work[p].done[b] = "none"
    BY <2>1
  <2>4. todo \in SUBSET (B \X O \X Results)  BY <1>2, <2>2, <2>3
  <2>5. \A t \in todo : bet[t[1]] = "pending" /\ work[p].done[t[1]] = "none"  BY <1>2, <2>3
  <2>6. PICK w \in Settling : w = work[p] /\ w.rows = rows /\ w.at = "settling"
    BY <1>0, <1>3, <1>7 DEF ListRow
  <2>7. PICK f : f = [w EXCEPT !.rows = rows \ {row}, !.todo = todo]  OBVIOUS
  <2>8. f = [w EXCEPT !.at = "settling", !.rows = rows \ {row}, !.todo = todo]
    BY ONLY <2>6, <2>7 DEF Settling
  <2>9. rows \ {row} \in SUBSET (O \X Results)  OBVIOUS
  <2>10. Reads(w, f, todo)  BY ONLY <2>4, <2>8, <2>9, AcceptType
  <2>11. Put(p, f)  BY <2>1, <2>6, <2>7 DEF Put
  <2>12. lock' \in {lock, p}  BY <1>7 DEF ListRow, Held
  <2> QED  BY <1>7, <2>1, <2>5, <2>6, <2>10, <2>11, <2>12 DEF Lists, ListRow
<1> QED  BY <1>5, <1>6, <1>7

\* A session passes over a bet, or settles it.
PassesOver(p, t, f) ==
    /\ f \in Settling /\ f.at = "settling" /\ f.route = work[p].route
    /\ f.todo = work[p].todo \ {t} /\ f.seen = work[p].seen /\ f.base = work[p].base
    /\ f.done = work[p].done /\ f.new = work[p].new /\ f.gain = work[p].gain

SettledAs(p, w, t, outcome, b, seen, f) ==
    /\ b = t[1]
    /\ f \in Settling /\ f.at \in {"settling", "commission"} /\ f.route = w.route
    /\ f.at = "commission" => f.route = "records"
    /\ f.todo = w.todo \ {t}
    /\ seen = IF w.seen = None THEN funds ELSE w.seen
    /\ f.base = IF w.seen = None THEN funds ELSE w.base
    /\ f.seen = IF outcome = "won" THEN seen + Win ELSE seen
    /\ f.done = [w.done EXCEPT ![b] = outcome]
    /\ f.gain = [w.gain EXCEPT ![b] = IF outcome = "won" THEN @ + 1 ELSE @]
    /\ f.new = [w.new EXCEPT ![b] = IF Writes(p, b) THEN Announced(@, outcome) ELSE @]
    /\ w.route = "records" => Seen(p, b) <= 1

Settles(p, t, f) ==
    \E outcome \in {"won", "lost"}, b \in B, seen \in Int :
        SettledAs(p, work[p], t, outcome, b, seen, f)

Worked(p, t, f) ==
    /\ work[p] \in Settling /\ work[p].at = "settling" /\ t \in work[p].todo /\ Put(p, f)
    /\ PassesOver(p, t, f) \/ Settles(p, t, f)
    /\ lock' \in {lock, p}
    /\ UNCHANGED <<funds, net, unbooked, staked, requests, failures, overwritten,
                   adjusted, betVars, oddsVars>>

LEMMA SettleSteps ==
    ASSUME TypeOK, NEW p \in Sessions, work[p].at = "settling", NEW t \in work[p].todo, Settle(p, t)
    PROVE  \E f : Worked(p, t, f)
<1>0. work[p] \in Settling  BY Kind DEF At, Settlers
<1>1. PICK w \in Settling : w = work[p] /\ w.at = "settling" /\ t \in w.todo  BY <1>0
<1>2. CASE Accepted(p, t)
  <2>1. PICK outcome \in {"won", "lost"} :
          \E e : /\ e = Ended(p, t, outcome)
                 /\ work' = [work EXCEPT ![p] = IF Pays(p, t, outcome)
                                               THEN [e EXCEPT !.at = "commission"] ELSE e]
    BY <1>2 DEF Settle, Outcome
  <2>2. PICK e : /\ e = Ended(p, t, outcome)
                 /\ work' = [work EXCEPT ![p] = IF Pays(p, t, outcome)
                                               THEN [e EXCEPT !.at = "commission"] ELSE e]
    BY <2>1
  <2>3. PICK b : b = t[1]  OBVIOUS
  <2>4. PICK seen : seen = IF w.seen = None THEN funds ELSE w.seen  OBVIOUS
  <2>5. EndedAs(p, w, t, outcome, e, b, seen)
    <3>1. TypeOK /\ p \in Sessions /\ work[p] \in Settling /\ t \in work[p].todo
      BY <1>0, <1>1
    <3> QED  BY ONLY <1>1, <2>2, <2>3, <2>4, <3>1, EndedType
  <2>6. PICK f : f = IF Pays(p, t, outcome) THEN [e EXCEPT !.at = "commission"] ELSE e  OBVIOUS
  <2>7. /\ f \in Settling /\ f.at \in {"settling", "commission"} /\ f.route = e.route
        /\ f.at = "commission" => Pays(p, t, outcome)
        /\ f.todo = e.todo /\ f.base = e.base /\ f.seen = e.seen
        /\ f.done = e.done /\ f.gain = e.gain /\ f.new = e.new
    BY ONLY <1>1, <2>5, <2>6 DEF Settling, EndedAs
  <2>8. Pays(p, t, outcome) => w.route = "records"  BY <1>1 DEF Pays
  <2>9. w.route = "records" => Seen(p, b) <= 1  BY <1>1, <1>2, <2>3 DEF Settle
  <2>10. Settles(p, t, f)
    <3>1. SettledAs(p, w, t, outcome, b, seen, f)
      BY ONLY <2>3, <2>4, <2>5, <2>7, <2>8, <2>9 DEF SettledAs, EndedAs
    <3>2. b \in B /\ seen \in Int  BY ONLY <2>5 DEF EndedAs
    <3> QED  BY ONLY <1>1, <3>1, <3>2 DEF Settles
  <2>11. Put(p, f)  BY <2>2, <2>6 DEF Put
  <2>12. lock' \in {lock, p}  BY <1>2 DEF Settle
  <2> QED  BY <1>0, <1>1, <2>10, <2>11, <2>12 DEF Worked, Settle
<1>3. CASE ~Accepted(p, t)
  <2>1. PICK f : f = [w EXCEPT !.todo = @ \ {t}]  OBVIOUS
  <2>2. PICK todo \in SUBSET (B \X O \X Results) : todo = w.todo \ {t}  BY <1>1 DEF Settling
  <2>3. PassesOver(p, t, f)
    <3>1. f = [w EXCEPT !.todo = todo]  BY ONLY <2>1, <2>2
    <3> QED  BY ONLY <1>1, <2>2, <3>1 DEF PassesOver, Settling
  <2>4. Put(p, f) /\ UNCHANGED lock  BY <1>1, <1>3, <2>1 DEF Settle, Put
  <2> QED  BY <1>0, <1>1, <1>3, <2>3, <2>4 DEF Worked, Settle
<1> QED  BY <1>2, <1>3

\* A session commits the bets that done says, and ends, or goes on after a
\* commission with one lost bet that is announced and not marked.
GoesOn(w, done, f) ==
    \E a \in B :
        /\ w.at = "commission" /\ w.done[a] = "lost" /\ w.new[a].lost = 1
        /\ done = [w.done EXCEPT ![a] = "none"]
        /\ f \in Settling /\ f.at = "settling" /\ f.route = "records" /\ f.todo = w.todo
        /\ f.seen = w.seen /\ f.base = w.seen
        /\ f.done = [b \in B |-> IF b = a THEN "lost" ELSE "none"]
        /\ \A b \in B : f.new[b].won = 0 /\ f.new[b].lost = 0 /\ f.gain[b] = 0

Commits(p, w, done, f) ==
    /\ w = work[p] /\ w \in Settling /\ w.at \in {"settling", "commission"}
    /\ done \in [B -> {"none", "won", "lost"}]
    /\ Put(p, f)
    /\ (f = Idle /\ done = w.done) \/ GoesOn(w, done, f)
    /\ bet' = [b \in B |-> IF done[b] = "none" THEN bet[b] ELSE done[b]]
    /\ ends' = [b \in B |-> [won |-> ends[b].won + w.new[b].won,
                             lost |-> ends[b].lost + w.new[b].lost]]
    /\ paid' = [b \in B |-> paid[b] + w.gain[b]]
    /\ net' = net + Winnings([b \in B |-> w.new[b].won])
    /\ funds' = IF w.seen # w.base THEN w.seen ELSE funds
    /\ overwritten' = (overwritten \/ (w.seen # w.base /\ funds # w.base))
    /\ lock' \in {lock, None}
    /\ UNCHANGED <<unbooked, staked, requests, failures, adjusted, linked, contested, oddsVars>>

LEMMA CommitSteps ==
    ASSUME TypeOK, AllSane, NEW p \in Sessions, Commission(p) \/ Finish(p)
    PROVE  \E w, done, f : Commits(p, w, done, f)
<1>0. work[p] \in Settling  BY Kind DEF At, Settlers, Commission, Finish
<1>1. PICK w \in Settling : w = work[p]  BY <1>0
<1>2. CASE Finish(p)
  <2>1. PICK done \in [B -> {"none", "won", "lost"}] : done = w.done  BY <1>1 DEF Settling
  <2>2. Put(p, Idle)  BY <1>2 DEF Finish, Put
  <2>3. Flush(p, w) /\ w.at = "settling"  BY <1>1, <1>2 DEF Finish
  <2>4. lock' \in {lock, None}  BY <2>3 DEF Flush
  <2>5. UNCHANGED <<unbooked, staked, requests, failures, adjusted, linked, contested, oddsVars>>
    BY <1>2 DEF Finish
  <2>6. Commits(p, w, done, Idle)
    BY ONLY <1>1, <2>1, <2>2, <2>3, <2>4, <2>5 DEF Commits, Flush, Dirty
  <2> QED  BY <2>6
<1>3. CASE Commission(p)
  <2>1. PICK a \in B :
          /\ w.new[a].lost = 1 /\ w.done[a] = "lost"
          /\ Flush(p, [w EXCEPT !.done[a] = "none"])
          /\ work' = [work EXCEPT ![p] = [Fresh("records", w.seen) EXCEPT
                                             !.at = "settling", !.todo = w.todo, !.done[a] = "lost"]]
          /\ w.at = "commission"
    BY <1>1, <1>3 DEF Commission
  <2>2. PICK done \in [B -> {"none", "won", "lost"}] : done = [w.done EXCEPT ![a] = "none"]
    <3>1. w.done \in [B -> {"none", "won", "lost"}]  BY DEF Settling
    <3> QED  BY ONLY <3>1
  <2>3. PICK v : v = [w EXCEPT !.done[a] = "none"]  OBVIOUS
  <2>4. /\ v.done = done /\ v.new = w.new /\ v.gain = w.gain /\ v.seen = w.seen /\ v.base = w.base
    BY ONLY <1>1, <2>2, <2>3 DEF Settling
  <2>5. PICK g : g = Fresh("records", w.seen)  OBVIOUS
  <2>6. IsFresh(g, "records", w.seen)
    <3>1. w.seen \in Int \cup {None}  BY DEF Settling
    <3> QED  BY <2>5, <3>1, FreshType DEF OwnRoutes
  <2>7. PICK f : f = [g EXCEPT !.at = "settling", !.todo = w.todo, !.done[a] = "lost"]  OBVIOUS
  <2>8. PICK d \in [B -> {"none", "won", "lost"}] : d = [b \in B |-> IF b = a THEN "lost" ELSE "none"]
    OBVIOUS
  <2>9. g.done \in [B -> {"none", "won", "lost"}] /\ \A b \in B : g.done[b] = "none"
    BY <2>6 DEF IsFresh, Settling, Bare
  <2>10. d = [g.done EXCEPT ![a] = "lost"]  BY ONLY <2>8, <2>9
  <2>11. f = [g EXCEPT !.at = "settling", !.todo = w.todo, !.done = d]  BY ONLY <2>7, <2>10
  <2>12. w.todo \in SUBSET (B \X O \X Results)  BY DEF Settling
  <2>13. /\ f \in Settling /\ f.at = "settling" /\ f.route = "records" /\ f.todo = w.todo
         /\ f.seen = w.seen /\ f.base = w.seen /\ f.done = d
         /\ f.new = g.new /\ f.gain = g.gain
    BY ONLY <2>6, <2>11, <2>12, d \in [B -> {"none", "won", "lost"}] DEF IsFresh, Settling
  <2>14. \A b \in B : f.new[b].won = 0 /\ f.new[b].lost = 0 /\ f.gain[b] = 0
    BY <2>6, <2>13 DEF IsFresh, Bare
  <2>15. GoesOn(w, done, f)  BY <2>1, <2>2, <2>8, <2>13, <2>14 DEF GoesOn
  <2>16. Put(p, f)  BY <2>1, <2>5, <2>7 DEF Put
  <2>17. Flush(p, v)  BY <2>1, <2>3
  <2>18. lock' \in {lock, None}  BY <2>17 DEF Flush
  <2>19. /\ bet' = [b \in B |-> IF done[b] = "none" THEN bet[b] ELSE done[b]]
         /\ ends' = [b \in B |-> [won |-> ends[b].won + w.new[b].won,
                                  lost |-> ends[b].lost + w.new[b].lost]]
         /\ paid' = [b \in B |-> paid[b] + w.gain[b]]
         /\ net' = net + Winnings([b \in B |-> w.new[b].won])
         /\ funds' = IF w.seen # w.base THEN w.seen ELSE funds
         /\ overwritten' = (overwritten \/ (w.seen # w.base /\ funds # w.base))
    BY ONLY <2>4, <2>17 DEF Flush, Dirty
  <2>20. UNCHANGED <<unbooked, staked, requests, failures, adjusted, linked, contested, oddsVars>>
    BY <1>3 DEF Commission
  <2>21. Commits(p, w, done, f)
    BY ONLY <1>1, <2>1, <2>2, <2>15, <2>16, <2>18, <2>19, <2>20 DEF Commits
  <2> QED  BY <2>21
<1> QED  BY <1>2, <1>3

\* A revert has read the bets it takes back.
RevertBegun(p, f) ==
    /\ f \in Settling /\ Put(p, f) /\ work[p] = Idle
    /\ f.at = "reverting" /\ f.todo = {} /\ f.seen = funds /\ f.base = funds
    /\ \A b \in B : \/ f.done[b] = "none" /\ Bare(f, b)
                    \/ f.done[b] = bet[b] /\ bet[b] \in {"won", "lost"} /\ f.new[b] = ends[b]
    /\ Contest(p, {<<b, Row, "none">> : b \in {b \in B : f.done[b] # "none"}})
    /\ requests' \in Nat
    /\ UNCHANGED <<fundsVars, bet, linked, ends, paid, oddsVars>>

LEMMA RevertBegins ==
    ASSUME TypeOK, NEW p \in Sessions, BeginRevert(p)
    PROVE  \E f : RevertBegun(p, f)
<1>0. /\ funds \in Int /\ requests \in Nat /\ bet \in [B -> {"none", "pending", "won", "lost"}]
      /\ ends \in [B -> [won : Nat, lost : Nat]]
  BY DEF TypeOK, FundsTypeOK
<1>1. PICK wrong : wrong = {b \in B : bet[b] \in {"won", "lost"} /\ Row \notin played}  OBVIOUS
<1>2. PICK g : g = Fresh("revert", funds)  OBVIOUS
<1>3. IsFresh(g, "revert", funds)  BY <1>0, <1>2, FreshType
<1>4. PICK d \in [B -> {"none", "won", "lost"}] :
        d = [b \in B |-> IF b \in wrong THEN bet[b] ELSE "none"]
  BY <1>0, <1>1
<1>5. PICK n \in [B -> [won : Nat, lost : Nat]] :
        n = [b \in B |-> IF b \in wrong THEN ends[b] ELSE NoEnds[b]]
  <2>1. \A b \in B : ends[b] \in [won : Nat, lost : Nat] /\ NoEnds[b] \in [won : Nat, lost : Nat]
    BY <1>0 DEF NoEnds
  <2> QED  BY ONLY <2>1
<1>6. PICK f : f = [g EXCEPT !.at = "reverting", !.done = d, !.new = n]  OBVIOUS
<1>7. /\ f \in Settling /\ f.at = "reverting" /\ f.todo = {} /\ f.seen = funds /\ f.base = funds
      /\ f.done = d /\ f.new = n
  BY ONLY <1>3, <1>6, d \in [B -> {"none", "won", "lost"}], n \in [B -> [won : Nat, lost : Nat]]
     DEF IsFresh, Settling
<1>8. \A b \in B : \/ f.done[b] = "none" /\ Bare(f, b)
                   \/ f.done[b] = bet[b] /\ bet[b] \in {"won", "lost"} /\ f.new[b] = ends[b]
  BY <1>1, <1>4, <1>5, <1>7 DEF NoEnds, Bare
<1>9. wrong = {b \in B : f.done[b] # "none"}  BY <1>1, <1>4, <1>7
<1>10. /\ Begin(p) /\ Contest(p, {<<b, Row, "none">> : b \in wrong})
       /\ Put(p, f) /\ UNCHANGED <<fundsVars, bet, linked, ends, paid, oddsVars>>
  BY <1>1, <1>2, <1>4, <1>5, <1>6 DEF BeginRevert, Put
<1>11. RevertBegun(p, f)  BY <1>0, <1>7, <1>8, <1>9, <1>10 DEF RevertBegun, Begin
<1> QED  BY <1>11

\* A settlement or a daily job that gives up.
GivesUp(p) ==
    /\ work[p] \in Settling /\ Put(p, Idle) /\ lock' \in {lock, None}
    /\ UNCHANGED <<funds, net, unbooked, staked, requests, failures, overwritten, adjusted,
                   betVars, oddsVars>>

LEMMA RaiseGivesUp ==
    ASSUME TypeOK, NEW p \in Sessions, work[p].at = "settling", NEW t, Raise(p, t)
    PROVE  GivesUp(p)
<1>1. work[p] \in Settling  BY Kind DEF At, Settlers
<1> QED  BY <1>1 DEF GivesUp, Raise, Abort, Put

\* Some step of a session that settles.
SettlerStep(p) ==
    \/ \E f : Begun(p, f) /\ work[p] = Idle
    \/ \E f, todo : Lists(p, f, todo)
    \/ \E t, f : Worked(p, t, f)
    \/ GivesUp(p)
    \/ \E w, done, f : Commits(p, w, done, f)
    \/ \E f : RevertBegun(p, f)
    \/ Revert(p)

OddsStep ==
    /\ UNCHANGED <<funds, net, lock, unbooked, staked, overwritten, adjusted, work, requests, betVars>>
    /\ failures' \in {failures, failures + 1} /\ OddsType'

FundsOnly(p) ==
    (FundsRequest(p) \/ FundsStep(p) \/ Fail(p)) /\ UNCHANGED <<betVars, oddsVars>>

LEMMA NextCases ==
    ASSUME TypeOK, AllSane, [Next]_vars
    PROVE  \/ \E p \in Sessions : FundsOnly(p) \/ SettlerStep(p)
           \/ \E b \in B : CreateRecord(b)
           \/ OddsStep
<1>0. OddsType /\ failures \in Nat  BY Types DEF FundsTypeOK
<1>1. CASE UNCHANGED vars
  <2>1. UNCHANGED <<funds, net, lock, unbooked, staked, overwritten, adjusted, work, requests, betVars>>
        /\ UNCHANGED failures /\ UNCHANGED oddsVars
    BY <1>1 DEF vars, fundsVars
  <2> QED  BY <1>0, <2>1, SameTypes DEF OddsStep
<1>2. ASSUME NEW p \in Sessions, FundsRequest(p) /\ UNCHANGED <<betVars, oddsVars>>
      PROVE  FundsOnly(p)
  BY <1>2 DEF FundsOnly
<1>3. ASSUME NEW p \in Sessions, (FundsStep(p) \/ Fail(p)) /\ UNCHANGED <<betVars, oddsVars>>
      PROVE  FundsOnly(p)
  BY <1>3 DEF FundsOnly
<1>4. ASSUME NEW p \in Sessions, SettlementRequest(p)  PROVE SettlerStep(p)
  <2>1. CASE BeginRevert(p)  BY <2>1, RevertBegins DEF SettlerStep
  <2>2. CASE ~BeginRevert(p)  BY <1>4, <2>2, Begins DEF SettlementRequest, SettlerStep
  <2> QED  BY <2>1, <2>2
<1>5. ASSUME NEW p \in Sessions, SettlementStep(p)  PROVE SettlerStep(p)
  <2>1. CASE ListOwn(p) \/ ListFinished(p) \/ ListSpecific(p) \/ ListRow(p)
    BY <2>1, ListsSteps DEF SettlerStep
  <2>2. CASE work[p].at = "settling" /\ \E t \in work[p].todo : Settle(p, t) \/ Raise(p, t)
    <3>1. PICK t \in work[p].todo : Settle(p, t) \/ Raise(p, t)  BY <2>2
    <3>2. CASE Settle(p, t)  BY <2>2, <3>2, SettleSteps DEF SettlerStep
    <3>3. CASE Raise(p, t)  BY <2>2, <3>3, RaiseGivesUp DEF SettlerStep
    <3> QED  BY <3>1, <3>2, <3>3
  <2>3. CASE Commission(p) \/ Finish(p)  BY <2>3, CommitSteps DEF SettlerStep
  <2>4. CASE Revert(p)  BY <2>4 DEF SettlerStep
  <2> QED  BY <1>5, <2>1, <2>2, <2>3, <2>4 DEF SettlementStep
<1>6. ASSUME RunDaily  PROVE SettlerStep(Daily)
  BY <1>6, Begins, LegacyBetsAssumption DEF SettlerStep
<1>7. ASSUME \/ \E o \in O : KickOff(o) \/ ClearInvalid(o)
             \/ \E o \in O, r \in Results \ {"garbage"} : Scrape(o, r)
      PROVE  OddsStep
  <2>1. OddsType'  BY <1>7, OddsTypes, TypesNext
  <2>2. UNCHANGED <<funds, net, lock, unbooked, staked, overwritten, adjusted, work, requests, betVars>>
        /\ failures' \in {failures, failures + 1}
    BY <1>7 DEF KickOff, ClearInvalid, Scrape, Read, fundsVars
  <2> QED  BY <2>1, <2>2 DEF OddsStep
<1>8. CASE Next
  BY <1>2, <1>3, <1>4, <1>5, <1>6, <1>7, <1>8, LegacyBetsAssumption DEF Next
<1> QED  BY <1>1, <1>8

LEMMA LessType ==
    ASSUME NEW new \in [B -> [won : Nat, lost : Nat]], NEW gone \in [B -> [won : Nat, lost : Nat]]
    PROVE  /\ Less(new, gone) \in [B -> [won : Nat, lost : Nat]]
           /\ \A b \in B :
                /\ Less(new, gone)[b].won =
                      IF new[b].won > gone[b].won THEN new[b].won - gone[b].won ELSE 0
                /\ Less(new, gone)[b].lost =
                      IF new[b].lost > gone[b].lost THEN new[b].lost - gone[b].lost ELSE 0
<1>1. \A b \in B : new[b] \in [won : Nat, lost : Nat] /\ gone[b] \in [won : Nat, lost : Nat]
  OBVIOUS
<1>2. ASSUME NEW x \in Nat, NEW y \in Nat  PROVE (IF x > y THEN x - y ELSE 0) \in Nat
  OBVIOUS
<1> QED  BY <1>1, <1>2 DEF Less

LEMMA WinningsType ==
    ASSUME NEW f \in [B -> Nat]
    PROVE  Winnings(f) \in Nat
<1>1. Win \in Nat /\ IsFiniteSet(B)  BY LegacyBetsAssumption, LegacyFundsAssumption
<1> DEFINE F == [b \in B |-> {b} \X (1..f[b])]
           S == {{b} \X (1..f[b]) : b \in B}
<1>2. F \in Surjection(B, S)
  <2>1. F \in [B -> S]  OBVIOUS
  <2>2. ASSUME NEW t \in S  PROVE \E b \in B : F[b] = t
    <3>1. PICK b \in B : t = {b} \X (1..f[b])  OBVIOUS
    <3>2. F[b] = {b} \X (1..f[b])  OBVIOUS
    <3> QED  BY ONLY <3>1, <3>2
  <2> HIDE DEF F, S
  <2> QED  BY <2>1, <2>2 DEF Surjection
<1>3. IsFiniteSet(S)  BY <1>1, <1>2, FS_Surjection
<1>4. \A T \in S : IsFiniteSet(T)
  <2> SUFFICES ASSUME NEW b \in B PROVE IsFiniteSet({b} \X (1..f[b]))  OBVIOUS
  <2>1. IsFiniteSet(1..f[b])
    <3>1. f[b] \in Int /\ 1 \in Int  OBVIOUS
    <3> QED  BY ONLY <3>1, FS_Interval
  <2>2. IsFiniteSet({b})  BY ONLY FS_Singleton
  <2> QED  BY ONLY <2>1, <2>2, FS_Product
<1>5. IsFiniteSet(UNION S)  BY <1>3, <1>4, FS_UNION
<1>6. Cardinality(UNION S) \in Nat  BY <1>5, FS_CardinalityType
<1> QED  BY <1>1, <1>6 DEF Winnings

\* The sum of winnings announced once each is the number of them.
LEMMA WinningsOfSet ==
    ASSUME NEW f \in [B -> Nat], NEW A \in SUBSET B, \A b \in B : f[b] = IF b \in A THEN 1 ELSE 0
    PROVE  Winnings(f) = Win * Cardinality(A)
<1>1. IsFiniteSet(A)  BY LegacyFundsAssumption, FS_Subset
<1> DEFINE U == UNION {{b} \X (1..f[b]) : b \in B}
           g == [b \in A |-> <<b, 1>>]
<1>2. \A b \in B : 1..f[b] = IF b \in A THEN {1} ELSE {}
  <2>1. 1..1 = {1} /\ 1..0 = {}  OBVIOUS
  <2> QED  BY ONLY <2>1, \A b \in B : f[b] = IF b \in A THEN 1 ELSE 0
<1>3. U = {<<b, 1>> : b \in A}
  <2>1. ASSUME NEW x \in U  PROVE x \in {<<b, 1>> : b \in A}
    <3>1. PICK b \in B : x \in {b} \X (1..f[b])  OBVIOUS
    <3>2. b \in A /\ 1..f[b] = {1}  BY <1>2, <3>1
    <3> QED  BY <3>1, <3>2
  <2>2. ASSUME NEW b \in A  PROVE <<b, 1>> \in U
    <3>1. b \in B /\ 1..f[b] = {1}  BY <1>2
    <3>2. <<b, 1>> \in {b} \X (1..f[b])  BY <3>1
    <3> QED  BY <3>1, <3>2
  <2> QED  BY <2>1, <2>2
<1>4. g \in Bijection(A, U)
  <2> HIDE DEF U
  <2> QED  BY <1>3 DEF Bijection, Injection, Surjection, IsInjective
<1>5. ExistsBijection(A, U)  BY <1>4 DEF ExistsBijection
<1>6. Cardinality(U) = Cardinality(A)  BY <1>1, <1>5, FS_Bijection
<1> QED  BY <1>6 DEF Winnings

LEMMA SettlerTypes ==
    ASSUME TypeOK, RevertsLeft, AllSane, NEW p \in Sessions, SettlerStep(p)
    PROVE  TypeOK'
<1>0. FundsTypeOK /\ WorkType /\ BetType /\ OddsType  BY Types
<1>1. CASE \E f : Begun(p, f)
  <2>1. PICK f \in Settling : Begun(p, f)  BY <1>1 DEF Begun
  <2>2. FundsTypeOK' /\ WorkType'  BY <1>0, <2>1, PutType DEF Begun, fundsVars, FundsTypeOK
  <2>3. BetType' /\ OddsType'  BY <1>0, <2>1, SameTypes DEF Begun
  <2> QED  BY <2>2, <2>3, TypesNext
<1>2. CASE \E f, todo : Lists(p, f, todo)
  <2>1. PICK f, todo : Lists(p, f, todo)  BY <1>2
  <2>2. FundsTypeOK'  BY <1>0, <2>1 DEF Lists, FundsTypeOK
  <2>3. WorkType'  BY <1>0, <2>1, PutType DEF Lists, Reads
  <2>4. BetType' /\ OddsType'  BY <1>0, <2>1, SameTypes DEF Lists, Contest, BetType
  <2> QED  BY <2>2, <2>3, <2>4, TypesNext
<1>3. CASE \E t, f : Worked(p, t, f)
  <2>1. PICK t, f : Worked(p, t, f)  BY <1>3
  <2>2. FundsTypeOK'  BY <1>0, <2>1 DEF Worked, FundsTypeOK
  <2>3. f \in Settling  BY <2>1 DEF Worked, PassesOver, Settles, SettledAs
  <2>4. WorkType'  BY <1>0, <2>1, <2>3, PutType DEF Worked
  <2>5. BetType' /\ OddsType'  BY <1>0, <2>1, SameTypes DEF Worked
  <2> QED  BY <2>2, <2>4, <2>5, TypesNext
<1>4. CASE GivesUp(p)
  <2>1. FundsTypeOK'  BY <1>0, <1>4 DEF GivesUp, FundsTypeOK
  <2>2. WorkType'  BY <1>0, <1>4, PutType DEF GivesUp
  <2>3. BetType' /\ OddsType'  BY <1>0, <1>4, SameTypes DEF GivesUp
  <2> QED  BY <2>1, <2>2, <2>3, TypesNext
<1>5. CASE \E w, done, f : Commits(p, w, done, f)
  <2>1. PICK w, done, f : Commits(p, w, done, f)  BY <1>5
  <2>2. /\ w.seen \in Int \cup {None} /\ w.base \in Int \cup {None}
        /\ w.new \in [B -> [won : Nat, lost : Nat]] /\ w.gain \in [B -> Nat]
    BY <2>1 DEF Commits, Settling
  <2>3. done \in [B -> {"none", "won", "lost"}]  BY <2>1 DEF Commits
  <2>4. FundsTypeOK'
    <3>1. Winnings([b \in B |-> w.new[b].won]) \in Nat
      <4>1. [b \in B |-> w.new[b].won] \in [B -> Nat]  BY <2>2
      <4> QED  BY <4>1, WinningsType
    <3>2. w.seen = None <=> w.base = None
      BY <2>1 DEF AllSane, Sane, Settlers, Commits
    <3>3. funds' \in Int /\ net' \in Int
      BY <1>0, <2>1, <2>2, <3>1, <3>2 DEF Commits, FundsTypeOK
    <3> QED  BY <1>0, <2>1, <3>3 DEF Commits, FundsTypeOK
  <2>5. WorkType'
    <3>1. f \in Settling \cup {Idle}  BY <2>1 DEF Commits, GoesOn
    <3> QED  BY <1>0, <2>1, <3>1, PutType DEF Commits
  <2>6. BetType'
    <3>1. bet' \in [B -> {"none", "pending", "won", "lost"}]
      BY <1>0, <2>1, <2>3 DEF Commits, BetType
    <3>2. ends' \in [B -> [won : Nat, lost : Nat]] /\ paid' \in [B -> Int]
      BY <1>0, <2>1, <2>2 DEF Commits, BetType
    <3> QED  BY <1>0, <2>1, <3>1, <3>2 DEF Commits, BetType
  <2>7. OddsType'  BY <1>0, <2>1, SameTypes DEF Commits
  <2> QED  BY <2>4, <2>5, <2>6, <2>7, TypesNext
<1>6. CASE \E f : RevertBegun(p, f)
  <2>1. PICK f : RevertBegun(p, f)  BY <1>6
  <2>2. FundsTypeOK' /\ WorkType'  BY <1>0, <2>1, PutType DEF RevertBegun, fundsVars, FundsTypeOK
  <2>3. BetType' /\ OddsType'  BY <1>0, <2>1, SameTypes DEF RevertBegun, Contest, BetType
  <2> QED  BY <2>2, <2>3, TypesNext
<1>7. CASE Revert(p)
  <2>1. work[p] \in Settling /\ work[p].at = "reverting"  BY <1>7, Kind DEF Revert, At, Settlers
  <2>2. PICK w \in Settling : w = work[p] /\ w.seen # None
    BY <2>1 DEF AllSane, Sane
  <2>3. /\ w.seen \in Int /\ w.done \in [B -> {"none", "won", "lost"}]
        /\ w.new \in [B -> [won : Nat, lost : Nat]]
    BY <2>2 DEF Settling
  <2>4. FundsTypeOK'
    <3>1. Winnings([b \in B |-> w.new[b].won]) \in Nat
      <4>1. [b \in B |-> w.new[b].won] \in [B -> Nat]  BY <2>3
      <4> QED  BY <4>1, WinningsType
    <3>2. PICK back : back = Win * Cardinality({b \in B : w.done[b] = "won"})  OBVIOUS
    <3>3. back \in Nat
      <4>1. IsFiniteSet({b \in B : w.done[b] = "won"})  BY LegacyFundsAssumption, FS_Subset
      <4>2. Cardinality({b \in B : w.done[b] = "won"}) \in Nat  BY <4>1, FS_CardinalityType
      <4> QED  BY <3>2, <4>2, LegacyBetsAssumption
    <3>4. /\ funds' = IF back = 0 THEN funds ELSE IF w.seen >= back THEN w.seen - back ELSE 0
          /\ adjusted' = (adjusted \/ w.seen < back)
          /\ overwritten' = (overwritten \/ (back # 0 /\ funds # w.seen))
          /\ net' = net - Winnings([b \in B |-> w.new[b].won])
          /\ UNCHANGED <<lock, unbooked, staked, requests, failures>>
      BY <1>7, <2>2, <3>2 DEF Revert
    <3> QED  BY <1>0, <2>3, <3>1, <3>3, <3>4 DEF FundsTypeOK
  <2>5. WorkType'
    <3>1. ASSUME NEW q \in Sessions  PROVE work'[q] \in Active \cup Settling \cup {Idle}
      <4>1. CASE q # p /\ work[q].at = "reverting"
        <5>1. work[q] \in Settling  BY <4>1, Kind DEF At, Settlers
        <5>2. Less(work[q].new, w.new) \in [B -> [won : Nat, lost : Nat]]
          BY <2>3, <5>1, LessType DEF Settling
        <5>3. PICK n \in [B -> [won : Nat, lost : Nat]] : n = Less(work[q].new, w.new)  BY <5>2
        <5>4. work'[q] = [work[q] EXCEPT !.new = n]  BY <1>7, <2>2, <4>1, <5>3 DEF Revert
        <5> QED  BY ONLY <5>1, <5>3, <5>4 DEF Settling
      <4> QED  BY <1>0, <1>7, <4>1 DEF Revert, WorkType
    <3>2. work' = [q \in Sessions |-> work'[q]]  BY <1>7 DEF Revert
    <3> QED  BY <3>1, <3>2 DEF WorkType
  <2>6. BetType'
    <3>1. bet' \in [B -> {"none", "pending", "won", "lost"}] /\ paid' \in [B -> Int]
      BY <1>0, <1>7 DEF Revert, BetType
    <3>2. ASSUME NEW b \in B
          PROVE  ends[b].won - w.new[b].won \in Nat /\ ends[b].lost - w.new[b].lost \in Nat
      <4>1. ends[b] \in [won : Nat, lost : Nat]  BY <1>0 DEF BetType
      <4>2. w.new[b] \in [won : Nat, lost : Nat]  BY <2>3
      <4>3. w.new[b].won <= ends[b].won /\ w.new[b].lost <= ends[b].lost
        BY <2>1, <2>2 DEF RevertsLeft, Left
      <4> QED  BY <4>1, <4>2, <4>3
    <3>3. ends' \in [B -> [won : Nat, lost : Nat]]  BY <1>7, <2>2, <3>2 DEF Revert
    <3> QED  BY <1>0, <1>7, <3>1, <3>3 DEF Revert, BetType
  <2>7. OddsType'  BY <1>0, <1>7, SameTypes DEF Revert
  <2> QED  BY <2>4, <2>5, <2>6, <2>7, TypesNext
<1> QED  BY <1>1, <1>2, <1>3, <1>4, <1>5, <1>6, <1>7 DEF SettlerStep

LEMMA NextTypes ==
    ASSUME TypeOK, RevertsLeft, AllSane, \A p \in Sessions : FundsSound(p), [Next]_vars
    PROVE  TypeOK'
<1>0. FundsTypeOK /\ WorkType /\ BetType /\ OddsType  BY Types
<1>1. ASSUME NEW p \in Sessions, FundsOnly(p)  PROVE TypeOK'
  BY <1>0, <1>1, FundsTypes, SameTypes, TypesNext DEF FundsOnly
<1>2. ASSUME NEW b \in B, CreateRecord(b)  PROVE TypeOK'
  <2>1. FundsTypeOK' /\ WorkType' /\ OddsType'
    BY <1>0, <1>2, SameTypes DEF CreateRecord, FundsTypeOK
  <2>2. BetType'  BY <1>0, <1>2 DEF CreateRecord, BetType
  <2> QED  BY <2>1, <2>2, TypesNext
<1>3. CASE OddsStep
  <2>1. FundsTypeOK' /\ WorkType' /\ BetType'
    BY <1>0, <1>3, SameTypes DEF OddsStep, FundsTypeOK
  <2> QED  BY <1>3, <2>1, TypesNext DEF OddsStep
<1> QED  BY <1>1, <1>2, <1>3, NextCases, SettlerTypes

-----------------------------------------------------------------------------
(* What a step does to the sessions, the stakes and the reverts.           *)

LEMMA FundsPut ==
    ASSUME TypeOK, NEW p \in Sessions, FundsRequest(p) \/ FundsStep(p) \/ Fail(p)
    PROVE  \E x \in Active \cup {Idle} : Put(p, x)
<1>1. CASE FundsRequest(p)
  <2>1. PICK x \in Active : Put(p, x)  BY <1>1, LoadStep
  <2> QED  BY <2>1
<1>2. CASE Provide(p)
  <2>1. work[p] \in Active  BY <1>2, Kind DEF Provide, At
  <2>2. PICK x \in Active : x = [work[p] EXCEPT !.at = "loaded"]  BY ONLY <2>1 DEF Active
  <2> QED  BY <1>2, <2>2 DEF Provide, Put
<1>3. CASE UpdateUser(p) \/ Fail(p)  BY <1>3 DEF UpdateUser, Fail, Abort, Put
<1> QED  BY <1>1, <1>2, <1>3 DEF FundsStep

LEMMA Free ==
    ASSUME NEW x \in Active \cup {Idle}, NEW b
    PROVE  /\ x.at \notin Settlers /\ ~Holds(x, b) /\ Sane(x)
           /\ \A n : Left(x, b, n)
           /\ \A status, n : SessionSound(x, b, status, n)
<1>1. x.at \in {"provider", "loaded", "idle"}  BY DEF Active, Idle
<1> QED  BY <1>1 DEF Settlers, Holds, Sane, Left, SessionSound, SettlingSound, RevertingSound

\* What other reverts keep of what they have read.
LEMMA RevertOthers ==
    ASSUME TypeOK, NEW p \in Sessions, Revert(p), NEW q \in Sessions
    PROVE  /\ q = p => work'[q] = Idle
           /\ q # p /\ work[q].at # "reverting" => work'[q] = work[q]
           /\ q # p /\ work[q].at = "reverting" =>
                 /\ work[q] \in Settling /\ work'[q] \in Settling
                 /\ work'[q] = [work[q] EXCEPT !.new = Less(work[q].new, work[p].new)]
                 /\ work'[q].at = "reverting" /\ work'[q].todo = work[q].todo
                 /\ work'[q].seen = work[q].seen /\ work'[q].base = work[q].base
                 /\ work'[q].done = work[q].done
                 /\ work'[q].new = Less(work[q].new, work[p].new)
<1>1. work[p] \in Settling  BY Kind DEF Revert, At, Settlers
<1>2. CASE q # p /\ work[q].at = "reverting"
  <2>1. work[q] \in Settling  BY <1>2, Kind DEF At, Settlers
  <2>2. Less(work[q].new, work[p].new) \in [B -> [won : Nat, lost : Nat]]
    BY <1>1, <2>1, LessType DEF Settling
  <2>3. PICK n \in [B -> [won : Nat, lost : Nat]] : n = Less(work[q].new, work[p].new)  BY <2>2
  <2>4. work'[q] = [work[q] EXCEPT !.new = n]  BY <1>2, <2>3 DEF Revert
  <2>5. /\ [work[q] EXCEPT !.new = n] \in Settling
        /\ [work[q] EXCEPT !.new = n].at = work[q].at
        /\ [work[q] EXCEPT !.new = n].todo = work[q].todo
        /\ [work[q] EXCEPT !.new = n].seen = work[q].seen
        /\ [work[q] EXCEPT !.new = n].base = work[q].base
        /\ [work[q] EXCEPT !.new = n].done = work[q].done
        /\ [work[q] EXCEPT !.new = n].new = n
    BY ONLY <2>1, <2>3 DEF Settling
  <2> QED  BY <1>2, <2>1, <2>3, <2>4, <2>5
<1> QED  BY <1>2 DEF Revert

LEMMA PutSane ==
    ASSUME TypeOK, AllSane, NEW p \in Sessions, NEW x, Put(p, x), Sane(x)
    PROVE  AllSane'
<1>1. \A q \in Sessions : work'[q] = IF q = p THEN x ELSE work[q]  BY Types DEF WorkType, Put
<1>2. \A q \in Sessions : Sane(work'[q])  BY ONLY <1>1, AllSane, Sane(x) DEF AllSane
<1> QED  BY ONLY <1>2 DEF AllSane, Sane, Bare

LEMMA SaneNext ==
    ASSUME TypeOK, AllSane, [Next]_vars
    PROVE  AllSane'
<1> USE DEF Settlers
<1>0. funds \in Int /\ Win \in Nat /\ None \notin Int
  BY LegacyFundsAssumption, LegacyBetsAssumption DEF TypeOK, FundsTypeOK
<1>1. ASSUME NEW p \in Sessions, FundsOnly(p)  PROVE AllSane'
  BY <1>1, FundsPut, Free, PutSane DEF FundsOnly
<1>2. ASSUME NEW p \in Sessions, NEW f, Begun(p, f)  PROVE AllSane'
  <2>1. Sane(f)  BY <1>2 DEF Begun, Sane
  <2> QED  BY <1>2, <2>1, PutSane DEF Begun
<1>3. ASSUME NEW p \in Sessions, NEW f, NEW todo, Lists(p, f, todo)  PROVE AllSane'
  <2>1. Sane(f)  BY <1>3 DEF Lists, Reads, AllSane, Sane
  <2> QED  BY <1>3, <2>1, PutSane DEF Lists
<1>4. ASSUME NEW p \in Sessions, NEW t, NEW f, Worked(p, t, f)  PROVE AllSane'
  <2>1. CASE PassesOver(p, t, f)  BY <1>4, <2>1, PutSane DEF Worked, PassesOver, AllSane, Sane
  <2>2. CASE Settles(p, t, f)
    <3>1. PICK outcome \in {"won", "lost"}, b \in B, seen \in Int :
             SettledAs(p, work[p], t, outcome, b, seen, f)
      BY <2>2 DEF Settles
    <3>2. work[p].seen = None <=> work[p].base = None  BY <1>4 DEF Worked, AllSane, Sane
    <3>3. f.seen \in Int /\ f.base # None  BY <1>0, <3>1, <3>2 DEF SettledAs
    <3>4. Sane(f)  BY <1>0, <3>1, <3>3 DEF SettledAs, Sane
    <3> QED  BY <1>4, <3>4, PutSane DEF Worked
  <2> QED  BY <1>4, <2>1, <2>2 DEF Worked
<1>5. ASSUME NEW p \in Sessions, GivesUp(p)  PROVE AllSane'
  BY <1>5, Free, PutSane DEF GivesUp
<1>6. ASSUME NEW p \in Sessions, NEW w, NEW done, NEW f, Commits(p, w, done, f)  PROVE AllSane'
  <2>1. Sane(f)  BY <1>6, Free DEF Commits, GoesOn, Sane
  <2> QED  BY <1>6, <2>1, PutSane DEF Commits
<1>7. ASSUME NEW p \in Sessions, NEW f, RevertBegun(p, f)  PROVE AllSane'
  <2>1. Sane(f)  BY <1>0, <1>7 DEF RevertBegun, Sane
  <2> QED  BY <1>7, <2>1, PutSane DEF RevertBegun
<1>8. ASSUME NEW p \in Sessions, Revert(p)  PROVE AllSane'
  <2>1. ASSUME NEW q \in Sessions  PROVE Sane(work'[q])
    <3>1. CASE q = p  BY <1>8, <3>1, RevertOthers, Free
    <3>2. CASE q # p /\ work[q].at # "reverting"  BY <1>8, <3>2, RevertOthers DEF AllSane
    <3>3. CASE q # p /\ work[q].at = "reverting"
      <4>1. /\ work'[q].at = "reverting" /\ work'[q].seen = work[q].seen
            /\ work'[q].base = work[q].base
        BY <1>8, <3>3, RevertOthers
      <4>2. Sane(work[q])  BY DEF AllSane
      <4> QED  BY ONLY <3>3, <4>1, <4>2 DEF Sane, Settlers
    <3> QED  BY <3>1, <3>2, <3>3
  <2> QED  BY ONLY <2>1 DEF AllSane, Sane, Bare
<1>9. CASE UNCHANGED work  BY <1>9 DEF AllSane, Sane, Bare
<1> QED
  BY <1>1, <1>2, <1>3, <1>4, <1>5, <1>6, <1>7, <1>8, <1>9, NextCases
     DEF SettlerStep, CreateRecord, OddsStep

LEMMA StakedFirstNext ==
    ASSUME TypeOK, TypeOK', AllSane, StakedFirst, [Next]_vars
    PROVE  StakedFirst'
<1> USE DEF Settlers
<1>0. /\ \A q \in Sessions, b \in B : Holds(work[q], b) => bet[b] # "none"
      /\ \A b \in B : bet[b] # "none" => b \in staked
  BY DEF StakedFirst
<1> SUFFICES /\ \A b \in B : bet'[b] # "none" => bet[b] # "none" \/ b \in staked
             /\ \A b \in B : bet[b] # "none" => bet'[b] # "none"
             /\ staked \subseteq staked'
             /\ \A q \in Sessions, b \in B : Holds(work'[q], b) => bet'[b] # "none"
  <2>1. /\ \A b \in B : bet'[b] # "none" => b \in staked'
        /\ \A q \in Sessions, b \in B : Holds(work'[q], b) => bet'[b] # "none"
    BY <1>0
  <2> QED  BY ONLY <2>1 DEF StakedFirst, Holds
<1>1. ASSUME NEW p \in Sessions, NEW x, Put(p, x), staked \subseteq staked', bet' = bet,
             \A b \in B : Holds(x, b) => bet[b] # "none"
      PROVE  \A q \in Sessions, b \in B : Holds(work'[q], b) => bet'[b] # "none"
  <2>1. \A q \in Sessions : work'[q] = IF q = p THEN x ELSE work[q]
    BY <1>1, Types DEF WorkType, Put
  <2> QED  BY ONLY <1>0, <1>1, <2>1
<1>2. CASE \E p \in Sessions : FundsOnly(p)
  <2>1. PICK p \in Sessions : FundsOnly(p)  BY <1>2
  <2>2. PICK x \in Active \cup {Idle} : Put(p, x)  BY <2>1, FundsPut DEF FundsOnly
  <2>3. staked \subseteq staked'
    <3>1. CASE FundsRequest(p)  BY <3>1, LoadStep DEF fundsVars
    <3>2. CASE FundsStep(p) \/ Fail(p)  BY <3>2 DEF FundsStep, Fail, Provide, UpdateUser
    <3> QED  BY <2>1, <3>1, <3>2 DEF FundsOnly
  <2>4. bet' = bet  BY <2>1 DEF FundsOnly, betVars
  <2> QED  BY <1>1, <2>2, <2>3, <2>4, Free
<1>3. CASE \E p \in Sessions : SettlerStep(p)
  <2>1. PICK p \in Sessions : SettlerStep(p)  BY <1>3
  <2>2. CASE \E f : Begun(p, f)
    <3>1. PICK f : Begun(p, f)  BY <2>2
    <3>2. bet' = bet /\ staked' = staked /\ Put(p, f)  BY <3>1 DEF Begun, betVars, fundsVars
    <3>3. \A b \in B : ~Holds(f, b)  BY <3>1 DEF Begun, Holds, Bare
    <3> QED  BY <1>1, <3>2, <3>3
  <2>3. CASE \E f, todo : Lists(p, f, todo)
    <3>1. PICK f, todo : Lists(p, f, todo)  BY <2>3
    <3>2. bet' = bet /\ staked' = staked /\ Put(p, f)  BY <3>1 DEF Lists
    <3>3. \A b \in B : Holds(f, b) => Holds(work[p], b) \/ bet[b] = "pending"
      BY <3>1 DEF Lists, Reads, Holds, AllSane, Sane, Bare
    <3> QED  BY <1>0, <1>1, <3>2, <3>3
  <2>4. CASE \E t, f : Worked(p, t, f)
    <3>1. PICK t, f : Worked(p, t, f)  BY <2>4
    <3>2. bet' = bet /\ staked' = staked /\ Put(p, f)  BY <3>1 DEF Worked, betVars
    <3>3. \A b \in B : Holds(f, b) => Holds(work[p], b)
      <4>1. CASE PassesOver(p, t, f)  BY <3>1, <4>1 DEF Worked, PassesOver, Holds
      <4>2. CASE Settles(p, t, f)
        <5>1. PICK outcome \in {"won", "lost"}, b \in B, seen \in Int :
                 SettledAs(p, work[p], t, outcome, b, seen, f)
          BY <4>2 DEF Settles
        <5>2. work[p].done \in [B -> {"none", "won", "lost"}]  BY <3>1 DEF Worked, Settling
        <5> QED  BY <3>1, <5>1, <5>2 DEF Worked, SettledAs, Holds
      <4> QED  BY <3>1, <4>1, <4>2 DEF Worked
    <3> QED  BY <1>0, <1>1, <3>2, <3>3
  <2>5. CASE GivesUp(p)  BY <1>1, <2>5, Free DEF GivesUp, betVars
  <2>6. CASE \E w, done, f : Commits(p, w, done, f)
    <3>1. PICK w, done, f : Commits(p, w, done, f)  BY <2>6
    <3>2. /\ \A b \in B : bet'[b] = IF done[b] = "none" THEN bet[b] ELSE done[b]
          /\ staked' = staked /\ Put(p, f) /\ w = work[p] /\ w.at \in {"settling", "commission"}
      BY <3>1 DEF Commits
    <3>3. \A b \in B : done[b] # "none" => Holds(w, b)
      BY <3>1, <3>2 DEF Commits, GoesOn, Holds, Settling
    <3>4. \A b \in B : Holds(f, b) => Holds(w, b)
      BY <3>1, <3>2, Free DEF Commits, GoesOn, Holds
    <3>5. \A q \in Sessions : work'[q] = IF q = p THEN f ELSE work[q]
      BY <3>2, Types DEF WorkType, Put
    <3> QED  BY <1>0, <3>2, <3>3, <3>4, <3>5
  <2>7. CASE \E f : RevertBegun(p, f)
    <3>1. PICK f : RevertBegun(p, f)  BY <2>7
    <3>2. bet' = bet /\ staked' = staked /\ Put(p, f)  BY <3>1 DEF RevertBegun, fundsVars
    <3>3. \A b \in B : Holds(f, b) => bet[b] # "none"  BY <3>1 DEF RevertBegun, Holds
    <3> QED  BY <1>1, <3>2, <3>3
  <2>8. CASE Revert(p)
    <3>1. \A b \in B : bet'[b] = IF work[p].done[b] # "none" THEN "pending" ELSE bet[b]
      BY <2>8 DEF Revert
    <3>2. staked' = staked /\ work[p].at = "reverting"  BY <2>8 DEF Revert
    <3>3. \A b \in B : work[p].done[b] # "none" => bet[b] # "none"
      BY <1>0, <3>2 DEF Holds
    <3>4. ASSUME NEW q \in Sessions, NEW b \in B, Holds(work'[q], b)  PROVE Holds(work[q], b)
      BY <2>8, <3>4, RevertOthers, Free DEF Holds
    <3> QED  BY <1>0, <3>1, <3>2, <3>3, <3>4
  <2> QED  BY <2>1, <2>2, <2>3, <2>4, <2>5, <2>6, <2>7, <2>8 DEF SettlerStep
<1>4. CASE \E b \in B : CreateRecord(b)
  BY <1>0, <1>4, Types DEF CreateRecord, BetType
<1>5. CASE OddsStep  BY <1>0, <1>5 DEF OddsStep, betVars
<1> QED  BY <1>2, <1>3, <1>4, <1>5, NextCases

LEMMA RevertsLeftNext ==
    ASSUME TypeOK, TypeOK', AllSane, RevertsLeft, [Next]_vars
    PROVE  RevertsLeft'
<1> USE DEF Settlers
<1>0. \A q \in Sessions, b \in B : Left(work[q], b, ends[b])  BY DEF RevertsLeft
<1> SUFFICES \A q \in Sessions, b \in B : Left(work'[q], b, ends'[b])
  BY DEF RevertsLeft, Left
<1>1. ASSUME NEW p \in Sessions, NEW x, Put(p, x), ends' = ends,
             \A b \in B : Left(x, b, ends[b])
      PROVE  \A q \in Sessions, b \in B : Left(work'[q], b, ends'[b])
  <2>1. \A q \in Sessions : work'[q] = IF q = p THEN x ELSE work[q]
    BY <1>1, Types DEF WorkType, Put
  <2> QED  BY ONLY <1>0, <1>1, <2>1
<1>2. CASE \E p \in Sessions : FundsOnly(p)
  <2>1. PICK p \in Sessions : FundsOnly(p)  BY <1>2
  <2>2. PICK x \in Active \cup {Idle} : Put(p, x)  BY <2>1, FundsPut DEF FundsOnly
  <2>3. ends' = ends  BY <2>1 DEF FundsOnly, betVars
  <2> QED  BY <1>1, <2>2, <2>3, Free
<1>3. CASE \E p \in Sessions : SettlerStep(p)
  <2>1. PICK p \in Sessions : SettlerStep(p)  BY <1>3
  <2>2. CASE \E f : Begun(p, f)
    <3>1. PICK f : Begun(p, f)  BY <2>2
    <3>2. ends' = ends /\ Put(p, f) /\ f.at # "reverting"  BY <3>1 DEF Begun, betVars
    <3> QED  BY <1>1, <3>2 DEF Left
  <2>3. CASE \E f, todo : Lists(p, f, todo)
    <3>1. PICK f, todo : Lists(p, f, todo)  BY <2>3
    <3>2. ends' = ends /\ Put(p, f) /\ f.at # "reverting"  BY <3>1 DEF Lists, Reads
    <3> QED  BY <1>1, <3>2 DEF Left
  <2>4. CASE \E t, f : Worked(p, t, f)
    <3>1. PICK t, f : Worked(p, t, f)  BY <2>4
    <3>2. ends' = ends /\ Put(p, f) /\ f.at # "reverting"
      BY <3>1 DEF Worked, PassesOver, Settles, SettledAs, betVars
    <3> QED  BY <1>1, <3>2 DEF Left
  <2>5. CASE GivesUp(p)  BY <1>1, <2>5, Free DEF GivesUp, betVars
  <2>6. CASE \E w, done, f : Commits(p, w, done, f)
    <3>1. PICK w, done, f : Commits(p, w, done, f)  BY <2>6
    <3>2. /\ Put(p, f) /\ f.at # "reverting"
          /\ ends' = [b \in B |-> [won |-> ends[b].won + w.new[b].won,
                                   lost |-> ends[b].lost + w.new[b].lost]]
      <4>1. f = Idle \/ f.at = "settling"  BY <3>1 DEF Commits, GoesOn
      <4>2. f.at # "reverting"  BY ONLY <4>1 DEF Idle
      <4> QED  BY ONLY <3>1, <4>2 DEF Commits
    <3>3. w.new \in [B -> [won : Nat, lost : Nat]]  BY <3>1 DEF Commits, Settling
    <3>4. ends \in [B -> [won : Nat, lost : Nat]]  BY DEF TypeOK
    <3>5. ASSUME NEW q \in Sessions, NEW b \in B  PROVE Left(work'[q], b, ends'[b])
      <4>1. CASE q = p  BY <3>2, <4>1, Types DEF WorkType, Put, Left
      <4>2. CASE q # p /\ work[q].at = "reverting"
        <5>1. work'[q] = work[q]  BY <3>2, <4>2, Types DEF WorkType, Put
        <5>2. work[q].new \in [B -> [won : Nat, lost : Nat]]
          BY <4>2, Kind DEF At, Settling
        <5>3. /\ work[q].new[b] \in [won : Nat, lost : Nat] /\ w.new[b] \in [won : Nat, lost : Nat]
              /\ ends[b] \in [won : Nat, lost : Nat]
          BY ONLY <3>3, <3>4, <5>2, b \in B
        <5>4. ends'[b].won = ends[b].won + w.new[b].won /\ ends'[b].lost = ends[b].lost + w.new[b].lost
          BY ONLY <3>2, b \in B
        <5>5. Left(work[q], b, ends[b])  BY <1>0
        <5> QED  BY ONLY <5>1, <5>3, <5>4, <5>5 DEF Left
      <4>3. CASE q # p /\ work[q].at # "reverting"
        BY <3>2, <4>3, Types DEF WorkType, Put, Left
      <4> QED  BY <4>1, <4>2, <4>3
    <3> QED  BY <3>5
  <2>7. CASE \E f : RevertBegun(p, f)
    <3>1. PICK f : RevertBegun(p, f)  BY <2>7
    <3>2. ends' = ends /\ Put(p, f)  BY <3>1 DEF RevertBegun
    <3>3. ends \in [B -> [won : Nat, lost : Nat]]  BY DEF TypeOK
    <3>4. \A b \in B : Left(f, b, ends[b])  BY <3>1, <3>3 DEF RevertBegun, Left, Bare
    <3> QED  BY <1>1, <3>2, <3>4
  <2>8. CASE Revert(p)
    <3>1. PICK w \in Settling : w = work[p] /\ w.at = "reverting"
      BY <2>8, Kind DEF Revert, At
    <3>2. ends' = [b \in B |-> [won |-> ends[b].won - w.new[b].won,
                                lost |-> ends[b].lost - w.new[b].lost]]
      BY <2>8, <3>1 DEF Revert
    <3>3. ends \in [B -> [won : Nat, lost : Nat]] /\ w.new \in [B -> [won : Nat, lost : Nat]]
      BY DEF TypeOK, Settling
    <3>4. ASSUME NEW q \in Sessions, NEW b \in B  PROVE Left(work'[q], b, ends'[b])
      <4>1. CASE q = p  BY <2>8, <4>1, RevertOthers, Free
      <4>2. CASE q # p /\ work[q].at = "reverting"
        <5>1. PICK new \in [B -> [won : Nat, lost : Nat]] :
                 new = work[q].new /\ work'[q].new = Less(new, w.new)
          <6>1. work[q] \in Settling /\ work'[q].new = Less(work[q].new, w.new)
            BY <2>8, <3>1, <4>2, RevertOthers
          <6>2. work[q].new \in [B -> [won : Nat, lost : Nat]]  BY ONLY <6>1 DEF Settling
          <6> QED  BY ONLY <6>1, <6>2
        <5>2. /\ new[b] \in [won : Nat, lost : Nat] /\ w.new[b] \in [won : Nat, lost : Nat]
              /\ ends[b] \in [won : Nat, lost : Nat]
          BY <3>3
        <5>3. ends'[b].won = ends[b].won - w.new[b].won /\ ends'[b].lost = ends[b].lost - w.new[b].lost
          BY ONLY <3>2, b \in B
        <5>4. /\ new[b].won <= ends[b].won /\ new[b].lost <= ends[b].lost
              /\ w.new[b].won <= ends[b].won /\ w.new[b].lost <= ends[b].lost
          BY <1>0, <3>1, <4>2, <5>1 DEF Left
        <5>5. /\ work'[q].new[b].won = IF new[b].won > w.new[b].won
                                       THEN new[b].won - w.new[b].won ELSE 0
              /\ work'[q].new[b].lost = IF new[b].lost > w.new[b].lost
                                        THEN new[b].lost - w.new[b].lost ELSE 0
          <6>1. PICK gone \in [B -> [won : Nat, lost : Nat]] : gone = w.new  BY <3>3
          <6>2. \A c \in B :
                   /\ Less(new, gone)[c].won = IF new[c].won > gone[c].won
                                               THEN new[c].won - gone[c].won ELSE 0
                   /\ Less(new, gone)[c].lost = IF new[c].lost > gone[c].lost
                                                THEN new[c].lost - gone[c].lost ELSE 0
            BY ONLY <5>1, <6>1, LessType
          <6> QED  BY ONLY <5>1, <6>1, <6>2, b \in B
        <5> QED  BY ONLY <5>2, <5>3, <5>4, <5>5 DEF Left
      <4>3. CASE q # p /\ work[q].at # "reverting"  BY <2>8, <4>3, RevertOthers DEF Left
      <4> QED  BY <4>1, <4>2, <4>3
    <3> QED  BY <3>4
  <2> QED  BY <2>1, <2>2, <2>3, <2>4, <2>5, <2>6, <2>7, <2>8 DEF SettlerStep
<1>4. CASE UNCHANGED work /\ ends' = ends  BY <1>0, <1>4
<1> QED  BY <1>2, <1>3, <1>4, NextCases DEF CreateRecord, OddsStep, betVars

-----------------------------------------------------------------------------
(* A bet that no two settlements had on their lists.                       *)

LEMMA SoundFrame ==
    ASSUME NEW w, NEW b, NEW status, NEW n, NEW status2, NEW n2,
           SessionSound(w, b, status, n), ~Holds(w, b) \/ (status2 = status /\ n2 = n)
    PROVE  SessionSound(w, b, status2, n2)
BY DEF SessionSound, SettlingSound, RevertingSound, SettledSound, Holds

LEMMA BetInvNext ==
    ASSUME NEW b,
           BetSound(bet'[b], ends'[b], paid'[b]),
           \A q \in Sessions : SessionSound(work'[q], b, bet'[b], ends'[b]),
           \A p \in Sessions, q \in Sessions : p # q => ~(Holds(work'[p], b) /\ Holds(work'[q], b))
    PROVE  BetInv(b)'
BY DEF BetInv, BetSound, SessionSound, SettlingSound, RevertingSound, SettledSound, Holds, Bare

\* One session moves, and what it changes of a bet is of a bet that it holds.
LEMMA PutBet ==
    ASSUME TypeOK, NEW b \in B, b \notin contested, BetInv(b), NEW p \in Sessions, NEW x, Put(p, x),
           SessionSound(x, b, bet'[b], ends'[b]), BetSound(bet'[b], ends'[b], paid'[b]),
           Holds(work[p], b) \/ (bet'[b] = bet[b] /\ ends'[b] = ends[b]),
           Holds(x, b) => Holds(work[p], b) \/ \A q \in Sessions \ {p} : ~Holds(work[q], b)
    PROVE  BetInv(b)'
<1>1. \A q \in Sessions : work'[q] = IF q = p THEN x ELSE work[q]
  BY Types DEF WorkType, Put
<1>2. /\ \A q \in Sessions : SessionSound(work[q], b, bet[b], ends[b])
      /\ \A q \in Sessions, r \in Sessions : q # r => ~(Holds(work[q], b) /\ Holds(work[r], b))
  BY DEF BetInv
<1>3. \A q \in Sessions : SessionSound(work'[q], b, bet'[b], ends'[b])
  <2> SUFFICES ASSUME NEW q \in Sessions, q # p  PROVE SessionSound(work'[q], b, bet'[b], ends'[b])
    BY <1>1
  <2>1. work'[q] = work[q] /\ SessionSound(work[q], b, bet[b], ends[b])  BY <1>1, <1>2
  <2>2. ~Holds(work[q], b) \/ (bet'[b] = bet[b] /\ ends'[b] = ends[b])  BY <1>2
  <2> QED  BY ONLY <2>1, <2>2, SoundFrame
<1>4. \A r \in Sessions, q \in Sessions : r # q => ~(Holds(work'[r], b) /\ Holds(work'[q], b))
  BY ONLY <1>1, <1>2, Holds(x, b) => Holds(work[p], b) \/ \A q \in Sessions \ {p} : ~Holds(work[q], b),
          p \in Sessions
<1> QED  BY ONLY <1>3, <1>4, BetSound(bet'[b], ends'[b], paid'[b]), BetInvNext

\* A bet that a list has twice, or that somebody else has, is contested.
LEMMA Contested ==
    ASSUME NEW p \in Sessions, NEW todo \in SUBSET (B \X O \X Results), Contest(p, todo),
           NEW b \in B, b \notin contested'
    PROVE  /\ b \notin contested
           /\ (\E t \in todo : t[1] = b) => \A q \in Sessions \ {p} : ~Holds(work[q], b)
           /\ \A t, u \in todo : t[1] = b /\ u[1] = b => t = u
<1> DEFINE S == {t \in todo : t[1] = b}
<1>1. /\ b \notin contested
      /\ (\E t \in todo : t[1] = b) =>
            /\ \A q \in Sessions \ {p} : b \notin Listed(q)
            /\ ~(Cardinality(S) > 1)
  BY DEF Contest
<1>2. \A q \in Sessions : b \in Listed(q) <=> Holds(work[q], b)  BY DEF Listed, Holds
<1>3. IsFiniteSet(S)
  <2>1. IsFiniteSet({b})  BY FS_Singleton
  <2>2. IsFiniteSet(O)
    <3>1. IsFiniteSet({Row}) /\ O = {Row} \cup {Other}  BY FS_Singleton DEF O
    <3> QED  BY <3>1, FS_AddElement
  <2>3. IsFiniteSet(Results)
    <3>1. IsFiniteSet({"none"})  BY FS_Singleton
    <3>2. IsFiniteSet({"none"} \cup {"home"})  BY <3>1, FS_AddElement
    <3>3. IsFiniteSet(({"none"} \cup {"home"}) \cup {"away"})  BY <3>2, FS_AddElement
    <3>4. IsFiniteSet((({"none"} \cup {"home"}) \cup {"away"}) \cup {"garbage"})
      BY <3>3, FS_AddElement
    <3>5. Results = (({"none"} \cup {"home"}) \cup {"away"}) \cup {"garbage"}  BY DEF Results
    <3> QED  BY <3>4, <3>5
  <2>4. IsFiniteSet({b} \X O)  BY <2>1, <2>2, FS_Product
  <2>5. IsFiniteSet(({b} \X O) \X Results)  BY <2>3, <2>4, FS_Product
  <2> DEFINE pair == [t \in S |-> <<<<t[1], t[2]>>, t[3]>>]
  <2>6. \A t \in S : /\ t[2] \in O /\ t[3] \in Results /\ t[1] = b
                     /\ t = <<t[1], t[2], t[3]>>
    OBVIOUS
  <2>7. pair \in [S -> ({b} \X O) \X Results]
    <3> HIDE DEF S
    <3> QED  BY <2>6
  <2>8. ASSUME NEW t \in S, NEW u \in S, pair[t] = pair[u]  PROVE t = u
    <3>1. <<<<t[1], t[2]>>, t[3]>> = <<<<u[1], u[2]>>, u[3]>>  BY <2>8
    <3>2. t[1] = u[1] /\ t[2] = u[2] /\ t[3] = u[3]  BY ONLY <3>1
    <3> QED  BY ONLY <2>6, <3>2, t \in S, u \in S
  <2>9. pair \in Injection(S, ({b} \X O) \X Results)
    <3> HIDE DEF S, pair
    <3> QED  BY <2>7, <2>8 DEF Injection, IsInjective
  <2> HIDE DEF S, pair
  <2> QED  BY <2>5, <2>9, FS_Injection
<1>4. ASSUME NEW t \in S, NEW u \in S, t # u  PROVE Cardinality(S) > 1
  <2>1. IsFiniteSet(S \ {t}) /\ Cardinality(S \ {t}) = Cardinality(S) - 1
    <3> HIDE DEF S
    <3> QED  BY <1>3, FS_RemoveElement
  <2>2. Cardinality(S \ {t}) # 0
    <3> HIDE DEF S
    <3>1. u \in S \ {t}  BY <1>4
    <3> QED  BY <2>1, <3>1, FS_EmptySet
  <2>3. Cardinality(S) \in Nat /\ Cardinality(S \ {t}) \in Nat  BY <1>3, <2>1, FS_CardinalityType
  <2> QED  BY ONLY <2>1, <2>2, <2>3
<1>5. \A t, u \in todo : t[1] = b /\ u[1] = b => t = u  BY <1>1, <1>4
<1> QED  BY <1>1, <1>2, <1>5

\* A session that has nothing of b.
LEMMA EmptyHanded ==
    ASSUME NEW f, NEW b, f.at \in {"list", "settling"}, f.todo = {}, Bare(f, b), f.gain[b] = 0
    PROVE  ~Holds(f, b) /\ \A status, n : SessionSound(f, b, status, n)
BY DEF Holds, Bare, SessionSound, SettlingSound, RevertingSound, SettledSound

LEMMA ListsSound ==
    ASSUME TypeOK, AllSane, NEW b \in B, b \notin contested', BetInv(b),
           NEW p \in Sessions, NEW f, NEW todo, Lists(p, f, todo)
    PROVE  BetInv(b)'
<1> DEFINE w == work[p]
<1>1. /\ b \notin contested
      /\ (\E t \in todo : t[1] = b) => \A q \in Sessions \ {p} : ~Holds(work[q], b)
      /\ \A t, u \in todo : t[1] = b /\ u[1] = b => t = u
  <2>1. todo \in SUBSET (B \X O \X Results)  BY DEF Lists, Reads, Settling
  <2>2. Contest(p, todo)  BY DEF Lists
  <2> QED  BY <2>1, <2>2, Contested
<1>2. BetSound(bet[b], ends[b], paid[b]) /\ SessionSound(w, b, bet[b], ends[b])
  BY <1>1 DEF BetInv
<1>3. Put(p, f) /\ bet' = bet /\ ends' = ends /\ paid' = paid  BY DEF Lists
<1>4. f.at = "settling" /\ f.todo = todo /\ f.done = w.done /\ f.new = w.new /\ f.gain = w.gain
      /\ f.route = w.route
  BY DEF Lists, Reads
<1>5. \A t \in todo : bet[t[1]] = "pending" /\ (w.at = "settling" => w.done[t[1]] = "none")
  BY DEF Lists
<1>6. w.at \in {"list", "settling"}  BY DEF Lists
<1>7. CASE w.at = "list"
  <2>1. Bare(w, b) /\ w.gain[b] = 0  BY <1>7 DEF AllSane, Sane
  <2>2. SessionSound(f, b, bet[b], ends[b]) /\ (Holds(f, b) => \E t \in todo : t[1] = b)
    BY ONLY <1>1, <1>4, <1>5, <2>1
       DEF SessionSound, SettlingSound, RevertingSound, SettledSound, Holds, Bare
  <2> QED  BY <1>1, <1>2, <1>3, <2>2, PutBet
<1>8. CASE w.at = "settling"
  <2>1. SessionSound(f, b, bet[b], ends[b])
    <3>1. SettledSound(f, b, ends[b])
      BY ONLY <1>2, <1>4, <1>5, <1>8 DEF SessionSound, SettlingSound, SettledSound
    <3>2. /\ Holds(f, b) => bet[b] = "pending"
          /\ f.done[b] = "none" => Bare(f, b)
          /\ f.gain[b] = IF f.done[b] = "won" THEN 1 ELSE 0
          /\ f.done[b] # "won" => f.new[b].won = 0
          /\ f.done[b] # "lost" => f.new[b].lost = 0
      BY ONLY <1>2, <1>4, <1>5, <1>8 DEF SessionSound, SettlingSound, Holds, Bare
    <3> QED  BY ONLY <1>1, <1>4, <3>1, <3>2 DEF SessionSound, SettlingSound, RevertingSound
  <2>2. Holds(f, b) => Holds(w, b) \/ \E t \in todo : t[1] = b  BY ONLY <1>4, <1>8 DEF Holds
  <2> QED  BY <1>1, <1>2, <1>3, <2>1, <2>2, PutBet
<1> QED  BY <1>6, <1>7, <1>8

LEMMA WorkedSound ==
    ASSUME TypeOK, NEW b \in B, b \notin contested', BetInv(b),
           NEW p \in Sessions, NEW t, NEW f, Worked(p, t, f)
    PROVE  BetInv(b)'
<1>1. /\ b \notin contested /\ Put(p, f) /\ bet' = bet /\ ends' = ends /\ paid' = paid
      /\ work[p] \in Settling /\ work[p].at = "settling" /\ t \in work[p].todo
  BY DEF Worked, betVars
<1>2. PICK w \in Settling : w = work[p] /\ w.at = "settling" /\ t \in w.todo  BY <1>1
<1>3. /\ BetSound(bet[b], ends[b], paid[b]) /\ SessionSound(w, b, bet[b], ends[b])
      /\ ends[b].won \in Nat /\ ends[b].lost \in Nat
  BY <1>1, <1>2 DEF BetInv, TypeOK
<1>4. CASE PassesOver(p, t, f)
  <2>1. SessionSound(f, b, bet[b], ends[b]) /\ (Holds(f, b) => Holds(w, b))
    BY ONLY <1>2, <1>3, <1>4
       DEF PassesOver, SessionSound, SettlingSound, RevertingSound, SettledSound, Holds, Bare
  <2> QED  BY <1>1, <1>2, <1>3, <2>1, PutBet
<1>5. CASE Settles(p, t, f)
  <2>1. PICK outcome \in {"won", "lost"}, c \in B, seen \in Int : SettledAs(p, w, t, outcome, c, seen, f)
    BY <1>2, <1>5 DEF Settles
  <2>2. /\ f.at \in {"settling", "commission"} /\ f.route = w.route /\ f.todo = w.todo \ {t} /\ c = t[1]
        /\ f.done = [w.done EXCEPT ![c] = outcome]
        /\ f.gain = [w.gain EXCEPT ![c] = IF outcome = "won" THEN @ + 1 ELSE @]
        /\ f.new = [w.new EXCEPT ![c] = IF Writes(p, c) THEN Announced(@, outcome) ELSE @]
    BY ONLY <2>1 DEF SettledAs
  <2>3. /\ w.done \in [B -> {"none", "won", "lost"}] /\ w.gain \in [B -> Nat]
        /\ w.new \in [B -> [won : Nat, lost : Nat]]
    BY DEF Settling
  <2>4. CASE b # c
    <3>1. f.done[b] = w.done[b] /\ f.gain[b] = w.gain[b] /\ f.new[b] = w.new[b]
      BY ONLY <2>2, <2>3, <2>4, b \in B
    <3>2. SettledSound(w, b, ends[b]) => SettledSound(f, b, ends[b])
      BY ONLY <2>2, <3>1 DEF SettledSound
    <3>3. SessionSound(f, b, bet[b], ends[b]) /\ (Holds(f, b) => Holds(w, b))
      BY ONLY <1>2, <1>3, <2>2, <3>1, <3>2
         DEF SessionSound, SettlingSound, RevertingSound, Holds, Bare
    <3> QED  BY <1>1, <1>2, <1>3, <3>3, PutBet
  <2>5. CASE b = c
    <3>1. Holds(w, b) /\ t[1] = b  BY ONLY <1>2, <2>2, <2>5 DEF Holds
    <3>2. bet[b] = "pending" /\ w.done[b] = "none"
      BY ONLY <1>2, <1>3, <3>1 DEF SessionSound, SettlingSound, SettledSound
    <3>3. w.new[b].won = 0 /\ w.new[b].lost = 0 /\ w.gain[b] = 0
      BY ONLY <1>2, <1>3, <3>2 DEF SessionSound, SettlingSound, Bare
    <3>4. f.done[b] = outcome /\ f.gain[b] = IF outcome = "won" THEN 1 ELSE 0
      BY ONLY <2>2, <2>3, <2>5, <3>3, b \in B
    <3>5. \A u \in f.todo : u[1] # b
      BY ONLY <1>2, <1>3, <2>2, <3>1 DEF SessionSound, SettlingSound
    <3>6. f.new[b] = IF Writes(p, b) THEN Announced(w.new[b], outcome) ELSE w.new[b]
      BY ONLY <2>2, <2>3, <2>5, b \in B
    <3>7. w.new[b] \in [won : Nat, lost : Nat]  BY ONLY <2>3, b \in B
    <3>8. CASE Writes(p, b)
      <4>1. /\ f.new[b].won = IF outcome = "won" THEN 1 ELSE 0
            /\ f.new[b].lost = IF outcome = "lost" THEN 1 ELSE 0
        <5>1. f.new[b] = Announced(w.new[b], outcome)  BY ONLY <3>6, <3>8
        <5>2. CASE outcome = "won"  BY ONLY <3>3, <3>7, <5>1, <5>2, AnnouncedType
        <5>3. CASE outcome = "lost"  BY ONLY <3>3, <3>7, <5>1, <5>3, AnnouncedType
        <5> QED  BY ONLY <5>2, <5>3, outcome \in {"won", "lost"}
      <4>2. w.route = "records" => Seen(p, b) = 0  BY <1>2, <3>8 DEF Writes
      <4>3. Seen(p, b) = ends[b].won + ends[b].lost  BY <1>2, <1>3, <3>3 DEF Seen
      <4>4. SettledSound(f, b, ends[b])
        BY ONLY <1>3, <2>2, <3>5, <4>1, <4>2, <4>3, outcome \in {"won", "lost"} DEF SettledSound
      <4>5. SessionSound(f, b, bet[b], ends[b])
        BY ONLY <2>2, <3>2, <3>4, <3>5, <4>1, <4>4, outcome \in {"won", "lost"}
           DEF SessionSound, SettlingSound, RevertingSound
      <4> QED  BY <1>1, <1>2, <1>3, <3>1, <4>5, PutBet
    <3>9. CASE ~Writes(p, b)
      <4>1. f.new[b].won = 0 /\ f.new[b].lost = 0  BY ONLY <3>3, <3>6, <3>9
      <4>2. Seen(p, b) # 0  BY <1>2, <3>9 DEF Writes
      <4>3. Seen(p, b) = ends[b].won + ends[b].lost  BY <1>2, <1>3, <3>3 DEF Seen
      <4>4. SettledSound(f, b, ends[b])
        BY ONLY <1>3, <3>5, <4>1, <4>2, <4>3 DEF SettledSound
      <4>5. SessionSound(f, b, bet[b], ends[b])
        BY ONLY <2>2, <3>2, <3>4, <3>5, <4>1, <4>4, outcome \in {"won", "lost"}
           DEF SessionSound, SettlingSound, RevertingSound
      <4> QED  BY <1>1, <1>2, <1>3, <3>1, <4>5, PutBet
    <3> QED  BY <3>8, <3>9
  <2> QED  BY <2>4, <2>5
<1> QED  BY <1>4, <1>5 DEF Worked

\* What a commit does to one bet that nobody else works on.
LEMMA Committed ==
    ASSUME TypeOK, NEW b \in B, b \notin contested', BetInv(b),
           NEW p \in Sessions, NEW w, NEW done, NEW f, Commits(p, w, done, f)
    PROVE  /\ b \notin contested /\ w = work[p]
           /\ BetSound(bet[b], ends[b], paid[b]) /\ SessionSound(w, b, bet[b], ends[b])
           /\ ends[b].won \in Nat /\ ends[b].lost \in Nat
           /\ w.new[b].won \in Nat /\ w.new[b].lost \in Nat /\ w.gain[b] \in Nat
           /\ done[b] \in {"none", "won", "lost"} /\ w.done[b] \in {"none", "won", "lost"}
           /\ done[b] \in {"none", w.done[b]} /\ (w.done[b] = "won" => done[b] = "won")
           /\ bet'[b] = IF done[b] = "none" THEN bet[b] ELSE done[b]
           /\ ends'[b] \in [won : Nat, lost : Nat]
           /\ ends'[b].won = ends[b].won + w.new[b].won
           /\ ends'[b].lost = ends[b].lost + w.new[b].lost
           /\ paid'[b] = paid[b] + w.gain[b]
           /\ bet[b] \in {"none", "pending", "won", "lost"}
<1>1. /\ w = work[p] /\ w \in Settling /\ done \in [B -> {"none", "won", "lost"}]
      /\ contested' = contested
      /\ \A c \in B : /\ bet'[c] = IF done[c] = "none" THEN bet[c] ELSE done[c]
                      /\ ends'[c] = [won |-> ends[c].won + w.new[c].won,
                                     lost |-> ends[c].lost + w.new[c].lost]
                      /\ paid'[c] = paid[c] + w.gain[c]
  BY DEF Commits
<1>2. /\ w.done \in [B -> {"none", "won", "lost"}] /\ w.gain \in [B -> Nat]
      /\ w.new \in [B -> [won : Nat, lost : Nat]]
  BY <1>1 DEF Settling
<1>3. ends[b] \in [won : Nat, lost : Nat] /\ bet[b] \in {"none", "pending", "won", "lost"}
  BY DEF TypeOK
<1>4. BetSound(bet[b], ends[b], paid[b]) /\ SessionSound(w, b, bet[b], ends[b]) /\ b \notin contested
  BY <1>1 DEF BetInv
<1>5. done = w.done \/ \E a \in B : w.done[a] = "lost" /\ done = [w.done EXCEPT ![a] = "none"]
  BY DEF Commits, GoesOn
<1>6. done[b] \in {"none", w.done[b]} /\ (w.done[b] = "won" => done[b] = "won")
  BY ONLY <1>2, <1>5, b \in B
<1>7. /\ w.new[b] \in [won : Nat, lost : Nat] /\ w.gain[b] \in Nat
      /\ w.done[b] \in {"none", "won", "lost"} /\ done[b] \in {"none", "won", "lost"}
  BY ONLY <1>1, <1>2, b \in B
<1>8. /\ ends'[b] = [won |-> ends[b].won + w.new[b].won, lost |-> ends[b].lost + w.new[b].lost]
      /\ bet'[b] = IF done[b] = "none" THEN bet[b] ELSE done[b]
      /\ paid'[b] = paid[b] + w.gain[b]
  BY ONLY <1>1, b \in B
<1>9. /\ ends[b].won \in Nat /\ ends[b].lost \in Nat /\ w.new[b].won \in Nat /\ w.new[b].lost \in Nat
      /\ ends[b].won + w.new[b].won \in Nat /\ ends[b].lost + w.new[b].lost \in Nat
  BY ONLY <1>3, <1>7
<1>10. /\ ends'[b] \in [won : Nat, lost : Nat]
       /\ ends'[b].won = ends[b].won + w.new[b].won /\ ends'[b].lost = ends[b].lost + w.new[b].lost
  BY ONLY <1>8, <1>9
<1>11. w = work[p] /\ b \notin contested  BY <1>1, <1>4
<1> QED  BY ONLY <1>3, <1>4, <1>6, <1>7, <1>8, <1>9, <1>10, <1>11

LEMMA CommitsSound ==
    ASSUME TypeOK, NEW b \in B, b \notin contested', BetInv(b),
           NEW p \in Sessions, NEW w, NEW done, NEW f, Commits(p, w, done, f)
    PROVE  BetInv(b)'
<1> DEFINE Facts ==
        /\ b \notin contested /\ w = work[p]
        /\ BetSound(bet[b], ends[b], paid[b]) /\ SessionSound(w, b, bet[b], ends[b])
        /\ ends[b].won \in Nat /\ ends[b].lost \in Nat
        /\ w.new[b].won \in Nat /\ w.new[b].lost \in Nat /\ w.gain[b] \in Nat
        /\ w.done[b] \in {"none", "won", "lost"}
        /\ done[b] \in {"none", w.done[b]} /\ (w.done[b] = "won" => done[b] = "won")
        /\ bet'[b] = IF done[b] = "none" THEN bet[b] ELSE done[b]
        /\ ends'[b].won = ends[b].won + w.new[b].won
        /\ ends'[b].lost = ends[b].lost + w.new[b].lost
        /\ paid'[b] = paid[b] + w.gain[b]
<1>1. Facts  BY Committed
<1>2. w.at \in {"settling", "commission"} /\ Put(p, f)  BY DEF Commits
<1>3. BetSound(bet'[b], ends'[b], paid'[b])
  <2>1. CASE w.done[b] = "none"
    <3>1. w.new[b].won = 0 /\ w.gain[b] = 0 /\ done[b] = "none"
      BY ONLY <1>1, <1>2, <2>1 DEF SessionSound, SettlingSound, Bare
    <3> QED  BY ONLY <1>1, <3>1 DEF BetSound
  <2>2. CASE w.done[b] # "none"
    <3>1. bet[b] = "pending"  BY ONLY <1>1, <1>2, <2>2 DEF SessionSound, SettlingSound, Holds
    <3>2. /\ w.gain[b] = (IF w.done[b] = "won" THEN 1 ELSE 0) /\ w.new[b].won <= 1
          /\ w.done[b] # "won" => w.new[b].won = 0
      BY ONLY <1>1, <1>2, <2>2 DEF SessionSound, SettlingSound, SettledSound
    <3>3. paid[b] = 0 /\ ends[b].won = 0  BY ONLY <1>1, <3>1 DEF BetSound
    <3> QED  BY ONLY <1>1, <2>2, <3>1, <3>2, <3>3 DEF BetSound
  <2> QED  BY ONLY <2>1, <2>2
<1>4. Holds(w, b) \/ (bet'[b] = bet[b] /\ ends'[b] = ends[b])
  <2>1. ~Holds(w, b) => w.done[b] = "none" /\ w.new[b].won = 0 /\ w.new[b].lost = 0
    BY ONLY <1>1, <1>2 DEF SessionSound, SettlingSound, Holds, Bare
  <2>2. ends[b] \in [won : Nat, lost : Nat] /\ ends'[b] \in [won : Nat, lost : Nat]
    BY Committed DEF TypeOK
  <2> QED  BY ONLY <1>1, <2>1, <2>2
<1>5. CASE f = Idle
  <2>1. SessionSound(f, b, bet'[b], ends'[b]) /\ ~Holds(f, b)  BY <1>5, Free
  <2> QED  BY <1>1, <1>2, <1>3, <1>4, <2>1, PutBet
<1>6. CASE GoesOn(w, done, f)
  <2>1. PICK a \in B :
            /\ w.done[a] = "lost" /\ w.new[a].lost = 1
            /\ done = [w.done EXCEPT ![a] = "none"]
            /\ f.at = "settling" /\ f.route = "records" /\ f.todo = w.todo
            /\ f.done = [c \in B |-> IF c = a THEN "lost" ELSE "none"]
            /\ f.new[b].won = 0 /\ f.new[b].lost = 0 /\ f.gain[b] = 0
    BY <1>6 DEF GoesOn
  <2>2. Holds(f, b) => Holds(w, b)  BY ONLY <1>2, <2>1, b \in B DEF Holds
  <2>3. f.done[b] = IF b = a THEN "lost" ELSE "none"  BY ONLY <2>1, b \in B
  <2>4. w.done \in [B -> {"none", "won", "lost"}]  BY DEF Commits, Settling
  <2>5. Holds(f, b) => bet'[b] = "pending"
    <3>1. SUFFICES ASSUME Holds(f, b)  PROVE bet'[b] = "pending"  OBVIOUS
    <3>2. bet[b] = "pending"  BY ONLY <1>1, <1>2, <2>2, <3>1 DEF SessionSound, SettlingSound
    <3>3. CASE b = a
      <4>1. done[b] = "none"  BY ONLY <2>1, <2>4, <3>3, b \in B
      <4> QED  BY ONLY <1>1, <3>2, <4>1
    <3>4. CASE b # a
      <4>1. \E t \in w.todo : t[1] = b  BY ONLY <2>1, <2>3, <3>1, <3>4 DEF Holds
      <4>2. w.done[b] = "none"
        BY ONLY <1>1, <1>2, <4>1 DEF SessionSound, SettlingSound, SettledSound
      <4> QED  BY ONLY <1>1, <3>2, <4>2
    <3> QED  BY ONLY <3>3, <3>4
  <2>6. SettledSound(f, b, ends'[b])
    <3>1. SUFFICES ASSUME f.done[b] # "none"  PROVE SettledSound(f, b, ends'[b])
      BY DEF SettledSound
    <3>2. b = a  BY ONLY <2>3, <3>1
    <3>3. \A t \in w.todo : t[1] # b
      BY ONLY <1>1, <1>2, <2>1, <3>2 DEF SessionSound, SettlingSound, SettledSound
    <3>4. ends'[b].lost >= 1 /\ ends'[b].won \in Nat /\ ends'[b].lost \in Nat
      BY ONLY <1>1, <2>1, <3>2
    <3> QED  BY ONLY <2>1, <3>3, <3>4 DEF SettledSound
  <2>7. SessionSound(f, b, bet'[b], ends'[b])
    BY ONLY <1>1, <1>2, <2>1, <2>3, <2>5, <2>6
       DEF SessionSound, SettlingSound, RevertingSound, Bare
  <2> QED  BY <1>1, <1>2, <1>3, <1>4, <2>2, <2>7, PutBet
<1> QED  BY <1>5, <1>6 DEF Commits

LEMMA RevertBegunSound ==
    ASSUME TypeOK, NEW b \in B, b \notin contested', BetInv(b),
           NEW p \in Sessions, NEW f, RevertBegun(p, f)
    PROVE  BetInv(b)'
<1>1. PICK todo : todo = {<<c, Row, "none">> : c \in {c \in B : f.done[c] # "none"}}  OBVIOUS
<1>2. todo \in SUBSET (B \X O \X Results)
  <2>1. Row \in O /\ "none" \in Results  BY DEF O, Results
  <2> QED  BY <1>1, <2>1
<1>3. Contest(p, todo)  BY <1>1 DEF RevertBegun
<1>4. b \notin contested /\ ((\E t \in todo : t[1] = b) => \A q \in Sessions \ {p} : ~Holds(work[q], b))
  BY <1>2, <1>3, Contested
<1>5. /\ Put(p, f) /\ bet' = bet /\ ends' = ends /\ paid' = paid /\ f.at = "reverting" /\ f.todo = {}
      /\ \/ f.done[b] = "none" /\ Bare(f, b)
         \/ f.done[b] = bet[b] /\ bet[b] \in {"won", "lost"} /\ f.new[b] = ends[b]
  BY DEF RevertBegun
<1>6. Holds(f, b) => \E t \in todo : t[1] = b
  <2>1. SUFFICES ASSUME Holds(f, b)  PROVE \E t \in todo : t[1] = b  OBVIOUS
  <2>2. f.done[b] # "none"  BY ONLY <1>5, <2>1 DEF Holds
  <2>3. <<b, Row, "none">> \in todo  BY ONLY <1>1, <2>2, b \in B
  <2> QED  BY ONLY <2>3
<1>7. SessionSound(f, b, bet[b], ends[b])
  BY ONLY <1>5 DEF SessionSound, SettlingSound, RevertingSound, Bare
<1>8. BetSound(bet[b], ends[b], paid[b])  BY <1>4 DEF BetInv
<1> QED  BY <1>4, <1>5, <1>6, <1>7, <1>8, PutBet

\* What a revert does to one bet that nobody else works on.
Reverted(w, b) ==
    /\ b \notin contested /\ w \in Settling /\ w.at = "reverting"
    /\ BetSound(bet[b], ends[b], paid[b]) /\ SessionSound(w, b, bet[b], ends[b])
    /\ ends[b] \in [won : Nat, lost : Nat] /\ w.new[b] \in [won : Nat, lost : Nat]
    /\ bet'[b] = IF w.done[b] # "none" THEN "pending" ELSE bet[b]
    /\ ends'[b] = [won |-> ends[b].won - w.new[b].won, lost |-> ends[b].lost - w.new[b].lost]
    /\ paid'[b] = IF w.done[b] = "won" THEN paid[b] - 1 ELSE paid[b]
    /\ w.done[b] \in {"none", "won", "lost"}

LEMMA RevertedBet ==
    ASSUME TypeOK, NEW b \in B, b \notin contested', BetInv(b), NEW p \in Sessions, Revert(p)
    PROVE  Reverted(work[p], b)
<1>1. PICK w \in Settling : w = work[p] /\ w.at = "reverting"  BY Kind DEF Revert, At, Settlers
<1>2. b \notin contested  BY DEF Revert
<1>3. BetSound(bet[b], ends[b], paid[b]) /\ SessionSound(w, b, bet[b], ends[b])
  BY <1>1, <1>2 DEF BetInv
<1>4. ends[b] \in [won : Nat, lost : Nat]  BY DEF TypeOK
<1>5. w.new[b] \in [won : Nat, lost : Nat] /\ w.done[b] \in {"none", "won", "lost"}  BY DEF Settling
<1>6. /\ bet'[b] = IF w.done[b] # "none" THEN "pending" ELSE bet[b]
      /\ ends'[b] = [won |-> ends[b].won - w.new[b].won, lost |-> ends[b].lost - w.new[b].lost]
      /\ paid'[b] = IF w.done[b] = "won" THEN paid[b] - 1 ELSE paid[b]
  BY <1>1 DEF Revert
<1> QED  BY ONLY <1>1, <1>2, <1>3, <1>4, <1>5, <1>6 DEF Reverted

LEMMA RevertSound ==
    ASSUME TypeOK, NEW b \in B, b \notin contested', BetInv(b), NEW p \in Sessions, Revert(p)
    PROVE  BetInv(b)'
<1>1. PICK w : w = work[p] /\ Reverted(w, b)  BY RevertedBet
<1>2. /\ b \notin contested
      /\ \A q \in Sessions : SessionSound(work[q], b, bet[b], ends[b])
      /\ \A q \in Sessions, r \in Sessions : q # r => ~(Holds(work[q], b) /\ Holds(work[r], b))
  BY <1>1 DEF BetInv, Reverted
<1>3. CASE w.done[b] = "none"
  <2>1. w.new[b].won = 0 /\ w.new[b].lost = 0
    BY ONLY <1>1, <1>3 DEF Reverted, SessionSound, RevertingSound, Bare
  <2>2. bet'[b] = bet[b] /\ ends'[b] = ends[b] /\ paid'[b] = paid[b]
    BY ONLY <1>1, <1>3, <2>1 DEF Reverted
  <2>3. ASSUME NEW q \in Sessions
        PROVE  SessionSound(work'[q], b, bet[b], ends[b]) /\ (Holds(work'[q], b) => Holds(work[q], b))
    <3>1. CASE q = p  BY <3>1, RevertOthers, Free
    <3>2. CASE q # p /\ work[q].at # "reverting"  BY <1>2, <3>2, RevertOthers
    <3>3. CASE q # p /\ work[q].at = "reverting"
      <4>1. /\ work[q] \in Settling /\ work'[q].at = "reverting" /\ work'[q].todo = work[q].todo
            /\ work'[q].done = work[q].done /\ work'[q].new = Less(work[q].new, w.new)
        BY <1>1, <3>3, RevertOthers
      <4>2. PICK new \in [B -> [won : Nat, lost : Nat]], gone \in [B -> [won : Nat, lost : Nat]] :
               new = work[q].new /\ gone = w.new
        BY <1>1, <4>1 DEF Settling, Reverted
      <4>3. /\ Less(new, gone)[b] \in [won : Nat, lost : Nat]
            /\ Less(new, gone)[b].won = IF new[b].won > gone[b].won
                                        THEN new[b].won - gone[b].won ELSE 0
            /\ Less(new, gone)[b].lost = IF new[b].lost > gone[b].lost
                                         THEN new[b].lost - gone[b].lost ELSE 0
        BY ONLY <4>2, LessType, b \in B
      <4>4. new[b] \in [won : Nat, lost : Nat] /\ gone[b].won = 0 /\ gone[b].lost = 0
        BY ONLY <2>1, <4>2, b \in B
      <4>5. work'[q].new[b] = work[q].new[b]  BY ONLY <4>1, <4>2, <4>3, <4>4
      <4>6. SessionSound(work[q], b, bet[b], ends[b])  BY <1>2
      <4> QED  BY ONLY <3>3, <4>1, <4>5, <4>6
                DEF SessionSound, SettlingSound, RevertingSound, Bare, Holds
    <3> QED  BY <3>1, <3>2, <3>3
  <2>4. /\ BetSound(bet'[b], ends'[b], paid'[b])
        /\ \A q \in Sessions : SessionSound(work'[q], b, bet'[b], ends'[b])
        /\ \A r \in Sessions, q \in Sessions : r # q => ~(Holds(work'[r], b) /\ Holds(work'[q], b))
    BY ONLY <1>1, <1>2, <2>2, <2>3 DEF Reverted
  <2> QED  BY ONLY <2>4, BetInvNext
<1>4. CASE w.done[b] # "none"
  <2>1. w.done[b] = bet[b] /\ w.new[b] = ends[b]
    BY ONLY <1>1, <1>4 DEF Reverted, SessionSound, RevertingSound
  <2>2. bet'[b] = "pending" /\ ends'[b].won = 0 /\ paid'[b] = 0
    BY ONLY <1>1, <1>4, <2>1 DEF Reverted, BetSound
  <2>3. BetSound(bet'[b], ends'[b], paid'[b])  BY ONLY <2>2 DEF BetSound
  <2>4. Holds(w, b)  BY ONLY <1>1, <1>4 DEF Reverted, Holds
  <2>5. ASSUME NEW q \in Sessions
        PROVE  SessionSound(work'[q], b, bet'[b], ends'[b]) /\ ~Holds(work'[q], b)
    <3>1. CASE q = p  BY <3>1, RevertOthers, Free
    <3>2. CASE q # p /\ work[q].at # "reverting"
      <4>1. work'[q] = work[q]  BY <3>2, RevertOthers
      <4>2. ~Holds(work[q], b) /\ SessionSound(work[q], b, bet[b], ends[b])  BY <1>1, <1>2, <2>4, <3>2
      <4> QED  BY ONLY <4>1, <4>2, SoundFrame
    <3>3. CASE q # p /\ work[q].at = "reverting"
      <4>1. /\ work[q] \in Settling /\ work'[q].at = "reverting" /\ work'[q].todo = work[q].todo
            /\ work'[q].done = work[q].done /\ work'[q].new = Less(work[q].new, w.new)
        BY <1>1, <3>3, RevertOthers
      <4>2. PICK new \in [B -> [won : Nat, lost : Nat]], gone \in [B -> [won : Nat, lost : Nat]] :
               new = work[q].new /\ gone = w.new
        BY <1>1, <4>1 DEF Settling, Reverted
      <4>3. /\ Less(new, gone)[b].won = IF new[b].won > gone[b].won
                                        THEN new[b].won - gone[b].won ELSE 0
            /\ Less(new, gone)[b].lost = IF new[b].lost > gone[b].lost
                                         THEN new[b].lost - gone[b].lost ELSE 0
        BY ONLY <4>2, LessType, b \in B
      <4>4. ~Holds(work[q], b) /\ SessionSound(work[q], b, bet[b], ends[b])
        BY <1>1, <1>2, <2>4, <3>3
      <4>5. work[q].done[b] = "none" /\ Bare(work[q], b)
        BY ONLY <3>3, <4>4 DEF Holds, SessionSound, RevertingSound
      <4>6. new[b] \in [won : Nat, lost : Nat] /\ gone[b] \in [won : Nat, lost : Nat]
        BY ONLY b \in B, new \in [B -> [won : Nat, lost : Nat]], gone \in [B -> [won : Nat, lost : Nat]]
      <4>7. Bare(work'[q], b) /\ ~Holds(work'[q], b)
        BY ONLY <4>1, <4>2, <4>3, <4>4, <4>5, <4>6, <3>3 DEF Bare, Holds
      <4> QED  BY ONLY <4>1, <4>7 DEF SessionSound, SettlingSound, RevertingSound, Bare
    <3> QED  BY <3>1, <3>2, <3>3
  <2> QED  BY ONLY <2>3, <2>5, BetInvNext
<1> QED  BY <1>3, <1>4

LEMMA BetInvStep ==
    ASSUME TypeOK, AllSane, StakedFirst, NEW b \in B, BetInv(b), [Next]_vars
    PROVE  BetInv(b)'
<1> SUFFICES ASSUME b \notin contested'  PROVE BetInv(b)'  BY DEF BetInv
<1>1. ASSUME contested' = contested, bet'[b] = bet[b], ends'[b] = ends[b], paid'[b] = paid[b],
             NEW p \in Sessions, NEW x, Put(p, x), ~Holds(x, b),
             \A status, n : SessionSound(x, b, status, n)
      PROVE  BetInv(b)'
  <2>1. b \notin contested /\ BetSound(bet[b], ends[b], paid[b])  BY <1>1 DEF BetInv
  <2> QED  BY <1>1, <2>1, PutBet
<1>2. CASE \E p \in Sessions : FundsOnly(p)
  <2>1. PICK p \in Sessions : FundsOnly(p)  BY <1>2
  <2>2. PICK x \in Active \cup {Idle} : Put(p, x)  BY <2>1, FundsPut DEF FundsOnly
  <2> QED  BY <1>1, <2>1, <2>2, Free DEF FundsOnly, betVars
<1>3. CASE \E p \in Sessions : SettlerStep(p)
  <2>1. PICK p \in Sessions : SettlerStep(p)  BY <1>3
  <2>2. CASE \E f : Begun(p, f)
    <3>1. PICK f : Begun(p, f)  BY <2>2
    <3>2. ~Holds(f, b) /\ \A status, n : SessionSound(f, b, status, n)
      BY <3>1, EmptyHanded DEF Begun
    <3> QED  BY <1>1, <3>1, <3>2 DEF Begun, betVars
  <2>3. CASE GivesUp(p)  BY <1>1, <2>3, Free DEF GivesUp, betVars
  <2> QED
    BY <2>1, <2>2, <2>3, ListsSound, WorkedSound, CommitsSound, RevertBegunSound, RevertSound
       DEF SettlerStep
<1>4. CASE UNCHANGED work /\ UNCHANGED betVars
  <2>1. b \notin contested  BY <1>4 DEF betVars
  <2>2. /\ BetSound(bet'[b], ends'[b], paid'[b])
        /\ \A q \in Sessions : SessionSound(work'[q], b, bet'[b], ends'[b])
        /\ \A p \in Sessions, q \in Sessions : p # q => ~(Holds(work'[p], b) /\ Holds(work'[q], b))
    BY <1>4, <2>1 DEF BetInv, betVars
  <2> QED  BY ONLY <2>2, BetInvNext
<1>5. CASE \E c \in B : CreateRecord(c)
  <2>1. PICK c \in B : CreateRecord(c)  BY <1>5
  <2>2. /\ work' = work /\ ends' = ends /\ paid' = paid /\ contested' = contested
        /\ bet[c] = "none" /\ bet' = [bet EXCEPT ![c] = "pending"]
    BY <2>1 DEF CreateRecord
  <2>3. bet \in [B -> {"none", "pending", "won", "lost"}]  BY DEF TypeOK
  <2>4. bet'[b] = IF b = c THEN "pending" ELSE bet[b]  BY ONLY <2>2, <2>3, b \in B
  <2>5. \A q \in Sessions : ~Holds(work[q], c)  BY <2>2 DEF StakedFirst
  <2>6. /\ BetSound(bet[b], ends[b], paid[b])
        /\ \A q \in Sessions : SessionSound(work[q], b, bet[b], ends[b])
        /\ \A p \in Sessions, q \in Sessions : p # q => ~(Holds(work[p], b) /\ Holds(work[q], b))
    BY <2>2 DEF BetInv
  <2>7. BetSound(bet'[b], ends'[b], paid'[b])  BY ONLY <2>2, <2>4, <2>6 DEF BetSound
  <2>8. \A q \in Sessions : SessionSound(work[q], b, bet'[b], ends'[b])
    <3> SUFFICES ASSUME NEW q \in Sessions  PROVE SessionSound(work[q], b, bet'[b], ends'[b])
      OBVIOUS
    <3>1. ~Holds(work[q], b) \/ (bet'[b] = bet[b] /\ ends'[b] = ends[b])
      BY ONLY <2>2, <2>4, <2>5, q \in Sessions
    <3>2. SessionSound(work[q], b, bet[b], ends[b])  BY <2>6
    <3> QED  BY ONLY <3>1, <3>2, SoundFrame
  <2>9. \A q \in Sessions : SessionSound(work'[q], b, bet'[b], ends'[b])  BY ONLY <2>2, <2>8
  <2>10. \A p \in Sessions, q \in Sessions : p # q => ~(Holds(work'[p], b) /\ Holds(work'[q], b))
    BY ONLY <2>2, <2>6
  <2> QED  BY ONLY <2>7, <2>9, <2>10, BetInvNext
<1> QED  BY <1>2, <1>3, <1>4, <1>5, NextCases DEF OddsStep

-----------------------------------------------------------------------------
(* The requests on the balance, and the provider.                          *)

Apart(q) ==
    \/ work'[q] = work[q]
    \/ work'[q].at \notin {"provider", "loaded"} /\ work[q].at \notin {"provider", "loaded"}

LEMMA NotActive ==
    ASSUME NEW x \in Settling \cup {Idle}
    PROVE  x.at \notin {"provider", "loaded"}
BY DEF Settling, Idle

LEMMA SettlerApart ==
    ASSUME TypeOK, NEW p \in Sessions, SettlerStep(p)
    PROVE  /\ \A q \in Sessions : Apart(q)
           /\ UNCHANGED <<unbooked, staked, failures>>
<1>1. ASSUME NEW x \in Settling \cup {Idle}, Put(p, x), work[p] \in Settling \cup {Idle}
      PROVE  \A q \in Sessions : Apart(q)
  <2>1. \A q \in Sessions : work'[q] = IF q = p THEN x ELSE work[q]
    BY <1>1, Types DEF WorkType, Put
  <2>2. x.at \notin {"provider", "loaded"} /\ work[p].at \notin {"provider", "loaded"}
    BY <1>1, NotActive
  <2> QED  BY ONLY <2>1, <2>2 DEF Apart
<1>2. CASE \E f : Begun(p, f) /\ work[p] = Idle
  BY <1>1, <1>2 DEF Begun, fundsVars
<1>3. CASE \E f, todo : Lists(p, f, todo)
  BY <1>1, <1>3 DEF Lists, Reads
<1>4. CASE \E t, f : Worked(p, t, f)
  <2>1. PICK t, f : Worked(p, t, f)  BY <1>4
  <2>2. f \in Settling  BY <2>1 DEF Worked, PassesOver, Settles, SettledAs
  <2> QED  BY <1>1, <2>1, <2>2 DEF Worked
<1>5. CASE GivesUp(p)  BY <1>1, <1>5 DEF GivesUp
<1>6. CASE \E w, done, f : Commits(p, w, done, f)
  <2>1. PICK w, done, f : Commits(p, w, done, f)  BY <1>6
  <2>2. f \in Settling \cup {Idle}  BY <2>1 DEF Commits, GoesOn
  <2> QED  BY <1>1, <2>1, <2>2 DEF Commits
<1>7. CASE \E f : RevertBegun(p, f)
  BY <1>1, <1>7 DEF RevertBegun, fundsVars
<1>8. CASE Revert(p)
  <2>1. UNCHANGED <<unbooked, staked, failures>>  BY <1>8 DEF Revert
  <2>2. ASSUME NEW q \in Sessions  PROVE Apart(q)
    <3>1. CASE q = p
      <4>1. work'[p] = Idle /\ work[p].at = "reverting"  BY <1>8, RevertOthers DEF Revert
      <4> QED  BY ONLY <3>1, <4>1 DEF Apart, Idle
    <3>2. CASE q # p  BY <1>8, <3>2, RevertOthers DEF Apart
    <3> QED  BY <3>1, <3>2
  <2> QED  BY <2>1, <2>2
<1> QED  BY <1>2, <1>3, <1>4, <1>5, <1>6, <1>7, <1>8 DEF SettlerStep

LEMMA FundsSoundApart ==
    ASSUME \A p \in Sessions : FundsSound(p), staked' = staked,
           \A q \in Sessions : work'[q] = work[q] \/ work'[q].at \notin {"provider", "loaded"}
    PROVE  \A p \in Sessions : FundsSound(p)'
BY DEF FundsSound, Deducting

LEMMA FundsSoundStep ==
    ASSUME TypeOK, AllSane, \A p \in Sessions : FundsSound(p), [Next]_vars
    PROVE  \A p \in Sessions : FundsSound(p)'
<1>1. CASE \E p \in Sessions : FundsOnly(p)
  <2>1. PICK p \in Sessions : FundsOnly(p)  BY <1>1
  <2>2. CASE FundsRequest(p)
    <3>1. PICK at \in {"provider", "loaded"}, kind \in Kinds, b \in B \cup {None} :
              /\ Put(p, [at |-> at, kind |-> kind, seen |-> funds, bet |-> b])
              /\ UNCHANGED fundsVars
              /\ at = "provider" => ThroughProvider(kind)
              /\ ThroughProvider(kind) => at = "provider"
              /\ kind = "deduct" <=> b \in B
              /\ b \in B => b \notin staked /\ \A q \in Sessions : ~Deducting(q, b)
      BY <2>2, LoadStep
    <3>2. \A q \in Sessions : work'[q] = IF q = p THEN [at |-> at, kind |-> kind, seen |-> funds, bet |-> b]
                                         ELSE work[q]
      BY <3>1, Types DEF WorkType, Put
    <3>3. b \in B => at = "loaded"  BY <3>1 DEF ThroughProvider
    <3>4. staked' = staked  BY <3>1 DEF fundsVars
    <3>5. \A q \in Sessions, c \in B :
             Deducting(q, c)' <=> IF q = p THEN at = "loaded" /\ b = c ELSE Deducting(q, c)
      BY ONLY <3>2 DEF Deducting
    <3>6. FundsSound(p)'  BY <3>1, <3>2, <3>3, <3>4, <3>5 DEF FundsSound
    <3>7. ASSUME NEW q \in Sessions, q # p  PROVE FundsSound(q)'
      <4>1. work'[q] = work[q] /\ FundsSound(q)  BY <3>2, <3>7
      <4>2. ASSUME work[q].at \in {"provider", "loaded"}, NEW c \in B, work[q].bet = c
            PROVE  \A r \in Sessions \ {q} : ~Deducting(r, c)'
        <5>1. \A r \in Sessions \ {q} : ~Deducting(r, c)  BY <4>1, <4>2 DEF FundsSound
        <5>2. Deducting(q, c)  BY <4>1, <4>2 DEF FundsSound, Deducting
        <5>3. b # c  BY <3>1, <5>2
        <5> QED  BY ONLY <3>5, <5>1, <5>3, c \in B
      <4> QED  BY ONLY <3>4, <4>1, <4>2 DEF FundsSound, Deducting
    <3> QED  BY <3>6, <3>7
  <2>3. CASE Provide(p)
    <3>1. work[p] \in Active /\ work[p].at = "provider"  BY <2>3, Kind DEF Provide, At
    <3>2. PICK x \in Active : x = [work[p] EXCEPT !.at = "loaded"]  BY ONLY <3>1 DEF Active
    <3>3. \A q \in Sessions : work'[q] = IF q = p THEN x ELSE work[q]
      BY <2>3, <3>2, Types DEF WorkType, Provide
    <3>4. x.at = "loaded" /\ x.kind = work[p].kind /\ x.bet = work[p].bet
      BY ONLY <3>1, <3>2 DEF Active
    <3>5. ThroughProvider(x.kind) /\ x.kind # "deduct" /\ x.bet \notin B
      BY <3>1, <3>4 DEF FundsSound, ThroughProvider
    <3>6. staked' = staked  BY <2>3 DEF Provide
    <3> QED  BY <3>3, <3>4, <3>5, <3>6 DEF FundsSound, Deducting
  <2>4. CASE UpdateUser(p)
    <3>1. work[p] \in Active /\ work[p].at = "loaded"  BY <2>4, Kind DEF UpdateUser, At
    <3>2. \A q \in Sessions : work'[q] = IF q = p THEN Idle ELSE work[q]
      BY <2>4, Types DEF WorkType, UpdateUser
    <3>3. staked' = IF work[p].kind = "deduct" THEN staked \cup {work[p].bet} ELSE staked
      BY <2>4 DEF UpdateUser
    <3>4. ASSUME NEW q \in Sessions  PROVE FundsSound(q)'
      <4>1. CASE q = p  BY <3>2, <4>1 DEF FundsSound, Idle
      <4>2. CASE q # p
        <5>1. FundsSound(q) /\ FundsSound(p) /\ work'[q] = work[q]  BY <3>2, <4>2
        <5>2. ASSUME work[q].at \in {"provider", "loaded"}, work[q].bet \in B
              PROVE  work[q].bet \notin staked'
          <6>1. work[q].at = "loaded" /\ work[q].bet \notin staked  BY <5>1, <5>2 DEF FundsSound
          <6>2. work[p].kind = "deduct" => work[p].bet \in B /\ ~Deducting(q, work[p].bet)
            BY <3>1, <4>2, <5>1 DEF FundsSound
          <6> QED  BY <3>3, <6>1, <6>2 DEF Deducting
        <5>3. \A r \in Sessions, c \in B : Deducting(r, c)' => Deducting(r, c)
          BY ONLY <3>2 DEF Deducting, Idle
        <5> QED  BY ONLY <5>1, <5>2, <5>3, q \in Sessions DEF FundsSound
      <4> QED  BY <4>1, <4>2
    <3> QED  BY <3>4
  <2>5. CASE Fail(p)
    <3>1. \A q \in Sessions : work'[q] = IF q = p THEN Idle ELSE work[q]
      BY <2>5, Types DEF WorkType, Fail, Abort
    <3>2. staked' = staked  BY <2>5 DEF Fail
    <3>3. Idle.at \notin {"provider", "loaded"}  BY DEF Idle
    <3> QED  BY <3>1, <3>2, <3>3, FundsSoundApart
  <2> QED  BY <2>1, <2>2, <2>3, <2>4, <2>5 DEF FundsOnly, FundsStep
<1>2. CASE \E p \in Sessions : SettlerStep(p)
  BY <1>2, SettlerApart, FundsSoundApart DEF Apart
<1>3. CASE UNCHANGED work /\ staked' = staked  BY <1>3, FundsSoundApart
<1>4. CASE \E b \in B : CreateRecord(b)  BY <1>3, <1>4 DEF CreateRecord
<1>5. CASE OddsStep  BY <1>3, <1>5 DEF OddsStep
<1> QED  BY <1>1, <1>2, <1>4, <1>5, NextCases

\* The charges and payouts that were made and are not yet written down.
Open == {p \in Sessions : work[p].at = "loaded" /\ ThroughProvider(work[p].kind)}

LEMMA OpenIsFinite ==
    IsFiniteSet(Open) /\ Cardinality(Open) \in Nat
<1>1. Open \in SUBSET Sessions  BY DEF Open
<1> QED  BY <1>1, LegacyFundsAssumption, FS_Subset, FS_CardinalityType

LEMMA BookedNow == ProviderIsBooked <=> unbooked \in Cardinality(Open)..(Cardinality(Open) + failures)
BY DEF ProviderIsBooked, Open

LEMMA BookedNext ==
    ProviderIsBooked' <=> unbooked' \in Cardinality(Open')..(Cardinality(Open') + failures')
BY DEF ProviderIsBooked, Open

LEMMA ProviderStep ==
    ASSUME TypeOK, AllSane, \A p \in Sessions : FundsSound(p), ProviderIsBooked,
           [Next]_vars
    PROVE  ProviderIsBooked'
<1>0. /\ failures \in Nat /\ unbooked \in Int /\ Cardinality(Open) \in Nat /\ IsFiniteSet(Open)
      /\ unbooked \in Cardinality(Open)..(Cardinality(Open) + failures)
  BY OpenIsFinite, BookedNow DEF TypeOK, FundsTypeOK
<1>1. ASSUME Open' = Open, unbooked' = unbooked, failures' \in {failures, failures + 1}
      PROVE  ProviderIsBooked'
  <2>1. unbooked' \in Cardinality(Open')..(Cardinality(Open') + failures')  BY ONLY <1>0, <1>1
  <2> QED  BY <2>1, BookedNext
<1>2. ASSUME \A q \in Sessions : Apart(q)  PROVE Open' = Open
  BY <1>2 DEF Open, Apart
<1>3. ASSUME NEW p \in Sessions, NEW x, Put(p, x),
             ~(x.at = "loaded" /\ ThroughProvider(x.kind))
      PROVE  Open' = Open \ {p}
  <2>1. \A q \in Sessions : work'[q] = IF q = p THEN x ELSE work[q]
    BY <1>3, Types DEF WorkType, Put
  <2> QED  BY <1>3, <2>1 DEF Open
<1>4. CASE \E p \in Sessions : FundsOnly(p)
  <2>1. PICK p \in Sessions : FundsOnly(p)  BY <1>4
  <2>2. CASE FundsRequest(p)
    <3>1. PICK at \in {"provider", "loaded"}, kind \in Kinds, b \in B \cup {None} :
              /\ Put(p, [at |-> at, kind |-> kind, seen |-> funds, bet |-> b])
              /\ Begin(p) /\ UNCHANGED fundsVars
              /\ ThroughProvider(kind) => at = "provider"
      BY <2>2, LoadStep
    <3>2. Open' = Open \ {p}  BY <1>3, <3>1
    <3>3. p \notin Open  BY <3>1 DEF Begin, Open, Idle
    <3> QED  BY <1>1, <3>1, <3>2, <3>3 DEF fundsVars
  <2>3. CASE Provide(p)
    <3>1. work[p] \in Active /\ work[p].at = "provider"  BY <2>3, Kind DEF Provide, At
    <3>2. PICK x \in Active : x = [work[p] EXCEPT !.at = "loaded"]  BY ONLY <3>1 DEF Active
    <3>3. \A q \in Sessions : work'[q] = IF q = p THEN x ELSE work[q]
      BY <2>3, <3>2, Types DEF WorkType, Provide
    <3>4. x.at = "loaded" /\ x.kind = work[p].kind  BY ONLY <3>1, <3>2 DEF Active
    <3>5. ThroughProvider(x.kind)  BY <3>1, <3>4 DEF FundsSound
    <3>6. Open' = Open \cup {p}  BY <3>3, <3>4, <3>5 DEF Open
    <3>7. p \notin Open  BY <3>1 DEF Open
    <3>8. Cardinality(Open \cup {p}) = Cardinality(Open) + 1  BY <1>0, <3>7, FS_AddElement
    <3>9. unbooked' = unbooked + 1 /\ failures' = failures  BY <2>3 DEF Provide
    <3>10. unbooked' \in Cardinality(Open')..(Cardinality(Open') + failures')
      BY ONLY <1>0, <3>6, <3>8, <3>9
    <3> QED  BY <3>10, BookedNext
  <2>4. CASE UpdateUser(p)
    <3>1. work[p].at = "loaded" /\ failures' = failures  BY <2>4 DEF UpdateUser
    <3>2. Open' = Open \ {p}
      <4>1. Put(p, Idle) /\ Idle.at # "loaded"  BY <2>4 DEF UpdateUser, Put, Idle
      <4> QED  BY <1>3, <4>1
    <3>3. CASE ThroughProvider(work[p].kind)
      <4>1. p \in Open /\ unbooked' = unbooked - 1  BY <2>4, <3>1, <3>3 DEF Open, UpdateUser
      <4>2. Cardinality(Open \ {p}) = Cardinality(Open) - 1  BY <1>0, <4>1, FS_RemoveElement
      <4>3. unbooked' \in Cardinality(Open')..(Cardinality(Open') + failures')
        BY ONLY <1>0, <3>1, <3>2, <4>1, <4>2
      <4> QED  BY <4>3, BookedNext
    <3>4. CASE ~ThroughProvider(work[p].kind)
      <4>1. p \notin Open /\ unbooked' = unbooked  BY <2>4, <3>1, <3>4 DEF Open, UpdateUser
      <4> QED  BY <1>1, <3>1, <3>2, <4>1
    <3> QED  BY <3>3, <3>4
  <2>5. CASE Fail(p)
    <3>1. Open' = Open \ {p}
      <4>1. Put(p, Idle) /\ Idle.at # "loaded"  BY <2>5 DEF Fail, Abort, Put, Idle
      <4> QED  BY <1>3, <4>1
    <3>2. Cardinality(Open \ {p}) \in {Cardinality(Open), Cardinality(Open) - 1}
      BY <1>0, FS_RemoveElement
    <3>3. unbooked' = unbooked /\ failures' = failures + 1  BY <2>5 DEF Fail
    <3>4. unbooked' \in Cardinality(Open')..(Cardinality(Open') + failures')
      BY ONLY <1>0, <3>1, <3>2, <3>3
    <3> QED  BY <3>4, BookedNext
  <2> QED  BY <2>1, <2>2, <2>3, <2>4, <2>5 DEF FundsOnly, FundsStep
<1>5. CASE \E p \in Sessions : SettlerStep(p)
  BY <1>1, <1>2, <1>5, SettlerApart
<1>6. CASE UNCHANGED <<work, unbooked>> /\ failures' \in {failures, failures + 1}
  BY <1>1, <1>6 DEF Open
<1>7. CASE \E b \in B : CreateRecord(b)  BY <1>6, <1>7 DEF CreateRecord
<1>8. CASE OddsStep  BY <1>6, <1>8 DEF OddsStep
<1> QED  BY <1>4, <1>5, <1>7, <1>8, NextCases

-----------------------------------------------------------------------------
(* The balance that a session has.                                         *)

LEMMA WinsFinite ==
    ASSUME NEW w
    PROVE  IsFiniteSet(Wins(w)) /\ Cardinality(Wins(w)) \in Nat /\ Wins(w) \in SUBSET B
<1>1. Wins(w) \in SUBSET B  BY DEF Wins
<1> QED  BY <1>1, LegacyFundsAssumption, FS_Subset, FS_CardinalityType

LEMMA NoWins ==
    ASSUME NEW w, \A b \in B : w.done[b] # "won"
    PROVE  Wins(w) = {} /\ Cardinality(Wins(w)) = 0
BY FS_EmptySet DEF Wins

LEMMA ContestedGrows ==
    ASSUME TypeOK, AllSane, [Next]_vars, contested' = {}
    PROVE  contested = {}
<1>1. ASSUME NEW p \in Sessions, SettlerStep(p)  PROVE contested = {}
  BY <1>1 DEF SettlerStep, Begun, Lists, Worked, GivesUp, Commits, RevertBegun, Revert, Contest, betVars
<1>2. ASSUME UNCHANGED contested  PROVE contested = {}  BY <1>2
<1> QED  BY <1>1, <1>2, NextCases DEF FundsOnly, CreateRecord, OddsStep, betVars

LEMMA WorkedKnown ==
    ASSUME TypeOK, AllSane, contested = {}, \A b \in B : BetInv(b),
           NEW p \in Sessions, NEW t, NEW f, Worked(p, t, f), Known(work[p])
    PROVE  Known(f)
<1>1. PICK w \in Settling : w = work[p] /\ w.at = "settling" /\ t \in w.todo  BY DEF Worked
<1>2. /\ w.done \in [B -> {"none", "won", "lost"}] /\ w.seen \in Int \cup {None}
      /\ w.base \in Int \cup {None} /\ t[1] \in B
  BY <1>1 DEF Settling
<1>3. /\ funds \in Int /\ Win \in Nat /\ None \notin Int
      /\ IsFiniteSet(Wins(w)) /\ Cardinality(Wins(w)) \in Nat
  BY WinsFinite, LegacyFundsAssumption, LegacyBetsAssumption DEF TypeOK, FundsTypeOK
<1>4. w.done[t[1]] = "none"
  <2>1. SessionSound(w, t[1], bet[t[1]], ends[t[1]])  BY <1>1, <1>2 DEF BetInv
  <2> QED  BY ONLY <1>1, <2>1 DEF SessionSound, SettlingSound, SettledSound
<1>5. CASE PassesOver(p, t, f)
  <2>1. f.at = "settling" /\ f.seen = w.seen /\ f.base = w.base /\ f.done = w.done
    BY ONLY <1>1, <1>5 DEF PassesOver
  <2>2. Known(w)  BY <1>1
  <2> QED  BY ONLY <1>1, <2>1, <2>2 DEF Known, Wins, Settlers
<1>6. CASE Settles(p, t, f)
  <2>1. PICK outcome \in {"won", "lost"}, c \in B, seen \in Int : SettledAs(p, w, t, outcome, c, seen, f)
    BY <1>1, <1>6 DEF Settles
  <2>2. /\ c = t[1] /\ f.at \in {"settling", "commission"}
        /\ seen = IF w.seen = None THEN funds ELSE w.seen
        /\ f.base = IF w.seen = None THEN funds ELSE w.base
        /\ f.seen = IF outcome = "won" THEN seen + Win ELSE seen
        /\ f.done = [w.done EXCEPT ![c] = outcome]
    BY ONLY <2>1 DEF SettledAs
  <2>3. /\ w.seen = None => Wins(w) = {}
        /\ w.seen # None => w.seen = w.base + Win * Cardinality(Wins(w)) /\ w.base # None
    <3>1. Known(w) /\ Sane(w)  BY <1>1 DEF AllSane
    <3> QED  BY ONLY <1>1, <3>1 DEF Known, Settlers, Sane
  <2>4. Cardinality({}) = 0  BY FS_EmptySet
  <2>5. PICK k \in Int : k = Win * Cardinality(Wins(w))  BY <1>3
  <2>6. seen = f.base + k /\ f.base \in Int
    <3>1. CASE w.seen = None
      <4>1. Cardinality(Wins(w)) = 0  BY ONLY <2>3, <2>4, <3>1
      <4>2. k = 0  BY ONLY <1>3, <2>5, <4>1
      <4> QED  BY ONLY <1>3, <2>2, <3>1, <4>2
    <3>2. CASE w.seen # None  BY ONLY <1>2, <2>2, <2>3, <2>5, <3>2
    <3> QED  BY ONLY <3>1, <3>2
  <2>7. CASE outcome = "won"
    <3>1. Wins(f) = Wins(w) \cup {c}  BY ONLY <1>2, <2>2, <2>7, c \in B DEF Wins
    <3>2. c \notin Wins(w)  BY ONLY <1>4, <2>2 DEF Wins
    <3>3. Cardinality(Wins(f)) = Cardinality(Wins(w)) + 1
      BY ONLY <1>3, <3>1, <3>2, FS_AddElement
    <3>4. Win * Cardinality(Wins(f)) = k + Win  BY ONLY <1>3, <2>5, <3>3
    <3>5. f.seen = f.base + Win * Cardinality(Wins(f)) /\ f.seen # None
      BY ONLY <1>3, <2>2, <2>6, <2>7, <3>4, seen \in Int
    <3> QED  BY ONLY <2>2, <3>5 DEF Known
  <2>8. CASE outcome = "lost"
    <3>1. Wins(f) = Wins(w)  BY ONLY <1>2, <1>4, <2>2, <2>8, c \in B DEF Wins
    <3>2. f.seen = f.base + Win * Cardinality(Wins(f)) /\ f.seen # None
      BY ONLY <1>3, <2>2, <2>5, <2>6, <2>8, <3>1, seen \in Int
    <3> QED  BY ONLY <2>2, <3>2 DEF Known
  <2> QED  BY <2>7, <2>8
<1> QED  BY <1>5, <1>6 DEF Worked

LEMMA MoneyKnownStep ==
    ASSUME TypeOK, AllSane, \A b \in B : BetInv(b), MoneyKnown, [Next]_vars
    PROVE  MoneyKnown'
<1> USE DEF Settlers
<1> SUFFICES ASSUME contested' = {}  PROVE \A q \in Sessions : Known(work'[q])
  BY DEF MoneyKnown, Known, Wins
<1>0. contested = {} /\ \A q \in Sessions : Known(work[q])
  BY ContestedGrows DEF MoneyKnown
<1>1. ASSUME NEW p \in Sessions, NEW x, Put(p, x), Known(x)
      PROVE  \A q \in Sessions : Known(work'[q])
  <2>1. \A q \in Sessions : work'[q] = IF q = p THEN x ELSE work[q]
    BY <1>1, Types DEF WorkType, Put
  <2> QED  BY ONLY <1>0, <1>1, <2>1
<1>2. \A x \in Active \cup {Idle} : Known(x)  BY Free DEF Known
<1>3. CASE \E p \in Sessions : FundsOnly(p)
  BY <1>1, <1>2, <1>3, FundsPut DEF FundsOnly
<1>4. CASE \E p \in Sessions : SettlerStep(p)
  <2>1. PICK p \in Sessions : SettlerStep(p)  BY <1>4
  <2>2. /\ funds \in Int /\ Win \in Nat /\ None \notin Int /\ Win * 0 = 0
        /\ \A i \in Int : i = i + 0
    BY LegacyFundsAssumption, LegacyBetsAssumption DEF TypeOK, FundsTypeOK
  <2>3. CASE \E f : Begun(p, f)
    <3>1. PICK f : Begun(p, f)  BY <2>3
    <3>2. /\ Put(p, f) /\ f.seen = f.base /\ f.seen \in Int \cup {None} /\ f.at # "reverting"
          /\ \A b \in B : f.done[b] # "won"
      BY <3>1 DEF Begun, Settling, Bare
    <3>3. Known(f)  BY ONLY <2>2, <3>2, NoWins DEF Known
    <3> QED  BY <1>1, <3>2, <3>3
  <2>4. CASE \E f, todo : Lists(p, f, todo)
    <3>1. PICK f, todo : Lists(p, f, todo)  BY <2>4
    <3>2. /\ Put(p, f) /\ f.at = "settling" /\ work[p].at \in {"list", "settling"}
          /\ f.seen = work[p].seen /\ f.base = work[p].base /\ f.done = work[p].done
      BY <3>1 DEF Lists, Reads
    <3>3. Known(work[p])  BY <1>0
    <3>4. Known(f)  BY ONLY <3>2, <3>3 DEF Known, Wins, Settlers
    <3> QED  BY <1>1, <3>2, <3>4
  <2>5. CASE \E t, f : Worked(p, t, f)
    <3>1. PICK t, f : Worked(p, t, f)  BY <2>5
    <3>2. Known(f)  BY <1>0, <3>1, WorkedKnown
    <3> QED  BY <1>1, <3>1, <3>2 DEF Worked
  <2>6. CASE GivesUp(p)  BY <1>1, <1>2, <2>6 DEF GivesUp
  <2>7. CASE \E w, done, f : Commits(p, w, done, f)
    <3>1. PICK w, done, f : Commits(p, w, done, f)  BY <2>7
    <3>2. Known(f)
      <4>1. CASE f = Idle  BY <1>2, <4>1
      <4>2. CASE GoesOn(w, done, f)
        <5>1. /\ f.seen = f.base /\ f.seen \in Int \cup {None} /\ f.at # "reverting"
              /\ \A b \in B : f.done[b] # "won"
          BY <4>2 DEF GoesOn, Settling
        <5> QED  BY ONLY <2>2, <5>1, NoWins DEF Known
      <4> QED  BY <3>1, <4>1, <4>2 DEF Commits
    <3> QED  BY <1>1, <3>1, <3>2 DEF Commits
  <2>8. CASE \E f : RevertBegun(p, f)
    <3>1. PICK f : RevertBegun(p, f)  BY <2>8
    <3>2. Known(f)  BY <2>2, <3>1 DEF RevertBegun, Known
    <3> QED  BY <1>1, <3>1, <3>2 DEF RevertBegun
  <2>9. CASE Revert(p)
    <3> SUFFICES ASSUME NEW q \in Sessions  PROVE Known(work'[q])  OBVIOUS
    <3>1. CASE q = p  BY <1>2, <2>9, <3>1, RevertOthers
    <3>2. CASE q # p /\ work[q].at # "reverting"  BY <1>0, <2>9, <3>2, RevertOthers
    <3>3. CASE q # p /\ work[q].at = "reverting"
      <4>1. /\ work'[q].at = "reverting" /\ work'[q].seen = work[q].seen
            /\ work'[q].base = work[q].base /\ work'[q].done = work[q].done
        BY <2>9, <3>3, RevertOthers
      <4>2. Known(work[q])  BY <1>0
      <4> QED  BY ONLY <3>3, <4>1, <4>2 DEF Known, Wins
    <3> QED  BY <3>1, <3>2, <3>3
  <2> QED  BY <2>1, <2>3, <2>4, <2>5, <2>6, <2>7, <2>8, <2>9 DEF SettlerStep
<1>5. CASE UNCHANGED work  BY <1>0, <1>5
<1>6. CASE \E b \in B : CreateRecord(b)  BY <1>5, <1>6 DEF CreateRecord
<1>7. CASE OddsStep  BY <1>5, <1>7 DEF OddsStep
<1> QED  BY <1>3, <1>4, <1>6, <1>7, NextCases

-----------------------------------------------------------------------------
(* The balance and the books.                                              *)

Unrecorded == {b \in staked : bet[b] = "none"}

Unannounced == {b \in B : bet[b] = "won" /\ ends[b].won = 0}

Balanced(money, books, unrecorded, unannounced) ==
    money = books - Cardinality(unrecorded) + Win * Cardinality(unannounced)

LEMMA BooksNow ==
    BooksBalance <=>
        (~overwritten /\ ~adjusted /\ contested = {} => Balanced(funds, net, Unrecorded, Unannounced))
BY DEF BooksBalance, Balanced, Unrecorded, Unannounced

LEMMA BooksNext ==
    BooksBalance' <=>
        (~overwritten' /\ ~adjusted' /\ contested' = {} =>
            Balanced(funds', net', Unrecorded', Unannounced'))
BY DEF BooksBalance, Balanced, Unrecorded, Unannounced

LEMMA BooksFinite ==
    ASSUME TypeOK
    PROVE  /\ IsFiniteSet(Unrecorded) /\ Cardinality(Unrecorded) \in Nat
           /\ IsFiniteSet(Unannounced) /\ Cardinality(Unannounced) \in Nat
           /\ funds \in Int /\ net \in Int /\ Win \in Nat
<1>1. Unrecorded \in SUBSET B /\ Unannounced \in SUBSET B
  BY DEF Unrecorded, Unannounced, TypeOK, FundsTypeOK
<1> QED
  BY <1>1, LegacyFundsAssumption, LegacyBetsAssumption, FS_Subset, FS_CardinalityType
     DEF TypeOK, FundsTypeOK

LEMMA SameBooks ==
    ASSUME UNCHANGED <<staked, bet, ends>>
    PROVE  Unrecorded' = Unrecorded /\ Unannounced' = Unannounced
BY DEF Unrecorded, Unannounced

\* The wins announced are added to the books, the others wait to be.
LEMMA WinsSplit ==
    ASSUME NEW W \in SUBSET B, NEW A \in SUBSET W, NEW C, C = W \ A
    PROVE  /\ Cardinality(W) \in Nat /\ Cardinality(A) \in Nat /\ Cardinality(C) \in Nat
           /\ Win * Cardinality(W) = Win * Cardinality(A) + Win * Cardinality(C)
           /\ IsFiniteSet(C)
<1>1. IsFiniteSet(W)  BY LegacyFundsAssumption, FS_Subset
<1>2. IsFiniteSet(A) /\ Cardinality(A) \in Nat /\ Cardinality(W) \in Nat
  BY <1>1, FS_Subset, FS_CardinalityType
<1>3. W \cap A = A  OBVIOUS
<1>4. IsFiniteSet(C) /\ Cardinality(C) = Cardinality(W) - Cardinality(A)
  BY <1>1, <1>3, FS_Difference
<1>5. Cardinality(C) \in Nat  BY <1>4, FS_CardinalityType
<1>6. PICK a \in Nat, c \in Nat, w \in Nat :
         a = Cardinality(A) /\ c = Cardinality(C) /\ w = Cardinality(W) /\ w = a + c
  BY <1>2, <1>4, <1>5
<1>7. Win \in Nat  BY LegacyBetsAssumption
<1>8. Win * w = Win * a + Win * c  BY ONLY <1>6, <1>7
<1> QED  BY ONLY <1>2, <1>4, <1>5, <1>6, <1>8

LEMMA CommitBooks ==
    ASSUME TypeOK, TypeOK', AllSane, StakedFirst, MoneyKnown, \A b \in B : BetInv(b), BooksBalance,
           NEW p \in Sessions, NEW w, NEW done, NEW f, Commits(p, w, done, f),
           ~overwritten', ~adjusted', contested' = {}
    PROVE  Balanced(funds', net', Unrecorded', Unannounced')
<1>1. /\ ~overwritten /\ ~(w.seen # w.base /\ funds # w.base) /\ ~adjusted /\ contested = {}
      /\ w = work[p] /\ w \in Settling /\ w.at \in {"settling", "commission"} /\ staked' = staked
      /\ funds' = IF w.seen # w.base THEN w.seen ELSE funds
      /\ net' = net + Winnings([b \in B |-> w.new[b].won])
  BY DEF Commits
<1>2. Balanced(funds, net, Unrecorded, Unannounced)  BY <1>1, BooksNow
<1>3. /\ IsFiniteSet(Unrecorded) /\ Cardinality(Unrecorded) \in Nat
      /\ IsFiniteSet(Unannounced) /\ Cardinality(Unannounced) \in Nat
      /\ funds \in Int /\ net \in Int /\ Win \in Nat /\ None \notin Int
  BY BooksFinite, LegacyFundsAssumption
<1> DEFINE W == Wins(w)
           A == {b \in B : w.new[b].won = 1}
           C == W \ A
<1>4. ASSUME NEW b \in B
      PROVE  /\ b \in A => b \in W
             /\ w.new[b].won = IF b \in A THEN 1 ELSE 0
             /\ bet'[b] = "none" <=> bet[b] = "none"
             /\ bet'[b] = "won" /\ ends'[b].won = 0 <=> (bet[b] = "won" /\ ends[b].won = 0) \/ b \in C
             /\ b \in C => bet[b] # "won"
  <2>1. /\ BetSound(bet[b], ends[b], paid[b]) /\ SessionSound(w, b, bet[b], ends[b])
        /\ ends[b].won \in Nat /\ w.new[b].won \in Nat
        /\ w.done[b] \in {"none", "won", "lost"}
        /\ done[b] \in {"none", w.done[b]} /\ (w.done[b] = "won" => done[b] = "won")
        /\ bet'[b] = IF done[b] = "none" THEN bet[b] ELSE done[b]
        /\ ends'[b].won = ends[b].won + w.new[b].won
    <3>1. b \notin contested' /\ BetInv(b)  OBVIOUS
    <3> QED  BY <3>1, Committed
  <2>2. b \in A <=> w.new[b].won = 1  OBVIOUS
  <2>3. b \in W <=> w.done[b] = "won"  BY DEF Wins
  <2>4. b \in C <=> b \in W /\ b \notin A  OBVIOUS
  <2> HIDE DEF A, W, C
  <2>5. CASE w.done[b] = "none"
    <3>1. w.new[b].won = 0 /\ done[b] = "none"
      BY ONLY <1>1, <2>1, <2>5 DEF SessionSound, SettlingSound, Bare
    <3> QED  BY ONLY <2>1, <2>2, <2>3, <2>4, <2>5, <3>1
  <2>6. CASE w.done[b] # "none"
    <3>1. bet[b] = "pending"  BY ONLY <1>1, <2>1, <2>6 DEF SessionSound, SettlingSound, Holds
    <3>2. w.new[b].won <= 1 /\ (w.done[b] # "won" => w.new[b].won = 0)
      BY ONLY <1>1, <2>1, <2>6 DEF SessionSound, SettlingSound, SettledSound
    <3>3. ends[b].won = 0  BY ONLY <2>1, <3>1 DEF BetSound
    <3> QED  BY ONLY <2>1, <2>2, <2>3, <2>4, <2>6, <3>1, <3>2, <3>3
  <2> QED  BY ONLY <2>5, <2>6
<1>5. W \in SUBSET B /\ A \in SUBSET W /\ A \in SUBSET B
  <2>1. W \in SUBSET B  BY DEF Wins
  <2> QED  BY <1>4, <2>1
<1>6. Winnings([b \in B |-> w.new[b].won]) = Win * Cardinality(A)
  <2>1. w.new \in [B -> [won : Nat, lost : Nat]]  BY <1>1 DEF Settling
  <2>2. PICK g \in [B -> Nat] : g = [b \in B |-> w.new[b].won]  BY ONLY <2>1
  <2>3. \A b \in B : g[b] = IF b \in A THEN 1 ELSE 0
    <3> HIDE DEF A
    <3> QED  BY ONLY <1>4, <2>2
  <2> HIDE DEF A
  <2> QED  BY <1>5, <2>2, <2>3, WinningsOfSet
<1>7. Unrecorded' = Unrecorded
  <2>1. staked \subseteq B  BY DEF TypeOK, FundsTypeOK
  <2> QED  BY ONLY <1>1, <1>4, <2>1 DEF Unrecorded
<1>8. Unannounced' = Unannounced \cup C /\ Unannounced \cap C = {}
  <2>1. C \subseteq B  BY <1>5
  <2> HIDE DEF C, W, A
  <2> QED  BY ONLY <1>4, <2>1 DEF Unannounced
<1>9. /\ Cardinality(W) \in Nat /\ Cardinality(A) \in Nat /\ Cardinality(C) \in Nat
      /\ Win * Cardinality(W) = Win * Cardinality(A) + Win * Cardinality(C)
      /\ IsFiniteSet(C)
  <2>1. C = W \ A  OBVIOUS
  <2> HIDE DEF C, W, A
  <2> QED  BY ONLY <1>5, <2>1, WinsSplit
<1> HIDE DEF W, A, C
<1>10. Cardinality(Unannounced') = Cardinality(Unannounced) + Cardinality(C)
  <2>1. Cardinality(Unannounced \cup C) =
           Cardinality(Unannounced) + Cardinality(C) - Cardinality(Unannounced \cap C)
    BY ONLY <1>3, <1>9, FS_Union
  <2>2. Cardinality(Unannounced \cap C) = 0  BY <1>8, FS_EmptySet
  <2> QED  BY ONLY <1>3, <1>8, <1>9, <2>1, <2>2
<1>11. funds' = funds + Win * Cardinality(W)
  <2>1. /\ w.seen = None <=> w.base = None
        /\ w.seen = None => W = {}
        /\ w.seen # None => w.seen = w.base + Win * Cardinality(W)
    <3>1. Known(w) /\ Sane(w)  BY <1>1 DEF MoneyKnown, AllSane
    <3> QED  BY ONLY <1>1, <3>1 DEF Known, Sane, Settlers, W
  <2>2. w.seen \in Int \cup {None} /\ w.base \in Int \cup {None}  BY <1>1 DEF Settling
  <2>3. PICK k \in Int : k = Win * Cardinality(W)  BY <1>3, <1>9
  <2>4. CASE w.seen = None
    <3>1. Cardinality(W) = 0  BY <2>1, <2>4, FS_EmptySet
    <3>2. k = 0  BY ONLY <1>3, <2>3, <3>1
    <3> QED  BY ONLY <1>1, <1>3, <2>1, <2>3, <2>4, <3>2
  <2>5. CASE w.seen # None
    BY ONLY <1>1, <1>3, <2>1, <2>2, <2>3, <2>5
  <2> QED  BY <2>4, <2>5
<1>12. Win * Cardinality(Unannounced') = Win * Cardinality(Unannounced) + Win * Cardinality(C)
  <2>1. PICK u \in Nat, c \in Nat : u = Cardinality(Unannounced) /\ c = Cardinality(C)  BY <1>3, <1>9
  <2>2. Win * (u + c) = Win * u + Win * c  BY ONLY <1>3
  <2> QED  BY ONLY <1>10, <2>1, <2>2
<1>13. PICK wu \in Int, wc \in Int, wa \in Int :
          /\ wu = Win * Cardinality(Unannounced) /\ wc = Win * Cardinality(C)
          /\ wa = Win * Cardinality(A)
  BY <1>3, <1>9
<1> QED  BY ONLY <1>1, <1>2, <1>3, <1>6, <1>7, <1>9, <1>11, <1>12, <1>13 DEF Balanced

LEMMA RevertBooks ==
    ASSUME TypeOK, AllSane, MoneyKnown, \A b \in B : BetInv(b), BooksBalance,
           NEW p \in Sessions, Revert(p), ~overwritten', ~adjusted', contested' = {}
    PROVE  Balanced(funds', net', Unrecorded', Unannounced')
<1>0. PICK w \in Settling : w = work[p] /\ w.at = "reverting"  BY Kind DEF Revert, At, Settlers
<1> DEFINE W == Wins(w)
           A == {b \in B : w.new[b].won = 1}
           C == W \ A
           back == Win * Cardinality(W)
<1>1. /\ ~overwritten /\ ~(back # 0 /\ funds # w.seen) /\ ~adjusted /\ ~(w.seen < back)
      /\ contested = {} /\ staked' = staked
      /\ funds' = IF back = 0 THEN funds ELSE IF w.seen >= back THEN w.seen - back ELSE 0
      /\ net' = net - Winnings([b \in B |-> w.new[b].won])
  BY <1>0 DEF Revert, Wins
<1>2. Balanced(funds, net, Unrecorded, Unannounced)  BY <1>1, BooksNow
<1>3. /\ IsFiniteSet(Unrecorded) /\ Cardinality(Unrecorded) \in Nat
      /\ IsFiniteSet(Unannounced) /\ Cardinality(Unannounced) \in Nat
      /\ funds \in Int /\ net \in Int /\ Win \in Nat /\ None \notin Int
  BY BooksFinite, LegacyFundsAssumption
<1>4. ASSUME NEW b \in B
      PROVE  /\ b \in A => b \in W
             /\ w.new[b].won = IF b \in A THEN 1 ELSE 0
             /\ bet'[b] = "none" <=> bet[b] = "none"
             /\ bet'[b] = "won" /\ ends'[b].won = 0 <=> (bet[b] = "won" /\ ends[b].won = 0) /\ b \notin C
             /\ b \in C => bet[b] = "won" /\ ends[b].won = 0
  <2>1. Reverted(w, b)
    <3>1. b \notin contested' /\ BetInv(b)  OBVIOUS
    <3> QED  BY <1>0, <3>1, RevertedBet
  <2>2. b \in A <=> w.new[b].won = 1  OBVIOUS
  <2>3. b \in W <=> w.done[b] = "won"  BY DEF Wins
  <2>4. b \in C <=> b \in W /\ b \notin A  OBVIOUS
  <2> HIDE DEF A, W, C
  <2>5. CASE w.done[b] = "none"
    <3>1. w.new[b].won = 0  BY ONLY <2>1, <2>5 DEF Reverted, SessionSound, RevertingSound, Bare
    <3>2. ends'[b].won = ends[b].won /\ bet'[b] = bet[b]
      BY ONLY <2>1, <2>5, <3>1 DEF Reverted
    <3> QED  BY ONLY <2>2, <2>3, <2>4, <2>5, <3>1, <3>2
  <2>6. CASE w.done[b] # "none"
    <3>1. w.done[b] = bet[b] /\ w.new[b] = ends[b] /\ bet'[b] = "pending"
      BY ONLY <2>1, <2>6 DEF Reverted, SessionSound, RevertingSound
    <3>2. ends[b].won \in Nat /\ ends[b].won <= 1 /\ (bet[b] # "won" => ends[b].won = 0)
      BY ONLY <2>1 DEF Reverted, BetSound
    <3> QED  BY ONLY <2>2, <2>3, <2>4, <2>6, <3>1, <3>2
  <2> QED  BY ONLY <2>5, <2>6
<1>5. W \in SUBSET B /\ A \in SUBSET W /\ A \in SUBSET B
  <2>1. W \in SUBSET B  BY DEF Wins
  <2> QED  BY <1>4, <2>1
<1>6. Winnings([b \in B |-> w.new[b].won]) = Win * Cardinality(A)
  <2>1. w.new \in [B -> [won : Nat, lost : Nat]]  BY DEF Settling
  <2>2. PICK g \in [B -> Nat] : g = [b \in B |-> w.new[b].won]  BY ONLY <2>1
  <2>3. \A b \in B : g[b] = IF b \in A THEN 1 ELSE 0
    <3> HIDE DEF A
    <3> QED  BY ONLY <1>4, <2>2
  <2> HIDE DEF A
  <2> QED  BY <1>5, <2>2, <2>3, WinningsOfSet
<1>7. Unrecorded' = Unrecorded
  <2>1. staked \subseteq B  BY DEF TypeOK, FundsTypeOK
  <2> QED  BY ONLY <1>1, <1>4, <2>1 DEF Unrecorded
<1>8. Unannounced' = Unannounced \ C /\ Unannounced \cap C = C
  <2>1. C \subseteq B  BY <1>5
  <2> HIDE DEF C, W, A
  <2> QED  BY ONLY <1>4, <2>1 DEF Unannounced
<1>9. /\ Cardinality(W) \in Nat /\ Cardinality(A) \in Nat /\ Cardinality(C) \in Nat
      /\ Win * Cardinality(W) = Win * Cardinality(A) + Win * Cardinality(C)
      /\ IsFiniteSet(C)
  <2>1. C = W \ A  OBVIOUS
  <2> HIDE DEF C, W, A
  <2> QED  BY ONLY <1>5, <2>1, WinsSplit
<1>10. back \in Nat
  <2> HIDE DEF W
  <2> QED  BY ONLY <1>3, <1>9
<1>11. w.seen \in Int
  <2>1. Sane(w) /\ w.seen \in Int \cup {None}  BY <1>0 DEF AllSane, Settling
  <2> QED  BY ONLY <1>0, <2>1 DEF Sane
<1> HIDE DEF W, A, C
<1>12. Cardinality(Unannounced') = Cardinality(Unannounced) - Cardinality(C)
  <2>1. Cardinality(Unannounced \ C) = Cardinality(Unannounced) - Cardinality(Unannounced \cap C)
    BY ONLY <1>3, FS_Difference
  <2> QED  BY ONLY <1>8, <2>1
<1>13. funds' = funds - back
  <2> HIDE DEF back
  <2> QED  BY ONLY <1>1, <1>3, <1>10, <1>11
<1>14. Win * Cardinality(Unannounced') = Win * Cardinality(Unannounced) - Win * Cardinality(C)
  <2>1. PICK u \in Nat, c \in Nat : u = Cardinality(Unannounced) /\ c = Cardinality(C)  BY <1>3, <1>9
  <2>2. Win * (u - c) = Win * u - Win * c  BY ONLY <1>3
  <2> QED  BY ONLY <1>12, <2>1, <2>2
<1>15. PICK wu \in Int, wc \in Int, wa \in Int :
          /\ wu = Win * Cardinality(Unannounced) /\ wc = Win * Cardinality(C)
          /\ wa = Win * Cardinality(A)
  BY <1>3, <1>9
<1>16. back = wa + wc  BY <1>9, <1>15
<1> HIDE DEF back
<1> QED  BY ONLY <1>1, <1>2, <1>3, <1>6, <1>7, <1>13, <1>14, <1>15, <1>16 DEF Balanced

LEMMA BooksStep ==
    ASSUME TypeOK, TypeOK', AllSane, StakedFirst, MoneyKnown, \A p \in Sessions : FundsSound(p),
           \A b \in B : BetInv(b), BooksBalance, [Next]_vars
    PROVE  BooksBalance'
<1> SUFFICES ASSUME ~overwritten', ~adjusted', contested' = {}
             PROVE  Balanced(funds', net', Unrecorded', Unannounced')
  BY BooksNext
<1>0. /\ contested = {}
      /\ ~overwritten /\ ~adjusted => Balanced(funds, net, Unrecorded, Unannounced)
      /\ IsFiniteSet(Unrecorded) /\ Cardinality(Unrecorded) \in Nat
      /\ Cardinality(Unannounced) \in Nat
      /\ funds \in Int /\ net \in Int /\ Win \in Nat
  BY ContestedGrows, BooksNow, BooksFinite
<1>1. ASSUME UNCHANGED <<funds, net, overwritten, adjusted, staked, bet, ends>>
      PROVE  Balanced(funds', net', Unrecorded', Unannounced')
  BY <1>0, <1>1, SameBooks
<1>2. CASE \E p \in Sessions : FundsOnly(p)
  <2>1. PICK p \in Sessions : FundsOnly(p)  BY <1>2
  <2>2. bet' = bet /\ ends' = ends  BY <2>1 DEF FundsOnly, betVars
  <2>3. CASE FundsRequest(p)
    <3>1. UNCHANGED fundsVars  BY <2>3, LoadStep
    <3> QED  BY <1>1, <2>2, <3>1 DEF fundsVars
  <2>4. CASE Provide(p) \/ Fail(p)
    BY <1>1, <2>2, <2>4 DEF Provide, Fail
  <2>5. CASE UpdateUser(p)
    <3>1. PICK w \in Active : w = work[p] /\ w.at = "loaded"
      BY <2>5, Kind DEF UpdateUser, At
    <3>2. /\ ~overwritten /\ ~adjusted /\ funds = w.seen /\ w.kind \notin {"confirm", "adjust"}
          /\ funds' = w.seen + Delta(w.kind) /\ net' = net + Booked(w.kind)
          /\ staked' = IF w.kind = "deduct" THEN staked \cup {w.bet} ELSE staked
      BY <2>5, <3>1 DEF UpdateUser
    <3>3. Unannounced' = Unannounced  BY <2>2 DEF Unannounced
    <3>4. CASE w.kind = "deduct"
      <4>1. w.bet \in B /\ w.bet \notin staked /\ bet[w.bet] = "none"
        BY <3>1, <3>4 DEF FundsSound, StakedFirst
      <4>2. Unrecorded' = Unrecorded \cup {w.bet} /\ w.bet \notin Unrecorded
        BY ONLY <2>2, <3>2, <3>4, <4>1 DEF Unrecorded
      <4>3. Cardinality(Unrecorded') = Cardinality(Unrecorded) + 1
        BY ONLY <1>0, <4>2, FS_AddElement
      <4>4. funds' = funds - 1 /\ net' = net
        BY ONLY <1>0, <3>2, <3>4 DEF Delta, Booked
      <4>5. PICK wu \in Int : wu = Win * Cardinality(Unannounced)  BY <1>0
      <4> QED  BY ONLY <1>0, <3>2, <3>3, <4>3, <4>4, <4>5 DEF Balanced
    <3>5. CASE w.kind # "deduct"
      <4>1. Unrecorded' = Unrecorded  BY ONLY <2>2, <3>2, <3>5 DEF Unrecorded
      <4>2. \E d \in {1, -1} : funds' = funds + d /\ net' = net + d
        BY ONLY <3>2, <3>5 DEF Delta, Booked
      <4>3. PICK wu \in Int : wu = Win * Cardinality(Unannounced)  BY <1>0
      <4> QED  BY ONLY <1>0, <3>2, <3>3, <4>1, <4>2, <4>3 DEF Balanced
    <3> QED  BY <3>4, <3>5
  <2> QED  BY <2>1, <2>3, <2>4, <2>5 DEF FundsOnly, FundsStep
<1>3. CASE \E p \in Sessions : SettlerStep(p)
  <2>1. PICK p \in Sessions : SettlerStep(p)  BY <1>3
  <2>2. CASE \E f : Begun(p, f)  BY <1>1, <2>2 DEF Begun, fundsVars, betVars
  <2>3. CASE \E f, todo : Lists(p, f, todo)  BY <1>1, <2>3 DEF Lists
  <2>4. CASE \E t, f : Worked(p, t, f)  BY <1>1, <2>4 DEF Worked, betVars
  <2>5. CASE GivesUp(p)  BY <1>1, <2>5 DEF GivesUp, betVars
  <2>6. CASE \E f : RevertBegun(p, f)  BY <1>1, <2>6 DEF RevertBegun, fundsVars
  <2> QED
    BY <2>1, <2>2, <2>3, <2>4, <2>5, <2>6, CommitBooks, RevertBooks DEF SettlerStep
<1>4. CASE \E b \in B : CreateRecord(b)
  <2>1. PICK b \in B : CreateRecord(b)  BY <1>4
  <2>2. /\ bet[b] = "none" /\ b \in staked /\ bet' = [bet EXCEPT ![b] = "pending"]
        /\ net' = net - 1
        /\ UNCHANGED <<funds, overwritten, adjusted, staked, ends>>
    BY <2>1 DEF CreateRecord
  <2>3. bet \in [B -> {"none", "pending", "won", "lost"}] /\ staked \subseteq B
    BY DEF TypeOK, FundsTypeOK
  <2>4. Unrecorded' = Unrecorded \ {b} /\ b \in Unrecorded
    BY ONLY <2>2, <2>3, b \in B DEF Unrecorded
  <2>5. Cardinality(Unrecorded') = Cardinality(Unrecorded) - 1
    BY ONLY <1>0, <2>4, FS_RemoveElement
  <2>6. Unannounced' = Unannounced  BY ONLY <2>2, <2>3, b \in B DEF Unannounced
  <2>7. PICK wu \in Int : wu = Win * Cardinality(Unannounced)  BY <1>0
  <2>8. ~overwritten /\ ~adjusted  BY <2>2
  <2> QED  BY ONLY <1>0, <2>2, <2>5, <2>6, <2>7, <2>8 DEF Balanced
<1>5. CASE OddsStep  BY <1>1, <1>5 DEF OddsStep, betVars
<1> QED  BY <1>2, <1>3, <1>4, <1>5, NextCases

-----------------------------------------------------------------------------
(* The life of a bet.                                                      *)

LifeStep(b) == Life(b)!Next \/ UNCHANGED Life(b)!vars

LEMMA SameLife ==
    ASSUME NEW b, bet'[b] = bet[b], ends'[b] = ends[b], paid'[b] = paid[b]
    PROVE  LifeStep(b)
BY DEF LifeStep, Life!vars

LEMMA CommitLives ==
    ASSUME TypeOK, AllSane, NEW b \in B, b \notin contested', BetInv(b),
           NEW p \in Sessions, NEW w, NEW done, NEW f, Commits(p, w, done, f)
    PROVE  LifeStep(b)
<1>1. /\ BetSound(bet[b], ends[b], paid[b]) /\ SessionSound(w, b, bet[b], ends[b])
      /\ ends[b].won \in Nat /\ ends[b].lost \in Nat
      /\ w.new[b].won \in Nat /\ w.new[b].lost \in Nat /\ w.gain[b] \in Nat
      /\ w.done[b] \in {"none", "won", "lost"}
      /\ done[b] \in {"none", w.done[b]} /\ (w.done[b] = "won" => done[b] = "won")
      /\ bet'[b] = IF done[b] = "none" THEN bet[b] ELSE done[b]
      /\ ends'[b] \in [won : Nat, lost : Nat]
      /\ ends'[b].won = ends[b].won + w.new[b].won
      /\ ends'[b].lost = ends[b].lost + w.new[b].lost
      /\ paid'[b] = paid[b] + w.gain[b]
  BY Committed
<1>2. /\ w.at \in {"settling", "commission"} /\ w \in Settling /\ Sane(w)
      /\ ends[b] \in [won : Nat, lost : Nat]
  BY DEF Commits, AllSane, TypeOK
<1>3. CASE w.done[b] = "none"
  <2>1. w.new[b].won = 0 /\ w.new[b].lost = 0 /\ w.gain[b] = 0 /\ done[b] = "none"
    BY ONLY <1>1, <1>2, <1>3 DEF SessionSound, SettlingSound, Bare
  <2>2. paid[b] \in Int  BY DEF TypeOK
  <2>3. bet'[b] = bet[b] /\ ends'[b] = ends[b] /\ paid'[b] = paid[b]
    BY ONLY <1>1, <1>2, <2>1, <2>2
  <2> QED  BY <2>3, SameLife
<1>4. CASE w.done[b] # "none"
  <2>1. bet[b] = "pending"  BY ONLY <1>1, <1>2, <1>4 DEF SessionSound, SettlingSound, Holds
  <2>2. ends[b].won = 0 /\ paid[b] = 0  BY ONLY <1>1, <2>1 DEF BetSound
  <2>3. /\ w.gain[b] = (IF w.done[b] = "won" THEN 1 ELSE 0)
        /\ w.new[b].won <= 1 /\ w.new[b].lost <= 1
        /\ w.done[b] # "won" => w.new[b].won = 0
        /\ w.done[b] # "lost" => w.new[b].lost = 0
        /\ ends[b].won + ends[b].lost + w.new[b].won + w.new[b].lost >= 1
        /\ w.route = "records" /\ w.new[b].won + w.new[b].lost >= 1 => ends[b].won = 0 /\ ends[b].lost = 0
    BY ONLY <1>1, <1>2, <1>4 DEF SessionSound, SettlingSound, SettledSound
  <2>4. PICK old \in Nat, now \in Nat :
           /\ old = ends[b].won + ends[b].lost /\ now = ends'[b].won + ends'[b].lost
           /\ now \in {old, old + 1} /\ now > 0
    <3>1. PICK x \in Nat, y \in Nat, i \in Nat, j \in Nat :
             x = ends[b].won /\ y = ends[b].lost /\ i = w.new[b].won /\ j = w.new[b].lost
      BY ONLY <1>1
    <3>2. ends'[b].won = x + i /\ ends'[b].lost = y + j  BY ONLY <1>1, <3>1
    <3>3. x + y + i + j >= 1 /\ i + j \in {0, 1}
      BY ONLY <1>1, <1>4, <2>3, <3>1
    <3>4. (x + i) + (y + j) \in {x + y, x + y + 1} /\ (x + i) + (y + j) > 0  BY ONLY <3>3
    <3> QED  BY ONLY <3>1, <3>2, <3>4
  <2>5. CASE done[b] # "none"
    <3>1. CASE w.done[b] = "won"
      <4>1. bet'[b] = "won" /\ paid'[b] = 1  BY ONLY <1>1, <2>2, <2>3, <3>1
      <4> QED  BY <2>1, <2>2, <2>4, <4>1 DEF LifeStep, Life!Next, Life!Won, Life!Closed
    <3>2. CASE w.done[b] = "lost"
      <4>1. bet'[b] = "lost" /\ paid'[b] = paid[b]  BY ONLY <1>1, <2>2, <2>3, <2>5, <3>2
      <4> QED  BY <2>1, <2>4, <4>1 DEF LifeStep, Life!Next, Life!Lost, Life!Closed
    <3> QED  BY <1>1, <1>4, <3>1, <3>2
  <2>6. CASE done[b] = "none"
    <3>1. GoesOn(w, done, f) /\ w.done[b] = "lost"
      <4>1. done # w.done  BY <1>4, <2>6
      <4> QED  BY <1>1, <1>4, <2>6, <4>1 DEF Commits
    <3>2. w.new[b].lost = 1 /\ w.new[b].won = 0
      <4>1. PICK a \in B : w.done[a] = "lost" /\ w.new[a].lost = 1 /\ done = [w.done EXCEPT ![a] = "none"]
        BY <3>1 DEF GoesOn
      <4>2. w.done \in [B -> {"none", "won", "lost"}]  BY <1>2 DEF Settling
      <4>3. a = b  BY ONLY <1>4, <2>6, <4>1, <4>2, b \in B
      <4> QED  BY ONLY <2>3, <3>1, <4>1, <4>3
    <3>3. w.route = "records"  BY <1>2, <3>1 DEF GoesOn, Sane
    <3>4. old = 0 /\ now = 1 /\ bet'[b] = "pending" /\ paid'[b] = paid[b]
      BY ONLY <1>1, <2>1, <2>2, <2>3, <2>4, <2>6, <3>1, <3>2, <3>3
    <3> QED  BY <2>1, <2>4, <3>4 DEF LifeStep, Life!Next, Life!Announce
  <2> QED  BY <2>5, <2>6
<1> QED  BY <1>3, <1>4

LEMMA LivesStep ==
    ASSUME TypeOK, AllSane, NEW b \in B, b \notin contested', BetInv(b), [Next]_vars
    PROVE  LifeStep(b)
<1>1. CASE \E p \in Sessions : FundsOnly(p)
  BY <1>1, SameLife DEF FundsOnly, betVars
<1>2. CASE \E p \in Sessions : SettlerStep(p)
  <2>1. PICK p \in Sessions : SettlerStep(p)  BY <1>2
  <2>2. CASE \E f : Begun(p, f)  BY <2>2, SameLife DEF Begun, betVars
  <2>3. CASE \E f, todo : Lists(p, f, todo)  BY <2>3, SameLife DEF Lists
  <2>4. CASE \E t, f : Worked(p, t, f)  BY <2>4, SameLife DEF Worked, betVars
  <2>5. CASE GivesUp(p)  BY <2>5, SameLife DEF GivesUp, betVars
  <2>6. CASE \E f : RevertBegun(p, f)  BY <2>6, SameLife DEF RevertBegun
  <2>7. CASE Revert(p)
    <3>1. PICK w : w = work[p] /\ Reverted(w, b)  BY <2>7, RevertedBet
    <3>2. CASE w.done[b] = "none"
      <4>1. w.new[b].won = 0 /\ w.new[b].lost = 0
        BY ONLY <3>1, <3>2 DEF Reverted, SessionSound, RevertingSound, Bare
      <4>2. bet'[b] = bet[b] /\ ends'[b] = ends[b] /\ paid'[b] = paid[b]
        BY ONLY <3>1, <3>2, <4>1 DEF Reverted
      <4> QED  BY <4>2, SameLife
    <3>3. CASE w.done[b] # "none"
      <4>1. w.done[b] = bet[b] /\ w.new[b] = ends[b]
        BY ONLY <3>1, <3>3 DEF Reverted, SessionSound, RevertingSound
      <4>2. /\ bet[b] \in {"won", "lost"} /\ bet'[b] = "pending" /\ paid'[b] = 0
            /\ ends'[b].won + ends'[b].lost = 0
        BY ONLY <3>1, <3>3, <4>1 DEF Reverted, BetSound
      <4> QED  BY <4>2 DEF LifeStep, Life!Next, Life!Reopen
    <3> QED  BY <3>2, <3>3
  <2>8. CASE \E w, done, f : Commits(p, w, done, f)  BY <2>8, CommitLives
  <2> QED  BY <2>1, <2>2, <2>3, <2>4, <2>5, <2>6, <2>7, <2>8 DEF SettlerStep
<1>3. CASE \E c \in B : CreateRecord(c)
  <2>1. PICK c \in B : CreateRecord(c)  BY <1>3
  <2>2. /\ bet[c] = "none" /\ bet' = [bet EXCEPT ![c] = "pending"] /\ ends' = ends /\ paid' = paid
    BY <2>1 DEF CreateRecord
  <2>3. bet \in [B -> {"none", "pending", "won", "lost"}]  BY DEF TypeOK
  <2>4. CASE b = c  BY <2>2, <2>3, <2>4 DEF LifeStep, Life!Next, Life!Place
  <2>5. CASE b # c
    <3>1. bet'[b] = bet[b]  BY ONLY <2>2, <2>3, <2>5, b \in B
    <3> QED  BY <2>2, <3>1, SameLife
  <2> QED  BY <2>4, <2>5
<1>4. CASE OddsStep  BY <1>4, SameLife DEF OddsStep, betVars
<1> QED  BY <1>1, <1>2, <1>3, <1>4, NextCases

-----------------------------------------------------------------------------
(* The theorems.                                                           *)

LEMMA InitIInv == Init => IInv
<1> SUFFICES ASSUME Init  PROVE IInv  OBVIOUS
<1>1. TypeOK  BY InitType
<1>2. /\ work = [p \in Sessions |-> Idle] /\ unbooked = 0 /\ failures = 0 /\ contested = {}
      /\ funds = Opening /\ net = Opening /\ staked \in SUBSET B
      /\ bet = [b \in B |-> IF b \in staked THEN "pending" ELSE "none"]
      /\ paid = [b \in B |-> 0]
  BY DEF Init, FundsInit
<1>3. \A p \in Sessions : work[p] = Idle  BY ONLY <1>2
<1>4. \A b : Idle.at \notin Settlers /\ ~Holds(Idle, b) /\ Sane(Idle)
             /\ \A n : Left(Idle, b, n) /\ \A status : SessionSound(Idle, b, status, n)
  BY Free
<1>5. Idle.at = "idle"  BY DEF Idle
<1>6. StakedFirst  BY ONLY <1>2, <1>3, <1>4 DEF StakedFirst
<1>7. RevertsLeft /\ AllSane  BY ONLY <1>3, <1>4 DEF RevertsLeft, AllSane
<1>8. \A p \in Sessions : FundsSound(p)  BY ONLY <1>3, <1>5 DEF FundsSound
<1>9. \A b \in B : BetInv(b)
  <2> SUFFICES ASSUME NEW b \in B  PROVE BetInv(b)  OBVIOUS
  <2>1. ends[b].won = 0
    <3>1. \/ ends = [c \in B |-> [won |-> 0, lost |-> 0]]
          \/ ends = [c \in B |-> [won |-> 0, lost |-> IF c \in staked THEN 2 ELSE 0]]
      BY DEF Init, NoEnds
    <3> QED  BY ONLY <3>1, b \in B
  <2>2. bet[b] \in {"pending", "none"} /\ paid[b] = 0  BY ONLY <1>2, b \in B
  <2>3. BetSound(bet[b], ends[b], paid[b])  BY ONLY <2>1, <2>2 DEF BetSound
  <2> QED  BY ONLY <1>3, <1>4, <2>3 DEF BetInv
<1>10. MoneyKnown  BY ONLY <1>3, <1>4 DEF MoneyKnown, Known
<1>11. BooksBalance
  <2>1. Unrecorded = {} /\ Unannounced = {}  BY <1>2 DEF Unrecorded, Unannounced
  <2>2. Opening \in Int /\ Win \in Nat  BY LegacyFundsAssumption, LegacyBetsAssumption
  <2>3. Cardinality({}) = 0  BY FS_EmptySet
  <2>4. Balanced(funds, net, Unrecorded, Unannounced)
    BY ONLY <1>2, <2>1, <2>2, <2>3 DEF Balanced
  <2> QED  BY <2>4, BooksNow
<1>12. ProviderIsBooked
  <2>1. Open = {}  BY ONLY <1>3, <1>5 DEF Open
  <2>2. Cardinality({}) = 0  BY FS_EmptySet
  <2>3. unbooked \in Cardinality(Open)..(Cardinality(Open) + failures)
    BY ONLY <1>2, <2>1, <2>2
  <2> QED  BY <2>3, BookedNow
<1> QED  BY ONLY <1>1, <1>6, <1>7, <1>8, <1>9, <1>10, <1>11, <1>12 DEF IInv

LEMMA NextIInv ==
    ASSUME IInv, [Next]_vars
    PROVE  IInv'
<1>1. /\ TypeOK /\ StakedFirst /\ RevertsLeft /\ AllSane /\ (\A p \in Sessions : FundsSound(p))
      /\ (\A b \in B : BetInv(b)) /\ MoneyKnown /\ BooksBalance /\ ProviderIsBooked
  BY DEF IInv
<1>2. TypeOK'  BY <1>1, NextTypes
<1>3. StakedFirst'  BY <1>1, <1>2, StakedFirstNext
<1>4. RevertsLeft' /\ AllSane'  BY <1>1, <1>2, RevertsLeftNext, SaneNext
<1>5. \A p \in Sessions : FundsSound(p)'  BY <1>1, FundsSoundStep
<1>6. \A b \in B : BetInv(b)'  BY <1>1, BetInvStep
<1>7. MoneyKnown'  BY <1>1, MoneyKnownStep
<1>8. BooksBalance'  BY <1>1, <1>2, BooksStep
<1>9. ProviderIsBooked'  BY <1>1, ProviderStep
<1> QED  BY ONLY <1>2, <1>3, <1>4, <1>5, <1>6, <1>7, <1>8, <1>9 DEF IInv

\* The inductive invariant holds in every reachable state.
LEMMA Invariance == Spec => []IInv
<1>1. IInv /\ [Next]_vars => IInv'  BY NextIInv
<1> QED  BY <1>1, InitIInv, PTL DEF Spec

\* The user's row, the bets, the odds and what every session has in memory have
\* their types: a revert never leaves a negative number of transactions.
THEOREM TypeCorrect == Spec => []TypeOK
<1>1. IInv => TypeOK  BY DEF IInv
<1> QED  BY <1>1, Invariance, PTL

\* Every charge and payout of the provider is in the books, is about to be, or
\* was cut off by a failure between the provider's answer and the commit of
\* process_card_payment or withdraw_to_card; no payout is written that was not made.
THEOREM BookedOrCutOff == Spec => []ProviderIsBooked
<1>1. IInv => ProviderIsBooked  BY DEF IInv
<1> QED  BY <1>1, Invariance, PTL

\* Whatever the settlement routes do in between, funds_usd is what the transactions
\* say, but for stakes not recorded and wins announced as lost, as long as nobody
\* wrote over a balance, adjusted one, or settled the same bets at the same time.
THEOREM FundsFollowTransactions == Spec => []BooksBalance
<1>1. IInv => BooksBalance  BY DEF IInv
<1> QED  BY <1>1, Invariance, PTL

\* Each step of a bet that no two settlements had on their lists is one of
\* LegacyBetLife, which settles it once and pays a win once.
THEOREM BetsRefineLife == Spec => UncontestedBetsLive
<1>1. IInv /\ [Next]_vars =>
        [\A b \in B \ contested' : Life(b)!Next \/ UNCHANGED Life(b)!vars]_vars
  BY LivesStep DEF IInv, LifeStep
<1> QED  BY <1>1, Invariance, PTL DEF Spec, UncontestedBetsLive

=============================================================================
