----------------------------- MODULE Bets_proofs -------------------------------
(***************************************************************************)
(* What TLAPS proves of Bets, for any number of bets and sessions and any  *)
(* stakes and payouts: whatever races on the wallet, a bet ends at most    *)
(* once and its ledger entries say how; a commit that overwrote no newer   *)
(* wallet row is a step of BetBook, and as long as there was no other the  *)
(* user's funds add up.                                                    *)
(*                                                                         *)
(* And, at the end, of RevenueReports: an exact report of a complete day   *)
(* is lost only to a computation older than that, and the revenue of all   *)
(* days is what the user has lost.                                         *)
(***************************************************************************)
EXTENDS RevenueReports, WalletService_proofs

\* What a transaction on a bet asks of the wallet is a plan of WalletService.
LEMMA PlanOfPlans ==
    ASSUME NEW b \in B, NEW to \in Statuses \ {"none"}
    PROVE  PlanOf(b, to) \in Plans
<1>1. Stake[b] \in Amounts /\ Payout[b] \in Amounts  BY BetsAssumption
<1>2. /\ Calling("lock", Stake[b]) \in Call /\ Calling("unlock", Stake[b]) \in Call
      /\ Calling("deduct", Stake[b]) \in Call /\ Calling("deduct", Stake[b]).op = "deduct"
      /\ Calling("credit", Payout[b]) \in Call /\ Calling("credit", Payout[b]).op = "credit"
  BY <1>1 DEF Calling, Call, Ops
<1>3. CASE to = "pending"  BY <1>2, <1>3 DEF PlanOf, Plans
<1>4. CASE to = "won"  BY <1>2, <1>4 DEF PlanOf, Plans
<1>5. CASE to = "lost"  BY <1>2, <1>5 DEF PlanOf, Plans
<1>6. CASE to \notin {"pending", "won", "lost"}  BY <1>2, <1>6 DEF PlanOf, Plans
<1> QED  BY <1>3, <1>4, <1>5, <1>6

LEMMA TypesOfTypes ==
    ASSUME NEW to
    PROVE  TypesOf(to) \in Seq(Types)
<1>1. \A t \in Types : <<t>> \in Seq(Types)  OBVIOUS
<1>2. <<"BET_WIN_DEDUCT_STAKE", "BET_WIN_PAYOUT_CREDIT">> \in Seq(Types)  BY DEF Types
<1>3. CASE to = "pending"  BY <1>1, <1>3 DEF TypesOf, Types
<1>4. CASE to = "won"  BY <1>2, <1>4 DEF TypesOf
<1>5. CASE to = "lost"  BY <1>1, <1>5 DEF TypesOf, Types
<1>6. CASE to = "void"  BY <1>1, <1>6 DEF TypesOf, Types
<1>7. CASE to \notin {"pending", "won", "lost", "void"}  BY <1>1, <1>7 DEF TypesOf, Types
<1> QED  BY <1>3, <1>4, <1>5, <1>6, <1>7

-----------------------------------------------------------------------------
(* The inductive invariant.                                                *)

\* A transaction holds the row of its bet, which is as it found it: a new bet
\* for a placement, a pending one otherwise.
HoldsItsBet ==
    \A s \in Sessions :
        ~In(s, "idle") =>
            /\ betLock[session[s].b] = s
            /\ status[session[s].b] = IF session[s].to = "pending" THEN "none" ELSE "pending"

\* A session knows the wallet row if nothing was committed since it read.
SnapshotsFresh ==
    \A s \in Sessions :
        In(s, "read") \/ In(s, "flushed") =>
            /\ session[s].at <= commits
            /\ session[s].at = commits => session[s].seen = wallet

\* What was flushed was accepted on the row that was read.
FlushedAccepted == \A s \in Sessions : In(s, "flushed") => PlanAccepted(session[s].seen, Plan(s))

IInv == TypeOK /\ HoldsItsBet /\ SnapshotsFresh /\ FlushedAccepted /\ EntriesFollowStatus

LEMMA InitIInv == Init => IInv
<1> SUFFICES ASSUME Init PROVE IInv  OBVIOUS
<1>1. TypeOK
  <2>1. <<>> \in Seq(Types)  OBVIOUS
  <2>2. status \in [B -> Statuses] /\ entries \in [B -> Seq(Types)]
    BY <2>1 DEF Init, Statuses
  <2>3. wallet \in Row /\ finished \in BOOLEAN /\ commits \in Nat /\ raced \in Nat
    BY BetsAssumption DEF Init, Row
  <2>4. /\ betLock \in [B -> Sessions \cup {None}] /\ walletLock \in Sessions \cup {None}
        /\ session \in [Sessions -> Active \cup {Idle}]
    BY DEF Init
  <2> QED  BY <2>2, <2>3, <2>4 DEF TypeOK
<1>2. HoldsItsBet /\ SnapshotsFresh /\ FlushedAccepted
  BY DEF Init, HoldsItsBet, SnapshotsFresh, FlushedAccepted, In, Idle
<1>3. EntriesFollowStatus  BY DEF Init, EntriesFollowStatus, History
<1> QED  BY <1>1, <1>2, <1>3 DEF IInv

\* The beginning of a transaction on a bet in the state it needs.
LEMMA StartIInv ==
    ASSUME IInv, NEW s \in Sessions, NEW b \in B, NEW to \in Statuses \ {"none"}, Start(s, b, to),
           status[b] = IF to = "pending" THEN "none" ELSE "pending"
    PROVE  IInv'
<1> USE DEF IInv, Start, In
<1>0. EmptyRow \in Row  BY DEF EmptyRow, Row
<1>1. TypeOK'  BY <1>0 DEF TypeOK, Active, Idle
<1>2. HoldsItsBet'  BY BetsAssumption DEF TypeOK, HoldsItsBet, Active, Idle
<1>3. SnapshotsFresh'  BY DEF TypeOK, SnapshotsFresh, Active, Idle
<1>4. FlushedAccepted'  BY DEF TypeOK, FlushedAccepted, Active, Idle, Plan
<1>5. EntriesFollowStatus'  BY DEF EntriesFollowStatus
<1> QED  BY <1>1, <1>2, <1>3, <1>4, <1>5

LEMMA RequestIInv ==
    ASSUME IInv, NEW s \in Sessions, Request(s)
    PROVE  IInv'
<1>1. PICK b \in B : \/ Place(s, b)
                     \/ \E outcome \in {"won", "lost", "void"} : Settle(s, b, outcome)
                     \/ Cancel(s, b)
  BY DEF Request
<1>2. CASE Place(s, b)  BY <1>2, StartIInv DEF Place, Statuses
<1>3. CASE \E outcome \in {"won", "lost", "void"} : Settle(s, b, outcome)
  <2>1. PICK outcome \in {"won", "lost", "void"} : Settle(s, b, outcome)  BY <1>3
  <2>2. outcome \in Statuses \ {"none"} /\ outcome # "pending"  BY DEF Statuses, Outcomes
  <2> QED  BY <2>1, <2>2, StartIInv DEF Settle
<1>4. CASE Cancel(s, b)  BY <1>4, StartIInv DEF Cancel, Statuses, Outcomes
<1> QED  BY <1>1, <1>2, <1>3, <1>4

LEMMA ReadWalletIInv ==
    ASSUME IInv, NEW s \in Sessions, ReadWallet(s)
    PROVE  IInv'
<1> USE DEF IInv, ReadWallet, In
<1>0. session[s] \in Active  BY DEF TypeOK, Idle
<1>1. TypeOK'  BY <1>0 DEF TypeOK, Active
<1>2. HoldsItsBet'  BY <1>0 DEF TypeOK, HoldsItsBet, Active
<1>3. SnapshotsFresh'  BY <1>0 DEF TypeOK, SnapshotsFresh, Active
<1>4. FlushedAccepted'  BY <1>0 DEF TypeOK, FlushedAccepted, Active, Plan
<1>5. EntriesFollowStatus'  BY DEF EntriesFollowStatus
<1> QED  BY <1>1, <1>2, <1>3, <1>4, <1>5

LEMMA FlushIInv ==
    ASSUME IInv, NEW s \in Sessions, Flush(s)
    PROVE  IInv'
<1> USE DEF IInv, Flush, In
<1>0. session[s] \in Active  BY DEF TypeOK, Idle
<1>1. TypeOK'  BY <1>0 DEF TypeOK, Active
<1>2. HoldsItsBet'  BY <1>0 DEF TypeOK, HoldsItsBet, Active
<1>3. SnapshotsFresh'  BY <1>0 DEF TypeOK, SnapshotsFresh, Active
<1>4. FlushedAccepted'  BY <1>0 DEF TypeOK, FlushedAccepted, Active, Plan
<1>5. EntriesFollowStatus'  BY DEF EntriesFollowStatus
<1> QED  BY <1>1, <1>2, <1>3, <1>4, <1>5

\* A transaction that ends without a commit leaves nothing behind.
LEMMA AbortIInv ==
    ASSUME IInv, NEW s \in Sessions, Abort(s)
    PROVE  IInv'
<1> USE DEF IInv, Abort, In
<1>1. TypeOK'  BY DEF TypeOK
<1>2. HoldsItsBet'  BY DEF TypeOK, HoldsItsBet, Active, Idle
<1>3. SnapshotsFresh'  BY DEF TypeOK, SnapshotsFresh, Active, Idle
<1>4. FlushedAccepted'  BY DEF TypeOK, FlushedAccepted, Active, Idle, Plan
<1>5. EntriesFollowStatus'  BY DEF EntriesFollowStatus
<1> QED  BY <1>1, <1>2, <1>3, <1>4, <1>5

LEMMA CommitIInv ==
    ASSUME IInv, NEW s \in Sessions, Commit(s)
    PROVE  IInv'
<1> DEFINE b == session[s].b
           to == session[s].to
           seen == session[s].seen
<1>1. session[s] \in Active /\ In(s, "flushed")  BY DEF IInv, TypeOK, Idle, Commit, In
<1>2. b \in B /\ to \in Statuses \ {"none"} /\ seen \in Row  BY <1>1 DEF Active
<1>3. Plan(s) \in Plans /\ PlanAccepted(seen, Plan(s))
  BY <1>1, <1>2, PlanOfPlans DEF Plan, IInv, FlushedAccepted
<1>4. PICK new \in Row : new = Written(wallet, seen, Plan(s))
  BY <1>2, <1>3, WrittenRow DEF IInv, TypeOK
<1>5. PICK types \in Seq(Types) : types = TypesOf(to)  BY TypesOfTypes
<1>6. betLock[b] = s /\ status[b] = IF to = "pending" THEN "none" ELSE "pending"
  BY <1>1 DEF IInv, HoldsItsBet, In
<1>7. /\ status' = [status EXCEPT ![b] = to] /\ wallet' = new
      /\ entries' = [entries EXCEPT ![b] = entries[b] \o types]
      /\ commits' = commits + 1
      /\ raced' = IF session[s].at = commits THEN raced ELSE raced + 1
      /\ session' = [session EXCEPT ![s] = Idle]
      /\ betLock' = [c \in B |-> IF betLock[c] = s THEN None ELSE betLock[c]]
      /\ walletLock' = None /\ finished' = finished
  BY <1>4, <1>5 DEF Commit
<1> HIDE DEF b, to, seen
<1>8. TypeOK'
  <2>1. entries[b] \o types \in Seq(Types)  BY <1>2 DEF IInv, TypeOK
  <2> QED  BY <1>2, <1>7, <2>1 DEF IInv, TypeOK
<1>9. HoldsItsBet'
  <2> SUFFICES ASSUME NEW t \in Sessions, ~In(t, "idle")'
               PROVE  (/\ betLock[session[t].b] = t
                       /\ status[session[t].b] = IF session[t].to = "pending" THEN "none" ELSE "pending")'
    BY DEF HoldsItsBet
  <2>1. t # s /\ session'[t] = session[t]  BY <1>7 DEF IInv, TypeOK, In, Idle
  <2>2. session[t] \in Active /\ ~In(t, "idle")  BY <2>1 DEF IInv, TypeOK, In, Idle
  <2>3. /\ betLock[session[t].b] = t
        /\ status[session[t].b] = IF session[t].to = "pending" THEN "none" ELSE "pending"
    BY <2>2 DEF IInv, HoldsItsBet
  <2>4. session[t].b \in B /\ session[t].b # b  BY <1>6, <2>1, <2>2, <2>3 DEF Active
  <2> QED  BY <1>2, <1>7, <2>1, <2>3, <2>4 DEF IInv, TypeOK
<1>10. SnapshotsFresh'
  <2> SUFFICES ASSUME NEW t \in Sessions, (In(t, "read") \/ In(t, "flushed"))'
               PROVE  session'[t].at <= commits' /\ session'[t].at # commits'
    BY DEF SnapshotsFresh
  <2>1. t # s /\ session'[t] = session[t]  BY <1>7 DEF IInv, TypeOK, In, Idle
  <2>2. session[t] \in Active /\ (In(t, "read") \/ In(t, "flushed"))
    BY <2>1 DEF IInv, TypeOK, In, Idle
  <2>3. session[t].at <= commits /\ session[t].at \in Nat /\ commits \in Nat
    BY <2>2 DEF IInv, SnapshotsFresh, Active, TypeOK
  <2> QED  BY <1>7, <2>1, <2>3
<1>11. FlushedAccepted'
  BY <1>7 DEF IInv, TypeOK, FlushedAccepted, In, Idle, Plan
<1>12. EntriesFollowStatus'
  <2> SUFFICES ASSUME NEW c \in B PROVE entries'[c] = History(status'[c])
    BY DEF EntriesFollowStatus
  <2>1. entries[c] = History(status[c])  BY DEF IInv, EntriesFollowStatus
  <2>2. CASE c # b  BY <1>2, <1>7, <2>1, <2>2 DEF IInv, TypeOK
  <2>3. CASE c = b
    <3>1. status'[c] = to /\ entries'[c] = History(status[b]) \o TypesOf(to)
      BY <1>2, <1>5, <1>7, <2>1, <2>3 DEF IInv, TypeOK
    <3>2. CASE to = "pending"
      <4>1. History(status[b]) = <<>>  BY <1>6, <3>2 DEF History
      <4>2. <<>> \o TypesOf(to) = TypesOf(to)  BY TypesOfTypes
      <4> QED  BY <3>1, <3>2, <4>1, <4>2 DEF History
    <3>3. CASE to # "pending"
      <4>1. History(status[b]) = TypesOf("pending")  BY <1>6, <3>3 DEF History
      <4>2. History(to) = TypesOf("pending") \o TypesOf(to)  BY <1>2, <3>3 DEF History
      <4> QED  BY <3>1, <4>1, <4>2
    <3> QED  BY <3>2, <3>3
  <2> QED  BY <2>2, <2>3
<1> QED  BY <1>8, <1>9, <1>10, <1>11, <1>12 DEF IInv

\* Every step keeps the invariant.
LEMMA NextIInv == IInv /\ [Next]_vars => IInv'
<1> SUFFICES ASSUME IInv, [Next]_vars PROVE IInv'  OBVIOUS
<1>1. CASE UNCHANGED vars
  BY <1>1 DEF IInv, vars, TypeOK, HoldsItsBet, SnapshotsFresh, FlushedAccepted,
              EntriesFollowStatus, In, Plan
<1>2. CASE Finish
  BY <1>2 DEF Finish, IInv, TypeOK, HoldsItsBet, SnapshotsFresh, FlushedAccepted,
              EntriesFollowStatus, In, Plan
<1>3. CASE \E s \in Sessions : Request(s)  BY <1>3, RequestIInv
<1>4. CASE \E s \in Sessions : ReadWallet(s)  BY <1>4, ReadWalletIInv
<1>5. CASE \E s \in Sessions : Refuse(s) \/ Rollback(s)
  BY <1>5, AbortIInv DEF Refuse, Rollback
<1>6. CASE \E s \in Sessions : Flush(s)  BY <1>6, FlushIInv
<1>7. CASE \E s \in Sessions : Commit(s)  BY <1>7, CommitIInv
<1> QED  BY <1>1, <1>2, <1>3, <1>4, <1>5, <1>6, <1>7 DEF Next

\* The inductive invariant: what a session has read is the stored row unless it is
\* raced, and what it flushed was accepted on it.
THEOREM Invariance == Spec => []IInv
<1> QED  BY InitIInv, NextIInv, PTL DEF Spec

-----------------------------------------------------------------------------
(* The results.                                                            *)

\* No interleaving of bets makes the balance or the reservation negative.
THEOREM TypeCorrect == Spec => []TypeOK
<1>1. IInv => TypeOK  BY DEF IInv
<1> QED  BY <1>1, Invariance, PTL

\* A bet is settled or cancelled at most once, and the ledger says how: the
\* FOR UPDATE of settle_bet and cancel_bet and the check under it are enough,
\* however the wallet row is raced.
THEOREM EndsOnce == Spec => []EntriesFollowStatus
<1>1. IInv => EntriesFollowStatus  BY DEF IInv
<1> QED  BY <1>1, Invariance, PTL

\* The commit of a transaction that saw the latest wallet row places or closes
\* a bet as BetBook does.
LEMMA CommitBooked ==
    ASSUME IInv, NEW s \in Sessions, Commit(s), session[s].at = commits
    PROVE  Book!Next
<1> DEFINE b == session[s].b
           to == session[s].to
<1>1. session[s] \in Active /\ In(s, "flushed")  BY DEF IInv, TypeOK, Idle, Commit, In
<1>2. b \in B /\ to \in Statuses \ {"none"}  BY <1>1 DEF Active
<1>3. session[s].seen = wallet /\ wallet \in Row  BY <1>1 DEF IInv, SnapshotsFresh, TypeOK
<1>4. PlanOf(b, to) \in Plans /\ PlanAccepted(wallet, PlanOf(b, to))
  BY <1>1, <1>2, <1>3, PlanOfPlans DEF IInv, FlushedAccepted, Plan
<1>5. wallet' = AfterPlan(wallet, PlanOf(b, to))
  BY <1>3, <1>4, WrittenFresh DEF Commit, Plan
<1>6. status[b] = IF to = "pending" THEN "none" ELSE "pending"
  BY <1>1 DEF IInv, HoldsItsBet, In
<1>7. status' = [status EXCEPT ![b] = to]  BY DEF Commit
<1>8. Stake[b] \in Nat /\ Payout[b] \in Nat  BY <1>2, BetsAssumption, AmountsAssumption
<1> HIDE DEF b, to
<1> USE DEF Calling, PlanOf, PlanAccepted, AfterPlan, Accepts, Sufficient, Apply, Row
<1>9. CASE to = "pending"
  <2>1. Book!Place(b)  BY <1>3, <1>4, <1>5, <1>6, <1>7, <1>8, <1>9 DEF LockBalance, Book!Place
  <2> QED  BY <1>2, <2>1 DEF Book!Next
<1>10. CASE to = "won"
  <2>1. Book!Close(b, to)
    BY <1>3, <1>4, <1>5, <1>6, <1>7, <1>8, <1>10
    DEF DeductReservedBalance, CreditBalance, Book!Close, Book!Back
  <2> QED  BY <1>2, <1>10, <2>1 DEF Book!Next
<1>11. CASE to = "lost"
  <2>1. Book!Close(b, to)
    BY <1>3, <1>4, <1>5, <1>6, <1>7, <1>8, <1>11 DEF DeductReservedBalance, Book!Close, Book!Back
  <2> QED  BY <1>2, <1>11, <2>1 DEF Book!Next
<1>12. CASE to \in {"void", "cancelled"}
  <2>1. Book!Close(b, to)
    BY <1>3, <1>4, <1>5, <1>6, <1>7, <1>8, <1>12 DEF UnlockBalance, Book!Close, Book!Back
  <2> QED  BY <1>2, <1>12, <2>1 DEF Book!Next
<1> QED  BY <1>2, <1>9, <1>10, <1>11, <1>12 DEF Statuses, Outcomes

\* Bets implements BetBook but for the commits that overwrite a newer wallet row.
THEOREM RefinesWithoutRace == Spec => UnracedStepsAreBooked
<1>1. IInv /\ [Next]_vars => [raced' = raced => Book!Next]_<<status, wallet>>
  <2> SUFFICES ASSUME IInv, [Next]_vars, raced' = raced
               PROVE  Book!Next \/ UNCHANGED <<status, wallet>>
    OBVIOUS
  <2>1. CASE \E s \in Sessions : Commit(s)
    <3>1. PICK s \in Sessions : Commit(s)  BY <2>1
    <3>2. session[s].at = commits  BY <3>1 DEF Commit, IInv, TypeOK
    <3> QED  BY <3>1, <3>2, CommitBooked
  <2>2. CASE ~\E s \in Sessions : Commit(s)
    BY <2>2 DEF Next, vars, Finish, Request, Place, Settle, Cancel, Start, ReadWallet, Refuse,
                Flush, Rollback, Abort
  <2> QED  BY <2>1, <2>2
<1> QED  BY <1>1, Invariance, PTL DEF Spec, UnracedStepsAreBooked

-----------------------------------------------------------------------------
(* Without a race the funds add up.                                        *)

\* The books of UnracedFundsAddUp, and why no settlement is refused: when the
\* wallet was read, the bet was pending and its stake among those reserved.
FundsAddUp ==
    raced = 0 =>
        /\ wallet.reserved = Sum(Stake, Pending)
        /\ wallet.balance + wallet.reserved + Sum(Stake, Won) + Sum(Stake, Lost)
             = Funds + Sum(Payout, Won)
        /\ \A s \in Sessions :
              In(s, "read") /\ session[s].to # "pending"
                => session[s].seen.reserved >= Stake[session[s].b]

LEMMA StakesNat ==
    /\ \A b \in B : Stake[b] \in Nat /\ Payout[b] \in Nat
    /\ \A b \in B : Stake[b] \in Int /\ Payout[b] \in Int
    /\ \A U \in SUBSET B : Sum(Stake, U) \in Nat /\ Sum(Payout, U) \in Nat
<1>1. \A b \in B : Stake[b] \in Nat /\ Payout[b] \in Nat  BY BetsAssumption, AmountsAssumption
<1>2. \A U \in SUBSET B : IsFiniteSet(U)  BY BetsAssumption, FS_Subset
<1>3. \A U \in SUBSET B : Sum(Stake, U) \in Nat /\ Sum(Payout, U) \in Nat
  BY <1>1, <1>2, SumNat DEF Sum
<1> QED  BY <1>1, <1>3

LEMMA InitFunds == Init => FundsAddUp
<1> SUFFICES ASSUME Init PROVE FundsAddUp  OBVIOUS
<1>1. Pending = {} /\ Won = {} /\ Lost = {}  BY DEF Init, Pending, Won, Lost
<1>2. Sum(Stake, {}) = 0 /\ Sum(Payout, {}) = 0
  BY BetsAssumption, StakesNat, SumType DEF Sum
<1>3. wallet.balance = Funds /\ wallet.reserved = 0 /\ Funds \in Nat
  BY BetsAssumption DEF Init
<1>4. \A s \in Sessions : ~In(s, "read")  BY DEF Init, In, Idle
<1> QED  BY <1>1, <1>2, <1>3, <1>4 DEF FundsAddUp

\* The books of one more commit on the latest row, by what the bet becomes.
LEMMA CommitFunds ==
    ASSUME IInv, FundsAddUp, raced = 0, NEW s \in Sessions, Commit(s), session[s].at = commits
    PROVE  /\ wallet'.reserved = Sum(Stake, Pending')
           /\ wallet'.balance + wallet'.reserved + Sum(Stake, Won') + Sum(Stake, Lost')
                = Funds + Sum(Payout, Won')
<1> DEFINE b == session[s].b
           to == session[s].to
<1>1. session[s] \in Active /\ In(s, "flushed")  BY DEF IInv, TypeOK, Idle, Commit, In
<1>2. b \in B /\ to \in Statuses \ {"none"}  BY <1>1 DEF Active
<1>3. session[s].seen = wallet /\ wallet \in Row  BY <1>1 DEF IInv, SnapshotsFresh, TypeOK
<1>4. PlanOf(b, to) \in Plans /\ PlanAccepted(wallet, PlanOf(b, to))
  BY <1>1, <1>2, <1>3, PlanOfPlans DEF IInv, FlushedAccepted, Plan
<1>5. wallet' = AfterPlan(wallet, PlanOf(b, to))
  BY <1>3, <1>4, WrittenFresh DEF Commit, Plan
<1>6. status[b] = IF to = "pending" THEN "none" ELSE "pending"
  BY <1>1 DEF IInv, HoldsItsBet, In
<1>7. status' = [status EXCEPT ![b] = to] /\ status \in [B -> Statuses]
  BY DEF Commit, IInv, TypeOK
<1> HIDE DEF b, to
<1>8. PICK stake \in Nat, payout \in Nat : stake = Stake[b] /\ payout = Payout[b]
  BY <1>2, StakesNat
<1>9. Pending \in SUBSET B /\ Won \in SUBSET B /\ Lost \in SUBSET B  BY DEF Pending, Won, Lost
<1>10. /\ IsFiniteSet(B) /\ (\A c \in B : Stake[c] \in Int /\ Payout[c] \in Int)
       /\ b \notin Won /\ b \notin Lost
  BY <1>2, <1>6, StakesNat, BetsAssumption DEF Won, Lost
<1>11. PICK p \in Nat, w \in Nat, l \in Nat, o \in Nat :
          /\ p = Sum(Stake, Pending) /\ w = Sum(Stake, Won)
          /\ l = Sum(Stake, Lost) /\ o = Sum(Payout, Won)
  BY <1>9, StakesNat
<1>12. PICK bal \in Nat : bal = wallet.balance /\ wallet.reserved = p /\ wallet = [balance |-> bal, reserved |-> p]
  BY <1>3, <1>11 DEF FundsAddUp, Row
<1>13. bal + p + w + l = Funds + o /\ Funds \in Nat
  BY <1>11, <1>12, BetsAssumption DEF FundsAddUp
<1> USE DEF Calling, PlanOf, AfterPlan, Apply
<1>14. CASE to = "pending"
  <2>1. wallet' = [balance |-> bal - stake, reserved |-> p + stake]
    BY <1>5, <1>8, <1>12, <1>14 DEF LockBalance
  <2>2. Pending' = Pending \cup {b} /\ Won' = Won /\ Lost' = Lost /\ b \notin Pending
    BY <1>2, <1>6, <1>7, <1>14 DEF Pending, Won, Lost
  <2>3. Sum(Stake, Pending') = p + stake
    BY <1>2, <1>8, <1>9, <1>10, <1>11, <2>2, SumAdd DEF Sum
  <2> QED  BY <1>8, <1>11, <1>12, <1>13, <2>1, <2>2, <2>3
<1>15. CASE to # "pending"
  <2>1. b \in Pending /\ Pending' = Pending \ {b}  BY <1>2, <1>6, <1>7, <1>15 DEF Pending
  <2>2. Sum(Stake, Pending') = p - stake
    BY <1>8, <1>9, <1>10, <1>11, <2>1, SumRemove DEF Sum
  <2>3. CASE to = "won"
    <3>1. wallet' = [balance |-> bal + payout, reserved |-> p - stake]
      BY <1>5, <1>8, <1>12, <2>3 DEF DeductReservedBalance, CreditBalance
    <3>2. Won' = Won \cup {b} /\ Lost' = Lost  BY <1>2, <1>6, <1>7, <2>3 DEF Won, Lost
    <3>3. Sum(Stake, Won') = w + stake /\ Sum(Payout, Won') = o + payout
      BY <1>2, <1>8, <1>9, <1>10, <1>11, <3>2, SumAdd DEF Sum
    <3> QED  BY <1>8, <1>11, <1>12, <1>13, <2>2, <3>1, <3>2, <3>3
  <2>4. CASE to = "lost"
    <3>1. wallet' = [balance |-> bal, reserved |-> p - stake]
      BY <1>5, <1>8, <1>12, <2>4 DEF DeductReservedBalance
    <3>2. Won' = Won /\ Lost' = Lost \cup {b}  BY <1>2, <1>6, <1>7, <2>4 DEF Won, Lost
    <3>3. Sum(Stake, Lost') = l + stake
      BY <1>2, <1>8, <1>9, <1>10, <1>11, <3>2, SumAdd DEF Sum
    <3> QED  BY <1>8, <1>11, <1>12, <1>13, <2>2, <3>1, <3>2, <3>3
  <2>5. CASE to \notin {"won", "lost"}
    <3>1. wallet' = [balance |-> bal + stake, reserved |-> p - stake]
      BY <1>5, <1>8, <1>12, <1>15, <2>5 DEF UnlockBalance
    <3>2. Won' = Won /\ Lost' = Lost  BY <1>2, <1>6, <1>7, <2>5 DEF Won, Lost
    <3> QED  BY <1>8, <1>11, <1>12, <1>13, <2>2, <3>1, <3>2
  <2> QED  BY <2>3, <2>4, <2>5
<1> QED  BY <1>14, <1>15

LEMMA NextFunds == IInv /\ FundsAddUp /\ [Next]_vars => FundsAddUp'
<1> SUFFICES ASSUME IInv, FundsAddUp, [Next]_vars, raced' = 0
             PROVE  /\ wallet'.reserved = Sum(Stake, Pending')
                    /\ wallet'.balance + wallet'.reserved + Sum(Stake, Won') + Sum(Stake, Lost')
                         = Funds + Sum(Payout, Won')
                    /\ \A s \in Sessions :
                          In(s, "read")' /\ session'[s].to # "pending"
                            => session'[s].seen.reserved >= Stake[session'[s].b]
  BY DEF FundsAddUp, Pending, Won, Lost, Sum, In
<1>1. session \in [Sessions -> Active \cup {Idle}] /\ raced \in Nat  BY DEF IInv, TypeOK
<1>2. CASE UNCHANGED <<status, wallet, raced>>
  <2>0. Pending' = Pending /\ Won' = Won /\ Lost' = Lost  BY <1>2 DEF Pending, Won, Lost
  <2>1. ASSUME NEW s \in Sessions, In(s, "read")', session'[s].to # "pending"
        PROVE  session'[s].seen.reserved >= Stake[session'[s].b]
    <3>1. CASE session'[s] = session[s]
      BY <1>2, <2>1, <3>1 DEF FundsAddUp, In
    <3>2. CASE session'[s] # session[s]
      <4>1. ReadWallet(s)
        <5>1. PICK t \in Sessions :
                \/ Request(t) \/ ReadWallet(t) \/ Refuse(t) \/ Flush(t) \/ Commit(t) \/ Rollback(t)
          BY <3>2 DEF Next, vars, Finish
        <5>2. CASE ReadWallet(t)  BY <1>1, <3>2, <5>2 DEF ReadWallet
        <5>3. CASE Request(t)
          <6>1. PICK b \in B : \E to : Start(t, b, to)  BY <5>3 DEF Request, Place, Settle, Cancel
          <6> QED  BY <1>1, <2>1, <3>2, <6>1 DEF Start, In
        <5>4. CASE Refuse(t) \/ Commit(t) \/ Rollback(t)
          <6>1. session' = [session EXCEPT ![t] = Idle]
            BY <5>4 DEF Refuse, Commit, Rollback, Abort
          <6> QED  BY <1>1, <2>1, <3>2, <6>1 DEF In, Idle
        <5>5. CASE Flush(t)  BY <1>1, <2>1, <3>2, <5>5 DEF Flush, In, Idle
        <5> QED  BY <5>1, <5>2, <5>3, <5>4, <5>5
      <4>2. session[s] \in Active /\ ~In(s, "idle")  BY <1>1, <4>1 DEF ReadWallet, In, Idle
      <4>3. /\ session'[s].seen = wallet /\ session'[s].b = session[s].b
            /\ session'[s].to = session[s].to
        BY <1>1, <4>1, <4>2 DEF ReadWallet, Active
      <4>4. session[s].b \in Pending /\ Pending \in SUBSET B
        BY <2>1, <4>2, <4>3 DEF IInv, HoldsItsBet, Pending, Active
      <4>5. IsFiniteSet(Pending) /\ \A b \in Pending : Stake[b] \in Nat
        BY <4>4, StakesNat, BetsAssumption, FS_Subset
      <4>6. Sum(Stake, Pending) >= Stake[session[s].b]
        BY <4>4, <4>5, SumNat DEF Sum
      <4> QED  BY <1>2, <4>3, <4>6 DEF FundsAddUp
    <3> QED  BY <3>1, <3>2
  <2> QED  BY <1>2, <2>0, <2>1 DEF FundsAddUp
<1>3. CASE \E s \in Sessions : Commit(s)
  <2>1. PICK s \in Sessions : Commit(s)  BY <1>3
  <2>2. raced = 0 /\ session[s].at = commits  BY <1>1, <2>1 DEF Commit
  <2>3. \A t \in Sessions : session'[t] = session[t] \/ session'[t] = Idle
    BY <1>1, <2>1 DEF Commit
  <2>4. \A t \in Sessions : In(t, "read")' /\ session'[t].to # "pending"
                              => session'[t].seen.reserved >= Stake[session'[t].b]
    BY <2>2, <2>3 DEF FundsAddUp, In, Idle
  <2> QED  BY <2>1, <2>2, <2>4, CommitFunds
<1>4. UNCHANGED <<status, wallet, raced>> \/ \E s \in Sessions : Commit(s)
  BY DEF Next, vars, Finish, Request, Place, Settle, Cancel, Start, ReadWallet, Refuse, Flush,
         Rollback, Abort
<1> QED  BY <1>2, <1>3, <1>4

\* A closing bet finds its stake in the reservation it has read.
LEMMA ClosingAccepted ==
    ASSUME NEW r \in Row, NEW b \in B, NEW to \in Statuses \ {"none", "pending"},
           r.reserved >= Stake[b]
    PROVE  PlanAccepted(r, PlanOf(b, to))
<1>1. PICK stake \in Nat \ {0}, payout \in Nat \ {0} : stake = Stake[b] /\ payout = Payout[b]
  BY BetsAssumption, AmountsAssumption
<1> USE DEF PlanOf, Calling, PlanAccepted, Accepts, Sufficient, Row
<1>2. CASE to = "won"  BY <1>1, <1>2
<1>3. CASE to = "lost"  BY <1>1, <1>3
<1>4. CASE to \notin {"won", "lost"}  BY <1>1, <1>4
<1> QED  BY <1>2, <1>3, <1>4

\* As long as no commit overwrote a newer wallet row, the reserved funds are the
\* stakes of the pending bets, only won and lost bets make or take money, and no
\* settlement or cancellation is refused.
THEOREM FundsAudit == Spec => []UnracedFundsAddUp
<1>1. Init => FundsAddUp  BY InitFunds
<1>2. IInv /\ FundsAddUp /\ [Next]_vars => FundsAddUp'  BY NextFunds
<1>3. IInv /\ FundsAddUp => UnracedFundsAddUp
  <2> SUFFICES ASSUME IInv, FundsAddUp, raced = 0, NEW s \in Sessions,
                      In(s, "read"), session[s].to # "pending"
               PROVE  PlanAccepted(session[s].seen, Plan(s))
    BY DEF FundsAddUp, UnracedFundsAddUp
  <2>1. session[s] \in Active  BY DEF IInv, TypeOK, In, Idle
  <2>2. session[s].seen.reserved >= Stake[session[s].b]  BY DEF FundsAddUp
  <2> QED  BY <2>1, <2>2, ClosingAccepted DEF Plan, Active
<1> QED  BY <1>1, <1>2, <1>3, Invariance, PTL DEF Spec

-----------------------------------------------------------------------------
(* The reports.                                                            *)

Computed == [phase : {"computed"}, day : Days, data : Data, complete : BOOLEAN]

Looked == [phase : {"looked"}, day : Days, data : Data, complete : BOOLEAN, seen : StoredReport \cup {None}]

ReportTypeOK ==
    /\ today \in Days
    /\ began \in [Sessions -> Days \cup {None}]
    /\ days \in [B -> Seq(Days)]
    /\ stored \in [Days -> StoredReport \cup {None}]
    /\ reporter \in [Reporters -> Computed \cup Looked \cup {Idle}]
    /\ computed \in Nat

\* A transaction that is under way has begun, and not tomorrow.
BegunInTime ==
    /\ \A s \in Sessions : ~In(s, "idle") => began[s] # None
    /\ \A s \in Sessions : began[s] # None => began[s] <= today

\* Every entry has a day, and those of a settlement have the same.
EntriesDated ==
    \A b \in B :
        /\ Len(days[b]) = Len(entries[b])
        /\ status[b] = "won" => days[b][2] = days[b][3]

\* What was stored or computed when the day was complete is what the day has, and
\* the day is still complete; a report that was found is still there.
ReportsExact ==
    /\ \A d \in Days : stored[d] # None /\ stored[d].clean =>
          Complete(d) /\ stored[d].data = Compute(d, d)
    /\ \A r \in Reporters : ~Is(r, "idle") =>
          LET q == reporter[r] IN
          /\ q.complete => Complete(q.day) /\ q.data = Compute(q.day, q.day)
          /\ Is(r, "looked") /\ q.seen # None => stored[q.day] \in StoredReport

ReportInv == IInv /\ ReportTypeOK /\ BegunInTime /\ EntriesDated /\ ReportsExact

\* To the bets a step of the reports is one of theirs, or none.
LEMMA BetsStep ==
    ASSUME [ReportNext]_allVars
    PROVE  [Next]_vars
<1>1. CASE \E s \in Sessions : Working(s) \/ Failing(s) \/ Booking(s)
  BY <1>1 DEF Working, Failing, Booking, Next
<1>2. CASE ~\E s \in Sessions : Working(s) \/ Failing(s) \/ Booking(s)
  BY <1>2 DEF ReportNext, allVars, Open, Close, Midnight, ComputeForDate, Look, Store
<1> QED  BY <1>1, <1>2

\* A report says the same as long as the same entries are found.
LEMMA ComputeSame ==
    ASSUME NEW d \in Days, \A type : Found(type, d, d)' = Found(type, d, d)
    PROVE  Compute(d, d)' = Compute(d, d)
<1>1. \A type : Total(type, d, d)' = Total(type, d, d)  BY DEF Total
<1>2. Profit(d, d)' = Profit(d, d)  BY <1>1 DEF Profit
<1> QED  BY <1>1, <1>2 DEF Compute

LEMMA FiniteFound ==
    ASSUME NEW type, NEW from, NEW to
    PROVE  IsFiniteSet(Found(type, from, to)) /\ Found(type, from, to) \in SUBSET (B \X (1 .. 3))
<1>1. Found(type, from, to) \in SUBSET (B \X (1 .. 3))  BY DEF Found
<1>2. IsFiniteSet(B \X (1 .. 3))
  <2>0. 1 \in Int /\ 3 \in Int  OBVIOUS
  <2>1. IsFiniteSet(1 .. 3)  BY <2>0, FS_Interval, Zenon
  <2> QED  BY <2>1, FS_Product, BetsAssumption
<1> QED  BY <1>1, <1>2, FS_Subset

LEMMA TotalNat ==
    ASSUME NEW type, NEW from, NEW to
    PROVE  Total(type, from, to) \in Nat
<1>1. PICK F : F = Found(type, from, to) /\ IsFiniteSet(F) /\ F \in SUBSET (B \X (1 .. 3))
  BY FiniteFound
<1>2. PICK w : w = [e \in F |-> AmountOf(e[1], type)]  OBVIOUS
<1>3. \A e \in F : w[e] \in Nat  BY <1>1, <1>2, StakesNat DEF AmountOf
<1>4. SumFunctionOnSet(w, F) \in Nat  BY <1>1, <1>3, SumNat
<1> QED  BY <1>1, <1>2, <1>4 DEF Total, Sum

LEMMA ComputeData ==
    ASSUME NEW from, NEW to
    PROVE  Compute(from, to) \in Data
<1>1. Profit(from, to) \in Int  BY TotalNat DEF Profit
<1> QED  BY <1>1, TotalNat DEF Compute, Data

LEMMA ReportTypes ==
    ASSUME ReportTypeOK, NEW r \in Reporters
    PROVE  /\ Is(r, "computed") => reporter[r] \in Computed
           /\ Is(r, "looked") => reporter[r] \in Looked
           /\ ~Is(r, "computed") /\ ~Is(r, "looked") => Is(r, "idle")
<1>1. reporter[r] \in Computed \cup Looked \cup {Idle}  BY DEF ReportTypeOK
<1> QED  BY <1>1 DEF Is, Computed, Looked, Idle

LEMMA InitReport == ReportInit => ReportInv
<1> SUFFICES ASSUME ReportInit PROVE ReportInv  OBVIOUS
<1>1. IInv  BY InitIInv DEF ReportInit
<1>2. ReportTypeOK
  <2>1. <<>> \in Seq(Days) /\ 1 \in Days  BY ReportsAssumption DEF Days
  <2> QED  BY <2>1 DEF ReportInit, ReportTypeOK
<1>3. BegunInTime  BY DEF ReportInit, Init, BegunInTime, In, Idle
<1>4. EntriesDated  BY DEF ReportInit, Init, EntriesDated
<1>5. ReportsExact  BY DEF ReportInit, ReportsExact, Is, Idle
<1> QED  BY <1>1, <1>2, <1>3, <1>4, <1>5 DEF ReportInv

\* A commit appends the entries of its outcome, all of the day its transaction began.
LEMMA BookingAppends ==
    ASSUME ReportInv, NEW s \in Sessions, Booking(s)
    PROVE  \E b \in B, to \in Statuses \ {"none"}, types \in Seq(Types), stamp \in Seq(Days), day \in Days :
              /\ day = began[s] /\ types = TypesOf(to)
              /\ Len(stamp) = Len(types) /\ \A i \in 1 .. Len(types) : stamp[i] = day
              /\ entries' = [entries EXCEPT ![b] = entries[b] \o types]
              /\ days' = [days EXCEPT ![b] = days[b] \o stamp]
              /\ status[b] = IF to = "pending" THEN "none" ELSE "pending"
              /\ status' = [status EXCEPT ![b] = to]
<1>1. session[s] \in Active /\ In(s, "flushed") /\ ~In(s, "idle")
  BY DEF ReportInv, IInv, TypeOK, Idle, Booking, Commit, In
<1>2. PICK b \in B, to \in Statuses \ {"none"} : b = session[s].b /\ to = session[s].to
  BY <1>1 DEF Active
<1>3. PICK types \in Seq(Types) : types = TypesOf(to)  BY TypesOfTypes
<1>4. PICK day \in Days : day = began[s]
  BY <1>1 DEF ReportInv, BegunInTime, ReportTypeOK
<1>5. PICK stamp : stamp = [i \in 1 .. Len(types) |-> day]  OBVIOUS
<1>6. Stamp(s, types) = stamp  BY <1>3, <1>4, <1>5 DEF Stamp
<1>7. stamp \in Seq(Days) /\ Len(stamp) = Len(types)  BY <1>3, <1>5
<1>8. status[b] = IF to = "pending" THEN "none" ELSE "pending"
  BY <1>1, <1>2 DEF ReportInv, IInv, HoldsItsBet
<1>9. Commit(s) /\ days' = [days EXCEPT ![b] = days[b] \o stamp]
  BY <1>2, <1>3, <1>6 DEF Booking
<1>10. /\ entries' = [entries EXCEPT ![b] = entries[b] \o types]
       /\ status' = [status EXCEPT ![b] = to]
  BY <1>2, <1>3, <1>9 DEF Commit
<1>11. \A i \in 1 .. Len(types) : stamp[i] = day  BY <1>5
<1> QED  BY <1>3, <1>4, <1>7, <1>8, <1>9, <1>10, <1>11

\* Nothing else adds an entry.
LEMMA OthersAppendNothing ==
    ASSUME [ReportNext]_allVars, ~\E s \in Sessions : Booking(s)
    PROVE  UNCHANGED <<entries, days, status>>
<1>1. CASE \E s \in Sessions : Working(s) \/ Failing(s)
  BY <1>1 DEF Working, Failing, Request, Place, Settle, Cancel, Start, ReadWallet, Flush, Refuse,
              Rollback, Abort
<1>2. CASE ~\E s \in Sessions : Working(s) \/ Failing(s)
  BY <1>2 DEF ReportNext, allVars, vars, Open, Close, Midnight, ComputeForDate, Look, Store
<1> QED  BY <1>1, <1>2

\* A day that is complete remains so.
LEMMA CompleteStays ==
    ASSUME ReportInv, [ReportNext]_allVars, NEW d \in Days, Complete(d)
    PROVE  Complete(d)'
<1>1. d \in Nat /\ today \in Nat /\ d < today /\ None # d /\ today # d
  BY ReportsAssumption DEF Days, Complete, ReportInv, ReportTypeOK
<1>2. began \in [Sessions -> Days \cup {None}]  BY DEF ReportInv, ReportTypeOK
<1>3. \A s \in Sessions : began[s] # d  BY DEF Complete
<1>4. d < today'
  <2>1. CASE Midnight  BY <1>1, <2>1 DEF Midnight
  <2>2. CASE ~Midnight
    <3>1. today' = today
      BY <2>2 DEF ReportNext, allVars, Open, Close, Working, Failing, Booking, ComputeForDate, Look, Store
    <3> QED  BY <1>1, <3>1
  <2> QED  BY <2>1, <2>2
<1>5. \A s \in Sessions : began'[s] # d
  <2>1. \/ UNCHANGED began
        \/ \E t \in Sessions : Open(t) \/ Ended(t)
    BY DEF ReportNext, allVars, Close, Working, Failing, Booking, Midnight, ComputeForDate, Look, Store
  <2> QED  BY <1>1, <1>2, <1>3, <2>1 DEF Open, Ended
<1> QED  BY <1>4, <1>5 DEF Complete

LEMMA Appended ==
    ASSUME NEW S, NEW u \in Seq(S), NEW v \in Seq(S)
    PROVE  /\ u \o v \in Seq(S) /\ Len(u \o v) = Len(u) + Len(v)
           /\ DOMAIN (u \o v) = 1 .. Len(u) + Len(v)
           /\ \A k \in 1 .. Len(u) : (u \o v)[k] = u[k]
           /\ \A k \in Len(u) + 1 .. Len(u) + Len(v) : (u \o v)[k] = v[k - Len(u)]
<1>1. u \o v \in Seq(S) /\ Len(u \o v) = Len(u) + Len(v)  OBVIOUS
<1>2. DOMAIN (u \o v) = 1 .. Len(u) + Len(v)  BY <1>1
<1> QED  BY <1>1, <1>2

\* A complete day has no more entries to come.
LEMMA CompleteFound ==
    ASSUME ReportInv, [ReportNext]_allVars, NEW d \in Days, Complete(d)
    PROVE  \A type : Found(type, d, d)' = Found(type, d, d)
<1>1. CASE \E s \in Sessions : Booking(s)
  <2>1. PICK s \in Sessions : Booking(s)  BY <1>1
  <2>2. PICK b \in B, to \in Statuses \ {"none"}, types \in Seq(Types), stamp \in Seq(Days), day \in Days :
              /\ day = began[s] /\ types = TypesOf(to)
              /\ Len(stamp) = Len(types) /\ \A i \in 1 .. Len(types) : stamp[i] = day
              /\ entries' = [entries EXCEPT ![b] = entries[b] \o types]
              /\ days' = [days EXCEPT ![b] = days[b] \o stamp]
              /\ status[b] = IF to = "pending" THEN "none" ELSE "pending"
              /\ status' = [status EXCEPT ![b] = to]
    BY <2>1, BookingAppends
  <2>3. day # d /\ d \in Int /\ day \in Int  BY <2>2 DEF Complete, Days
  <2>4. PICK old \in Seq(Types), was \in Seq(Days) :
            old = entries[b] /\ was = days[b] /\ Len(old) = Len(was)
    BY DEF ReportInv, IInv, TypeOK, ReportTypeOK, EntriesDated
  <2>5. /\ entries'[b] = old \o types /\ days'[b] = was \o stamp
        /\ \A c \in B : c # b => entries'[c] = entries[c] /\ days'[c] = days[c]
    BY <2>2, <2>4 DEF ReportInv, IInv, TypeOK, ReportTypeOK
  <2>6. ASSUME NEW type, NEW c \in B, NEW k \in 1 .. 3
        PROVE  (k \in DOMAIN entries[c] /\ entries[c][k] = type /\ days[c][k] \in d .. d)' <=>
               (k \in DOMAIN entries[c] /\ entries[c][k] = type /\ days[c][k] \in d .. d)
    <3>1. CASE c # b  BY <2>5, <3>1
    <3>2. CASE c = b
      <4>1. CASE k \in 1 .. Len(old)
        <5>1. k \in 1 .. Len(old) + Len(types) /\ (old \o types)[k] = old[k] /\ (was \o stamp)[k] = was[k]
          BY <2>2, <2>4, <4>1
        <5>2. DOMAIN entries[c] = 1 .. Len(old)  BY <2>4, <3>2
        <5>4. DOMAIN (old \o types) = 1 .. Len(old) + Len(types)  BY Appended
        <5> QED  BY <2>4, <2>5, <3>2, <4>1, <5>1, <5>2, <5>4
      <4>2. CASE k \notin 1 .. Len(old)
        <5>1. k \notin DOMAIN entries[c]  BY <2>4, <3>2, <4>2
        <5>2. ASSUME k \in DOMAIN entries'[c] PROVE days'[c][k] \notin d .. d
          <6>1. k \in Len(old) + 1 .. Len(old) + Len(types)  BY <2>5, <3>2, <4>2, <5>2
          <6>2. (was \o stamp)[k] = stamp[k - Len(was)] /\ k - Len(was) \in 1 .. Len(types)
            BY <2>2, <2>4, <6>1, Appended
          <6>3. days'[c][k] = day  BY <2>2, <2>5, <3>2, <6>2
          <6> QED  BY <2>3, <6>3
        <5> QED  BY <5>1, <5>2
      <4> QED  BY <4>1, <4>2
    <3> QED  BY <3>1, <3>2
  <2>7. ASSUME NEW type PROVE Found(type, d, d)' = Found(type, d, d)
    <3>1. ASSUME NEW e \in B \X (1 .. 3)
          PROVE  (e[2] \in DOMAIN entries[e[1]] /\ entries[e[1]][e[2]] = type /\ days[e[1]][e[2]] \in d .. d)' <=>
                 (e[2] \in DOMAIN entries[e[1]] /\ entries[e[1]][e[2]] = type /\ days[e[1]][e[2]] \in d .. d)
      BY <2>6
    <3> QED  BY <3>1 DEF Found
  <2> QED  BY <2>7
<1>2. CASE ~\E s \in Sessions : Booking(s)
  BY <1>2, OthersAppendNothing DEF Found
<1> QED  BY <1>1, <1>2

\* An update of a report that has not changed since it was seen, or that says the
\* same already, leaves what was computed.
LEMMA MergedData ==
    ASSUME NEW old \in Data, NEW seen \in Data, NEW data \in Data
    PROVE  /\ Merged(old, seen, data) \in Data
           /\ old = seen \/ old = data => Merged(old, seen, data) = data
<1>1. DOMAIN data = {"staked", "losing", "profit", "ggr"}  BY DEF Data
<1>2. PICK m : m = [c \in {"staked", "losing", "profit", "ggr"} |-> IF data[c] = seen[c] THEN old[c] ELSE data[c]]
  OBVIOUS
<1>3. Merged(old, seen, data) = m  BY <1>1, <1>2 DEF Merged
<1>4. m = [staked |-> m.staked, losing |-> m.losing, profit |-> m.profit, ggr |-> m.ggr]
  BY <1>2
<1>5. m.staked \in Int /\ m.losing \in Int /\ m.profit \in Int /\ m.ggr \in Int
  BY <1>2 DEF Data
<1>6. m \in Data  BY <1>4, <1>5 DEF Data
<1>7. ASSUME old = seen \/ old = data PROVE m = data
  <2>1. \A c \in {"staked", "losing", "profit", "ggr"} : m[c] = data[c]  BY <1>2, <1>7
  <2>2. data = [staked |-> data.staked, losing |-> data.losing, profit |-> data.profit, ggr |-> data.ggr]
    BY DEF Data
  <2> QED  BY <1>4, <2>1, <2>2
<1> QED  BY <1>3, <1>6, <1>7

\* What a request stores is a report; a clean one is what it computed of a complete day.
LEMMA StoreStores ==
    ASSUME ReportInv, NEW r \in Reporters, Store(r)
    PROVE  \E q \in Looked :
              /\ q = reporter[r] /\ reporter' = [reporter EXCEPT ![r] = Idle]
              /\ \/ UNCHANGED stored
                 \/ \E new \in StoredReport :
                       /\ stored' = [stored EXCEPT ![q.day] = new]
                       /\ new.clean => q.complete /\ new.data = q.data
<1>1. PICK q \in Looked : q = reporter[r]  BY ReportTypes DEF ReportInv, Store
<1>2. q.data \in Data /\ q.complete \in BOOLEAN /\ q.day \in Days /\ q.seen \in StoredReport \cup {None}
  BY <1>1 DEF Looked
<1>3. PICK old : old = stored[q.day]  OBVIOUS
<1>4. reporter' = [reporter EXCEPT ![r] = Idle]  BY DEF Store
<1>5. CASE q.seen # None
  <2>1. q.seen \in StoredReport /\ old \in StoredReport
    BY <1>1, <1>2, <1>3, <1>5 DEF ReportInv, ReportsExact, Store, Is
  <2>2. PICK clean \in BOOLEAN : clean = (q.complete /\ (old = q.seen \/ old.clean))  OBVIOUS
  <2>3. PICK data \in Data : data = Merged(old.data, q.seen.data, q.data)
    BY <1>2, <2>1, MergedData DEF StoredReport
  <2>4. stored' = [stored EXCEPT ![q.day] = [data |-> data, clean |-> clean]]
    BY <1>1, <1>3, <1>5, <2>2, <2>3 DEF Store
  <2>5. [data |-> data, clean |-> clean] \in StoredReport  BY DEF StoredReport
  <2>6. ASSUME clean PROVE q.complete /\ data = q.data
    <3>1. q.complete /\ (old = q.seen \/ old.clean)  BY <2>2, <2>6
    <3>2. CASE old = q.seen  BY <1>2, <2>1, <2>3, <3>1, <3>2, MergedData DEF StoredReport
    <3>3. CASE old.clean
      <4>1. old # None  BY <2>1, ReportsAssumption
      <4>2. old.data = Compute(q.day, q.day)
        BY <1>2, <1>3, <3>3, <4>1 DEF ReportInv, ReportsExact
      <4>3. q.data = Compute(q.day, q.day)
        BY <1>1, <3>1 DEF ReportInv, ReportsExact, Store, Is
      <4> QED  BY <1>2, <2>1, <2>3, <3>1, <4>2, <4>3, MergedData DEF StoredReport
    <3> QED  BY <3>1, <3>2, <3>3
  <2> QED  BY <1>1, <1>4, <2>4, <2>5, <2>6
<1>6. CASE q.seen = None /\ old = None
  <2>1. stored' = [stored EXCEPT ![q.day] = [data |-> q.data, clean |-> q.complete]]
    BY <1>1, <1>3, <1>6 DEF Store
  <2>2. [data |-> q.data, clean |-> q.complete] \in StoredReport  BY <1>2 DEF StoredReport
  <2> QED  BY <1>1, <1>4, <2>1, <2>2
<1>7. CASE q.seen = None /\ old # None  BY <1>1, <1>3, <1>4, <1>7 DEF Store
<1> QED  BY <1>5, <1>6, <1>7

\* What a step does to a request that reports.
LEMMA ReporterSteps ==
    ASSUME ReportInv, [ReportNext]_allVars, NEW r \in Reporters, reporter'[r] # reporter[r]
    PROVE  \/ \E d \in Days : ComputeForDate(r, d)
           \/ Look(r)
           \/ Store(r)
<1>1. reporter' # reporter  OBVIOUS
<1>2. PICK t \in Reporters : \/ \E d \in Days : ComputeForDate(t, d)
                             \/ Look(t)
                             \/ Store(t)
  BY <1>1, ReportsAssumption
     DEF ReportNext, allVars, reportVars, Open, Close, Working, Failing, Booking, Midnight, Days
<1>3. reporter \in [Reporters -> Computed \cup Looked \cup {Idle}]  BY DEF ReportInv, ReportTypeOK
<1>4. \A u \in Reporters : u # t => reporter'[u] = reporter[u]
  BY <1>2, <1>3 DEF ComputeForDate, Look, Store
<1> QED  BY <1>2, <1>4

LEMMA StoredSteps ==
    ASSUME ReportInv, [ReportNext]_allVars, ~\E r \in Reporters : Store(r)
    PROVE  stored' = stored
BY DEF ReportNext, allVars, reportVars, Open, Close, Working, Failing, Booking, Midnight,
       ComputeForDate, Look

LEMMA ReportTypesKept ==
    ASSUME ReportInv, [ReportNext]_allVars
    PROVE  ReportTypeOK'
<1> USE DEF ReportTypeOK
<1>0. ReportTypeOK  BY DEF ReportInv
<1>1. today' \in Days
  <2>1. CASE Midnight  BY <1>0, <2>1, ReportsAssumption DEF Midnight, Days
  <2>2. CASE ~Midnight
    BY <1>0, <2>2 DEF ReportNext, allVars, Open, Close, Working, Failing, Booking, ComputeForDate, Look, Store
  <2> QED  BY <2>1, <2>2
<1>2. began' \in [Sessions -> Days \cup {None}]
  <2>1. \/ UNCHANGED began
        \/ \E t \in Sessions : Open(t) \/ Ended(t)
    BY DEF ReportNext, allVars, Close, Working, Failing, Booking, Midnight, ComputeForDate, Look, Store
  <2> QED  BY <1>0, <2>1 DEF Open, Ended
<1>3. days' \in [B -> Seq(Days)]
  <2>1. CASE \E s \in Sessions : Booking(s)
    <3>1. PICK s \in Sessions : Booking(s)  BY <2>1
    <3>2. PICK b \in B, stamp \in Seq(Days) : days' = [days EXCEPT ![b] = days[b] \o stamp]
      BY <3>1, BookingAppends
    <3>3. days[b] \o stamp \in Seq(Days)  BY <1>0, Appended
    <3> QED  BY <1>0, <3>2, <3>3
  <2>2. CASE ~\E s \in Sessions : Booking(s)  BY <1>0, <2>2, OthersAppendNothing
  <2> QED  BY <2>1, <2>2
<1>4. stored' \in [Days -> StoredReport \cup {None}]
  <2>1. ASSUME NEW r \in Reporters, Store(r) PROVE stored' \in [Days -> StoredReport \cup {None}]
    <3>1. \/ UNCHANGED stored
          \/ \E d \in Days, new \in StoredReport : stored' = [stored EXCEPT ![d] = new]
      BY <2>1, StoreStores DEF Looked
    <3> QED  BY <1>0, <3>1
  <2> QED  BY <1>0, <2>1, StoredSteps
<1>5. reporter' \in [Reporters -> Computed \cup Looked \cup {Idle}]
  <2>1. ASSUME NEW r \in Reporters, NEW d \in Days, ComputeForDate(r, d)
        PROVE  reporter' \in [Reporters -> Computed \cup Looked \cup {Idle}]
    <3>1. PICK data \in Data : data = Compute(d, d)  BY ComputeData
    <3>2. PICK complete \in BOOLEAN : complete = Complete(d)  BY DEF Complete
    <3>3. [phase |-> "computed", day |-> d, data |-> data, complete |-> complete] \in Computed
      BY DEF Computed
    <3> QED  BY <1>0, <2>1, <3>1, <3>2, <3>3 DEF ComputeForDate
  <2>2. ASSUME NEW r \in Reporters, Look(r)
        PROVE  reporter' \in [Reporters -> Computed \cup Looked \cup {Idle}]
    <3>1. PICK q \in Computed : q = reporter[r]  BY <1>0, <2>2, ReportTypes DEF Look
    <3>2. q.day \in Days /\ stored[q.day] \in StoredReport \cup {None}  BY <1>0 DEF Computed
    <3>3. [phase |-> "looked", day |-> q.day, data |-> q.data, complete |-> q.complete,
           seen |-> stored[q.day]] \in Looked
      BY <3>2 DEF Computed, Looked
    <3> QED  BY <1>0, <2>2, <3>1, <3>3 DEF Look
  <2>3. ASSUME NEW r \in Reporters, Store(r)
        PROVE  reporter' \in [Reporters -> Computed \cup Looked \cup {Idle}]
    BY <1>0, <2>3 DEF Store
  <2>4. CASE UNCHANGED reporter  BY <1>0, <2>4
  <2> QED  BY <2>1, <2>2, <2>3, <2>4, ReportsAssumption
           DEF ReportNext, allVars, reportVars, Open, Close, Working, Failing, Booking, Midnight, Days
<1>6. computed' \in Nat
  <2>1. computed' = computed \/ computed' = computed + 1
    BY DEF ReportNext, allVars, reportVars, Open, Close, Working, Failing, Booking, Midnight,
           ComputeForDate, Look, Store
  <2> QED  BY <1>0, <2>1
<1> QED  BY <1>1, <1>2, <1>3, <1>4, <1>5, <1>6

LEMMA BegunInTimeKept ==
    ASSUME ReportInv, [ReportNext]_allVars
    PROVE  BegunInTime'
<1>1. /\ today \in Nat /\ None \notin Nat /\ began \in [Sessions -> Days \cup {None}]
      /\ session \in [Sessions -> Active \cup {Idle}] /\ \A d \in Days : d \in Nat
  BY ReportsAssumption DEF ReportInv, ReportTypeOK, IInv, TypeOK, Days
<1>2. BegunInTime  BY DEF ReportInv
<1> USE DEF BegunInTime, In
<1>3. ASSUME NEW s \in Sessions, Open(s) PROVE BegunInTime'
  BY <1>1, <1>2, <1>3 DEF Open, vars, ReportInv, ReportTypeOK
<1>4. ASSUME NEW s \in Sessions, Close(s) PROVE BegunInTime'
  BY <1>1, <1>2, <1>4 DEF Close, Ended, vars
<1>5. ASSUME NEW s \in Sessions, Working(s) PROVE BegunInTime'
  <2>1. \A t \in Sessions : t # s => session'[t] = session[t]
    BY <1>1, <1>5 DEF Working, Request, Place, Settle, Cancel, Start, ReadWallet, Flush
  <2> QED  BY <1>1, <1>2, <1>5, <2>1 DEF Working
<1>6. ASSUME NEW s \in Sessions, Failing(s) \/ Booking(s) PROVE BegunInTime'
  <2>1. session' = [session EXCEPT ![s] = Idle] /\ today' = today
    BY <1>6 DEF Failing, Booking, Refuse, Rollback, Abort, Commit
  <2>2. began' = [began EXCEPT ![s] = None]  BY <1>6 DEF Failing, Booking, Ended
  <2> QED  BY <1>1, <1>2, <2>1, <2>2 DEF Idle
<1>7. CASE Midnight  BY <1>1, <1>2, <1>7 DEF Midnight, vars
<1>8. CASE UNCHANGED <<today, began, session>>  BY <1>2, <1>8
<1>9. CASE UNCHANGED allVars  BY <1>8, <1>9 DEF allVars, vars
<1> QED  BY <1>3, <1>4, <1>5, <1>6, <1>7, <1>8, <1>9 DEF ReportNext, ComputeForDate, Look, Store, vars

LEMMA EntriesDatedKept ==
    ASSUME ReportInv, [ReportNext]_allVars
    PROVE  EntriesDated'
<1>1. EntriesDated  BY DEF ReportInv
<1>2. CASE \E s \in Sessions : Booking(s)
  <2>1. PICK s \in Sessions : Booking(s)  BY <1>2
  <2>2. PICK b \in B, to \in Statuses \ {"none"}, types \in Seq(Types), stamp \in Seq(Days), day \in Days :
              /\ day = began[s] /\ types = TypesOf(to)
              /\ Len(stamp) = Len(types) /\ \A i \in 1 .. Len(types) : stamp[i] = day
              /\ entries' = [entries EXCEPT ![b] = entries[b] \o types]
              /\ days' = [days EXCEPT ![b] = days[b] \o stamp]
              /\ status[b] = IF to = "pending" THEN "none" ELSE "pending"
              /\ status' = [status EXCEPT ![b] = to]
    BY <2>1, BookingAppends
  <2>3. PICK old \in Seq(Types), was \in Seq(Days) :
            old = entries[b] /\ was = days[b] /\ Len(old) = Len(was)
    BY <1>1 DEF ReportInv, IInv, TypeOK, ReportTypeOK, EntriesDated
  <2>4. /\ entries'[b] = old \o types /\ days'[b] = was \o stamp /\ status'[b] = to
        /\ \A c \in B : c # b => entries'[c] = entries[c] /\ days'[c] = days[c] /\ status'[c] = status[c]
    BY <2>2, <2>3 DEF ReportInv, IInv, TypeOK, ReportTypeOK
  <2>5. Len(old \o types) = Len(was \o stamp)
    <3>1. Len(old \o types) = Len(old) + Len(types)  BY Appended
    <3>2. Len(was \o stamp) = Len(was) + Len(stamp)  BY Appended
    <3> QED  BY <2>2, <2>3, <3>1, <3>2
  <2>6. ASSUME to = "won" PROVE (was \o stamp)[2] = (was \o stamp)[3]
    <3>1. old = <<"BET_LOCK">>
      BY <2>2, <2>3, <2>6 DEF ReportInv, IInv, EntriesFollowStatus, History, TypesOf
    <3>2. types = <<"BET_WIN_DEDUCT_STAKE", "BET_WIN_PAYOUT_CREDIT">>
      BY <2>2, <2>6 DEF TypesOf
    <3>3. Len(was) = 1 /\ Len(stamp) = 2  BY <2>2, <2>3, <3>1, <3>2
    <3>4. PICK all : all = was \o stamp  OBVIOUS
    <3>5. \A k \in Len(was) + 1 .. Len(was) + Len(stamp) : all[k] = stamp[k - Len(was)]
      BY <3>4, Appended
    <3>6. PICK n \in Nat : n = Len(was) /\ n = 1  BY <3>3
    <3>7. \A k \in n + 1 .. n + 2 : all[k] = stamp[k - n] /\ k - n \in 1 .. 2  BY <3>3, <3>5, <3>6
    <3>8. all[2] = day /\ all[3] = day  BY <2>2, <3>3, <3>6, <3>7
    <3> QED  BY <3>4, <3>8
  <2> QED  BY <1>1, <2>4, <2>5, <2>6 DEF EntriesDated
<1>3. CASE ~\E s \in Sessions : Booking(s)
  BY <1>1, <1>3, OthersAppendNothing DEF EntriesDated
<1> QED  BY <1>2, <1>3

LEMMA ReportsExactKept ==
    ASSUME ReportInv, [ReportNext]_allVars
    PROVE  ReportsExact'
<1>1. ReportsExact /\ ReportTypeOK  BY DEF ReportInv
<1>2. ReportTypeOK'  BY ReportTypesKept
<1>3. \A d \in Days : Complete(d) => Complete(d)' /\ Compute(d, d)' = Compute(d, d)
  BY CompleteStays, CompleteFound, ComputeSame
<1>4. ASSUME NEW d \in Days, (stored[d] # None /\ stored[d].clean)'
      PROVE  (Complete(d) /\ stored[d].data = Compute(d, d))'
  <2>1. CASE stored'[d] = stored[d]  BY <1>1, <1>3, <1>4, <2>1 DEF ReportsExact
  <2>2. CASE stored'[d] # stored[d]
    <3>1. PICK r \in Reporters : Store(r)  BY <2>2, StoredSteps
    <3>2. PICK q \in Looked :
              /\ q = reporter[r]
              /\ \E new \in StoredReport :
                    /\ stored' = [stored EXCEPT ![q.day] = new]
                    /\ new.clean => q.complete /\ new.data = q.data
      BY <2>2, <3>1, StoreStores
    <3>3. PICK new \in StoredReport :
              stored' = [stored EXCEPT ![q.day] = new] /\ (new.clean => q.complete /\ new.data = q.data)
      BY <3>2
    <3>4. q.day = d /\ stored'[d] = new  BY <1>1, <2>2, <3>3 DEF ReportTypeOK
    <3>5. Complete(d) /\ q.data = Compute(d, d)
      BY <1>1, <1>4, <3>2, <3>3, <3>4 DEF ReportsExact, Looked, Is
    <3> QED  BY <1>3, <1>4, <3>3, <3>4, <3>5
  <2> QED  BY <2>1, <2>2
<1>5. ASSUME NEW r \in Reporters, NEW q, q = reporter'[r], q.phase # "idle"
      PROVE  /\ q.complete => Complete(q.day)' /\ q.data = Compute(q.day, q.day)'
             /\ q.phase = "looked" /\ q.seen # None => stored'[q.day] \in StoredReport
  <2>1. CASE q = reporter[r]
    <3>1. q \in Computed \cup Looked  BY <1>1, <1>5, <2>1, ReportTypes DEF Is
    <3>2. q.day \in Days  BY <3>1 DEF Computed, Looked
    <3>3. q.complete => Complete(q.day) /\ q.data = Compute(q.day, q.day)
      BY <1>1, <1>5, <2>1 DEF ReportsExact, Is
    <3>4. ASSUME q.phase = "looked", q.seen # None PROVE stored'[q.day] \in StoredReport
      <4>1. stored[q.day] \in StoredReport  BY <1>1, <1>5, <2>1, <3>4 DEF ReportsExact, Is
      <4>2. CASE stored'[q.day] = stored[q.day]  BY <4>1, <4>2
      <4>3. CASE stored'[q.day] # stored[q.day]
        <5>1. PICK t \in Reporters : Store(t)  BY <4>3, StoredSteps
        <5>2. PICK d \in Days, new \in StoredReport : stored' = [stored EXCEPT ![d] = new]
          BY <4>3, <5>1, StoreStores DEF Looked
        <5> QED  BY <1>1, <4>1, <5>2, <3>2 DEF ReportTypeOK
      <4> QED  BY <4>2, <4>3
    <3> QED  BY <1>3, <3>2, <3>3, <3>4
  <2>2. ASSUME NEW d \in Days, ComputeForDate(r, d)
        PROVE  (q.complete => Complete(q.day)' /\ q.data = Compute(q.day, q.day)') /\ q.phase # "looked"
    <3>1. q = [phase |-> "computed", day |-> d, data |-> Compute(d, d), complete |-> Complete(d)]
      BY <1>1, <1>5, <2>2 DEF ComputeForDate, ReportTypeOK
    <3> QED  BY <1>3, <3>1
  <2>3. CASE Look(r)
    <3>1. PICK p \in Computed : p = reporter[r]  BY <1>1, <2>3, ReportTypes DEF Look
    <3>2. q = [phase |-> "looked", day |-> p.day, data |-> p.data, complete |-> p.complete,
               seen |-> stored[p.day]]
      BY <1>1, <1>5, <2>3, <3>1 DEF Look, ReportTypeOK
    <3>3. p.day \in Days /\ q.day = p.day /\ q.seen = stored[p.day] /\ stored' = stored
      BY <2>3, <3>1, <3>2 DEF Computed, Look
    <3>4. p.complete => Complete(p.day) /\ p.data = Compute(p.day, p.day)
      BY <1>1, <3>1 DEF ReportsExact, Is, Computed
    <3>5. stored[p.day] \in StoredReport \cup {None}  BY <1>1, <3>3 DEF ReportTypeOK
    <3>6. q.complete => Complete(q.day)' /\ q.data = Compute(q.day, q.day)'
      BY <1>3, <3>2, <3>3, <3>4
    <3> QED  BY <3>3, <3>5, <3>6
  <2>4. CASE Store(r)
    <3>1. q = Idle  BY <1>1, <1>5, <2>4 DEF Store, ReportTypeOK
    <3> QED  BY <1>5, <3>1 DEF Idle
  <2> QED  BY <1>5, <2>1, <2>2, <2>3, <2>4, ReporterSteps
<1> QED  BY <1>4, <1>5 DEF ReportsExact, Is

LEMMA NextReport == ReportInv /\ [ReportNext]_allVars => ReportInv'
BY BetsStep, NextIInv, ReportTypesKept, BegunInTimeKept, EntriesDatedKept, ReportsExactKept DEF ReportInv

\* The inductive invariant of the reports.
THEOREM ReportInvariance == ReportSpec => []ReportInv
<1> QED  BY InitReport, NextReport, PTL DEF ReportSpec

\* A request that stores takes the step Store.
LEMMA OnlyStoreStores ==
    ASSUME ReportInv, [ReportNext]_allVars, NEW d \in Days, NEW r \in Reporters, Stores(r, d)
    PROVE  Store(r)
<1>1. reporter[r].phase = "looked" /\ reporter'[r].phase = "idle"  BY DEF Stores, Is, Idle
<1>2. \/ \E e \in Days : ComputeForDate(r, e)
      \/ Look(r)
      \/ Store(r)
  BY <1>1, ReporterSteps
<1> QED  BY <1>1, <1>2 DEF ComputeForDate, Look, Is

\* A computation of the complete day is stored as it is, over what it has seen or
\* over the same.
LEMMA CompleteStores ==
    ASSUME ReportInv, NEW r \in Reporters, Store(r), NEW d \in Days, reporter[r].day = d,
           reporter[r].complete, Exact(d) \/ ~Overtaken(r)
    PROVE  stored'[d] # None /\ stored'[d].data = Compute(d, d)
<1>1. PICK q \in Looked : q = reporter[r]  BY ReportTypes DEF ReportInv, Store
<1>2. q.data \in Data /\ q.day = d /\ q.complete  BY <1>1 DEF Looked
<1>3. q.data = Compute(d, d)  BY <1>1, <1>2 DEF ReportInv, ReportsExact, Store, Is
<1>4. PICK old \in StoredReport \cup {None} : old = stored[d]  BY DEF ReportInv, ReportTypeOK
<1>5. stored \in [Days -> StoredReport \cup {None}] /\ None \notin StoredReport
  BY ReportsAssumption DEF ReportInv, ReportTypeOK
<1>6. CASE q.seen # None
  <2>1. q.seen \in StoredReport /\ old \in StoredReport
    BY <1>1, <1>2, <1>4, <1>6 DEF Looked, ReportInv, ReportsExact, Store, Is
  <2>2. old.data = q.seen.data \/ old.data = q.data
    BY <1>1, <1>2, <1>3, <1>4, <1>5, <1>6, <2>1 DEF Exact, Overtaken
  <2>3. Merged(old.data, q.seen.data, q.data) = q.data
    BY <1>2, <2>1, <2>2, MergedData DEF StoredReport
  <2>4. PICK new \in StoredReport : stored' = [stored EXCEPT ![d] = new] /\ new.data = q.data
    <3>1. PICK clean \in BOOLEAN : clean = (q.complete /\ (old = q.seen \/ old.clean))  BY <1>2
    <3>2. stored' = [stored EXCEPT ![d] = [data |-> q.data, clean |-> clean]]
      BY <1>1, <1>2, <1>4, <1>6, <2>3, <3>1 DEF Store
    <3>3. [data |-> q.data, clean |-> clean] \in StoredReport  BY <1>2 DEF StoredReport
    <3> QED  BY <3>2, <3>3
  <2> QED  BY <1>3, <1>5, <2>4
<1>7. CASE q.seen = None /\ old = None
  <2>1. stored' = [stored EXCEPT ![d] = [data |-> q.data, clean |-> q.complete]]
    BY <1>1, <1>2, <1>4, <1>7 DEF Store
  <2>2. [data |-> q.data, clean |-> q.complete] \in StoredReport  BY <1>1 DEF Looked, StoredReport
  <2> QED  BY <1>3, <1>5, <2>1, <2>2
<1>8. CASE q.seen = None /\ old # None
  <2>1. Exact(d)  BY <1>1, <1>2, <1>4, <1>8 DEF Overtaken
  <2>2. stored' = stored  BY <1>1, <1>2, <1>4, <1>8 DEF Store
  <2> QED  BY <2>1, <2>2 DEF Exact
<1> QED  BY <1>6, <1>7, <1>8

\* A complete day has no more entries to come, those of a commit being of the day
\* its transaction began.
LEMMA NoLateEntries ==
    ASSUME ReportInv, [ReportNext]_allVars, NEW d \in Days, Complete(d), NEW c \in B,
           NEW i \in DOMAIN days'[c] \ DOMAIN days[c]
    PROVE  days'[c][i] # d
<1>1. PICK s \in Sessions : Booking(s)  BY OthersAppendNothing
<1>2. PICK b \in B, to \in Statuses \ {"none"}, types \in Seq(Types), stamp \in Seq(Days), day \in Days :
            /\ day = began[s] /\ types = TypesOf(to)
            /\ Len(stamp) = Len(types) /\ \A k \in 1 .. Len(types) : stamp[k] = day
            /\ entries' = [entries EXCEPT ![b] = entries[b] \o types]
            /\ days' = [days EXCEPT ![b] = days[b] \o stamp]
            /\ status[b] = IF to = "pending" THEN "none" ELSE "pending"
            /\ status' = [status EXCEPT ![b] = to]
  BY <1>1, BookingAppends
<1>3. day # d /\ \A k \in 1 .. Len(stamp) : stamp[k] = day  BY <1>2 DEF Complete
<1>4. days \in [B -> Seq(Days)]  BY DEF ReportInv, ReportTypeOK
<1>5. PICK was \in Seq(Days) : was = days[b]  BY <1>4
<1>6. c = b /\ days'[c] = was \o stamp  BY <1>2, <1>4, <1>5
<1>7. DOMAIN days[c] = 1 .. Len(was)  BY <1>6, <1>5
<1>8. DOMAIN (was \o stamp) = 1 .. Len(was) + Len(stamp)  BY Appended
<1>9. i \in Len(was) + 1 .. Len(was) + Len(stamp)  BY <1>6, <1>7, <1>8
<1>10. (was \o stamp)[i] = stamp[i - Len(was)] /\ i - Len(was) \in 1 .. Len(stamp)
  BY <1>9, Appended
<1> QED  BY <1>3, <1>6, <1>10

\* Of a complete day there are no more entries; only a request that computed it too
\* early can spoil its exact report; and one that did not leaves it exact, unless it
\* has been overtaken by one that did, or by a mixture.
THEOREM CompleteDaysAreReported == ReportSpec => CompleteDaysReported
<1>1. ASSUME ReportInv, [ReportNext]_allVars, NEW d \in Days, Complete(d)
      PROVE  Reported(d)
  <2>1. Compute(d, d)' = Compute(d, d)  BY <1>1, CompleteFound, ComputeSame
  <2>2. ASSUME NEW r \in Reporters, Store(r), reporter[r].day = d, reporter[r].complete,
               Exact(d) \/ ~Overtaken(r)
        PROVE  Exact(d)'
    BY <1>1, <2>1, <2>2, CompleteStores DEF Exact
  <2>3. ASSUME stored'[d] # stored[d], Exact(d), ~Exact(d)'
        PROVE  \E r \in Reporters : Stores(r, d) /\ ~reporter[r].complete
    <3>1. PICK r \in Reporters : Store(r)  BY <1>1, <2>3, StoredSteps
    <3>2. PICK q \in Looked :
              /\ q = reporter[r] /\ reporter' = [reporter EXCEPT ![r] = Idle]
              /\ UNCHANGED stored \/ \E new \in StoredReport : stored' = [stored EXCEPT ![q.day] = new]
      BY <1>1, <3>1, StoreStores
    <3>3. q.day = d  BY <1>1, <2>3, <3>2 DEF ReportInv, ReportTypeOK
    <3>4. reporter'[r] = Idle  BY <1>1, <3>2 DEF ReportInv, ReportTypeOK
    <3>5. Stores(r, d)  BY <3>1, <3>2, <3>3, <3>4 DEF Stores, Store
    <3>6. ~reporter[r].complete  BY <2>2, <2>3, <3>1, <3>2, <3>3
    <3> QED  BY <3>5, <3>6
  <2>4. ASSUME NEW r \in Reporters, Stores(r, d), reporter[r].complete
        PROVE  Exact(d)' \/ (~Exact(d) /\ Overtaken(r))
    <3>1. Store(r) /\ reporter[r].day = d  BY <1>1, <2>4, OnlyStoreStores DEF Stores
    <3> QED  BY <2>2, <2>4, <3>1
  <2> QED  BY <1>1, <2>3, <2>4, NoLateEntries DEF Reported
<1>2. ReportInv /\ [ReportNext]_allVars => [\A d \in Days : Complete(d) => Reported(d)]_allVars
  BY <1>1
<1> QED  BY <1>2, ReportInvariance, PTL DEF ReportSpec, CompleteDaysReported

-----------------------------------------------------------------------------
(* What the reports add up to.                                             *)

\* The bets of a set that were settled from one day to another.
SettledIn(S, from, to) == {b \in S : days[b][2] \in from .. to}

LEMMA OneAndMore ==
    ASSUME NEW x, NEW y, NEW z
    PROVE  /\ DOMAIN (<<x>> \o <<y>>) = 1 .. 2 /\ (<<x>> \o <<y>>)[1] = x /\ (<<x>> \o <<y>>)[2] = y
           /\ DOMAIN (<<x>> \o <<y, z>>) = 1 .. 3 /\ (<<x>> \o <<y, z>>)[1] = x
           /\ (<<x>> \o <<y, z>>)[2] = y /\ (<<x>> \o <<y, z>>)[3] = z
OBVIOUS

\* Which entries a bet has, by its status.
LEMMA EntriesOf ==
    ASSUME ReportInv, NEW b \in B, NEW k \in 1 .. 3
    PROVE  /\ k \in DOMAIN entries[b] /\ entries[b][k] = "BET_LOSS_DEDUCT" <=> k = 2 /\ status[b] = "lost"
           /\ k \in DOMAIN entries[b] /\ entries[b][k] = "BET_WIN_DEDUCT_STAKE" <=> k = 2 /\ status[b] = "won"
           /\ k \in DOMAIN entries[b] /\ entries[b][k] = "BET_WIN_PAYOUT_CREDIT" <=> k = 3 /\ status[b] = "won"
<1>1. entries[b] = History(status[b]) /\ status[b] \in Statuses
  BY DEF ReportInv, IInv, EntriesFollowStatus, TypeOK
<1> USE DEF History, TypesOf
<1>2. CASE status[b] = "none"  BY <1>1, <1>2
<1>3. CASE status[b] = "pending"  BY <1>1, <1>3
<1>4. CASE status[b] = "won"
  <2>1. entries[b] = <<"BET_LOCK">> \o <<"BET_WIN_DEDUCT_STAKE", "BET_WIN_PAYOUT_CREDIT">>  BY <1>1, <1>4
  <2>2. /\ DOMAIN entries[b] = 1 .. 3 /\ entries[b][1] = "BET_LOCK"
        /\ entries[b][2] = "BET_WIN_DEDUCT_STAKE" /\ entries[b][3] = "BET_WIN_PAYOUT_CREDIT"
    BY <2>1, OneAndMore
  <2> QED  BY <1>4, <2>2
<1>5. CASE status[b] = "lost"
  <2>1. entries[b] = <<"BET_LOCK">> \o <<"BET_LOSS_DEDUCT">>  BY <1>1, <1>5
  <2>2. DOMAIN entries[b] = 1 .. 2 /\ entries[b][1] = "BET_LOCK" /\ entries[b][2] = "BET_LOSS_DEDUCT"
    BY <2>1, OneAndMore
  <2> QED  BY <1>5, <2>2
<1>6. CASE status[b] = "void"
  <2>1. entries[b] = <<"BET_LOCK">> \o <<"BET_VOID_UNLOCK">>  BY <1>1, <1>6
  <2>2. DOMAIN entries[b] = 1 .. 2 /\ entries[b][1] = "BET_LOCK" /\ entries[b][2] = "BET_VOID_UNLOCK"
    BY <2>1, OneAndMore
  <2> QED  BY <1>6, <2>2
<1>7. CASE status[b] = "cancelled"
  <2>1. entries[b] = <<"BET_LOCK">> \o <<"BET_CANCEL_UNLOCK">>  BY <1>1, <1>7
  <2>2. DOMAIN entries[b] = 1 .. 2 /\ entries[b][1] = "BET_LOCK" /\ entries[b][2] = "BET_CANCEL_UNLOCK"
    BY <2>1, OneAndMore
  <2> QED  BY <1>7, <2>2
<1> QED  BY <1>1, <1>2, <1>3, <1>4, <1>5, <1>6, <1>7 DEF Statuses, Outcomes

\* The entries of a type are those of the bets that have one.
LEMMA FoundOf ==
    ASSUME ReportInv, NEW from, NEW to
    PROVE  /\ Found("BET_LOSS_DEDUCT", from, to) = {<<b, 2>> : b \in SettledIn(Lost, from, to)}
           /\ Found("BET_WIN_DEDUCT_STAKE", from, to) = {<<b, 2>> : b \in SettledIn(Won, from, to)}
           /\ Found("BET_WIN_PAYOUT_CREDIT", from, to) = {<<b, 3>> : b \in SettledIn(Won, from, to)}
<1>1. \A b \in Won : days[b][2] = days[b][3]  BY DEF Won, ReportInv, EntriesDated
<1>2. \A e \in B \X (1 .. 3) : e = <<e[1], e[2]>> /\ e[1] \in B /\ e[2] \in 1 .. 3  OBVIOUS
<1>3. Found("BET_LOSS_DEDUCT", from, to) = {<<b, 2>> : b \in SettledIn(Lost, from, to)}
  BY <1>2, EntriesOf DEF Found, SettledIn, Lost
<1>4. Found("BET_WIN_DEDUCT_STAKE", from, to) = {<<b, 2>> : b \in SettledIn(Won, from, to)}
  BY <1>2, EntriesOf DEF Found, SettledIn, Won
<1>5. Found("BET_WIN_PAYOUT_CREDIT", from, to) = {<<b, 3>> : b \in SettledIn(Won, from, to)}
  BY <1>1, <1>2, EntriesOf DEF Found, SettledIn, Won
<1> QED  BY <1>3, <1>4, <1>5

\* The revenue of some days, by the bets that were settled then: a winner is paid
\* no less than the stake, so the profit is never cut to zero.
LEMMA RevenueOf ==
    ASSUME ReportInv, NEW from, NEW to
    PROVE  Compute(from, to).ggr =
              Sum(Stake, SettledIn(Lost, from, to)) -
                 (Sum(Payout, SettledIn(Won, from, to)) - Sum(Stake, SettledIn(Won, from, to)))
<1>1. PICK L, W : L = SettledIn(Lost, from, to) /\ W = SettledIn(Won, from, to)  OBVIOUS
<1>2. L \in SUBSET B /\ W \in SUBSET B  BY <1>1 DEF SettledIn, Lost, Won
<1>3. IsFiniteSet(L) /\ IsFiniteSet(W)  BY <1>2, BetsAssumption, FS_Subset
<1>4. \A b \in B : Stake[b] \in Int /\ Payout[b] \in Int /\ Stake[b] <= Payout[b]
  BY StakesNat, ReportsAssumption
<1>5. Total("BET_LOSS_DEDUCT", from, to) = Sum(Stake, L)
  <2>1. \A b \in L : Stake[b] \in Int  BY <1>2, <1>4
  <2>2. PICK k : k = 2  OBVIOUS
  <2>3. PICK P : P = Found("BET_LOSS_DEDUCT", from, to)  OBVIOUS
  <2>4. PICK v : v = [e \in P |-> AmountOf(e[1], "BET_LOSS_DEDUCT")]  OBVIOUS
  <2>5. \A e : e \in P <=> \E b \in L : e = <<b, k>>  BY <1>1, <2>2, <2>3, FoundOf
  <2>6. PICK of : of = [e \in P |-> e[1]]  OBVIOUS
  <2>7. \A e \in P : of[e] \in L /\ v[e] = Stake[of[e]] /\ e = <<of[e], k>>
    BY <2>4, <2>5, <2>6 DEF AmountOf
  <2>8. \A b \in L : \E e \in P : of[e] = b
    <3>1. \A b \in L : <<b, k>> \in P /\ <<b, k>>[1] = b  BY <2>5
    <3> QED  BY <2>6, <3>1
  <2>9. \A e, d \in P : of[e] = of[d] => e = d  BY <2>7
  <2>10. IsFiniteSet(P) /\ IsFiniteSet(L)  BY <1>3, <2>3, FiniteFound
  <2>11. \A e \in P : of[e] \in L /\ v[e] = Stake[of[e]]  BY <2>7
  <2>12. SumFunctionOnSet(v, P) = SumFunctionOnSet(Stake, L)
    BY <2>1, <2>8, <2>9, <2>10, <2>11, SumOneForOne
  <2> QED  BY <2>3, <2>4, <2>12 DEF Total, Sum
<1>6. Total("BET_WIN_DEDUCT_STAKE", from, to) = Sum(Stake, W)
  <2>1. \A b \in W : Stake[b] \in Int  BY <1>2, <1>4
  <2>2. PICK k : k = 2  OBVIOUS
  <2>3. PICK P : P = Found("BET_WIN_DEDUCT_STAKE", from, to)  OBVIOUS
  <2>4. PICK v : v = [e \in P |-> AmountOf(e[1], "BET_WIN_DEDUCT_STAKE")]  OBVIOUS
  <2>5. \A e : e \in P <=> \E b \in W : e = <<b, k>>  BY <1>1, <2>2, <2>3, FoundOf
  <2>6. PICK of : of = [e \in P |-> e[1]]  OBVIOUS
  <2>7. \A e \in P : of[e] \in W /\ v[e] = Stake[of[e]] /\ e = <<of[e], k>>
    BY <2>4, <2>5, <2>6 DEF AmountOf
  <2>8. \A b \in W : \E e \in P : of[e] = b
    <3>1. \A b \in W : <<b, k>> \in P /\ <<b, k>>[1] = b  BY <2>5
    <3> QED  BY <2>6, <3>1
  <2>9. \A e, d \in P : of[e] = of[d] => e = d  BY <2>7
  <2>10. IsFiniteSet(P) /\ IsFiniteSet(W)  BY <1>3, <2>3, FiniteFound
  <2>11. \A e \in P : of[e] \in W /\ v[e] = Stake[of[e]]  BY <2>7
  <2>12. SumFunctionOnSet(v, P) = SumFunctionOnSet(Stake, W)
    BY <2>1, <2>8, <2>9, <2>10, <2>11, SumOneForOne
  <2> QED  BY <2>3, <2>4, <2>12 DEF Total, Sum
<1>7. Total("BET_WIN_PAYOUT_CREDIT", from, to) = Sum(Payout, W)
  <2>1. \A b \in W : Payout[b] \in Int  BY <1>2, <1>4
  <2>2. PICK k : k = 3  OBVIOUS
  <2>3. PICK P : P = Found("BET_WIN_PAYOUT_CREDIT", from, to)  OBVIOUS
  <2>4. PICK v : v = [e \in P |-> AmountOf(e[1], "BET_WIN_PAYOUT_CREDIT")]  OBVIOUS
  <2>5. \A e : e \in P <=> \E b \in W : e = <<b, k>>  BY <1>1, <2>2, <2>3, FoundOf
  <2>6. PICK of : of = [e \in P |-> e[1]]  OBVIOUS
  <2>7. \A e \in P : of[e] \in W /\ v[e] = Payout[of[e]] /\ e = <<of[e], k>>
    BY <2>4, <2>5, <2>6 DEF AmountOf
  <2>8. \A b \in W : \E e \in P : of[e] = b
    <3>1. \A b \in W : <<b, k>> \in P /\ <<b, k>>[1] = b  BY <2>5
    <3> QED  BY <2>6, <3>1
  <2>9. \A e, d \in P : of[e] = of[d] => e = d  BY <2>7
  <2>10. IsFiniteSet(P) /\ IsFiniteSet(W)  BY <1>3, <2>3, FiniteFound
  <2>11. \A e \in P : of[e] \in W /\ v[e] = Payout[of[e]]  BY <2>7
  <2>12. SumFunctionOnSet(v, P) = SumFunctionOnSet(Payout, W)
    BY <2>1, <2>8, <2>9, <2>10, <2>11, SumOneForOne
  <2> QED  BY <2>3, <2>4, <2>12 DEF Total, Sum
<1>8. PICK l \in Nat, s \in Nat, p \in Nat : l = Sum(Stake, L) /\ s = Sum(Stake, W) /\ p = Sum(Payout, W)
  BY <1>2, StakesNat
<1>9. s <= p
  <2>1. SumFunctionOnSet(Stake, W) <= SumFunctionOnSet(Payout, W)
    BY <1>2, <1>3, <1>4, SumMonotone
  <2> QED  BY <1>8, <2>1 DEF Sum
<1>10. Profit(from, to) = p - s  BY <1>6, <1>7, <1>8, <1>9 DEF Profit
<1>11. Compute(from, to).ggr = l - (p - s)  BY <1>5, <1>8, <1>10 DEF Compute
<1> QED  BY <1>1, <1>8, <1>11

\* Every settled bet was settled on one of the days.
LEMMA SettledOnADay ==
    ASSUME ReportInv
    PROVE  /\ \A b \in Won \cup Lost : days[b][2] \in Days
           /\ SettledIn(Won, 1, LastDay) = Won /\ SettledIn(Lost, 1, LastDay) = Lost
<1>1. ASSUME NEW b \in Won \cup Lost PROVE days[b][2] \in Days
  <2>1. b \in B /\ status[b] \in {"won", "lost"}  BY DEF Won, Lost
  <2>2. 2 \in DOMAIN entries[b]
    <3>1. status[b] = "won" => 2 \in DOMAIN entries[b]  BY <2>1, EntriesOf
    <3>2. status[b] = "lost" => 2 \in DOMAIN entries[b]  BY <2>1, EntriesOf
    <3> QED  BY <2>1, <3>1, <3>2
  <2>3. entries[b] \in Seq(Types) /\ days[b] \in Seq(Days) /\ Len(days[b]) = Len(entries[b])
    BY <2>1 DEF ReportInv, IInv, TypeOK, ReportTypeOK, EntriesDated
  <2> QED  BY <2>2, <2>3
<1> QED  BY <1>1 DEF SettledIn, Days

\* What the house has won is what the user has lost, in the summary of all days.
LEMMA SummaryIsLoss ==
    ASSUME ReportInv, FundsAddUp, raced = 0
    PROVE  /\ Compute(1, LastDay).ggr = Sum(Stake, Lost) - (Sum(Payout, Won) - Sum(Stake, Won))
           /\ Compute(1, LastDay).ggr = Funds - (wallet.balance + wallet.reserved)
<1>1. Compute(1, LastDay).ggr = Sum(Stake, Lost) - (Sum(Payout, Won) - Sum(Stake, Won))
  BY RevenueOf, SettledOnADay
<1>2. Lost \in SUBSET B /\ Won \in SUBSET B  BY DEF Lost, Won
<1>3. PICK l \in Nat, s \in Nat, p \in Nat :
          l = Sum(Stake, Lost) /\ s = Sum(Stake, Won) /\ p = Sum(Payout, Won)
  BY <1>2, StakesNat
<1>4. PICK a \in Nat, r \in Nat : a = wallet.balance /\ r = wallet.reserved
  BY DEF ReportInv, IInv, TypeOK, Row
<1>5. a + r + s + l = Funds + p /\ Funds \in Nat  BY <1>3, <1>4, BetsAssumption DEF FundsAddUp
<1>6. Funds - (a + r) = l - (p - s)  BY <1>5
<1> QED  BY <1>1, <1>3, <1>4, <1>6

\* ... and in the list of the days: each bet is in one of them.
LEMMA DaysAddUp ==
    ASSUME ReportInv, NEW g, \A d \in Days : g[d] = Compute(d, d).ggr
    PROVE  SumFunctionOnSet(g, Days) = Sum(Stake, Lost) - (Sum(Payout, Won) - Sum(Stake, Won))
<1>1. PICK key : key = [b \in B |-> days[b][2]]  OBVIOUS
<1>2. Lost \in SUBSET B /\ Won \in SUBSET B /\ IsFiniteSet(Lost) /\ IsFiniteSet(Won)
  BY BetsAssumption, FS_Subset DEF Lost, Won
<1>3. \A b \in B : Stake[b] \in Int /\ Payout[b] \in Int  BY StakesNat
<1>4. IsFiniteSet(Days) /\ Days \subseteq Nat
  <2>1. 1 \in Int /\ LastDay \in Int  BY ReportsAssumption
  <2> QED  BY <2>1, FS_Interval DEF Days
<1>5. (\A b \in Lost : key[b] \in Days) /\ (\A b \in Won : key[b] \in Days)
  BY <1>1, <1>2, SettledOnADay
<1>6. PICK losers, winners :
          /\ losers = [d \in Days |-> SettledIn(Lost, d, d)]
          /\ winners = [d \in Days |-> SettledIn(Won, d, d)]
  OBVIOUS
<1>7. ASSUME NEW d \in Days
      PROVE  /\ losers[d] \in SUBSET Lost /\ \A b \in Lost : b \in losers[d] <=> key[b] = d
             /\ winners[d] \in SUBSET Won /\ \A b \in Won : b \in winners[d] <=> key[b] = d
  <2>1. ASSUME NEW b \in Won \cup Lost PROVE key[b] = d <=> days[b][2] \in d .. d
    <3>1. days[b][2] \in Days /\ key[b] = days[b][2]  BY <1>1, <1>2, SettledOnADay
    <3>2. d \in Int /\ \A n \in Days : n \in d .. d <=> n = d  BY DEF Days
    <3> QED  BY <3>1, <3>2
  <2>2. losers[d] = SettledIn(Lost, d, d) /\ winners[d] = SettledIn(Won, d, d)  BY <1>6
  <2> QED  BY <2>1, <2>2 DEF SettledIn
<1>8. PICK lost, won, paid :
          /\ lost = [d \in Days |-> Sum(Stake, SettledIn(Lost, d, d))]
          /\ won = [d \in Days |-> Sum(Stake, SettledIn(Won, d, d))]
          /\ paid = [d \in Days |-> Sum(Payout, SettledIn(Won, d, d))]
  OBVIOUS
<1>9. SumFunctionOnSet(lost, Days) = Sum(Stake, Lost)
  <2>1. \A b \in Lost : Stake[b] \in Int  BY <1>2, <1>3
  <2>2. SumsOfParts(lost, Stake, losers, Days)  BY <1>6, <1>8 DEF Sum, SumsOfParts
  <2>3. SplitByKey(losers, Lost, key, Days)  BY <1>5, <1>7 DEF SplitByKey
  <2>4. IsFiniteSet(Lost) /\ IsFiniteSet(Days)  BY <1>2, <1>4
  <2>5. SumFunctionOnSet(lost, Days) = SumFunctionOnSet(Stake, Lost)
    BY <2>1, <2>2, <2>3, <2>4, SumByKey
  <2> QED  BY <2>5 DEF Sum
<1>10. SumFunctionOnSet(won, Days) = Sum(Stake, Won)
  <2>1. \A b \in Won : Stake[b] \in Int  BY <1>2, <1>3
  <2>2. SumsOfParts(won, Stake, winners, Days)  BY <1>6, <1>8 DEF Sum, SumsOfParts
  <2>3. SplitByKey(winners, Won, key, Days)  BY <1>5, <1>7 DEF SplitByKey
  <2>4. IsFiniteSet(Won) /\ IsFiniteSet(Days)  BY <1>2, <1>4
  <2>5. SumFunctionOnSet(won, Days) = SumFunctionOnSet(Stake, Won)
    BY <2>1, <2>2, <2>3, <2>4, SumByKey
  <2> QED  BY <2>5 DEF Sum
<1>11. SumFunctionOnSet(paid, Days) = Sum(Payout, Won)
  <2>1. \A b \in Won : Payout[b] \in Int  BY <1>2, <1>3
  <2>2. SumsOfParts(paid, Payout, winners, Days)  BY <1>6, <1>8 DEF Sum, SumsOfParts
  <2>3. SplitByKey(winners, Won, key, Days)  BY <1>5, <1>7 DEF SplitByKey
  <2>4. IsFiniteSet(Won) /\ IsFiniteSet(Days)  BY <1>2, <1>4
  <2>5. SumFunctionOnSet(paid, Days) = SumFunctionOnSet(Payout, Won)
    BY <2>1, <2>2, <2>3, <2>4, SumByKey
  <2> QED  BY <2>5 DEF Sum
<1>12. \A d \in Days : lost[d] \in Int /\ won[d] \in Int /\ paid[d] \in Int
  <2>1. \A d \in Days : SettledIn(Lost, d, d) \in SUBSET B /\ SettledIn(Won, d, d) \in SUBSET B
    BY <1>2 DEF SettledIn
  <2> QED  BY <1>8, <2>1, StakesNat
<1>13. PICK profit : profit = [d \in Days |-> paid[d] - won[d]]  OBVIOUS
<1>14. \A d \in Days : profit[d] = paid[d] - won[d] /\ profit[d] \in Int  BY <1>12, <1>13
<1>15. SumFunctionOnSet(profit, Days) = SumFunctionOnSet(paid, Days) - SumFunctionOnSet(won, Days)
  BY <1>4, <1>12, <1>14, SumMinus
<1>16. \A d \in Days : g[d] = lost[d] - profit[d]  BY <1>8, <1>14, RevenueOf
<1>17. SumFunctionOnSet(g, Days) = SumFunctionOnSet(lost, Days) - SumFunctionOnSet(profit, Days)
  BY <1>4, <1>12, <1>14, <1>16, SumMinus
<1> QED  BY <1>9, <1>10, <1>11, <1>15, <1>17

\* Unless updates of the wallet were lost or a report was stored too early, what
\* the house has won is what the user has lost, by the days of the list as by the
\* summary: cutting each day's profit at zero takes nothing away.
THEOREM RevenueIsTheirLoss == ReportSpec => []UnracedRevenueIsTheirLoss
<1>1. ReportInit => FundsAddUp  BY InitFunds DEF ReportInit
<1>2. ReportInv /\ FundsAddUp /\ [ReportNext]_allVars => FundsAddUp'
  BY NextFunds, BetsStep DEF ReportInv
<1>3. ReportInv /\ FundsAddUp => UnracedRevenueIsTheirLoss
  <2> SUFFICES ASSUME ReportInv, FundsAddUp, raced = 0,
                      \A d \in Days : stored[d] = None \/ stored[d].clean
               PROVE  /\ Compute(1, LastDay).ggr = Funds - (wallet.balance + wallet.reserved)
                      /\ Sum([d \in Days |-> Listed(d).ggr], Days)
                           = Funds - (wallet.balance + wallet.reserved)
    BY DEF UnracedRevenueIsTheirLoss
  <2>1. PICK g : g = [d \in Days |-> Listed(d).ggr]  OBVIOUS
  <2>2. \A d \in Days : Listed(d) = Compute(d, d)
    BY DEF Listed, ReportInv, ReportsExact
  <2>3. \A d \in Days : g[d] = Compute(d, d).ggr  BY <2>1, <2>2
  <2>4. SumFunctionOnSet(g, Days) = Compute(1, LastDay).ggr
    BY <2>3, DaysAddUp, SummaryIsLoss
  <2> QED  BY <2>1, <2>4, SummaryIsLoss DEF Sum
<1> QED  BY <1>1, <1>2, <1>3, ReportInvariance, PTL DEF ReportSpec

=============================================================================
