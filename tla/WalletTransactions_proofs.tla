---------------------- MODULE WalletTransactions_proofs ------------------------
(***************************************************************************)
(* What TLAPS proves of WalletTransactions, for every set of users, of     *)
(* sessions and of amounts: no committed row ever holds a negative column, *)
(* and a commit that was not raced is a transaction of WalletLedger.       *)
(***************************************************************************)
EXTENDS WalletTransactions, WalletService_proofs

-----------------------------------------------------------------------------
(* The inductive invariant.                                                *)

\* A session knows the committed row if nothing was committed since it read.
SnapshotsFresh ==
    \A s \in Sessions :
        ~In(s, "idle") =>
            /\ session[s].at <= Len(ledger[session[s].user])
            /\ session[s].at = Len(ledger[session[s].user])
                 => session[s].seen = row[session[s].user]

\* What was flushed was accepted on the row that was read.
FlushedAccepted ==
    \A s \in Sessions : In(s, "flushed") => PlanAccepted(session[s].seen, session[s].plan)

IInv == TypeOK /\ SnapshotsFresh /\ FlushedAccepted /\ UnracedMatchLedger

LEMMA InitIInv == Init => IInv
<1> SUFFICES ASSUME Init PROVE IInv  OBVIOUS
<1>1. TypeOK  BY DEF Init, TypeOK, Row, EmptyRow
<1>2. SnapshotsFresh /\ FlushedAccepted  BY DEF Init, SnapshotsFresh, FlushedAccepted, In, Idle
<1>3. UnracedMatchLedger
  BY DEF Init, UnracedMatchLedger, WL!Chained, WL!Replayed, EmptyRow, WL!EmptyRow
<1> QED  BY <1>1, <1>2, <1>3 DEF IInv

\* Ending a session, whatever else stays, keeps the invariant.
LEMMA AbortIInv ==
    ASSUME IInv, NEW s \in Sessions, Abort(s)
    PROVE  IInv'
<1> USE DEF IInv, Abort, End, In
<1>1. TypeOK'  BY DEF TypeOK, Released
<1>2. SnapshotsFresh'  BY DEF TypeOK, SnapshotsFresh, Idle
<1>3. FlushedAccepted'  BY DEF TypeOK, FlushedAccepted, Idle
<1>4. UnracedMatchLedger'  BY DEF UnracedMatchLedger, WL!Chained, WL!Replayed
<1> QED  BY <1>1, <1>2, <1>3, <1>4

LEMMA ReadIInv ==
    ASSUME IInv, NEW s \in Sessions, NEW u \in Users, NEW plan \in Plans, Read(s, u, plan)
    PROVE  IInv'
<1> USE DEF IInv, Read, In
<1>1. TypeOK'  BY DEF TypeOK, Active, Idle
<1>2. SnapshotsFresh'  BY DEF TypeOK, SnapshotsFresh, Active, Idle
<1>3. FlushedAccepted'  BY DEF TypeOK, FlushedAccepted, Active, Idle
<1>4. UnracedMatchLedger'  BY DEF UnracedMatchLedger, WL!Chained, WL!Replayed
<1> QED  BY <1>1, <1>2, <1>3, <1>4

LEMMA InsertRowIInv ==
    ASSUME IInv, NEW s \in Sessions, InsertRow(s)
    PROVE  IInv'
<1> USE DEF IInv, InsertRow, In
<1>0. session[s] \in Active  BY DEF TypeOK, Idle
<1>1. TypeOK'  BY <1>0 DEF TypeOK, Active
<1>2. SnapshotsFresh'  BY <1>0 DEF TypeOK, SnapshotsFresh, Active, Idle
<1>3. FlushedAccepted'  BY <1>0 DEF TypeOK, FlushedAccepted, Active, Idle
<1>4. UnracedMatchLedger'  BY DEF UnracedMatchLedger, WL!Chained, WL!Replayed
<1> QED  BY <1>1, <1>2, <1>3, <1>4

LEMMA FlushIInv ==
    ASSUME IInv, NEW s \in Sessions, Flush(s)
    PROVE  IInv'
<1> USE DEF IInv, Flush, In
<1>0. session[s] \in Active  BY DEF TypeOK, Idle
<1>1. TypeOK'  BY <1>0 DEF TypeOK, Active
<1>2. SnapshotsFresh'  BY <1>0 DEF TypeOK, SnapshotsFresh, Active, Idle
<1>3. FlushedAccepted'  BY <1>0 DEF TypeOK, FlushedAccepted, Active, Idle
<1>4. UnracedMatchLedger'  BY DEF UnracedMatchLedger, WL!Chained, WL!Replayed
<1> QED  BY <1>1, <1>2, <1>3, <1>4

\* An index into a sequence of n entries and one or two more.
LEMMA AtMostTwoMore ==
    \A n, m \in Nat : (m = 1 \/ m = 2) =>
        \A i \in 1..(n + m) : i <= n \/ i = n + 1 \/ i = n + 2
OBVIOUS

\* Appending the entries of an accepted plan to a ledger that ends with the
\* row it was accepted on keeps the ledger a history of the row.
LEMMA AppendChained ==
    ASSUME NEW entries \in Seq(Entry), NEW r \in Row, NEW plan \in Plans,
           PlanAccepted(r, plan), WL!Chained(entries), r = WL!Replayed(entries)
    PROVE  LET new == entries \o PlanEntries(r, plan) IN
           WL!Chained(new) /\ AfterPlan(r, plan) = WL!Replayed(new)
<1>1. PICK p \in Seq(Entry) : p = PlanEntries(r, plan)  BY PlanFacts
<1>2. /\ Len(p) \in {1, 2} /\ p[1].before = r /\ p[Len(p)].after = AfterPlan(r, plan)
      /\ Len(p) = 2 => p[2].before = p[1].after
  BY <1>1, PlanFacts
<1> DEFINE new == entries \o p
<1>3. /\ Len(new) = Len(entries) + Len(p) /\ Len(entries) \in Nat
      /\ \A i \in 1..Len(entries) : new[i] = entries[i]
      /\ \A i \in 1..Len(p) : new[Len(entries) + i] = p[i]
  OBVIOUS
<1>4. AfterPlan(r, plan) = WL!Replayed(new)
  <2>1. new # <<>> /\ new[Len(new)] = p[Len(p)]  BY <1>2, <1>3
  <2> QED  BY <1>2, <2>1 DEF WL!Replayed
<1>5. WL!Chained(new)
  <2> SUFFICES ASSUME NEW i \in 1..Len(new)
               PROVE  new[i].before = IF i = 1 THEN WL!EmptyRow ELSE new[i - 1].after
    BY DEF WL!Chained
  <2>1. CASE i <= Len(entries)
    <3>1. i \in 1..Len(entries) /\ (i # 1 => i - 1 \in 1..Len(entries))  BY <1>3, <2>1
    <3> QED  BY <1>3, <3>1 DEF WL!Chained
  <2>2. CASE i = Len(entries) + 1
    <3>1. new[i] = p[1]  BY <1>2, <1>3, <2>2
    <3>2. CASE entries = <<>>
      BY <1>2, <2>2, <3>1, <3>2 DEF WL!Replayed
    <3>3. CASE entries # <<>>
      <4>1. i # 1 /\ i - 1 = Len(entries) /\ Len(entries) \in 1..Len(entries)
        BY <1>3, <2>2, <3>3
      <4>2. new[i - 1] = entries[Len(entries)]  BY <1>3, <4>1
      <4> QED  BY <1>2, <3>1, <3>3, <4>1, <4>2 DEF WL!Replayed
    <3> QED  BY <3>2, <3>3
  <2>3. CASE i = Len(entries) + 2
    <3>1. Len(p) = 2 /\ i # 1 /\ i - 1 = Len(entries) + 1  BY <1>2, <1>3, <2>3
    <3>2. new[i] = p[2] /\ new[i - 1] = p[1]  BY <1>3, <2>3, <3>1
    <3> QED  BY <1>2, <3>1, <3>2
  <2>4. i <= Len(entries) \/ i = Len(entries) + 1 \/ i = Len(entries) + 2
    <3>1. i \in 1..(Len(entries) + Len(p))  BY <1>3
    <3>2. Len(entries) \in Nat /\ (Len(p) = 1 \/ Len(p) = 2)  BY <1>2, <1>3
    <3> QED  BY <3>1, <3>2, AtMostTwoMore
  <2> HIDE DEF new
  <2> QED  BY <2>1, <2>2, <2>3, <2>4
<1> HIDE DEF new
<1> QED  BY <1>1, <1>4, <1>5 DEF new

LEMMA CommitIInv ==
    ASSUME IInv, NEW s \in Sessions, Commit(s)
    PROVE  IInv'
<1> DEFINE u == session[s].user
           plan == session[s].plan
           seen == session[s].seen
<1>0. session[s] \in Active /\ In(s, "flushed")
  BY DEF IInv, TypeOK, Idle, Commit, In
<1>1. u \in Users /\ plan \in Plans /\ seen \in Row /\ PlanAccepted(seen, plan)
  BY <1>0 DEF IInv, FlushedAccepted, Active
<1>2. PICK p \in Seq(Entry) : p = PlanEntries(seen, plan)  BY <1>1, PlanFacts
<1>3. Len(p) \in {1, 2}  BY <1>1, <1>2, PlanFacts
<1>4. /\ row \in [Users -> Row] /\ ledger \in [Users -> Seq(Entry)]
      /\ raced \in [Users -> Nat] /\ session \in [Sessions -> Active \cup {Idle}]
  BY DEF IInv, TypeOK
<1>5. /\ row' = [row EXCEPT ![u] = Written(row[u], seen, plan)]
      /\ ledger' = [ledger EXCEPT ![u] = ledger[u] \o p]
      /\ session' = [session EXCEPT ![s] = Idle]
      /\ raced' = IF session[s].at = Len(ledger[u]) THEN raced
                  ELSE [raced EXCEPT ![u] = raced[u] + 1]
  BY <1>2 DEF Commit, End
<1>6. Written(row[u], seen, plan) \in Row  BY <1>1, <1>4, WrittenRow
<1>7. ledger[u] \o p \in Seq(Entry) /\ Len(ledger[u] \o p) = Len(ledger[u]) + Len(p)
      /\ Len(ledger[u]) \in Nat
  BY <1>1, <1>4
<1>8. TypeOK'
  <2>1. row' \in [Users -> Row]  BY <1>4, <1>5, <1>6
  <2>2. ledger' \in [Users -> Seq(Entry)]  BY <1>4, <1>5, <1>7
  <2>3. raced' \in [Users -> Nat]  BY <1>1, <1>4, <1>5
  <2>4. session' \in [Sessions -> Active \cup {Idle}]  BY <1>4, <1>5
  <2>5. exists' \subseteq Users  BY <1>1 DEF IInv, TypeOK, Commit
  <2>6. lock' \in [Users -> Sessions \cup {None}]  BY DEF IInv, TypeOK, Commit, End, Released
  <2> QED  BY <2>1, <2>2, <2>3, <2>4, <2>5, <2>6 DEF TypeOK
<1>9. FlushedAccepted'
  BY <1>4, <1>5 DEF IInv, FlushedAccepted, In, Idle
<1>10. SnapshotsFresh'
  <2> SUFFICES ASSUME NEW t \in Sessions, ~In(t, "idle")'
               PROVE  /\ session'[t].at <= Len(ledger'[session'[t].user])
                      /\ session'[t].at = Len(ledger'[session'[t].user])
                           => session'[t].seen = row'[session'[t].user]
    BY DEF SnapshotsFresh
  <2>1. t # s /\ session'[t] = session[t] /\ session[t] \in Active /\ ~In(t, "idle")
    BY <1>4, <1>5 DEF In, Idle
  <2>2. session[t].at \in Nat /\ session[t].user \in Users  BY <2>1 DEF Active
  <2>3. CASE session[t].user = u
    <3>1. session[t].at <= Len(ledger[u])  BY <2>1, <2>3 DEF IInv, SnapshotsFresh
    <3>2. ledger'[u] = ledger[u] \o p  BY <1>1, <1>4, <1>5
    <3>3. Len(ledger'[u]) = Len(ledger[u]) + Len(p)  BY <1>7, <3>2
    <3>4. Len(ledger[u]) \in Nat /\ Len(p) \in {1, 2}  BY <1>3, <1>7
    <3>5. PICK n \in Nat : n = Len(ledger[u])  BY <3>4
    <3>6. Len(ledger'[u]) = n + 1 \/ Len(ledger'[u]) = n + 2  BY <3>3, <3>4, <3>5
    <3>7. PICK a \in Nat : a = session[t].at  BY <2>2
    <3>8. a <= n /\ a # Len(ledger'[u]) /\ a <= Len(ledger'[u])  BY <3>1, <3>5, <3>6, <3>7
    <3> QED  BY <2>1, <2>3, <3>7, <3>8
  <2>4. CASE session[t].user # u
    <3>1. ledger'[session[t].user] = ledger[session[t].user]
          /\ row'[session[t].user] = row[session[t].user]
      BY <1>4, <1>5, <2>2, <2>4
    <3> QED  BY <2>1, <3>1 DEF IInv, SnapshotsFresh
  <2> QED  BY <2>3, <2>4
<1>11. UnracedMatchLedger'
  <2> SUFFICES ASSUME NEW v \in Users, raced'[v] = 0
               PROVE  WL!Chained(ledger'[v]) /\ row'[v] = WL!Replayed(ledger'[v])
    BY DEF UnracedMatchLedger, WL!Chained, WL!Replayed
  <2>1. raced[v] = 0  BY <1>1, <1>4, <1>5
  <2>2. WL!Chained(ledger[v]) /\ row[v] = WL!Replayed(ledger[v])
    BY <2>1 DEF IInv, UnracedMatchLedger
  <2>3. CASE v = u
    <3>1. session[s].at = Len(ledger[u])  BY <1>1, <1>4, <1>5, <2>3
    <3>2. seen = row[u]  BY <1>0, <3>1 DEF IInv, SnapshotsFresh, In
    <3>3. row'[u] = AfterPlan(row[u], plan)  BY <1>1, <1>4, <1>5, <3>2, WrittenFresh
    <3>4. ledger'[u] = ledger[u] \o PlanEntries(row[u], plan)
      BY <1>1, <1>2, <1>4, <1>5, <3>2
    <3> QED  BY <1>1, <1>4, <2>2, <2>3, <3>2, <3>3, <3>4, AppendChained
  <2>4. CASE v # u
    BY <1>4, <1>5, <2>2, <2>4
  <2> QED  BY <2>3, <2>4
<1> QED  BY <1>8, <1>9, <1>10, <1>11 DEF IInv

\* Every step keeps the invariant.
LEMMA NextIInv == IInv /\ [Next]_vars => IInv'
<1> SUFFICES ASSUME IInv, [Next]_vars PROVE IInv'  OBVIOUS
<1>1. CASE UNCHANGED vars
  BY <1>1 DEF IInv, vars, TypeOK, SnapshotsFresh, FlushedAccepted, UnracedMatchLedger, In,
              WL!Chained, WL!Replayed
<1>2. CASE Next
  <2>1. PICK s \in Sessions :
          \/ Begin(s) \/ InsertRow(s) \/ InsertConflict(s) \/ Refuse(s)
          \/ Flush(s) \/ Commit(s) \/ Rollback(s)
    BY <1>2 DEF Next
  <2>2. CASE Begin(s)  BY <2>2, ReadIInv DEF Begin
  <2>3. CASE InsertRow(s)  BY <2>3, InsertRowIInv
  <2>4. CASE InsertConflict(s) \/ Refuse(s) \/ Rollback(s)
    BY <2>4, AbortIInv DEF InsertConflict, Refuse, Rollback
  <2>5. CASE Flush(s)  BY <2>5, FlushIInv
  <2>6. CASE Commit(s)  BY <2>6, CommitIInv
  <2> QED  BY <2>1, <2>2, <2>3, <2>4, <2>5, <2>6
<1> QED  BY <1>1, <1>2

\* The inductive invariant: what a session has read is the stored row unless it is
\* raced, and what it flushed was accepted on it.
THEOREM Invariance == Spec => []IInv
<1>1. Init => IInv  BY InitIInv
<1>2. IInv /\ [Next]_vars => IInv'  BY NextIInv
<1> QED  BY <1>1, <1>2, PTL DEF Spec

-----------------------------------------------------------------------------
(* The results.                                                            *)

\* No interleaving of sessions makes a stored balance or reservation negative
\* (tests/test_money_safety_invariants.py): every UPDATE writes values that
\* passed the checks, stale as they may be.
THEOREM TypeCorrect == Spec => []TypeOK
<1>1. IInv => TypeOK  BY DEF IInv
<1> QED  BY <1>1, Invariance, PTL

\* The ledger of a user none of whose commits was raced is a gapless history
\* that ends with the stored row.
THEOREM UnracedAudit == Spec => []UnracedMatchLedger
<1>1. IInv => UnracedMatchLedger  BY DEF IInv
<1> QED  BY <1>1, Invariance, PTL

\* The operators of WalletService are the same seen through WalletLedger.
LEMMA SameCalls ==
    ASSUME NEW r, NEW c
    PROVE  /\ WL!Accepts(r, c) = Accepts(r, c)
           /\ WL!Apply(r, c) = Apply(r, c)
           /\ WL!EntryOf(r, c) = EntryOf(r, c)
<1>1. WL!Accepts(r, c) = Accepts(r, c)
  BY DEF WL!Accepts, Accepts, WL!Sufficient, Sufficient
<1>2. WL!Apply(r, c) = Apply(r, c)
  BY DEF WL!Apply, Apply, WL!CreditBalance, CreditBalance, WL!DebitBalance, DebitBalance,
         WL!LockBalance, LockBalance, WL!UnlockBalance, UnlockBalance,
         WL!DeductReservedBalance, DeductReservedBalance
<1>3. WL!EntryType(c.op) = EntryType(c.op)  BY DEF WL!EntryType, EntryType
<1> QED  BY <1>1, <1>2, <1>3 DEF WL!EntryOf, EntryOf

LEMMA SamePlans ==
    ASSUME NEW r, NEW plan
    PROVE  /\ WL!PlanAccepted(r, plan) = PlanAccepted(r, plan)
           /\ WL!AfterPlan(r, plan) = AfterPlan(r, plan)
           /\ WL!PlanEntries(r, plan) = PlanEntries(r, plan)
           /\ WL!Plans = Plans
<1>1. WL!PlanAccepted(r, plan) = PlanAccepted(r, plan)
  BY SameCalls DEF WL!PlanAccepted, PlanAccepted
<1>2. WL!AfterPlan(r, plan) = AfterPlan(r, plan)
  BY SameCalls DEF WL!AfterPlan, AfterPlan
<1>3. WL!PlanEntries(r, plan) = PlanEntries(r, plan)
  BY SameCalls DEF WL!PlanEntries, PlanEntries
<1>4. WL!Plans = Plans  BY DEF WL!Plans, Plans, WL!Call, Call, WL!Ops, Ops
<1> QED  BY <1>1, <1>2, <1>3, <1>4

\* What a step does to a row and a ledger without a race is a transaction of
\* WalletLedger: a race is the only way the wallet can break its promise.
LEMMA SerialStep ==
    ASSUME IInv, [Next]_vars, raced' = raced
    PROVE  WL!Next \/ UNCHANGED <<row, ledger>>
<1>1. CASE UNCHANGED vars  BY <1>1 DEF vars
<1>2. CASE Next
  <2>1. PICK s \in Sessions :
          \/ Begin(s) \/ InsertRow(s) \/ InsertConflict(s) \/ Refuse(s)
          \/ Flush(s) \/ Commit(s) \/ Rollback(s)
    BY <1>2 DEF Next
  <2>2. CASE ~Commit(s)
    BY <2>1, <2>2 DEF Begin, Read, InsertRow, InsertConflict, Refuse, Flush, Rollback, Abort
  <2>3. CASE Commit(s)
    <3> DEFINE u == session[s].user
               plan == session[s].plan
    <3>1. session[s] \in Active /\ In(s, "flushed")
      BY <2>3 DEF IInv, TypeOK, Idle, Commit, In
    <3>2. u \in Users /\ plan \in Plans  BY <3>1 DEF Active
    <3>3. session[s].at = Len(ledger[u])
      BY <2>3, <3>2 DEF IInv, TypeOK, Commit
    <3>4. session[s].seen = row[u]  BY <3>1, <3>3 DEF IInv, SnapshotsFresh, In
    <3>5. PlanAccepted(row[u], plan)  BY <3>1, <3>4 DEF IInv, FlushedAccepted
    <3>6. row[u] \in Row  BY <3>2 DEF IInv, TypeOK
    <3>7. row' = [row EXCEPT ![u] = AfterPlan(row[u], plan)]
      BY <2>3, <3>2, <3>4, <3>5, <3>6, WrittenFresh DEF Commit
    <3>8. ledger' = [ledger EXCEPT ![u] = ledger[u] \o PlanEntries(row[u], plan)]
      BY <2>3, <3>4 DEF Commit
    <3>9. Len(ledger[u]) + Len(plan) <= MaxEntries  BY <2>3 DEF Commit
    <3>10. WL!Transact(u, plan)
      BY <3>5, <3>7, <3>8, <3>9, SamePlans DEF WL!Transact
    <3> QED  BY <3>2, <3>10, SamePlans DEF WL!Next
  <2> QED  BY <2>2, <2>3
<1> QED  BY <1>1, <1>2

\* Every commit of a session that overwrote no newer row is a transaction of the
\* abstract ledger; no other step of the wallet service touches row or ledger.
THEOREM RefinesWithoutRace == Spec => UnracedCommitsAreSerial
<1>1. IInv /\ [Next]_vars => [raced' = raced => WL!Next]_<<row, ledger>>
  BY SerialStep
<1> QED  BY <1>1, Invariance, PTL DEF Spec, UnracedCommitsAreSerial

-----------------------------------------------------------------------------
(* An update can be lost, never half applied: the stored column is what    *)
(* the last ledger entry that changed it says, races or not.               *)

ColumnNames == {"balance", "reserved"}

Changed(entries, c) == {i \in DOMAIN entries : entries[i].before[c] # entries[i].after[c]}

\* The last of the entries that changed column c left v in it.
LastSays(entries, c, v) ==
    \/ Changed(entries, c) = {} /\ v = 0
    \/ \E i \in Changed(entries, c) :
          (\A j \in Changed(entries, c) : j <= i) /\ v = entries[i].after[c]

ColumnsSaid == \A u \in Users, c \in ColumnNames : LastSays(ledger[u], c, row[u][c])

LastChange(S) == CHOOSE i \in S : \A j \in S : j <= i

\* There is one last entry, so the CHOOSE of ColumnsFollowLedger is it.
LEMMA LastIsChosen ==
    ASSUME NEW entries \in Seq(Entry), NEW c, NEW v, LastSays(entries, c, v)
    PROVE  v = IF Changed(entries, c) = {} THEN 0
               ELSE entries[LastChange(Changed(entries, c))].after[c]
<1> DEFINE S == Changed(entries, c)
<1>1. S \subseteq Nat  BY DEF Changed
<1>2. CASE S = {}  BY <1>2 DEF LastSays
<1>3. CASE S # {}
  <2>1. PICK i \in S : (\A j \in S : j <= i) /\ v = entries[i].after[c]
    BY <1>3 DEF LastSays
  <2> HIDE DEF S
  <2>2. \A k \in S : (\A j \in S : j <= k) => k = i  BY <1>1, <2>1
  <2>3. LastChange(S) = i  BY <2>1, <2>2 DEF LastChange
  <2> QED  BY <1>3, <2>1, <2>3 DEF S
<1> QED  BY <1>2, <1>3

\* One more entry: it is the last that changed the column, or it did not.
LEMMA AppendSays ==
    ASSUME NEW entries \in Seq(Entry), NEW e \in Entry, NEW c, NEW v,
           LastSays(entries, c, v)
    PROVE  LastSays(Append(entries, e), c,
                    IF e.before[c] # e.after[c] THEN e.after[c] ELSE v)
<1> DEFINE n == Len(entries)
           more == Append(entries, e)
<1>1. /\ n \in Nat /\ more \in Seq(Entry)
      /\ DOMAIN entries = 1..n /\ DOMAIN more = 1..(n + 1)
      /\ more[n + 1] = e /\ \A i \in 1..n : more[i] = entries[i]
  OBVIOUS
<1> HIDE DEF n, more
<1>2. 1..(n + 1) = (1..n) \cup {n + 1}  BY <1>1
<1>3. CASE e.before[c] # e.after[c]
  <2>1. n + 1 \in Changed(more, c)  BY <1>1, <1>2, <1>3 DEF Changed
  <2>2. \A j \in Changed(more, c) : j <= n + 1  BY <1>1 DEF Changed
  <2> QED  BY <1>1, <1>3, <2>1, <2>2 DEF LastSays, more
<1>4. CASE e.before[c] = e.after[c]
  <2>1. Changed(more, c) = Changed(entries, c)  BY <1>1, <1>2, <1>4 DEF Changed
  <2>2. \A i \in Changed(entries, c) : more[i] = entries[i]  BY <1>1 DEF Changed
  <2> QED  BY <1>4, <2>1, <2>2 DEF LastSays, more
<1> QED  BY <1>3, <1>4

\* An accepted call changes exactly the columns its UPDATE names, and its
\* entry records the change.
LEMMA EntryChanges ==
    ASSUME NEW r \in Row, NEW call \in Call, Accepts(r, call), NEW c \in ColumnNames
    PROVE  /\ EntryOf(r, call).before[c] # EntryOf(r, call).after[c] <=> c \in Columns(call.op)
           /\ EntryOf(r, call).after[c] = Apply(r, call)[c]
<1> USE AmountsAssumption DEF Row, Call, Ops, Accepts, Apply, Columns, ColumnNames
<1>1. EntryOf(r, call).before = r /\ EntryOf(r, call).after = Apply(r, call)
  BY EntryOfEntry
<1>2. call.amount \in Nat /\ call.amount > 0  OBVIOUS
<1>3. CASE call.op = "credit"  BY <1>1, <1>2, <1>3 DEF CreditBalance
<1>4. CASE call.op = "debit"  BY <1>1, <1>2, <1>4 DEF DebitBalance
<1>5. CASE call.op = "lock"  BY <1>1, <1>2, <1>5 DEF LockBalance
<1>6. CASE call.op = "unlock"  BY <1>1, <1>2, <1>6 DEF UnlockBalance
<1>7. CASE call.op = "deduct"  BY <1>1, <1>2, <1>7 DEF DeductReservedBalance
<1> QED  BY <1>3, <1>4, <1>5, <1>6, <1>7

\* The UPDATEs and the ledger entries of a plan agree on every column,
\* whatever the row holds when they arrive.
LEMMA WrittenSays ==
    ASSUME NEW entries \in Seq(Entry), NEW old \in Row, NEW seen \in Row,
           NEW plan \in Plans, PlanAccepted(seen, plan),
           NEW c \in ColumnNames, LastSays(entries, c, old[c])
    PROVE  LastSays(entries \o PlanEntries(seen, plan), c, Written(old, seen, plan)[c])
<1>0. Written(old, seen, plan)[c] =
        IF c \in PlanColumns(plan) THEN AfterPlan(seen, plan)[c] ELSE old[c]
  BY DEF Written, WriteColumns, ColumnNames
<1>1. CASE \E d \in Call : plan = <<d>>
  <2>1. PICK d \in Call : plan = <<d>>  BY <1>1
  <2>2. Accepts(seen, d)  BY <2>1 DEF PlanAccepted
  <2>3. PICK e \in Entry : e = EntryOf(seen, d)  BY <2>2, EntryOfEntry
  <2>4. PlanEntries(seen, plan) = <<e>> /\ AfterPlan(seen, plan) = Apply(seen, d)
    BY <2>1, <2>3 DEF PlanEntries, AfterPlan
  <2>5. PlanColumns(plan) = Columns(d.op)  BY <2>1 DEF PlanColumns
  <2>6. entries \o <<e>> = Append(entries, e)  OBVIOUS
  <2>7. /\ e.before[c] # e.after[c] <=> c \in Columns(d.op)
        /\ e.after[c] = Apply(seen, d)[c]
    BY <2>2, <2>3, EntryChanges
  <2>8. LastSays(Append(entries, e), c, IF e.before[c] # e.after[c] THEN e.after[c] ELSE old[c])
    BY AppendSays
  <2> QED  BY <1>0, <2>4, <2>5, <2>6, <2>7, <2>8
<1>2. CASE \E d, f \in Call : plan = <<d, f>>
  <2>1. PICK d \in Call, f \in Call : plan = <<d, f>>  BY <1>2
  <2>2. Accepts(seen, d) /\ Accepts(Apply(seen, d), f)  BY <2>1 DEF PlanAccepted
  <2>3. PICK m \in Row : m = Apply(seen, d)  BY <2>2, ApplyRow
  <2>4. PICK e \in Entry : e = EntryOf(seen, d)  BY <2>2, EntryOfEntry
  <2>5. PICK g \in Entry : g = EntryOf(m, f)  BY <2>2, <2>3, EntryOfEntry
  <2>6. PlanEntries(seen, plan) = <<e, g>> /\ AfterPlan(seen, plan) = Apply(m, f)
    BY <2>1, <2>3, <2>4, <2>5 DEF PlanEntries, AfterPlan
  <2>7. c \in PlanColumns(plan) <=> c \in Columns(d.op) \/ c \in Columns(f.op)
    <3>1. DOMAIN plan = {1, 2} /\ plan[1] = d /\ plan[2] = f  BY <2>1
    <3> QED  BY <3>1 DEF PlanColumns
  <2>8. entries \o <<e, g>> = Append(Append(entries, e), g)  OBVIOUS
  <2>9. /\ e.before[c] # e.after[c] <=> c \in Columns(d.op)
        /\ e.after[c] = m[c]
    BY <2>2, <2>3, <2>4, EntryChanges
  <2>10. /\ g.before[c] # g.after[c] <=> c \in Columns(f.op)
         /\ g.after[c] = Apply(m, f)[c] /\ g.before[c] = m[c]
    BY <2>2, <2>3, <2>5, EntryChanges, EntryOfEntry
  <2>11. PICK v : v = IF e.before[c] # e.after[c] THEN e.after[c] ELSE old[c]  OBVIOUS
  <2>12. LastSays(Append(entries, e), c, v)  BY <2>11, AppendSays
  <2>13. Append(entries, e) \in Seq(Entry)  OBVIOUS
  <2>14. LastSays(Append(Append(entries, e), g), c,
                  IF g.before[c] # g.after[c] THEN g.after[c] ELSE v)
    BY <2>12, <2>13, AppendSays
  <2>15. (IF g.before[c] # g.after[c] THEN g.after[c] ELSE v) =
           Written(old, seen, plan)[c]
    BY <1>0, <2>6, <2>7, <2>9, <2>10, <2>11
  <2> QED  BY <2>6, <2>8, <2>14, <2>15
<1> QED  BY <1>1, <1>2, PlanCases

LEMMA ColumnsStep == IInv /\ ColumnsSaid /\ [Next]_vars => ColumnsSaid'
<1> SUFFICES ASSUME IInv, ColumnsSaid, [Next]_vars, NEW v \in Users, NEW c \in ColumnNames
             PROVE  LastSays(ledger'[v], c, row'[v][c])
  BY DEF ColumnsSaid, LastSays, Changed
<1>1. LastSays(ledger[v], c, row[v][c])  BY DEF ColumnsSaid
<1>2. CASE UNCHANGED <<row, ledger>>  BY <1>1, <1>2
<1>3. CASE \E s \in Sessions : Commit(s)
  <2>1. PICK s \in Sessions : Commit(s)  BY <1>3
  <2> DEFINE u == session[s].user
             plan == session[s].plan
             seen == session[s].seen
  <2>2. session[s] \in Active /\ In(s, "flushed")
    BY <2>1 DEF IInv, TypeOK, Idle, Commit, In
  <2>3. u \in Users /\ plan \in Plans /\ seen \in Row /\ PlanAccepted(seen, plan)
    BY <2>2 DEF IInv, FlushedAccepted, Active
  <2>4. row \in [Users -> Row] /\ ledger \in [Users -> Seq(Entry)]  BY DEF IInv, TypeOK
  <2>5. /\ row' = [row EXCEPT ![u] = Written(row[u], seen, plan)]
        /\ ledger' = [ledger EXCEPT ![u] = ledger[u] \o PlanEntries(seen, plan)]
    BY <2>1 DEF Commit
  <2>6. CASE v = u
    <3>1. LastSays(ledger[u] \o PlanEntries(seen, plan), c, Written(row[u], seen, plan)[c])
      BY <1>1, <2>3, <2>4, <2>6, WrittenSays
    <3> QED  BY <2>3, <2>4, <2>5, <2>6, <3>1
  <2>7. CASE v # u  BY <1>1, <2>4, <2>5, <2>7
  <2> QED  BY <2>6, <2>7
<1> QED
  BY <1>2, <1>3 DEF vars, Next, Begin, Read, InsertRow, InsertConflict, Refuse, Flush, Rollback,
                    Abort

\* A stored column is what the last ledger entry that changed it says, in every
\* interleaving: an UPDATE can be lost to a race, but it is never half applied
\* nor applied without its entry.
THEOREM ColumnsAudit == Spec => []ColumnsFollowLedger
<1>1. Init => ColumnsSaid
  BY DEF Init, ColumnsSaid, LastSays, Changed, ColumnNames, EmptyRow
<1>2. IInv /\ ColumnsSaid /\ [Next]_vars => ColumnsSaid'  BY ColumnsStep
<1>3. IInv /\ ColumnsSaid => ColumnsFollowLedger
  <2> SUFFICES ASSUME IInv, ColumnsSaid, NEW u \in Users, NEW c \in {"balance", "reserved"}
               PROVE  row[u][c] = IF Changed(ledger[u], c) = {} THEN 0
                                  ELSE ledger[u][LastChange(Changed(ledger[u], c))].after[c]
    BY Zenon DEF ColumnsFollowLedger, Changed, LastChange
  <2> QED  BY LastIsChosen DEF IInv, TypeOK, ColumnsSaid, ColumnNames
<1> QED  BY <1>1, <1>2, <1>3, Invariance, PTL DEF Spec
=============================================================================
