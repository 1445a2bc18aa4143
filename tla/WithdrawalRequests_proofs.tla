---------------------- MODULE WithdrawalRequests_proofs ------------------------
(***************************************************************************)
(* What TLAPS proves of WithdrawalRequests, for any number of requests,    *)
(* sessions and days and any amounts and limits: a request id has at most  *)
(* one withdrawal, the user's funds and the daily counter follow what was  *)
(* stored, as far as no session has overwritten another, and what does not *)
(* overlap keeps the daily limit.  The totals are those of                 *)
(* WalletService_proofs.                                                   *)
(***************************************************************************)
EXTENDS WithdrawalRequests, WalletService_proofs

\* What session s has stored and not counted yet.
Owes == [s \in Sessions |-> IF work[s].at \in Uncounted THEN Wanted(s) ELSE 0]
Owed == SumFunction(Owes)

\* A session that is inserting holds the key of its request alone.
KeyHeld(s) ==
    work[s].at \in Stored =>
      /\ created[work[s].r] = 0
      /\ \A t \in Sessions : work[t].at \in Stored /\ work[t].r = work[s].r => t = s

\* What a session has read of the balance was the balance once.
FundsRead(s) ==
    At(s, "locking") => /\ work[s].available + work[s].locked = funded
                        /\ Wanted(s) <= work[s].available
                        /\ work[s].locked <= Requested

\* A session looks for the row of a day it has been in.
DayKnown(s) ==
    /\ work[s].at \in {"lookup", "funds", "insert"} \cup Stored => work[s].day = 0
    /\ work[s].at \in {"check", "count"} => work[s].day \in 0 .. today
    /\ work[s].at \in {"checkNew", "countNew", "write"} => work[s].day \in 1 .. today

\* The totals that a day's counter holds, or will hold but for the amount of the
\* session that has read it.
Seen(d) == {CountOf(d)} \cup {work[s].used : s \in {t \in Sessions : At(t, "write") /\ work[t].day = d}}

\* Whichever of them the counters end with, no withdrawal is in them twice.
NeverTwice ==
    \A f \in [DaysUsed -> Nat] :
      (\A d \in DaysUsed : f[d] \in Seen(d)) => SumFunction(f) + Owed <= Requested

AllCounted == "count" \notin lost => Counted + Owed = Requested

Alone == ~overlapped => \A s, t \in Sessions :
                          work[s].at \in Underway /\ work[t].at \in Underway => s = t

NotYet == \A d \in DaysUsed : d > today => createdOn[d] = 0

\* What session s knows of the limit while no other is underway.
LimitSeen(s) ==
    /\ work[s].at \in {"check", "checkNew"} /\ work[s].day \notin {0, today} => createdOn[today] = 0
    /\ work[s].at \in {"insert"} \cup Stored => createdOn[today] + Wanted(s) <= MaxDaily
    /\ work[s].at \in Uncounted =>
         createdOn[today] <= CountOf(today) + (IF work[s].day \in {0, today} THEN Wanted(s) ELSE 0)

WithinLimit ==
    ~overlapped /\ "count" \notin lost =>
      /\ \A d \in DaysUsed : createdOn[d] <= MaxDaily
      /\ (\A s \in Sessions : work[s].at \notin Uncounted) => createdOn[today] <= CountOf(today)
      /\ \A s \in Sessions : LimitSeen(s)

IInv ==
    /\ TypeOK
    /\ \A s \in Sessions : KeyHeld(s) /\ FundsRead(s) /\ DayKnown(s)
    /\ OneWithdrawalPerId
    /\ FundsFollowWithdrawals
    /\ NeverTwice
    /\ AllCounted
    /\ Alone
    /\ NotYet
    /\ WithinLimit

-----------------------------------------------------------------------------
(* The steps, in terms of the session that takes one and of what it has    *)
(* read afterwards.                                                        *)

fundsVars == <<available, locked, funded>>
dayVars == <<created, createdOn, today, lost>>

\* Nobody's step: the window, the clock, another request.
Stay ==
    /\ today' \in DaysUsed /\ today' \in {today, today + 1}
    /\ UNCHANGED <<work, fundsVars, created, createdOn, counter, overlapped, lost>>

Quit(s) ==
    /\ work[s] \in Active /\ work' = [work EXCEPT ![s] = Idle]
    /\ lost' = IF work[s].at \in Uncounted THEN lost \cup {"count"} ELSE lost
    /\ UNCHANGED <<fundsVars, created, createdOn, today, counter, overlapped>>

Start(s, w) ==
    /\ work[s] = Idle /\ w \in Active /\ work' = [work EXCEPT ![s] = w]
    /\ w.at = "lookup" /\ w.day = 0
    /\ UNCHANGED <<fundsVars, dayVars, counter, overlapped>>

\* Session s goes on with its request.
Go(s, w, from, to) ==
    /\ work[s] \in Active /\ work[s].at = from
    /\ w \in Active /\ w.at = to /\ w.r = work[s].r
    /\ work' = [work EXCEPT ![s] = w]

Same(s, w, from, to) ==
    /\ Go(s, w, from, to) /\ w.day = work[s].day
    /\ UNCHANGED <<fundsVars, dayVars, counter>>

ToFunds(s, w) == Same(s, w, "lookup", "funds") /\ UNCHANGED overlapped

ToCheck(s, w) ==
    /\ Same(s, w, "funds", "check")
    /\ overlapped' = (overlapped \/ \E t \in Sessions \ {s} : work[t].at \in Underway)

DayOf(s) == IF work[s].day = 0 THEN today ELSE work[s].day

Find(s, w, from, to) ==
    /\ Go(s, w, from, to)
    /\ UNCHANGED <<fundsVars, dayVars, counter, overlapped>>

Missing(s, w) ==
    /\ Find(s, w, "check", "checkNew") \/ Find(s, w, "count", "countNew")
    /\ w.day = DayOf(s)

Passed(s, w) ==
    /\ Find(s, w, "check", "insert") /\ w.day = 0
    /\ counter[DayOf(s)] # None /\ counter[DayOf(s)] + Wanted(s) <= MaxDaily

Loaded(s, w) ==
    /\ Find(s, w, "count", "write")
    /\ w.day = DayOf(s) /\ counter[DayOf(s)] # None /\ w.used = counter[DayOf(s)]

Opened(s, w) ==
    /\ Go(s, w, "checkNew", "check") \/ Go(s, w, "countNew", "count")
    /\ w.day = work[s].day /\ counter[w.day] = None
    /\ counter' = [counter EXCEPT ![w.day] = 0]
    /\ UNCHANGED <<fundsVars, dayVars, overlapped>>

Inserted(s, w) ==
    /\ Same(s, w, "insert", "inserted") /\ UNCHANGED overlapped
    /\ created[w.r] = 0
    /\ \A t \in Sessions : work[t].at \in Stored => work[t].r # w.r

Snapshot(s, w) ==
    /\ Same(s, w, "inserted", "locking") /\ UNCHANGED overlapped
    /\ w.available = available /\ w.locked = locked /\ Wanted(s) <= available

Stores(s, w) ==
    /\ Go(s, w, "locking", "count") /\ w.day = work[s].day
    /\ available' = work[s].available - Wanted(s)
    /\ locked' = work[s].locked + Wanted(s)
    /\ created' = [created EXCEPT ![w.r] = @ + 1]
    /\ createdOn' = [createdOn EXCEPT ![today] = @ + Wanted(s)]
    /\ lost' = IF locked = work[s].locked THEN lost ELSE lost \cup {"funds"}
    /\ UNCHANGED <<funded, today, counter, overlapped>>

Counts(s) ==
    /\ work[s] \in Active /\ At(s, "write") /\ work' = [work EXCEPT ![s] = Idle]
    /\ counter' = [counter EXCEPT ![work[s].day] = work[s].used + Wanted(s)]
    /\ lost' = IF counter[work[s].day] = work[s].used THEN lost ELSE lost \cup {"count"}
    /\ UNCHANGED <<fundsVars, created, createdOn, today, overlapped>>

Dies ==
    /\ work' = [s \in Sessions |-> Idle]
    /\ lost' = IF \E s \in Sessions : work[s].at \in Uncounted THEN lost \cup {"count"} ELSE lost
    /\ UNCHANGED <<fundsVars, created, createdOn, today, counter, overlapped>>

\* One of the steps that session s takes with its request.
Goes(s, w) ==
    \/ ToFunds(s, w) \/ ToCheck(s, w) \/ Missing(s, w) \/ Passed(s, w) \/ Loaded(s, w)
    \/ Opened(s, w) \/ Inserted(s, w) \/ Snapshot(s, w) \/ Stores(s, w)

Step ==
    \/ Stay \/ Dies
    \/ \E s \in Sessions : Quit(s) \/ Counts(s)
    \/ \E s \in Sessions, w \in Active : Start(s, w) \/ Goes(s, w)

-----------------------------------------------------------------------------
LEMMA BusyActive ==
    ASSUME TypeOK, NEW s \in Sessions, work[s].at # "idle"
    PROVE  work[s] \in Active /\ Wanted(s) \in Nat \ {0}
<1>1. work[s] \in Active  BY DEF TypeOK, Idle
<1>2. work[s].r \in Ids  BY <1>1 DEF Active
<1> QED  BY <1>1, <1>2, RequestsAssumption DEF Wanted

LEMMA IdleIdle ==
    ASSUME TypeOK, NEW s \in Sessions, work[s].at = "idle"
    PROVE  work[s] = Idle
BY DEF TypeOK, Active, Underway, Stored, Uncounted

\* What EXCEPT does to the record of a session.
LEMMA AtOf ==
    ASSUME NEW a \in Active, NEW l \in {"lookup", "funds"} \cup Underway,
           NEW w, w = [a EXCEPT !.at = l]
    PROVE  w \in Active /\ w.at = l /\ w.r = a.r /\ w.day = a.day /\ w.used = a.used
BY DEF Active

\* A session that ends without having stored anything, or without counting it, quits.
LEMMA AnswerQuits ==
    ASSUME TypeOK, NEW s \in Sessions, work[s].at # "idle", work[s].at \notin Uncounted,
           NEW what, Answer(s, what),
           UNCHANGED <<walletVars, created, counter, today, pastVars>>
    PROVE  Quit(s)
BY BusyActive DEF Answer, End, Quit, walletVars, pastVars, fundsVars

LEMMA DropQuits ==
    ASSUME TypeOK, NEW s \in Sessions, work[s].at # "idle", Drop(s)
    PROVE  Quit(s)
BY BusyActive DEF Drop, End, Quit, walletVars, pastVars, fundsVars

LEMMA SendStep ==
    ASSUME TypeOK, NEW s \in Sessions, NEW r \in Ids, Send(s, r)
    PROVE  \E w \in Active : Start(s, w)
<1> DEFINE w == [at |-> "lookup", r |-> r, available |-> 0, locked |-> 0, day |-> 0, used |-> 0]
<1>1. w \in Active  BY DEF Active
<1>2. w.at = "lookup" /\ w.day = 0  OBVIOUS
<1>3. work' = [work EXCEPT ![s] = w] /\ At(s, "idle")  BY DEF Send
<1> HIDE DEF w
<1>4. work[s] = Idle  BY <1>3, IdleIdle DEF At
<1>5. UNCHANGED <<fundsVars, dayVars, counter, overlapped>>
  BY DEF Send, walletVars, pastVars, fundsVars, dayVars
<1> QED  BY <1>1, <1>2, <1>3, <1>4, <1>5 DEF Start

LEMMA GotoStep ==
    ASSUME TypeOK, NEW s \in Sessions, work[s].at # "idle",
           NEW l \in {"lookup", "funds"} \cup Underway, work' = [work EXCEPT ![s].at = l]
    PROVE  \E w \in Active : Go(s, w, work[s].at, l) /\ w.day = work[s].day
<1>1. PICK a \in Active : a = work[s]  BY BusyActive
<1>2. PICK w : w = [a EXCEPT !.at = l]  OBVIOUS
<1>2w. w \in Active /\ w.at = l /\ w.r = a.r /\ w.day = a.day
  BY <1>2, AtOf
<1>3. work' = [work EXCEPT ![s] = [a EXCEPT !.at = l]]  BY <1>1
<1> QED  BY <1>1, <1>2, <1>2w, <1>3 DEF Go

LEMMA LookupStep ==
    ASSUME TypeOK, NEW s \in Sessions, Lookup(s)
    PROVE  Quit(s) \/ \E w \in Active : ToFunds(s, w)
<1> USE DEF Lookup, At
<1>0. work[s].at # "idle" /\ work[s].at \notin Uncounted  BY DEF Uncounted
<1>1. CASE created[work[s].r] > 0  BY <1>0, <1>1, AnswerQuits
<1>2. CASE ~(created[work[s].r] > 0)
  <2>1. PICK w \in Active : Go(s, w, "lookup", "funds") /\ w.day = work[s].day
    BY <1>0, <1>2, GotoStep DEF Goto
  <2> QED  BY <1>2, <2>1 DEF ToFunds, Same, walletVars, pastVars, fundsVars, dayVars
<1> QED  BY <1>1, <1>2

LEMMA ReadFundsStep ==
    ASSUME TypeOK, NEW s \in Sessions, ReadFunds(s)
    PROVE  Quit(s) \/ \E w \in Active : ToCheck(s, w)
<1> USE DEF ReadFunds, At
<1>0. work[s].at # "idle" /\ work[s].at \notin Uncounted  BY DEF Uncounted
<1>1. CASE Wanted(s) > available  BY <1>0, <1>1, AnswerQuits DEF pastVars
<1>2. CASE ~(Wanted(s) > available)
  <2>1. PICK w \in Active : Go(s, w, "funds", "check") /\ w.day = work[s].day
    BY <1>0, <1>2, GotoStep DEF Underway
  <2> QED  BY <1>2, <2>1 DEF ToCheck, Same, walletVars, fundsVars, dayVars
<1> QED  BY <1>1, <1>2

LEMMA FindRowStep ==
    ASSUME TypeOK, NEW s \in Sessions, DayKnown(s), FindRow(s)
    PROVE  Quit(s) \/ \E w \in Active : Missing(s, w) \/ Passed(s, w) \/ Loaded(s, w)
<1>0. /\ work[s].at \in {"check", "count"} /\ work[s].at # "idle"
      /\ UNCHANGED <<walletVars, created, counter, today, pastVars>>
  BY DEF FindRow
<1>1. PICK a \in Active : a = work[s]  BY <1>0, BusyActive
<1>2. DayOf(s) \in DaysUsed /\ DayOf(s) \in Nat
  BY <1>0, RequestsAssumption DEF DayOf, DayKnown, TypeOK, DaysUsed
<1>3. UNCHANGED <<fundsVars, dayVars, counter, overlapped>>
  BY <1>0 DEF walletVars, pastVars, fundsVars, dayVars
<1>4. CASE /\ counter[DayOf(s)] = None
           /\ work' = [work EXCEPT ![s] = [@ EXCEPT !.at = IF At(s, "check") THEN "checkNew" ELSE "countNew",
                                                    !.day = DayOf(s)]]
  <2> DEFINE l == IF At(s, "check") THEN "checkNew" ELSE "countNew"
  <2>1. l \in {"lookup", "funds"} \cup Underway  BY DEF Underway, Uncounted
  <2>2. work' = [work EXCEPT ![s] = [a EXCEPT !.at = l, !.day = DayOf(s)]]  BY <1>1, <1>4
  <2>3. PICK w : w = [a EXCEPT !.at = l, !.day = DayOf(s)]  OBVIOUS
  <2>3w. w \in Active /\ w.at = l /\ w.r = a.r /\ w.day = DayOf(s)
    BY ONLY <1>1, <2>3, <1>2, <2>1 DEF Active, Underway, Stored, Uncounted
  <2>4. \/ work[s].at = "check" /\ l = "checkNew"
        \/ work[s].at = "count" /\ l = "countNew"
    BY <1>0 DEF At
  <2> HIDE DEF l
  <2>5. Find(s, w, "check", "checkNew") \/ Find(s, w, "count", "countNew")
    BY <1>1, <1>3, <2>2, <2>3, <2>3w, <2>4 DEF Find, Go
  <2> QED  BY <2>3, <2>3w, <2>5 DEF Missing
<1>5. CASE /\ counter[DayOf(s)] # None /\ At(s, "check") /\ counter[DayOf(s)] + Wanted(s) <= MaxDaily
           /\ work' = [work EXCEPT ![s] = [@ EXCEPT !.at = "insert", !.day = 0]]
  <2>1. "insert" \in {"lookup", "funds"} \cup Underway  BY DEF Underway
  <2>2. PICK w : w = [a EXCEPT !.at = "insert", !.day = 0]  OBVIOUS
  <2>2w. w \in Active /\ w.at = "insert" /\ w.r = a.r /\ w.day = 0
    BY ONLY <1>1, <2>2, <2>1 DEF Active, Underway, Stored, Uncounted
  <2>3. work' = [work EXCEPT ![s] = [a EXCEPT !.at = "insert", !.day = 0]]  BY <1>1, <1>5
  <2>4. Find(s, w, "check", "insert")  BY <1>1, <1>3, <1>5, <2>2, <2>2w, <2>3 DEF Find, Go, At
  <2> QED  BY <1>5, <2>2, <2>2w, <2>4 DEF Passed
<1>6. CASE Answer(s, "refused") /\ At(s, "check")
  BY <1>0, <1>6, AnswerQuits DEF At, Uncounted
<1>7. CASE /\ counter[DayOf(s)] # None /\ At(s, "count")
           /\ work' = [work EXCEPT ![s] = [@ EXCEPT !.at = "write", !.day = DayOf(s),
                                                    !.used = counter[DayOf(s)]]]
  <2>1. "write" \in {"lookup", "funds"} \cup Underway  BY DEF Underway, Uncounted
  <2>2. counter[DayOf(s)] \in Nat  BY <1>2, <1>7 DEF TypeOK
  <2>3. PICK u \in Nat : u = counter[DayOf(s)]  BY <2>2
  <2>4. PICK w : w = [a EXCEPT !.at = "write", !.day = DayOf(s), !.used = u]  OBVIOUS
  <2>4w. w \in Active /\ w.at = "write" /\ w.r = a.r /\ w.day = DayOf(s) /\ w.used = u
    BY ONLY <1>1, <2>4, <1>2, <2>1 DEF Active, Underway, Stored, Uncounted
  <2>5. work' = [work EXCEPT ![s] = [a EXCEPT !.at = "write", !.day = DayOf(s), !.used = u]]
    BY <1>1, <1>7, <2>3
  <2>6. Find(s, w, "count", "write")  BY <1>1, <1>3, <1>7, <2>4, <2>4w, <2>5 DEF Find, Go, At
  <2> QED  BY <1>7, <2>3, <2>4, <2>4w, <2>6 DEF Loaded
<1> QED  BY <1>4, <1>5, <1>6, <1>7 DEF FindRow, DayOf

LEMMA OpenRowStep ==
    ASSUME TypeOK, NEW s \in Sessions, OpenRow(s)
    PROVE  Quit(s) \/ \E w \in Active : Opened(s, w)
<1>0. work[s].at \in {"checkNew", "countNew"} /\ work[s].at # "idle"  BY DEF OpenRow
<1>1. CASE counter[work[s].day] = None
  <2> DEFINE l == IF At(s, "checkNew") THEN "check" ELSE "count"
  <2>1. l \in {"lookup", "funds"} \cup Underway  BY DEF Underway, Uncounted
  <2>2. work' = [work EXCEPT ![s].at = l]  BY <1>1 DEF OpenRow, Goto
  <2>3. \/ work[s].at = "checkNew" /\ l = "check"
        \/ work[s].at = "countNew" /\ l = "count"
    BY <1>0 DEF At
  <2> HIDE DEF l
  <2>4. PICK w \in Active : Go(s, w, work[s].at, l) /\ w.day = work[s].day
    BY <1>0, <2>1, <2>2, GotoStep
  <2>5. Go(s, w, "checkNew", "check") \/ Go(s, w, "countNew", "count")  BY <2>3, <2>4
  <2>6. counter' = [counter EXCEPT ![w.day] = 0]  BY <1>1, <2>4 DEF OpenRow
  <2>7. UNCHANGED <<fundsVars, dayVars, overlapped>>
    BY <1>1 DEF OpenRow, walletVars, pastVars, fundsVars, dayVars
  <2> QED  BY <1>1, <2>4, <2>5, <2>6, <2>7 DEF Opened
<1>2. CASE counter[work[s].day] # None  BY <1>0, <1>2, DropQuits DEF OpenRow
<1> QED  BY <1>1, <1>2

LEMMA InsertStep ==
    ASSUME TypeOK, NEW s \in Sessions, Insert(s)
    PROVE  Quit(s) \/ \E w \in Active : Inserted(s, w)
<1>0. work[s].at = "insert" /\ work[s].at # "idle"  BY DEF Insert, At
<1>1. CASE created[work[s].r] > 0  BY <1>0, <1>1, DropQuits DEF Insert
<1>2. CASE ~(created[work[s].r] > 0)
  <2>1. PICK w \in Active : Go(s, w, "insert", "inserted") /\ w.day = work[s].day
    BY <1>0, <1>2, GotoStep DEF Insert, Goto, Underway, Stored
  <2>2. Same(s, w, "insert", "inserted") /\ UNCHANGED overlapped
    BY <1>2, <2>1 DEF Insert, Same, walletVars, pastVars, fundsVars, dayVars
  <2>3. created[work[s].r] = 0
    <3>1. work[s].r \in Ids  BY <1>0, BusyActive DEF Active
    <3> QED  BY <1>2, <3>1 DEF TypeOK
  <2> QED  BY <2>1, <2>2, <2>3 DEF Insert, Inserted, Go
<1> QED  BY <1>1, <1>2

LEMMA ReadLockStep ==
    ASSUME TypeOK, NEW s \in Sessions, ReadLock(s)
    PROVE  Quit(s) \/ \E w \in Active : Snapshot(s, w)
<1>0. /\ work[s].at = "inserted" /\ work[s].at # "idle" /\ work[s].at \notin Uncounted
      /\ UNCHANGED <<walletVars, created, counter, today, pastVars>>
  BY DEF ReadLock, At, Uncounted
<1>1. CASE Wanted(s) > available  BY <1>0, <1>1, AnswerQuits DEF ReadLock
<1>2. CASE ~(Wanted(s) > available)
  <2>1. PICK a \in Active : a = work[s] /\ Wanted(s) \in Nat  BY <1>0, BusyActive
  <2>2. available \in Nat /\ locked \in Nat  BY DEF TypeOK
  <2>3. "locking" \in {"lookup", "funds"} \cup Underway  BY DEF Underway, Stored
  <2>4. PICK w : w = [a EXCEPT !.at = "locking", !.available = available, !.locked = locked]  OBVIOUS
  <2>4w. w \in Active /\ w.at = "locking" /\ w.r = a.r /\ w.day = a.day /\ w.available = available /\ w.locked = locked
    BY ONLY <1>1, <2>4, <2>2, <2>3 DEF Active, Underway, Stored, Uncounted
  <2>5. work' = [work EXCEPT ![s] = [a EXCEPT !.at = "locking", !.available = available,
                                             !.locked = locked]]
    BY <1>2, <2>1 DEF ReadLock
  <2>6. Go(s, w, "inserted", "locking")  BY <1>0, <2>1, <2>4, <2>4w, <2>5 DEF Go
  <2>7. Same(s, w, "inserted", "locking") /\ UNCHANGED overlapped
    BY <1>0, <2>1, <2>4, <2>4w, <2>6 DEF Same, walletVars, pastVars, fundsVars, dayVars
  <2>8. Wanted(s) <= available  BY <1>2, <2>1, <2>2
  <2>9. Snapshot(s, w)  BY <2>4w, <2>7, <2>8 DEF Snapshot
  <2> QED  BY <2>4w, <2>9
<1> QED  BY <1>1, <1>2

LEMMA CommitStep ==
    ASSUME TypeOK, NEW s \in Sessions, Commit(s)
    PROVE  \E w \in Active : Stores(s, w)
<1>0. work[s].at = "locking" /\ work[s].at # "idle"  BY DEF Commit, At
<1>1. PICK a \in Active : a = work[s]  BY <1>0, BusyActive
<1>2. "count" \in {"lookup", "funds"} \cup Underway  BY DEF Underway, Uncounted
<1>3. PICK w : w = [a EXCEPT !.at = "count", !.available = 0, !.locked = 0]  OBVIOUS
<1>3w. w \in Active /\ w.at = "count" /\ w.r = a.r /\ w.day = a.day
  BY ONLY <1>1, <1>3, <1>2 DEF Active, Underway, Stored, Uncounted
<1>4. work' = [work EXCEPT ![s] = [a EXCEPT !.at = "count", !.available = 0, !.locked = 0]]
  BY <1>1 DEF Commit
<1>5. Go(s, w, "locking", "count")  BY <1>0, <1>1, <1>3, <1>3w, <1>4 DEF Go
<1>6. UNCHANGED <<funded, today, counter, overlapped>>  BY DEF Commit
<1>7. created' = [created EXCEPT ![w.r] = @ + 1]  BY <1>1, <1>3, <1>3w DEF Commit
<1> QED  BY <1>1, <1>3, <1>3w, <1>5, <1>6, <1>7 DEF Commit, Stores

LEMMA CountStep ==
    ASSUME TypeOK, NEW s \in Sessions, Count(s)
    PROVE  Counts(s)
<1>0. work[s].at = "write" /\ work[s].at # "idle"  BY DEF Count, At
<1>1. work[s] \in Active  BY <1>0, BusyActive
<1> QED  BY <1>1 DEF Count, Counts, Answer, End, walletVars, fundsVars

LEMMA OthersStay ==
    ASSUME TypeOK, Read \/ InitiateWithKey \/ Tick \/ Midnight \/ UNCHANGED vars
    PROVE  Stay
<1>0. today \in DaysUsed /\ today \in Nat /\ Days \in Nat
  BY RequestsAssumption DEF TypeOK, DaysUsed
<1>1. CASE Read \/ InitiateWithKey
  BY <1>0, <1>1 DEF Read, InitiateWithKey, Other, Stay, walletVars, pastVars, fundsVars
<1>2. CASE Tick  BY <1>0, <1>2 DEF Tick, Stay, walletVars, pastVars, fundsVars
<1>3. CASE Midnight
  <2>1. today' = today + 1 /\ today + 1 \in DaysUsed  BY <1>0, <1>3 DEF Midnight, DaysUsed
  <2> QED  BY <1>3, <2>1 DEF Midnight, Stay, walletVars, pastVars, fundsVars
<1>4. CASE UNCHANGED vars  BY <1>0, <1>4 DEF vars, Stay, fundsVars
<1> QED  BY <1>1, <1>2, <1>3, <1>4

\* Every step of the specification is one of them.
LEMMA Steps ==
    ASSUME TypeOK, \A s \in Sessions : DayKnown(s), [Next]_vars
    PROVE  Step
<1>1. ASSUME NEW s \in Sessions, Serve(s) PROVE Step
  BY <1>1, LookupStep, ReadFundsStep, FindRowStep, OpenRowStep, InsertStep, ReadLockStep,
     CommitStep, CountStep DEF Serve, Step, Goes
<1>2. ASSUME NEW s \in Sessions, Fail(s) PROVE Step
  BY <1>2, DropQuits DEF Fail, At, Step
<1>3. ASSUME NEW s \in Sessions, NEW r \in Ids, Send(s, r) PROVE Step
  BY <1>3, SendStep DEF Step
<1>4. CASE Restart
  BY <1>4 DEF Restart, Dies, Step, walletVars, fundsVars
<1>5. CASE Read \/ InitiateWithKey \/ Tick \/ Midnight \/ UNCHANGED vars
  BY <1>5, OthersStay DEF Step
<1> QED  BY <1>1, <1>2, <1>3, <1>4, <1>5 DEF Next

-----------------------------------------------------------------------------
(* Types, and the days the sessions know.                                  *)

LEMMA ClientTypes ==
    ASSUME TypeOK, [Next]_vars
    PROVE  /\ hits' \in [Ages -> Nat]
           /\ answer' \in [Ids -> {"none", "created", "refused"}]
           /\ others' \in 0 .. MaxOthers /\ failures' \in 0 .. MaxFailures
<1> USE DEF TypeOK
<1>0. MaxOthers \in Nat /\ MaxFailures \in Nat /\ Window \in Nat \ {0}
  BY RequestsAssumption, WindowAssumption
<1>1. Hit(hits) \in [Ages -> Nat]  BY <1>0 DEF Hit, Ages
<1>2. NoHits \in [Ages -> Nat]  BY DEF NoHits
<1>3. Older(hits) \in [Ages -> Nat]  BY <1>0 DEF Older, Ages
<1>4. ASSUME NEW s \in Sessions, NEW what \in {"created", "refused"}, Answer(s, what)
      PROVE  answer' \in [Ids -> {"none", "created", "refused"}] /\ failures' \in 0 .. MaxFailures
  BY <1>0, <1>4 DEF Answer
<1>5. ASSUME NEW s \in Sessions, NEW r \in Ids, Send(s, r)
      PROVE  hits' = Hit(hits) /\ UNCHANGED <<answer, others, failures>>
  BY <1>5 DEF Send
<1>6. ASSUME NEW s \in Sessions, Serve(s)
      PROVE  UNCHANGED <<hits, others>> /\ (UNCHANGED <<answer, failures>> \/ Answer(s, "created") \/ Answer(s, "refused"))
  <2>1. CASE Lookup(s)  BY <2>1 DEF Lookup, windowVars
  <2>2. CASE ReadFunds(s)  BY <2>2 DEF ReadFunds, windowVars
  <2>3. CASE FindRow(s)  BY <2>3 DEF FindRow, windowVars
  <2>4. CASE OpenRow(s)  BY <2>4 DEF OpenRow, Drop, windowVars
  <2>5. CASE Insert(s)  BY <2>5 DEF Insert, Drop, windowVars
  <2>6. CASE ReadLock(s)  BY <2>6 DEF ReadLock, windowVars
  <2>7. CASE Commit(s)  BY <2>7 DEF Commit, windowVars
  <2>8. CASE Count(s)  BY <2>8 DEF Count, windowVars
  <2> QED  BY <1>6, <2>1, <2>2, <2>3, <2>4, <2>5, <2>6, <2>7, <2>8 DEF Serve
<1>7. ASSUME NEW s \in Sessions, Fail(s)
      PROVE  UNCHANGED <<hits, answer, others>> /\ failures' \in 0 .. MaxFailures
  BY <1>0, <1>7 DEF Fail, Drop, windowVars
<1>8. CASE Restart  BY <1>0, <1>2, <1>8 DEF Restart
<1>9. CASE Read \/ InitiateWithKey
  BY <1>0, <1>1, <1>9 DEF Read, InitiateWithKey, Other
<1>10. CASE Tick  BY <1>3, <1>10 DEF Tick
<1>11. CASE Midnight  BY <1>11 DEF Midnight, windowVars
<1>12. CASE UNCHANGED vars  BY <1>12 DEF vars
<1> QED  BY <1>1, <1>4, <1>5, <1>6, <1>7, <1>8, <1>9, <1>10, <1>11, <1>12 DEF Next

\* A step of session s is nobody else's.
LEMMA OwnWork ==
    ASSUME TypeOK, NEW s \in Sessions, NEW w, work' = [work EXCEPT ![s] = w]
    PROVE  /\ work'[s] = w
           /\ \A t \in Sessions : t # s => work'[t] = work[t]
           /\ w \in Active \cup {Idle} => work' \in [Sessions -> Active \cup {Idle}]
BY DEF TypeOK

\* Where a step of session s leaves it, and where the step starts.
LEMMA GoesOn ==
    ASSUME NEW s \in Sessions, NEW w \in Active, Goes(s, w)
    PROVE  work[s] \in Active /\ work' = [work EXCEPT ![s] = w] /\ w.r = work[s].r
BY DEF Goes, ToFunds, ToCheck, Missing, Passed, Loaded, Opened, Inserted, Snapshot, Stores, Same, Find, Go

LEMMA ActiveTypes ==
    ASSUME NEW a \in Active
    PROVE  /\ a.at \in {"lookup", "funds"} \cup Underway /\ a.at # "idle"
           /\ a.r \in Ids /\ Amount[a.r] \in Nat \ {0} /\ a.available \in Nat /\ a.locked \in Nat
           /\ a.day \in Nat /\ a.used \in Nat
BY RequestsAssumption DEF Active, Underway, Stored, Uncounted

LEMMA WorkTypes ==
    ASSUME TypeOK, Step
    PROVE  work' \in [Sessions -> Active \cup {Idle}]
<1>1. CASE Stay  BY <1>1 DEF Stay, TypeOK
<1>2. CASE Dies  BY <1>2 DEF Dies
<1>3. ASSUME NEW s \in Sessions, Quit(s) \/ Counts(s) PROVE work' \in [Sessions -> Active \cup {Idle}]
  BY <1>3, OwnWork DEF Quit, Counts
<1>4. ASSUME NEW s \in Sessions, NEW w \in Active, Start(s, w) \/ Goes(s, w)
      PROVE  work' \in [Sessions -> Active \cup {Idle}]
  BY <1>4, OwnWork, GoesOn DEF Start
<1> QED  BY <1>1, <1>2, <1>3, <1>4 DEF Step

TablesOK ==
    /\ available \in Nat /\ locked \in Nat /\ funded \in Balances
    /\ created \in [Ids -> Nat] /\ createdOn \in [DaysUsed -> Nat]
    /\ counter \in [DaysUsed -> Nat \cup {None}]
    /\ today \in DaysUsed /\ overlapped \in BOOLEAN /\ lost \subseteq {"funds", "count"}

LEMMA TableTypes ==
    ASSUME TypeOK, \A s \in Sessions : FundsRead(s), Step
    PROVE  TablesOK'
<1> USE DEF TypeOK, TablesOK
<1>1. CASE Stay  BY <1>1 DEF Stay, fundsVars
<1>2. CASE Dies  BY <1>2 DEF Dies, fundsVars
<1>3. ASSUME NEW s \in Sessions, Quit(s) PROVE TablesOK'
  BY <1>3 DEF Quit, fundsVars
<1>4. ASSUME NEW s \in Sessions, Counts(s) PROVE TablesOK'
  <2>1. work[s].used + Wanted(s) \in Nat  BY <1>4, ActiveTypes DEF Counts, Wanted
  <2>2. counter' \in [DaysUsed -> Nat \cup {None}]  BY <1>4, <2>1 DEF Counts
  <2> QED  BY <1>4, <2>2 DEF Counts, fundsVars
<1>5. ASSUME NEW s \in Sessions, NEW w \in Active, Start(s, w) PROVE TablesOK'
  BY <1>5 DEF Start, fundsVars, dayVars
<1>6. ASSUME NEW s \in Sessions, NEW w \in Active,
             ToFunds(s, w) \/ Inserted(s, w) \/ Snapshot(s, w)
      PROVE  TablesOK'
  BY <1>6 DEF ToFunds, Inserted, Snapshot, Same, fundsVars, dayVars
<1>7. ASSUME NEW s \in Sessions, NEW w \in Active, ToCheck(s, w) PROVE TablesOK'
  BY <1>7 DEF ToCheck, Same, fundsVars, dayVars
<1>8. ASSUME NEW s \in Sessions, NEW w \in Active, Missing(s, w) \/ Passed(s, w) \/ Loaded(s, w)
      PROVE  TablesOK'
  BY <1>8 DEF Missing, Passed, Loaded, Find, fundsVars, dayVars
<1>9. ASSUME NEW s \in Sessions, NEW w \in Active, Opened(s, w) PROVE TablesOK'
  <2>1. counter' \in [DaysUsed -> Nat \cup {None}]  BY <1>9 DEF Opened
  <2> QED  BY <1>9, <2>1 DEF Opened, fundsVars, dayVars
<1>10. ASSUME NEW s \in Sessions, NEW w \in Active, Stores(s, w) PROVE TablesOK'
  <2>1. /\ work[s].available \in Nat /\ work[s].locked \in Nat /\ Wanted(s) \in Nat
        /\ At(s, "locking")
    BY <1>10, ActiveTypes DEF Stores, Go, Wanted, At
  <2>2. Wanted(s) <= work[s].available  BY <2>1 DEF FundsRead
  <2>3. available' \in Nat /\ locked' \in Nat  BY <1>10, <2>1, <2>2 DEF Stores
  <2>4. created' \in [Ids -> Nat]  BY <1>10, ActiveTypes DEF Stores
  <2>5. createdOn' \in [DaysUsed -> Nat]  BY <1>10, <2>1 DEF Stores
  <2> QED  BY <1>10, <2>3, <2>4, <2>5 DEF Stores
<1> QED  BY <1>1, <1>2, <1>3, <1>4, <1>5, <1>6, <1>7, <1>8, <1>9, <1>10 DEF Step, Goes

LEMMA TypesKept ==
    ASSUME TypeOK, \A s \in Sessions : FundsRead(s) /\ DayKnown(s), [Next]_vars
    PROVE  TypeOK'
BY Steps, ClientTypes, WorkTypes, TableTypes DEF TypeOK, TablesOK

LEMMA DaysNat ==
    ASSUME TypeOK
    PROVE  today \in Nat \ {0} /\ Days \in Nat /\ today <= Days /\ DaysUsed = 1 .. Days
BY RequestsAssumption DEF TypeOK, DaysUsed

\* A day a session knows stays one.
LEMMA DaysKept ==
    ASSUME TypeOK, NEW s \in Sessions, DayKnown(s), Step
    PROVE  DayKnown(s)'
<1> USE DaysNat
<1>0. today' \in Nat /\ today' >= today
  BY DEF Step, Stay, Dies, Quit, Counts, Start, Goes, ToFunds, ToCheck, Missing, Passed, Loaded, Opened,
         Inserted, Snapshot, Stores, Same, Find, dayVars
<1>1. CASE work'[s] = work[s]  BY <1>0, <1>1 DEF DayKnown
<1>2. CASE work'[s] = Idle  BY <1>2 DEF DayKnown, Idle, Stored
<1>3. CASE \E w \in Active : Start(s, w)
  <2>1. PICK w \in Active : Start(s, w)  BY <1>3
  <2>2. work'[s] = w  BY <2>1, OwnWork DEF Start
  <2> QED  BY <2>1, <2>2 DEF Start, DayKnown
<1>4. CASE \E w \in Active : Goes(s, w)
  <2>1. PICK w \in Active : Goes(s, w)  BY <1>4
  <2>2. work'[s] = w  BY <2>1, OwnWork, GoesOn
  <2>3. UNCHANGED today
    BY <2>1 DEF Goes, ToFunds, ToCheck, Missing, Passed, Loaded, Opened, Inserted, Snapshot, Stores,
                Same, Find, dayVars
  <2>4. work[s].day \in Nat  BY <2>1, GoesOn, ActiveTypes
  <2>5. CASE ToFunds(s, w) \/ ToCheck(s, w) \/ Inserted(s, w) \/ Snapshot(s, w)
    BY <2>2, <2>3, <2>5 DEF DayKnown, ToFunds, ToCheck, Inserted, Snapshot, Same, Go, Stored
  <2>6. CASE Missing(s, w) \/ Passed(s, w) \/ Loaded(s, w)
    <3>1. DayOf(s) \in 1 .. today  BY <2>4, <2>6 DEF DayKnown, DayOf, Missing, Passed, Loaded, Find, Go
    <3>2. \/ w.at = "insert" /\ w.day = 0
          \/ w.at \in {"checkNew", "countNew", "write"} /\ w.day \in 1 .. today
      BY <2>6, <3>1 DEF Missing, Passed, Loaded, Find, Go
    <3> QED  BY <2>2, <2>3, <3>2 DEF DayKnown, Stored
  <2>7. CASE Opened(s, w)
    BY <2>2, <2>3, <2>7 DEF DayKnown, Opened, Go, Stored
  <2>8. CASE Stores(s, w)
    BY <2>2, <2>3, <2>8 DEF DayKnown, Stores, Go, Stored
  <2> QED  BY <2>1, <2>5, <2>6, <2>7, <2>8 DEF Goes
<1>5. ASSUME NEW t \in Sessions, NEW w, work' = [work EXCEPT ![t] = w], t # s
      PROVE  work'[s] = work[s]
  BY <1>5, OwnWork
<1>6. CASE Stay \/ Dies  BY <1>1, <1>2, <1>6 DEF Stay, Dies
<1>7. ASSUME NEW t \in Sessions, Quit(t) \/ Counts(t) PROVE work'[s] = work[s] \/ work'[s] = Idle
  BY <1>5, <1>7, OwnWork DEF Quit, Counts
<1>8. ASSUME NEW t \in Sessions, NEW w \in Active, Start(t, w) \/ Goes(t, w)
      PROVE  t = s \/ work'[s] = work[s]
  BY <1>5, <1>8, GoesOn DEF Start
<1> QED  BY <1>1, <1>2, <1>3, <1>4, <1>6, <1>7, <1>8 DEF Step

-----------------------------------------------------------------------------
(* One withdrawal for a request.                                           *)

\* created changes only where a session that held the key stores its row.
LEMMA CreatedFrame ==
    ASSUME Step
    PROVE  \/ UNCHANGED <<created, createdOn, locked, available>>
           \/ \E s \in Sessions, w \in Active : Stores(s, w)
BY DEF Step, Stay, Dies, Quit, Counts, Start, Goes, ToFunds, ToCheck, Missing, Passed, Loaded, Opened,
       Inserted, Snapshot, Same, Find, dayVars, fundsVars

Keys == \A s \in Sessions : KeyHeld(s)

LEMMA KeysKept ==
    ASSUME TypeOK, Keys, OneWithdrawalPerId, Step
    PROVE  Keys' /\ OneWithdrawalPerId'
<1>1. ASSUME UNCHANGED created,
             \A s \in Sessions : work'[s].at \in Stored => work'[s] = work[s]
      PROVE  Keys' /\ OneWithdrawalPerId'
  BY <1>1 DEF Keys, KeyHeld, OneWithdrawalPerId
<1>2. Idle.at \notin Stored  BY DEF Idle, Stored
<1>3. CASE Stay \/ Dies  BY <1>1, <1>2, <1>3 DEF Stay, Dies
<1>4. ASSUME NEW s \in Sessions, Quit(s) \/ Counts(s) PROVE Keys' /\ OneWithdrawalPerId'
  <2>1. work'[s] = Idle /\ \A t \in Sessions : t # s => work'[t] = work[t]
    BY <1>4, OwnWork DEF Quit, Counts
  <2> QED  BY <1>1, <1>2, <1>4, <2>1 DEF Quit, Counts
<1>5. ASSUME NEW s \in Sessions, NEW w \in Active, work' = [work EXCEPT ![s] = w],
             w.at \notin Stored, UNCHANGED created
      PROVE  Keys' /\ OneWithdrawalPerId'
  <2>1. work'[s] = w /\ \A t \in Sessions : t # s => work'[t] = work[t]
    BY <1>5, OwnWork
  <2> QED  BY <1>1, <1>5, <2>1
<1>6. ASSUME NEW s \in Sessions, NEW w \in Active, Start(s, w) PROVE Keys' /\ OneWithdrawalPerId'
  BY <1>5, <1>6 DEF Start, dayVars, Stored
<1>7. ASSUME NEW s \in Sessions, NEW w \in Active, Goes(s, w) PROVE Keys' /\ OneWithdrawalPerId'
  <2>1. /\ work'[s] = w /\ w.r = work[s].r /\ w.r \in Ids
        /\ \A t \in Sessions : t # s => work'[t] = work[t]
    BY <1>7, OwnWork, GoesOn, ActiveTypes
  <2>2. CASE ToFunds(s, w) \/ ToCheck(s, w)
    BY <1>5, <2>2 DEF ToFunds, ToCheck, Same, Go, dayVars, Stored
  <2>3. CASE Missing(s, w) \/ Passed(s, w) \/ Loaded(s, w) \/ Opened(s, w)
    BY <1>5, <2>3 DEF Missing, Passed, Loaded, Opened, Find, Go, dayVars, Stored
  <2>4. CASE Inserted(s, w)
    BY <2>1, <2>4 DEF Inserted, Same, Go, dayVars, Keys, KeyHeld, OneWithdrawalPerId
  <2>5. CASE Snapshot(s, w)
    <3>1. work[s].at \in Stored /\ UNCHANGED created
      BY <2>5 DEF Snapshot, Same, Go, dayVars, Stored
    <3> QED  BY <2>1, <3>1 DEF Keys, KeyHeld, OneWithdrawalPerId
  <2>6. CASE Stores(s, w)
    <3>1. work[s].at \in Stored /\ work'[s].at \notin Stored  BY <2>1, <2>6 DEF Stores, Go, Stored
    <3>2. created[w.r] = 0  BY <2>1, <3>1 DEF Keys, KeyHeld
    <3>3. /\ created'[w.r] = 1
          /\ \A r \in Ids : r # w.r => created'[r] = created[r]
      BY <2>1, <2>6, <3>2 DEF Stores, TypeOK
    <3>4. \A t \in Sessions : t # s /\ work[t].at \in Stored => work[t].r # w.r
      BY <2>1, <3>1 DEF Keys, KeyHeld
    <3>5. OneWithdrawalPerId'  BY <3>3 DEF OneWithdrawalPerId
    <3>6. \A t \in Sessions : work[t].at \in Stored => work[t].r \in Ids
      BY ActiveTypes DEF TypeOK, Idle, Stored
    <3>7. Keys'  BY <2>1, <3>1, <3>3, <3>4, <3>6 DEF Keys, KeyHeld
    <3> QED  BY <3>5, <3>7
  <2> QED  BY <1>7, <2>2, <2>3, <2>4, <2>5, <2>6 DEF Goes
<1> QED  BY <1>3, <1>4, <1>6, <1>7 DEF Step

-----------------------------------------------------------------------------
(* The funds follow what is stored.                                        *)

LEMMA RequestedNat ==
    ASSUME TypeOK
    PROVE  Requested \in Nat
<1> DEFINE v == [r \in Ids |-> created[r] * Amount[r]]
<1>1. v \in [Ids -> Nat]
  <2>1. ASSUME NEW r \in Ids PROVE created[r] * Amount[r] \in Nat
    <3>1. created[r] \in Nat /\ Amount[r] \in Nat  BY RequestsAssumption DEF TypeOK
    <3> QED  BY <3>1
  <2> QED  BY <2>1
<1> HIDE DEF v
<1>2. SumFunction(v) \in Nat  BY <1>1, SumOfNats, RequestsAssumption
<1> QED  BY <1>2 DEF Requested, v

LEMMA OneMore ==
    ASSUME NEW c \in Nat, NEW a \in Nat
    PROVE  (c + 1) * a = c * a + a /\ c * a \in Int
<1>1. (c + 1) * a = c * a + a  OBVIOUS
<1> QED  BY <1>1

\* What is stored adds what it withdraws.
LEMMA RequestedGrows ==
    ASSUME TypeOK, NEW s \in Sessions, NEW w \in Active, Stores(s, w)
    PROVE  Requested' = Requested + Wanted(s)
<1> DEFINE v == [r \in Ids |-> created[r] * Amount[r]]
           u == [r \in Ids |-> created'[r] * Amount[r]]
<1>0. w.r \in Ids /\ w.r = work[s].r /\ Amount \in [Ids -> Nat] /\ created \in [Ids -> Nat]
  BY RequestsAssumption, ActiveTypes DEF Stores, Go, TypeOK
<1>1. created' = [created EXCEPT ![w.r] = @ + 1]  BY DEF Stores
<1>2. ASSUME NEW r \in Ids PROVE v[r] \in Int /\ u[r] \in Int /\ (r # w.r => u[r] = v[r])
  <2>1. PICK c \in Nat, a \in Nat : c = created[r] /\ a = Amount[r]  BY <1>0
  <2>2. PICK d \in Nat : d = created'[r] /\ (r # w.r => d = c)  BY <1>0, <1>1, <2>1
  <2>3. c * a \in Nat /\ d * a \in Nat  BY <2>1, <2>2
  <2> QED  BY <2>1, <2>2, <2>3
<1>3. u[w.r] - v[w.r] = Amount[w.r]
  <2>1. PICK c \in Nat, a \in Nat : c = created[w.r] /\ a = Amount[w.r]  BY <1>0
  <2>2. created'[w.r] = c + 1  BY <1>0, <1>1, <2>1
  <2>3. (c + 1) * a = c * a + a /\ c * a \in Int  BY <2>1, OneMore
  <2>4. u[w.r] = (c + 1) * a /\ v[w.r] = c * a  BY <1>0, <2>1, <2>2
  <2> QED  BY <2>1, <2>3, <2>4
<1>4. v \in [Ids -> Int] /\ u \in [Ids -> Int]  BY <1>2
<1>5. Requested = SumFunction(v) /\ Requested' = SumFunction(u)  BY DEF Requested
<1> HIDE DEF v, u
<1>6. SumFunction(u) = SumFunction(v) + (u[w.r] - v[w.r])
  BY <1>0, <1>2, <1>4, SumChange, RequestsAssumption
<1> QED  BY <1>0, <1>3, <1>5, <1>6 DEF Wanted

Funds == (\A s \in Sessions : FundsRead(s)) /\ FundsFollowWithdrawals

LEMMA FundsKept ==
    ASSUME TypeOK, Funds, Step
    PROVE  Funds'
<1>0. /\ available \in Nat /\ locked \in Nat /\ Requested \in Nat /\ funded \in Nat
      /\ available + locked = funded /\ locked <= Requested
  BY RequestedNat, RequestsAssumption DEF TypeOK, Funds, FundsFollowWithdrawals
<1>1. ASSUME UNCHANGED <<fundsVars, created>>, lost \subseteq lost',
             \A s \in Sessions : At(s, "locking")' => work'[s] = work[s]
      PROVE  Funds'
  <2>1. UNCHANGED <<Requested, available, locked, funded>>  BY <1>1 DEF Requested, fundsVars
  <2>2. ASSUME NEW s \in Sessions, At(s, "locking")' PROVE FundsRead(s)'
    <3>1. work'[s] = work[s]  BY <1>1, <2>2
    <3>2. At(s, "locking") /\ Wanted(s)' = Wanted(s)  BY <2>2, <3>1 DEF At, Wanted
    <3>3. FundsRead(s)  BY DEF Funds
    <3> QED  BY <2>1, <3>1, <3>2, <3>3 DEF FundsRead
  <2>3. \A s \in Sessions : FundsRead(s)'  BY <2>2 DEF FundsRead
  <2>4. FundsFollowWithdrawals'  BY <1>1, <2>1 DEF Funds, FundsFollowWithdrawals
  <2> QED  BY <2>3, <2>4 DEF Funds
<1>2. Idle.at # "locking"  BY DEF Idle
<1>3. CASE Stay \/ Dies  BY <1>1, <1>2, <1>3 DEF Stay, Dies, At
<1>4. ASSUME NEW s \in Sessions, Quit(s) \/ Counts(s) PROVE Funds'
  <2>1. work'[s] = Idle /\ \A t \in Sessions : t # s => work'[t] = work[t]
    BY <1>4, OwnWork DEF Quit, Counts
  <2> QED  BY <1>1, <1>2, <1>4, <2>1 DEF Quit, Counts, At
<1>5. ASSUME NEW s \in Sessions, NEW w \in Active, work' = [work EXCEPT ![s] = w],
             w.at # "locking", UNCHANGED <<fundsVars, created, lost>>
      PROVE  Funds'
  <2>1. work'[s] = w /\ \A t \in Sessions : t # s => work'[t] = work[t]
    BY <1>5, OwnWork
  <2> QED  BY <1>1, <1>5, <2>1 DEF At
<1>6. ASSUME NEW s \in Sessions, NEW w \in Active, Start(s, w) PROVE Funds'
  BY <1>5, <1>6 DEF Start, dayVars
<1>7. ASSUME NEW s \in Sessions, NEW w \in Active, Goes(s, w) PROVE Funds'
  <2>1. /\ work'[s] = w /\ w.r = work[s].r
        /\ \A t \in Sessions : t # s => work'[t] = work[t]
    BY <1>7, OwnWork, GoesOn
  <2>2. CASE ToFunds(s, w) \/ ToCheck(s, w) \/ Inserted(s, w)
    BY <1>5, <2>2 DEF ToFunds, ToCheck, Inserted, Same, Go, dayVars
  <2>3. CASE Missing(s, w) \/ Passed(s, w) \/ Loaded(s, w) \/ Opened(s, w)
    BY <1>5, <2>3 DEF Missing, Passed, Loaded, Opened, Find, Go, dayVars
  <2>4. CASE Snapshot(s, w)
    <3>1. UNCHANGED <<available, locked, funded, created, lost>>
      BY <2>4 DEF Snapshot, Same, fundsVars, dayVars
    <3>2. UNCHANGED Requested  BY <3>1 DEF Requested
    <3>3. /\ w.available = available /\ w.locked = locked /\ Amount[w.r] <= available
      BY <2>1, <2>4 DEF Snapshot, Wanted
    <3>4. FundsRead(s)'  BY <1>0, <2>1, <3>1, <3>2, <3>3 DEF FundsRead, Wanted
    <3>5. ASSUME NEW t \in Sessions, t # s PROVE FundsRead(t)'
      <4>1. work'[t] = work[t] /\ FundsRead(t)  BY <2>1, <3>5 DEF Funds
      <4> QED  BY <3>1, <3>2, <4>1 DEF FundsRead, At, Wanted
    <3>6. FundsFollowWithdrawals'  BY <3>1, <3>2 DEF Funds, FundsFollowWithdrawals
    <3> QED  BY <3>4, <3>5, <3>6 DEF Funds
  <2>5. CASE Stores(s, w)
    <3>1. /\ At(s, "locking") /\ w.at = "count"  BY <2>5 DEF Stores, Go, At
    <3>2. Requested' = Requested + Wanted(s)  BY <2>5, RequestedGrows
    <3>3. /\ Wanted(s) \in Nat /\ work[s].available \in Nat /\ work[s].locked \in Nat
      BY <2>5, ActiveTypes DEF Stores, Go, Wanted
    <3>4. /\ work[s].available + work[s].locked = funded /\ Wanted(s) <= work[s].available
          /\ work[s].locked <= Requested
      BY <3>1 DEF Funds, FundsRead
    <3>5. /\ available' = work[s].available - Wanted(s) /\ locked' = work[s].locked + Wanted(s)
          /\ funded' = funded /\ lost \subseteq lost'
          /\ "funds" \notin lost' => locked = work[s].locked
      BY <2>5 DEF Stores
    <3>6. PICK a \in Nat, l \in Nat, q \in Nat, n \in Nat :
            a = work[s].available /\ l = work[s].locked /\ q = Wanted(s) /\ n = Requested
      BY <1>0, <3>3
    <3>7. available' + locked' = funded'  BY <3>4, <3>5, <3>6
    <3>8. locked' <= Requested'  BY <3>2, <3>4, <3>5, <3>6
    <3>9. "funds" \notin lost' => locked' = Requested'
      BY <3>2, <3>5, <3>6 DEF Funds, FundsFollowWithdrawals
    <3>10. ASSUME NEW t \in Sessions, At(t, "locking")' PROVE FundsRead(t)'
      <4>1. t # s /\ work'[t] = work[t] /\ FundsRead(t)  BY <2>1, <3>1, <3>10 DEF At, Funds
      <4>2. /\ work[t].at = "locking" /\ work[t].locked \in Nat
        BY <3>10, <4>1, ActiveTypes DEF At, TypeOK, Idle
      <4>3. work[t].locked <= Requested'  BY <3>2, <3>6, <4>1, <4>2 DEF FundsRead, At
      <4>4. Wanted(t)' = Wanted(t)  BY <4>1 DEF Wanted
      <4> QED  BY <3>5, <4>1, <4>2, <4>3, <4>4 DEF FundsRead, At
    <3> QED  BY <3>7, <3>8, <3>9, <3>10 DEF Funds, FundsFollowWithdrawals, FundsRead
  <2> QED  BY <1>7, <2>2, <2>3, <2>4, <2>5 DEF Goes
<1> QED  BY <1>3, <1>4, <1>6, <1>7 DEF Step

-----------------------------------------------------------------------------
(* No withdrawal is counted twice, and none is left out unless it is said  *)
(* so.                                                                     *)

OwesOK ==
    /\ Owes \in [Sessions -> Nat] /\ Owed \in Nat
    /\ \A s \in Sessions : Owes[s] = IF work[s].at \in Uncounted THEN Amount[work[s].r] ELSE 0

LEMMA OwesTypes ==
    ASSUME TypeOK
    PROVE  OwesOK
<1>1. ASSUME NEW s \in Sessions, work[s].at \in Uncounted PROVE Wanted(s) \in Nat
  BY <1>1, BusyActive DEF Uncounted
<1>2. Owes \in [Sessions -> Nat]  BY <1>1 DEF Owes
<1>3. Owed \in Nat  BY <1>2, SumOfNats, RequestsAssumption DEF Owed
<1> QED  BY <1>2, <1>3 DEF OwesOK, Owes, Wanted

\* A step of one session changes what that one owes.
OwedStep(s, w) ==
    /\ Owed' = Owed + (Owes'[s] - Owes[s])
    /\ Owes[s] \in Nat /\ Owes'[s] \in Nat /\ Owed \in Nat /\ Owed' \in Nat
    /\ Owes'[s] = IF w.at \in Uncounted THEN Amount[w.r] ELSE 0
    /\ Owes[s] = IF work[s].at \in Uncounted THEN Wanted(s) ELSE 0

LEMMA OwedChange ==
    ASSUME TypeOK, TypeOK', NEW s \in Sessions, NEW w, work' = [work EXCEPT ![s] = w]
    PROVE  OwedStep(s, w)
<1>1. OwesOK  BY OwesTypes
<1>2. OwesOK'
  <2>1. (TypeOK => OwesOK)'  BY OwesTypes, PTL
  <2> QED  BY <2>1
<1> USE DEF OwesOK
<1>3. work'[s] = w /\ \A t \in Sessions : t # s => work'[t] = work[t]  BY OwnWork
<1>4. \A t \in Sessions : t # s => Owes'[t] = Owes[t]  BY <1>1, <1>2, <1>3
<1>5. Owed' = SumFunction(Owes') /\ Owed = SumFunction(Owes)  BY DEF Owed
<1>6. Owes \in [Sessions -> Int] /\ Owes' \in [Sessions -> Int]  BY <1>1, <1>2
<1>7. SumFunction(Owes') = SumFunction(Owes) + (Owes'[s] - Owes[s])
  BY <1>4, <1>6, SumChange, RequestsAssumption
<1> QED  BY <1>1, <1>2, <1>3, <1>5, <1>7 DEF Wanted, OwedStep

Counters == [d \in DaysUsed |-> CountOf(d)]

LEMMA CountersNat ==
    ASSUME TypeOK
    PROVE  Counters \in [DaysUsed -> Nat] /\ Counted = SumFunction(Counters) /\ Counted \in Nat
<1>1. IsFiniteSet(DaysUsed)
  BY DaysNat, FS_Interval
<1>2. Counters \in [DaysUsed -> Nat]  BY DEF Counters, CountOf, TypeOK
<1>3. SumFunction(Counters) \in Nat  BY <1>1, <1>2, SumOfNats
<1> QED  BY <1>2, <1>3 DEF Counted, Counters

\* A function that is counted up in one day has the sum counted up.
LEMMA DayChange ==
    ASSUME TypeOK, NEW f \in [DaysUsed -> Nat], NEW g \in [DaysUsed -> Nat], NEW d \in DaysUsed,
           \A e \in DaysUsed : e # d => g[e] = f[e]
    PROVE  SumFunction(g) = SumFunction(f) + (g[d] - f[d]) /\ SumFunction(f) \in Nat /\ SumFunction(g) \in Nat
<1>1. IsFiniteSet(DaysUsed)  BY DaysNat, FS_Interval
<1>2. f \in [DaysUsed -> Int] /\ g \in [DaysUsed -> Int]  OBVIOUS
<1>3. SumFunction(g) = SumFunction(f) + (g[d] - f[d])  BY <1>1, <1>2, SumChange
<1>4. SumFunction(f) \in Nat /\ SumFunction(g) \in Nat  BY <1>1, SumOfNats
<1> QED  BY <1>3, <1>4

\* What the sessions owe and the requests hold, from one step to the next.
Debt == Requested - Owed

\* In all steps but Counts and Dies the counters stand for what they stood for,
\* and what is stored and not owed does not shrink.
BalancedStep ==
    /\ \A d \in DaysUsed : CountOf(d)' = CountOf(d)
    /\ \A t \in Sessions : At(t, "write")' =>
         work'[t] = work[t] \/ work'[t].used = CountOf(work[t].day)'
    /\ Debt' >= Debt
    /\ "count" \notin lost' => "count" \notin lost /\ Debt' = Debt

LEMMA Balanced ==
    ASSUME TypeOK, TypeOK', NEW s \in Sessions,
           \/ Quit(s)
           \/ \E w \in Active : Start(s, w) \/ Goes(s, w)
    PROVE  BalancedStep
<1>0. Requested \in Nat /\ Idle.at = "idle" /\ "idle" \notin Uncounted
  BY RequestedNat DEF Idle, Uncounted
<1>1. CASE Quit(s)
  <2>1. work'[s] = Idle /\ \A t \in Sessions : t # s => work'[t] = work[t]
    BY <1>1, OwnWork DEF Quit
  <2>2. UNCHANGED <<counter, created>>  BY <1>1 DEF Quit
  <2>3. UNCHANGED Requested  BY <2>2 DEF Requested
  <2>6. OwedStep(s, Idle)  BY <1>1, OwedChange DEF Quit
  <2>4. Owed' = Owed + (Owes'[s] - Owes[s]) /\ Owes'[s] = 0 /\ Owes[s] \in Nat /\ Owed \in Nat
    BY <1>0, <2>6 DEF OwedStep
  <2>5. "count" \notin lost' => "count" \notin lost /\ Owes[s] = 0  BY <1>1, <2>6 DEF Quit, OwedStep
  <2> QED  BY <1>0, <2>1, <2>2, <2>3, <2>4, <2>5 DEF BalancedStep, CountOf, At, Debt
<1>2. ASSUME NEW w \in Active, work' = [work EXCEPT ![s] = w],
             UNCHANGED <<created, lost>>, \A d \in DaysUsed : CountOf(d)' = CountOf(d),
             w.at # "write" \/ w.used = CountOf(w.day)',
             w.at \in Uncounted <=> work[s].at \in Uncounted,
             w.at \in Uncounted => w.r = work[s].r
      PROVE  BalancedStep
  <2>1. work'[s] = w /\ \A t \in Sessions : t # s => work'[t] = work[t]
    BY <1>2, OwnWork
  <2>2. UNCHANGED Requested  BY <1>2 DEF Requested
  <2>3. Owed' = Owed + (Owes'[s] - Owes[s]) /\ Owes'[s] = Owes[s] /\ Owes[s] \in Nat /\ Owed \in Nat
    <3>1. OwedStep(s, w)  BY <1>2, OwedChange
    <3> QED  BY <1>2, <3>1 DEF Wanted, OwedStep
  <2>4. Debt' = Debt /\ Debt \in Int  BY <1>0, <2>2, <2>3 DEF Debt
  <2>5. \A t \in Sessions : At(t, "write")' => work'[t] = work[t] \/ work'[t].used = CountOf(work[t].day)'
    BY <1>2, <2>1 DEF At
  <2> QED  BY <1>2, <2>4, <2>5 DEF BalancedStep
<1>3. ASSUME UNCHANGED counter PROVE \A d \in DaysUsed : CountOf(d)' = CountOf(d)
  BY <1>3 DEF CountOf
<1>4. ASSUME NEW w \in Active, Start(s, w) PROVE BalancedStep
  BY <1>0, <1>2, <1>3, <1>4 DEF Start, dayVars, Uncounted
<1>5. ASSUME NEW w \in Active, Goes(s, w) PROVE BalancedStep
  <2>0. w.r = work[s].r /\ work' = [work EXCEPT ![s] = w]  BY <1>5, GoesOn
  <2>1. CASE ToFunds(s, w) \/ ToCheck(s, w) \/ Inserted(s, w) \/ Snapshot(s, w)
    <3>1. w.at \notin Uncounted /\ work[s].at \notin Uncounted /\ UNCHANGED <<counter, created, lost>>
      BY <2>1 DEF ToFunds, ToCheck, Inserted, Snapshot, Same, Go, dayVars, Uncounted
    <3> QED  BY <1>2, <1>3, <2>0, <3>1 DEF Uncounted
  <2>2. CASE Missing(s, w) \/ Passed(s, w)
    <3>1. /\ w.at \in Uncounted <=> work[s].at \in Uncounted
          /\ w.at # "write" /\ UNCHANGED <<counter, created, lost>>
      BY <2>2 DEF Missing, Passed, Find, Go, dayVars, Uncounted
    <3> QED  BY <1>2, <1>3, <2>0, <3>1
  <2>3. CASE Loaded(s, w)
    <3>1. /\ w.at \in Uncounted /\ work[s].at \in Uncounted
          /\ UNCHANGED <<counter, created, lost>> /\ w.used = CountOf(w.day)'
      BY <2>3 DEF Loaded, Find, Go, dayVars, Uncounted, CountOf
    <3> QED  BY <1>2, <1>3, <2>0, <3>1
  <2>4. CASE Opened(s, w)
    <3>1. /\ w.at \in Uncounted <=> work[s].at \in Uncounted
          /\ w.at # "write" /\ UNCHANGED <<created, lost>>
      BY <2>4 DEF Opened, Go, dayVars, Uncounted
    <3>2. \A d \in DaysUsed : CountOf(d)' = CountOf(d)
      BY <2>4, RequestsAssumption DEF Opened, CountOf, TypeOK
    <3> QED  BY <1>2, <2>0, <3>1, <3>2
  <2>5. CASE Stores(s, w)
    <3>1. w.at \in Uncounted /\ work[s].at \notin Uncounted /\ UNCHANGED counter /\ w.at # "write"
      BY <2>5 DEF Stores, Go, Uncounted
    <3>2. /\ Owed' = Owed + (Owes'[s] - Owes[s]) /\ Owes[s] = 0 /\ Owed \in Nat
          /\ Owes'[s] = Wanted(s) /\ Owes'[s] \in Nat
      <4>1. OwedStep(s, w)  BY <2>0, OwedChange
      <4> QED  BY <2>0, <3>1, <4>1 DEF Wanted, OwedStep
    <3>3. Requested' = Requested + Wanted(s)  BY <2>5, RequestedGrows
    <3>4. Debt' = Debt /\ Debt \in Int  BY <1>0, <3>2, <3>3 DEF Debt
    <3>5. "count" \notin lost' => "count" \notin lost  BY <2>5 DEF Stores
    <3>6. work'[s] = w /\ \A t \in Sessions : t # s => work'[t] = work[t]  BY <2>0, OwnWork
    <3> QED  BY <1>3, <3>1, <3>4, <3>5, <3>6 DEF BalancedStep, At
  <2> QED  BY <1>5, <2>1, <2>2, <2>3, <2>4, <2>5 DEF Goes
<1> QED  BY <1>1, <1>4, <1>5

LEMMA DebtInt ==
    ASSUME TypeOK
    PROVE  Debt \in Int /\ Owed \in Nat /\ Requested \in Nat /\ Debt = Requested - Owed
BY OwesTypes, RequestedNat DEF Debt, OwesOK

\* The same of the state after a step.
LEMMA DebtIntNext ==
    ASSUME TypeOK'
    PROVE  Debt' \in Int /\ Owed' \in Nat /\ Requested' \in Nat /\ Debt' = Requested' - Owed'
<1>1. (TypeOK => Debt \in Int /\ Owed \in Nat /\ Requested \in Nat /\ Debt = Requested - Owed)'
  BY DebtInt, PTL
<1> QED  BY <1>1

LEMMA DaySums ==
    ASSUME TypeOK
    PROVE  /\ \A f \in [DaysUsed -> Nat] : SumFunction(f) \in Nat
           /\ \A d \in DaysUsed : CountOf(d) \in Nat
           /\ Counters \in [DaysUsed -> Nat] /\ Counted = SumFunction(Counters)
           /\ \A d \in DaysUsed : Counters[d] = CountOf(d)
<1>1. IsFiniteSet(DaysUsed)  BY DaysNat, FS_Interval
<1>2. \A f \in [DaysUsed -> Nat] : SumFunction(f) \in Nat  BY <1>1, SumOfNats
<1>3. \A d \in DaysUsed : CountOf(d) \in Nat  BY DEF CountOf, TypeOK
<1> QED  BY <1>2, <1>3, CountersNat DEF Counters

LEMMA SeenShrinks ==
    ASSUME BalancedStep, NEW d \in DaysUsed
    PROVE  Seen(d)' \subseteq Seen(d)
<1> SUFFICES ASSUME NEW n \in Seen(d)' PROVE n \in Seen(d)  OBVIOUS
<1>1. CountOf(d)' = CountOf(d)  BY DEF BalancedStep
<1>2. CASE n = CountOf(d)'  BY <1>1, <1>2 DEF Seen
<1>3. CASE \E t \in Sessions : At(t, "write")' /\ work'[t].day = d /\ n = work'[t].used
  <2>1. PICK t \in Sessions : At(t, "write")' /\ work'[t].day = d /\ n = work'[t].used  BY <1>3
  <2>2. CASE work'[t] = work[t]  BY <2>1, <2>2 DEF Seen, At
  <2>3. CASE work'[t].used = CountOf(work[t].day)'
    <3>1. CountOf(work[t].day)' = CountOf(d)'  BY <2>1 DEF CountOf
    <3> QED  BY <1>1, <2>1, <2>3, <3>1 DEF Seen
  <2> QED  BY <2>1, <2>2, <2>3 DEF BalancedStep
<1> QED  BY <1>2, <1>3 DEF Seen

\* When they may end with nothing new, and what is stored and not owed does not
\* shrink, nothing is counted twice.
LEMMA TwiceKept ==
    ASSUME TypeOK, TypeOK', NeverTwice, \A d \in DaysUsed : Seen(d)' \subseteq Seen(d), Debt' >= Debt
    PROVE  NeverTwice'
<1> SUFFICES ASSUME NEW f \in [DaysUsed -> Nat], \A d \in DaysUsed : f[d] \in Seen(d)'
             PROVE  SumFunction(f) + Owed' <= Requested'
  BY DEF NeverTwice, DaysUsed
<1>1. \A d \in DaysUsed : f[d] \in Seen(d)  OBVIOUS
<1>2. SumFunction(f) + Owed <= Requested  BY <1>1 DEF NeverTwice
<1>3. SumFunction(f) \in Nat  BY DaySums
<1> QED  BY <1>2, <1>3, DebtInt, DebtIntNext

LEMMA CountingStep ==
    ASSUME TypeOK, TypeOK', NEW s \in Sessions, Counts(s), DayKnown(s), NeverTwice, AllCounted
    PROVE  NeverTwice' /\ AllCounted'
<1>0. PICK day, n : day = work[s].day /\ n = work[s].used + Wanted(s)  OBVIOUS
<1>1. /\ day \in DaysUsed /\ work[s].used \in Nat /\ Wanted(s) \in Nat /\ n \in Nat /\ n \in Int
      /\ work[s].at = "write"
  <2>1. work[s].at = "write" /\ work[s] \in Active  BY DEF Counts, At
  <2>2. day \in 1 .. today  BY <1>0, <2>1 DEF DayKnown
  <2>3. work[s].used \in Nat /\ Wanted(s) \in Nat  BY <2>1, ActiveTypes DEF Wanted
  <2> QED  BY <1>0, <2>1, <2>2, <2>3, DaysNat
<1>2. work'[s] = Idle /\ \A t \in Sessions : t # s => work'[t] = work[t]
  BY OwnWork DEF Counts
<1>3. /\ counter' = [counter EXCEPT ![day] = n]
      /\ "count" \notin lost' => counter[day] = work[s].used /\ "count" \notin lost
      /\ UNCHANGED created
  BY <1>0 DEF Counts
<1>4. UNCHANGED Requested  BY <1>3 DEF Requested
<1>5. Debt' = Debt + Wanted(s)
  <2>1. OwedStep(s, Idle)  BY OwedChange DEF Counts
  <2>2. Owes'[s] = 0 /\ Owes[s] = Wanted(s)  BY <1>1, <2>1 DEF OwedStep, Idle, Uncounted
  <2> QED  BY <1>1, <1>4, <2>1, <2>2, DebtInt, DebtIntNext DEF OwedStep
<1>6. /\ CountOf(day)' = n
      /\ \A d \in DaysUsed : d # day => CountOf(d)' = CountOf(d)
  <2>1. counter'[day] = n /\ n # None  BY <1>1, <1>3, RequestsAssumption DEF TypeOK
  <2>2. \A d \in DaysUsed : d # day => counter'[d] = counter[d]  BY <1>3 DEF TypeOK
  <2> QED  BY <2>1, <2>2 DEF CountOf
<1>7. ASSUME NEW f \in [DaysUsed -> Nat], \A d \in DaysUsed : f[d] \in Seen(d)'
      PROVE  SumFunction(f) + Owed' <= Requested'
  <2>1. ASSUME NEW d \in DaysUsed, NEW m \in Seen(d)'
        PROVE  m \in Seen(d) \/ (d = day /\ m = n)
    <3>1. CASE m = CountOf(d)'  BY <1>6, <3>1 DEF Seen
    <3>2. CASE \E t \in Sessions : At(t, "write")' /\ work'[t].day = d /\ m = work'[t].used
      BY <1>2, <3>2 DEF Seen, At, Idle
    <3> QED  BY <2>1, <3>1, <3>2 DEF Seen
  <2>2. CASE f[day] \in Seen(day)
    <3>1. \A d \in DaysUsed : f[d] \in Seen(d)  BY <1>7, <2>1, <2>2
    <3>2. SumFunction(f) + Owed <= Requested  BY <3>1 DEF NeverTwice
    <3> QED  BY <1>1, <1>5, <3>2, DaySums, DebtInt, DebtIntNext
  <2>3. CASE f[day] = n
    <3> DEFINE g == [f EXCEPT ![day] = work[s].used]
    <3>1. /\ g \in [DaysUsed -> Nat] /\ g[day] = work[s].used
          /\ \A d \in DaysUsed : d # day => g[d] = f[d]
      BY <1>1
    <3> HIDE DEF g
    <3>2. work[s].used \in Seen(day)  BY <1>0, <1>1 DEF Seen, At
    <3>3. \A d \in DaysUsed : g[d] \in Seen(d)  BY <1>7, <2>1, <3>1, <3>2
    <3>4. SumFunction(g) + Owed <= Requested  BY <3>1, <3>3 DEF NeverTwice
    <3>5. SumFunction(f) = SumFunction(g) + (f[day] - g[day])  BY <1>1, <3>1, DayChange
    <3>6. f[day] - g[day] = Wanted(s)  BY <1>0, <1>1, <2>3, <3>1
    <3>7. SumFunction(f) \in Nat /\ SumFunction(g) \in Nat  BY <3>1, DaySums
    <3> QED  BY <1>1, <1>5, <3>4, <3>5, <3>6, <3>7, DebtInt, DebtIntNext
  <2> QED  BY <1>1, <1>7, <2>1, <2>2, <2>3
<1>8. ASSUME "count" \notin lost' PROVE Counted' + Owed' = Requested'
  <2>1. CountOf(day) = work[s].used
    BY <1>1, <1>3, <1>8, RequestsAssumption DEF CountOf
  <2>2. Counters' \in [DaysUsed -> Nat] /\ Counted' = SumFunction(Counters') /\ \A d \in DaysUsed : Counters'[d] = CountOf(d)'
    <3>1. (TypeOK => /\ Counters \in [DaysUsed -> Nat] /\ Counted = SumFunction(Counters)
                     /\ \A d \in DaysUsed : Counters[d] = CountOf(d))'
      BY DaySums, PTL
    <3> QED  BY <3>1 DEF DaysUsed
  <2>3. Counters \in [DaysUsed -> Nat] /\ Counted = SumFunction(Counters) /\ \A d \in DaysUsed : Counters[d] = CountOf(d)
    BY DaySums
  <2>4. SumFunction(Counters') = SumFunction(Counters) + (Counters'[day] - Counters[day])
    BY <1>1, <1>6, <2>2, <2>3, DayChange
  <2>5. Counters'[day] - Counters[day] = Wanted(s)  BY <1>0, <1>1, <1>6, <2>1, <2>2, <2>3
  <2>6. Counted \in Nat  BY <2>3, DaySums
  <2>7. Counted + Owed = Requested  BY <1>3, <1>8 DEF AllCounted
  <2> QED  BY <1>1, <1>5, <2>2, <2>3, <2>4, <2>5, <2>6, <2>7, DebtInt, DebtIntNext
<1> QED  BY <1>7, <1>8 DEF NeverTwice, AllCounted, DaysUsed

LEMMA CountsKept ==
    ASSUME TypeOK, TypeOK', \A s \in Sessions : DayKnown(s), NeverTwice, AllCounted, Step
    PROVE  NeverTwice' /\ AllCounted'
<1>1. CASE Stay
  <2>1. UNCHANGED <<work, created, counter, lost>>  BY <1>1 DEF Stay
  <2>2. UNCHANGED Debt  BY <2>1 DEF Debt, Requested, Owed, Owes, Wanted
  <2>3. \A d \in DaysUsed : Seen(d)' \subseteq Seen(d)  BY <2>1 DEF Seen, CountOf, At
  <2>4. NeverTwice'  BY <2>2, <2>3, TwiceKept, DebtInt
  <2>5. UNCHANGED Counted  BY <2>1 DEF Counted, CountOf
  <2>6. UNCHANGED <<Owed, Requested>>  BY <2>1 DEF Requested, Owed, Owes, Wanted
  <2> QED  BY <2>1, <2>4, <2>5, <2>6 DEF AllCounted
<1>2. CASE Dies
  <2>1. UNCHANGED <<created, counter>> /\ \A t \in Sessions : work'[t] = Idle  BY <1>2 DEF Dies
  <2>2. OwesOK'
    <3>1. (TypeOK => OwesOK)'  BY OwesTypes, PTL
    <3> QED  BY <3>1
  <2>3. Owes' \in [Sessions -> Nat] /\ \A t \in Sessions : Owes'[t] = 0
    BY <2>1, <2>2 DEF OwesOK, Idle, Uncounted
  <2>4. SumFunction(Owes') = 0  BY <2>3, SumOfZeros, RequestsAssumption
  <2>5. Owed' = 0  BY <2>4 DEF Owed
  <2>6. UNCHANGED <<Requested, Counted>>  BY <2>1 DEF Requested, Counted, CountOf
  <2>7. \A d \in DaysUsed : Seen(d)' \subseteq Seen(d)
    BY <2>1 DEF Seen, CountOf, At, Idle
  <2>8. NeverTwice'  BY <2>5, <2>6, <2>7, TwiceKept, DebtInt, DebtIntNext
  <2>9. ASSUME "count" \notin lost' PROVE Counted + Owed = Requested /\ Owed = 0
    <3>1. "count" \notin lost /\ \A t \in Sessions : work[t].at \notin Uncounted
      BY <1>2, <2>9 DEF Dies
    <3>2. Owes \in [Sessions -> Nat] /\ \A t \in Sessions : Owes[t] = 0
      BY <3>1, OwesTypes DEF OwesOK
    <3>3. SumFunction(Owes) = 0  BY <3>2, SumOfZeros, RequestsAssumption
    <3> QED  BY <3>1, <3>3 DEF Owed, AllCounted
  <2> QED  BY <2>5, <2>6, <2>8, <2>9 DEF AllCounted
<1>3. ASSUME BalancedStep PROVE NeverTwice' /\ AllCounted'
  <2>1. NeverTwice'  BY <1>3, SeenShrinks, TwiceKept DEF BalancedStep
  <2>2. UNCHANGED Counted
    <3>1. [d \in DaysUsed |-> CountOf(d)]' = [d \in DaysUsed |-> CountOf(d)]
      BY <1>3 DEF BalancedStep, DaysUsed
    <3> QED  BY <3>1 DEF Counted
  <2>3. Counted \in Nat  BY DaySums
  <2>4. AllCounted'  BY <1>3, <2>2, <2>3, DebtInt, DebtIntNext DEF AllCounted, BalancedStep
  <2> QED  BY <2>1, <2>4
<1>4. ASSUME NEW s \in Sessions, Counts(s) PROVE NeverTwice' /\ AllCounted'
  BY <1>4, CountingStep
<1> QED  BY <1>1, <1>2, <1>3, <1>4, Balanced DEF Step

-----------------------------------------------------------------------------
(* The daily limit.                                                        *)

\* What session s does leaves its request underway, or begins it.
LEMMA UnderwayFrame ==
    ASSUME NEW s \in Sessions, NEW w \in Active, Goes(s, w), ~ToFunds(s, w), ~ToCheck(s, w)
    PROVE  work[s].at \in Underway /\ w.at \in Underway /\ UNCHANGED <<overlapped, today>>
<1> USE DEF Underway, Uncounted, Stored, Go, dayVars
<1>1. CASE Missing(s, w) \/ Passed(s, w) \/ Loaded(s, w)
  BY <1>1 DEF Missing, Passed, Loaded, Find
<1>2. CASE Inserted(s, w) \/ Snapshot(s, w)  BY <1>2 DEF Inserted, Snapshot, Same
<1>3. CASE Opened(s, w) \/ Stores(s, w)  BY <1>3 DEF Opened, Stores
<1> QED  BY <1>1, <1>2, <1>3 DEF Goes

LEMMA AloneKept ==
    ASSUME TypeOK, Alone, Step
    PROVE  Alone'
<1>0. Idle.at \notin Underway  BY DEF Idle, Underway, Uncounted, Stored
<1>1. CASE Stay \/ Dies  BY <1>0, <1>1 DEF Stay, Dies, Alone
<1>2. ASSUME NEW s \in Sessions, NEW w, work' = [work EXCEPT ![s] = w],
             w.at \notin Underway \/ work[s].at \in Underway, UNCHANGED overlapped
      PROVE  Alone'
  <2>1. work'[s] = w /\ \A t \in Sessions : t # s => work'[t] = work[t]  BY <1>2, OwnWork
  <2> QED  BY <1>2, <2>1 DEF Alone
<1>3. ASSUME NEW s \in Sessions, Quit(s) \/ Counts(s) PROVE Alone'
  <2>1. work' = [work EXCEPT ![s] = Idle] /\ UNCHANGED overlapped  BY <1>3 DEF Quit, Counts
  <2> QED  BY <1>0, <1>2, <2>1
<1>4. ASSUME NEW s \in Sessions, NEW w \in Active, Start(s, w) PROVE Alone'
  BY <1>2, <1>4 DEF Start, Underway, Uncounted, Stored
<1>5. ASSUME NEW s \in Sessions, NEW w \in Active, Goes(s, w) PROVE Alone'
  <2>1. CASE ToFunds(s, w)  BY <1>2, <2>1 DEF ToFunds, Same, Go, Underway, Uncounted, Stored
  <2>2. CASE ToCheck(s, w)
    <3>1. work'[s] = w /\ \A t \in Sessions : t # s => work'[t] = work[t]
      BY <2>2, OwnWork DEF ToCheck, Same, Go
    <3>2. ~overlapped' => ~overlapped /\ \A t \in Sessions : t # s => work[t].at \notin Underway
      BY <2>2 DEF ToCheck
    <3> QED  BY <3>1, <3>2 DEF Alone
  <2> QED  BY <1>2, <1>5, <2>1, <2>2, GoesOn, UnderwayFrame
<1> QED  BY <1>1, <1>3, <1>4, <1>5 DEF Step

LEMMA NotYetKept ==
    ASSUME TypeOK, NotYet, Step
    PROVE  NotYet'
<1>1. CASE \E s \in Sessions, w \in Active : Stores(s, w)
  BY <1>1, DaysNat DEF Stores, NotYet, TypeOK, DaysUsed
<1>2. CASE UNCHANGED createdOn
  <2>1. today' \in Nat /\ today' >= today
    BY DaysNat DEF Step, Stay, Dies, Quit, Counts, Start, Goes, ToFunds, ToCheck, Missing, Passed, Loaded,
           Opened, Inserted, Snapshot, Stores, Same, Find, dayVars
  <2> QED  BY <1>2, <2>1, DaysNat DEF NotYet, DaysUsed
<1> QED  BY <1>1, <1>2, CreatedFrame

\* Nothing that overlapped or was lost is forgotten.
LEMMA LimitFrame ==
    ASSUME TypeOK, Step
    PROVE  /\ ~overlapped' => ~overlapped
           /\ "count" \notin lost' => "count" \notin lost
<1>1. CASE Stay \/ Dies  BY <1>1 DEF Stay, Dies
<1>2. ASSUME NEW s \in Sessions, Quit(s) \/ Counts(s)
      PROVE  overlapped' = overlapped /\ lost \subseteq lost'
  BY <1>2 DEF Quit, Counts
<1>3. ASSUME NEW s \in Sessions, NEW w \in Active, Start(s, w)
      PROVE  overlapped' = overlapped /\ lost \subseteq lost'
  BY <1>3 DEF Start, dayVars
<1>4. ASSUME NEW s \in Sessions, NEW w \in Active, Goes(s, w)
      PROVE  (~overlapped' => ~overlapped) /\ lost \subseteq lost'
  <2>1. CASE ToFunds(s, w) \/ Inserted(s, w) \/ Snapshot(s, w)
    BY <2>1 DEF ToFunds, Inserted, Snapshot, Same, dayVars
  <2>2. CASE Missing(s, w) \/ Passed(s, w) \/ Loaded(s, w)
    BY <2>2 DEF Missing, Passed, Loaded, Find, dayVars
  <2>3. CASE Opened(s, w) \/ Stores(s, w)  BY <2>3 DEF Opened, Stores, dayVars
  <2>4. CASE ToCheck(s, w)
    <3>1. UNCHANGED lost  BY <2>4 DEF ToCheck, Same, dayVars
    <3>2. ~overlapped' => ~overlapped  BY <2>4 DEF ToCheck
    <3> QED  BY <3>1, <3>2
  <2> QED  BY <1>4, <2>1, <2>2, <2>3, <2>4 DEF Goes
<1> QED  BY <1>1, <1>2, <1>3, <1>4 DEF Step

\* The limit as it is while nothing overlaps and nothing is lost.
Bounded ==
    /\ \A d \in DaysUsed : createdOn[d] <= MaxDaily
    /\ (\A s \in Sessions : work[s].at \notin Uncounted) => createdOn[today] <= CountOf(today)
    /\ \A s \in Sessions : LimitSeen(s)

Solitary == \A s, t \in Sessions : work[s].at \in Underway /\ work[t].at \in Underway => s = t

LEMMA LimitNats ==
    ASSUME TypeOK
    PROVE  /\ createdOn[today] \in Nat /\ CountOf(today) \in Nat /\ MaxDaily \in Nat
           /\ today \in DaysUsed /\ today \in Nat \ {0}
BY DaysNat, DaySums, RequestsAssumption DEF TypeOK

\* A session that is not underway knows nothing of the limit.
LEMMA LimitIdle ==
    ASSUME NEW s \in Sessions, work[s].at \notin Underway
    PROVE  LimitSeen(s)
BY DEF LimitSeen, Underway, Uncounted, Stored

LEMMA LimitIdleNext ==
    ASSUME NEW s \in Sessions, work'[s].at \notin Underway
    PROVE  LimitSeen(s)'
BY DEF LimitSeen, Underway, Uncounted, Stored

\* Most steps of a session change nothing that others know of the limit.
LEMMA LimitOthers ==
    ASSUME NEW s \in Sessions, NEW t \in Sessions, work'[t] = work[t], LimitSeen(t),
           UNCHANGED <<createdOn, today>>, CountOf(today)' = CountOf(today)
    PROVE  LimitSeen(t)'
BY DEF LimitSeen, Wanted

LEMMA MidnightLimit ==
    ASSUME TypeOK, TypeOK', NotYet, Bounded, Stay
    PROVE  Bounded'
<1>0. UNCHANGED <<work, createdOn, counter>>  BY DEF Stay
<1>1. CASE today' = today
  <2>1. CountOf(today)' = CountOf(today)  BY <1>0, <1>1 DEF CountOf
  <2>2. \A s \in Sessions : LimitSeen(s)'  BY <1>0, <1>1, <2>1, LimitOthers DEF Bounded
  <2> QED  BY <1>0, <1>1, <2>1, <2>2 DEF Bounded, DaysUsed
<1>2. CASE today' = today + 1
  <2>1. createdOn'[today'] = 0 /\ createdOn[today] \in Nat /\ today' \in Nat
    BY <1>0, <1>2, LimitNats DEF Stay, NotYet
  <2>2. CountOf(today)' \in Nat
    <3>1. (TypeOK => CountOf(today) \in Nat)'  BY LimitNats, PTL
    <3> QED  BY <3>1
  <2>3. ASSUME NEW s \in Sessions PROVE LimitSeen(s)'
    <3>1. work[s].at \in {"insert"} \cup Stored => createdOn'[today'] + Wanted(s)' <= MaxDaily
      <4> SUFFICES ASSUME work[s].at \in {"insert"} \cup Stored PROVE Wanted(s) \in Nat /\ Wanted(s) <= MaxDaily
        BY <1>0, <2>1 DEF Wanted
      <4>1. Wanted(s) \in Nat  BY BusyActive DEF Stored
      <4>2. createdOn[today] + Wanted(s) <= MaxDaily  BY DEF Bounded, LimitSeen
      <4> QED  BY <2>1, <4>1, <4>2, LimitNats
    <3>2. work[s].at \in Uncounted => Wanted(s)' \in Nat
      BY <1>0, BusyActive DEF Uncounted, Wanted
    <3>3. work[s].at \in Uncounted =>
            0 <= CountOf(today)' + (IF work'[s].day \in {0, today'} THEN Wanted(s)' ELSE 0)
      BY <2>2, <3>2
    <3> QED  BY <1>0, <2>1, <3>1, <3>3 DEF LimitSeen
  <2>4. createdOn'[today'] <= CountOf(today)'  BY <2>1, <2>2
  <2> QED  BY <1>0, <2>3, <2>4 DEF Bounded, DaysUsed
<1> QED  BY <1>1, <1>2 DEF Stay

LEMMA EndLimit ==
    ASSUME TypeOK, TypeOK', Bounded, Dies \/ (\E s \in Sessions : Quit(s)), "count" \notin lost'
    PROVE  Bounded'
<1>1. UNCHANGED <<createdOn, today, counter>>  BY DEF Dies, Quit
<1>2. CountOf(today)' = CountOf(today)  BY <1>1 DEF CountOf
<1>3. \A t \in Sessions : work'[t] = work[t] \/ (work'[t] = Idle /\ work[t].at \notin Uncounted)
  <2>1. CASE Dies  BY <2>1 DEF Dies
  <2>2. ASSUME NEW s \in Sessions, Quit(s)
        PROVE  \A t \in Sessions : work'[t] = work[t] \/ (work'[t] = Idle /\ work[t].at \notin Uncounted)
    BY <2>2, OwnWork DEF Quit
  <2> QED  BY <2>1, <2>2
<1>4. \A t \in Sessions : work'[t] = Idle => LimitSeen(t)'
  BY LimitIdleNext DEF Idle, Underway, Uncounted, Stored
<1>5. \A t \in Sessions : LimitSeen(t)'  BY <1>1, <1>2, <1>3, <1>4, LimitOthers DEF Bounded
<1>6. (\A t \in Sessions : work'[t].at \notin Uncounted) => (\A t \in Sessions : work[t].at \notin Uncounted)
  BY <1>3
<1> QED  BY <1>1, <1>2, <1>5, <1>6 DEF Bounded, DaysUsed

LEMMA CountLimit ==
    ASSUME TypeOK, TypeOK', Bounded, Solitary, NEW s \in Sessions, DayKnown(s), Counts(s), "count" \notin lost'
    PROVE  Bounded'
<1>1. /\ UNCHANGED <<createdOn, today>> /\ work[s].at = "write" /\ work[s] \in Active
      /\ counter' = [counter EXCEPT ![work[s].day] = work[s].used + Wanted(s)]
      /\ counter[work[s].day] = work[s].used
  BY DEF Counts, At
<1>2. work'[s] = Idle /\ \A t \in Sessions : t # s => work'[t] = work[t]  BY OwnWork DEF Counts
<1>3. work[s].day \in DaysUsed /\ work[s].day # 0 /\ work[s].used \in Nat /\ Wanted(s) \in Nat
  BY <1>1, ActiveTypes, DaysNat DEF DayKnown, Wanted
<1>4. \A t \in Sessions : work'[t].at \notin Underway
  BY <1>1, <1>2 DEF Solitary, Underway, Uncounted, Stored, Idle
<1>5. \A t \in Sessions : LimitSeen(t)'  BY <1>4, LimitIdleNext
<1>6. createdOn[today] <= CountOf(today) + (IF work[s].day = today THEN Wanted(s) ELSE 0)
  BY <1>1, <1>3 DEF Bounded, LimitSeen, Uncounted
<1>7. CountOf(today)' = CountOf(today) + (IF work[s].day = today THEN Wanted(s) ELSE 0)
  <2>1. CASE work[s].day = today
    <3>1. counter'[today] = work[s].used + Wanted(s) /\ counter[today] = work[s].used
      BY <1>1, <1>3, <2>1 DEF TypeOK
    <3>2. work[s].used + Wanted(s) # None /\ work[s].used # None  BY <1>3, RequestsAssumption
    <3> QED  BY <1>1, <2>1, <3>1, <3>2 DEF CountOf
  <2>2. CASE work[s].day # today
    <3>1. counter'[today] = counter[today]  BY <1>1, <2>2 DEF TypeOK
    <3> QED  BY <1>1, <2>2, <3>1, LimitNats DEF CountOf
  <2> QED  BY <2>1, <2>2
<1>8. createdOn'[today'] <= CountOf(today)'  BY <1>1, <1>6, <1>7
<1> QED  BY <1>1, <1>5, <1>8 DEF Bounded, DaysUsed

\* What session s learns is the only thing that changes.
LEMMA OwnLimit ==
    ASSUME TypeOK, Bounded, NEW s \in Sessions, NEW w, work' = [work EXCEPT ![s] = w],
           UNCHANGED <<createdOn, today>>, CountOf(today)' = CountOf(today),
           w.at \notin Uncounted => work[s].at \notin Uncounted, LimitSeen(s)'
    PROVE  Bounded'
<1>1. work'[s] = w /\ \A t \in Sessions : t # s => work'[t] = work[t]  BY OwnWork
<1>2. \A t \in Sessions : LimitSeen(t)'  BY <1>1, LimitOthers DEF Bounded
<1>3. (\A t \in Sessions : work'[t].at \notin Uncounted) => (\A t \in Sessions : work[t].at \notin Uncounted)
  BY <1>1
<1> QED  BY <1>2, <1>3 DEF Bounded, DaysUsed

LEMMA StoreLimit ==
    ASSUME TypeOK, TypeOK', Bounded, Solitary, NEW s \in Sessions, NEW w \in Active, DayKnown(s), Stores(s, w)
    PROVE  Bounded'
<1>1. /\ work[s].at = "locking" /\ work[s] \in Active /\ w.at = "count" /\ w.r = work[s].r
      /\ w.day = 0 /\ UNCHANGED <<today, counter>>
      /\ createdOn' = [createdOn EXCEPT ![today] = @ + Wanted(s)]
  BY DEF Stores, Go, DayKnown, Stored
<1>2. work'[s] = w /\ \A t \in Sessions : t # s => work'[t] = work[t]
  BY OwnWork DEF Stores, Go
<1>3. Wanted(s) \in Nat /\ Wanted(s)' = Wanted(s)  BY <1>1, <1>2, ActiveTypes DEF Wanted
<1>4. createdOn[today] + Wanted(s) <= MaxDaily  BY <1>1 DEF Bounded, LimitSeen, Stored
<1>5. \A t \in Sessions : work[t].at \notin Uncounted
  BY <1>1 DEF Solitary, Underway, Stored, Uncounted
<1>6. createdOn[today] <= CountOf(today) /\ CountOf(today)' = CountOf(today)
  BY <1>1, <1>5 DEF Bounded, CountOf
<1>7. createdOn'[today] = createdOn[today] + Wanted(s)
  BY <1>1, LimitNats DEF TypeOK
<1>8. \A d \in DaysUsed : createdOn'[d] <= MaxDaily
  BY <1>1, <1>4, <1>7 DEF Bounded, TypeOK
<1>9. \A t \in Sessions : t # s => work'[t].at \notin Underway
  BY <1>1, <1>2 DEF Solitary, Underway, Stored
<1>10. LimitSeen(s)'
  <2>1. createdOn'[today'] <= CountOf(today)' + Wanted(s)'
    BY <1>1, <1>3, <1>6, <1>7, LimitNats
  <2> QED  BY <1>1, <1>2, <2>1 DEF LimitSeen, Stored
<1>11. \A t \in Sessions : LimitSeen(t)'  BY <1>9, <1>10, LimitIdleNext
<1>12. work'[s].at \in Uncounted  BY <1>1, <1>2 DEF Uncounted
<1> QED  BY <1>8, <1>11, <1>12 DEF Bounded, DaysUsed

LEMMA FindLimit ==
    ASSUME TypeOK, TypeOK', Bounded, Solitary, NEW s \in Sessions, NEW w \in Active, DayKnown(s),
           Missing(s, w) \/ Passed(s, w) \/ Loaded(s, w)
    PROVE  LimitSeen(s)'
<1>1. /\ work[s].at \in {"check", "count"} /\ w.r = work[s].r
      /\ UNCHANGED <<createdOn, today, counter>>
  BY DEF Missing, Passed, Loaded, Find, Go, dayVars
<1>2. work[s] \in Active /\ work'[s] = w /\ Wanted(s)' = Wanted(s) /\ Wanted(s) \in Nat
  BY OwnWork, ActiveTypes DEF Missing, Passed, Loaded, Find, Go, Wanted
<1>3. CountOf(today)' = CountOf(today) /\ LimitSeen(s)  BY <1>1 DEF CountOf, Bounded
<1>4. /\ work[s].day \in 0 .. today /\ DayOf(s) \in DaysUsed /\ DayOf(s) # 0
      /\ DayOf(s) \in {0, today} <=> work[s].day \in {0, today}
  <2>1. work[s].day \in 0 .. today  BY <1>1 DEF DayKnown
  <2> QED  BY <2>1, DaysNat DEF DayOf
<1>5. CASE Missing(s, w)
  <2>1. /\ w.day = DayOf(s)
        /\ (w.at = "checkNew" /\ work[s].at = "check") \/ (w.at = "countNew" /\ work[s].at = "count")
    BY <1>5 DEF Missing, Find, Go
  <2> QED  BY <1>1, <1>2, <1>3, <1>4, <2>1 DEF LimitSeen, Stored, Uncounted
<1>6. CASE Loaded(s, w)
  <2>1. w.day = DayOf(s) /\ w.at = "write" /\ work[s].at = "count"
    BY <1>6 DEF Loaded, Find, Go
  <2> QED  BY <1>1, <1>2, <1>3, <1>4, <2>1 DEF LimitSeen, Stored, Uncounted
<1>7. CASE Passed(s, w)
  <2>1. /\ w.at = "insert" /\ work[s].at = "check"
        /\ counter[DayOf(s)] # None /\ counter[DayOf(s)] + Wanted(s) <= MaxDaily
    BY <1>7 DEF Passed, Find, Go
  <2>2. createdOn[today] + Wanted(s) <= MaxDaily
    <3>1. CASE work[s].day \in {0, today}
      <4>1. DayOf(s) = today  BY <1>4, <3>1, DaysNat DEF DayOf
      <4>2. \A t \in Sessions : work[t].at \notin Uncounted
        BY <2>1 DEF Solitary, Underway, Stored, Uncounted
      <4>3. createdOn[today] <= CountOf(today)  BY <4>2 DEF Bounded
      <4>4. CountOf(today) = counter[today]  BY <2>1, <4>1 DEF CountOf
      <4> QED  BY <1>2, <2>1, <4>1, <4>3, <4>4, LimitNats
    <3>2. CASE work[s].day \notin {0, today}
      <4>1. createdOn[today] = 0  BY <1>3, <2>1, <3>2 DEF LimitSeen
      <4>2. counter[DayOf(s)] \in Nat  BY <1>4, <2>1 DEF TypeOK
      <4> QED  BY <1>2, <2>1, <4>1, <4>2, LimitNats
    <3> QED  BY <3>1, <3>2
  <2> QED  BY <1>1, <1>2, <2>1, <2>2 DEF LimitSeen, Stored, Uncounted
<1> QED  BY <1>5, <1>6, <1>7

LEMMA GoLimit ==
    ASSUME TypeOK, TypeOK', Bounded, Solitary, NEW s \in Sessions, NEW w \in Active, DayKnown(s),
           Goes(s, w), ~Stores(s, w)
    PROVE  Bounded'
<1>0. /\ work' = [work EXCEPT ![s] = w] /\ w.r = work[s].r /\ work'[s] = w
      /\ Wanted(s)' = Wanted(s) /\ LimitSeen(s)
  BY GoesOn, OwnWork DEF Bounded, Wanted
<1>1. CASE ToFunds(s, w) \/ ToCheck(s, w)
  <2>1. /\ UNCHANGED <<createdOn, today, counter>> /\ work[s].at \in {"lookup", "funds"}
        /\ w.at \in {"funds", "check"} /\ w.day = work[s].day
    BY <1>1 DEF ToFunds, ToCheck, Same, Go, dayVars
  <2>2. w.day = 0  BY <2>1 DEF DayKnown
  <2>3. LimitSeen(s)'  BY <1>0, <2>1, <2>2 DEF LimitSeen, Stored, Uncounted
  <2>4. work[s].at \notin Uncounted  BY <2>1 DEF Uncounted
  <2> QED  BY <1>0, <2>1, <2>3, <2>4, OwnLimit DEF CountOf
<1>2. CASE Missing(s, w) \/ Passed(s, w) \/ Loaded(s, w)
  <2>1. /\ UNCHANGED <<createdOn, today, counter>>
        /\ w.at \notin Uncounted => work[s].at \notin Uncounted
    BY <1>2 DEF Missing, Passed, Loaded, Find, Go, dayVars, Uncounted
  <2> QED  BY <1>0, <1>2, <2>1, FindLimit, OwnLimit DEF CountOf
<1>3. CASE Opened(s, w)
  <2>1. /\ UNCHANGED <<createdOn, today>> /\ w.day = work[s].day
        /\ (w.at = "check" /\ work[s].at = "checkNew") \/ (w.at = "count" /\ work[s].at = "countNew")
        /\ counter[w.day] = None /\ counter' = [counter EXCEPT ![w.day] = 0]
    BY <1>3 DEF Opened, Go, dayVars
  <2>2. CountOf(today)' = CountOf(today)
    BY <2>1, RequestsAssumption DEF CountOf, TypeOK
  <2>3. LimitSeen(s)'  BY <1>0, <2>1, <2>2 DEF LimitSeen, Stored, Uncounted
  <2>4. w.at \notin Uncounted => work[s].at \notin Uncounted  BY <2>1 DEF Uncounted
  <2> QED  BY <1>0, <2>1, <2>2, <2>3, <2>4, OwnLimit
<1>4. CASE Inserted(s, w) \/ Snapshot(s, w)
  <2>1. /\ UNCHANGED <<createdOn, today, counter>> /\ work[s].at \in {"insert", "inserted"}
        /\ w.at \in {"inserted", "locking"}
    BY <1>4 DEF Inserted, Snapshot, Same, Go, dayVars
  <2>2. LimitSeen(s)'  BY <1>0, <2>1 DEF LimitSeen, Stored, Uncounted
  <2>3. work[s].at \notin Uncounted  BY <2>1 DEF Uncounted
  <2> QED  BY <1>0, <2>1, <2>2, <2>3, OwnLimit DEF CountOf
<1> QED  BY <1>1, <1>2, <1>3, <1>4 DEF Goes

LEMMA LimitStep ==
    ASSUME TypeOK, TypeOK', NotYet, Alone, WithinLimit, \A s \in Sessions : DayKnown(s), Step
    PROVE  WithinLimit'
<1> SUFFICES ASSUME ~overlapped', "count" \notin lost' PROVE Bounded'
  BY DEF WithinLimit, Bounded
<1>1. ~overlapped /\ "count" \notin lost  BY LimitFrame
<1>2. Bounded /\ Solitary  BY <1>1 DEF WithinLimit, Bounded, Alone, Solitary
<1>3. CASE Stay  BY <1>2, <1>3, MidnightLimit
<1>4. CASE Dies \/ \E s \in Sessions : Quit(s)  BY <1>2, <1>4, EndLimit
<1>5. ASSUME NEW s \in Sessions, Counts(s) PROVE Bounded'  BY <1>2, <1>5, CountLimit
<1>6. ASSUME NEW s \in Sessions, NEW w \in Active, Start(s, w) PROVE Bounded'
  <2>1. /\ work' = [work EXCEPT ![s] = w] /\ UNCHANGED <<createdOn, today, counter>>
        /\ work[s] = Idle /\ w.at = "lookup" /\ work'[s] = w
    BY <1>6, OwnWork DEF Start, dayVars
  <2>2. work'[s].at \notin Underway /\ work[s].at \notin Uncounted
    BY <2>1 DEF Underway, Stored, Uncounted, Idle
  <2> QED  BY <1>2, <2>1, <2>2, LimitIdleNext, OwnLimit DEF CountOf
<1>7. ASSUME NEW s \in Sessions, NEW w \in Active, Goes(s, w) PROVE Bounded'
  BY <1>2, <1>7, GoLimit, StoreLimit
<1> QED  BY <1>3, <1>4, <1>5, <1>6, <1>7 DEF Step

-----------------------------------------------------------------------------
(* The theorems.                                                           *)

LEMMA InitIInv == Init => IInv
<1> SUFFICES ASSUME Init PROVE IInv  OBVIOUS
<1> USE DEF Init
<1>1. TypeOK
  <2>1. NoHits \in [Ages -> Nat] /\ 1 \in DaysUsed /\ funded \in Nat
    BY RequestsAssumption DEF NoHits, DaysUsed
  <2>2. 0 \in 0 .. MaxOthers /\ 0 \in 0 .. MaxFailures  BY RequestsAssumption
  <2> QED  BY <2>1, <2>2 DEF TypeOK
<1>2. \A s \in Sessions : work[s] = Idle /\ work[s].at = "idle"  BY DEF Idle
<1>3. \A s \in Sessions : KeyHeld(s) /\ FundsRead(s) /\ DayKnown(s)
  BY <1>2 DEF KeyHeld, FundsRead, DayKnown, At, Stored
<1>4. OneWithdrawalPerId  BY DEF OneWithdrawalPerId
<1>5. Requested = 0
  <2> DEFINE v == [r \in Ids |-> created[r] * Amount[r]]
  <2>1. \A r \in Ids : v[r] = 0
    <3> SUFFICES ASSUME NEW r \in Ids PROVE 0 * Amount[r] = 0  OBVIOUS
    <3>1. Amount[r] \in Nat  BY RequestsAssumption
    <3> QED  BY <3>1
  <2>2. v \in [Ids -> Nat]  BY <2>1
  <2> HIDE DEF v
  <2>3. SumFunction(v) = 0  BY <2>1, <2>2, SumOfZeros, RequestsAssumption
  <2> QED  BY <2>3 DEF Requested, v
<1>6. FundsFollowWithdrawals
  <2>1. funded \in Nat  BY RequestsAssumption
  <2> QED  BY <1>5, <2>1 DEF FundsFollowWithdrawals
<1>7. Owed = 0
  <2>1. Owes \in [Sessions -> Nat] /\ \A s \in Sessions : Owes[s] = 0
    BY <1>2 DEF Owes, Uncounted
  <2>2. SumFunction(Owes) = 0  BY <2>1, SumOfZeros, RequestsAssumption
  <2> QED  BY <2>2 DEF Owed
<1>8. \A f \in [DaysUsed -> Nat] : (\A d \in DaysUsed : f[d] = 0) => SumFunction(f) = 0
  <2>1. IsFiniteSet(DaysUsed)  BY <1>1, DaysNat, FS_Interval
  <2> QED  BY <2>1, SumOfZeros
<1>9. \A d \in DaysUsed : CountOf(d) = 0 /\ Seen(d) = {0}
  <2>1. \A d \in DaysUsed : CountOf(d) = 0  BY DEF CountOf
  <2> QED  BY <1>2, <2>1 DEF Seen, At
<1>10. NeverTwice  BY <1>5, <1>7, <1>8, <1>9 DEF NeverTwice
<1>11. AllCounted
  <2>1. Counters \in [DaysUsed -> Nat] /\ Counted = SumFunction(Counters)
        /\ \A d \in DaysUsed : Counters[d] = 0
    BY <1>1, <1>9, DaySums
  <2> QED  BY <1>5, <1>7, <1>8, <2>1 DEF AllCounted
<1>12. Alone  BY <1>2 DEF Alone, Underway, Uncounted, Stored
<1>13. NotYet  BY DEF NotYet
<1>14. WithinLimit
  <2>1. \A s \in Sessions : LimitSeen(s)
    BY <1>2, LimitIdle DEF Underway, Uncounted, Stored
  <2>2. today \in DaysUsed /\ MaxDaily \in Nat  BY <1>1, LimitNats
  <2>3. \A d \in DaysUsed : createdOn[d] = 0  OBVIOUS
  <2> QED  BY <1>9, <2>1, <2>2, <2>3 DEF WithinLimit
<1> QED  BY <1>1, <1>3, <1>4, <1>6, <1>10, <1>11, <1>12, <1>13, <1>14 DEF IInv

LEMMA IInvStep == IInv /\ [Next]_vars => IInv'
<1> SUFFICES ASSUME IInv, [Next]_vars PROVE IInv'  OBVIOUS
<1> USE DEF IInv
<1>1. Step  BY Steps
<1>2. TypeOK'  BY TypesKept
<1>3. (\A s \in Sessions : KeyHeld(s))' /\ OneWithdrawalPerId'  BY <1>1, KeysKept DEF Keys
<1>4. (\A s \in Sessions : FundsRead(s))' /\ FundsFollowWithdrawals'  BY <1>1, FundsKept DEF Funds
<1>5. \A s \in Sessions : DayKnown(s)'  BY <1>1, DaysKept
<1>6. NeverTwice' /\ AllCounted'  BY <1>1, <1>2, CountsKept
<1>7. Alone' /\ NotYet'  BY <1>1, AloneKept, NotYetKept
<1>8. WithinLimit'  BY <1>1, <1>2, LimitStep
<1> QED  BY <1>2, <1>3, <1>4, <1>5, <1>6, <1>7, <1>8

\* The inductive invariant of WithdrawalRequests: what the sessions of
\* initiate_withdrawal hold, have read and owe the daily counter.
THEOREM Invariance == Spec => []IInv
BY InitIInv, IInvStep, PTL DEF Spec

\* Every state is well-typed: no balance, count or total turns negative, whatever
\* the sessions of initiate_withdrawal write over one another.
THEOREM TypeCorrect == Spec => []TypeOK
<1>1. IInv => TypeOK  BY DEF IInv
<1> QED  BY <1>1, Invariance, PTL

\* A request id has at most one withdrawal, for any number of copies of the request
\* that are served at the same time: the key of an open insert is held alone.
THEOREM OneEach == Spec => []OneWithdrawalPerId
<1>1. IInv => OneWithdrawalPerId  BY DEF IInv
<1> QED  BY <1>1, Invariance, PTL

\* Sessions that overwrite each other's balance make and lose no money and hold no
\* more than was requested, for any amounts; they hold exactly that as long as
\* lock_balance has overwritten no newer row.
THEOREM FundsAudit == Spec => []FundsFollowWithdrawals
<1>1. IInv => FundsFollowWithdrawals  BY DEF IInv
<1> QED  BY <1>1, Invariance, PTL

LEMMA LimitFromIInv == IInv => LimitKept
<1> SUFFICES ASSUME IInv PROVE LimitKept  OBVIOUS
<1>0. TypeOK  BY DEF IInv
<1>1. Counted <= Requested
  <2>1. \A d \in DaysUsed : Counters[d] \in Seen(d)  BY <1>0, DaySums DEF Seen
  <2>2. SumFunction(Counters) + Owed <= Requested  BY <1>0, <2>1, DaySums DEF IInv, NeverTwice
  <2>3. Counted \in Nat /\ Counted = SumFunction(Counters)  BY <1>0, CountersNat
  <2> QED  BY <1>0, <2>2, <2>3, DebtInt
<1>2. ASSUME "count" \notin lost, \A s \in Sessions : At(s, "idle") PROVE Counted = Requested
  <2>1. Owes \in [Sessions -> Nat] /\ \A s \in Sessions : Owes[s] = 0
    BY <1>0, <1>2, OwesTypes DEF OwesOK, At, Uncounted
  <2>2. SumFunction(Owes) = 0  BY <2>1, SumOfZeros, RequestsAssumption
  <2>3. Counted + 0 = Requested  BY <1>2, <2>2 DEF IInv, AllCounted, Owed
  <2> QED  BY <1>0, <2>3, CountersNat
<1>3. ~overlapped /\ "count" \notin lost => \A d \in DaysUsed : createdOn[d] <= MaxDaily
  BY DEF IInv, WithinLimit
<1> QED  BY <1>1, <1>2, <1>3 DEF LimitKept

\* The daily counters never hold a withdrawal twice, hold all of them once nobody is
\* about to count, and keep what is requested on a day within the limit, over
\* midnight too, unless requests overlapped or a count was lost.
THEOREM LimitAudit == Spec => []LimitKept
BY LimitFromIInv, Invariance, PTL

=============================================================================
