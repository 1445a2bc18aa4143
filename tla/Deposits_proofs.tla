----------------------------- MODULE Deposits_proofs -----------------------------
(***************************************************************************)
(* What TLAPS proves of Deposits, for any number of deposits, transfers,   *)
(* monitors and requests and whatever fails: a transfer is credited once;  *)
(* a deposit is left confirmed only if it has nothing to be settled with;  *)
(* a deposit nobody touches by hand lives the life that DepositLife says.  *)
(***************************************************************************)
EXTENDS Deposits, FiniteSetTheorems, TLAPS

-----------------------------------------------------------------------------
(* The inductive invariant.                                                *)

\* The sessions that are to settle a deposit know the hash, ...
HashKnown(p) ==
    work[p].at \in {"detected", "retry", "read", "checked", "recorded"} => work[p].t \in T

\* ... and the one that has inserted it is the only one, and the first.
KeyHeld(p) == At(p, "recorded") => key[work[p].t] = p /\ record[work[p].t] = None

\* A monitor holds the row of the deposit it works on, which is therefore as the
\* monitor has read it.
MonitorOwns(p) ==
    p \in Workers /\ work[p] # Idle =>
        LET i == work[p].i IN
        /\ row[i] = p
        /\ work[p].at \in {"pending", "detected", "read", "checked", "recorded"}
        /\ At(p, "pending") => status[i] = "pending"
        /\ ~At(p, "pending") => status[i] = "detected" /\ tx[i] = work[p].t
        /\ work[p].at \in {"read", "checked", "recorded"} => work[p].seen = "confirmed"

\* A request on a deposit nobody touches by hand is a retry, which finds it
\* confirmed, and will find nothing to settle.
RetryInVain(p) ==
    p \in Admins /\ work[p] # Idle /\ work[p].i \notin manual =>
        LET i == work[p].i  t == work[p].t IN
        /\ work[p].at \in {"retry", "read"} /\ work[p].seen = "confirmed"
        /\ status[i] \in {"confirmed", "expired"}
        /\ record[t] # None \/ (At(p, "retry") /\ Amount[t] = 0)

SessionOK(p) == HashKnown(p) /\ KeyHeld(p) /\ MonitorOwns(p) /\ RetryInVain(p)

DepositOK(i) ==
    /\ status[i] \in {"detected", "confirmed"} => tx[i] \in T
    /\ status[i] = "confirmed" => Amount[tx[i]] = 0 \/ record[tx[i]] # None
    /\ i \notin manual => \A t \in T : record[t] = i => status[i] = "settled"

IInv ==
    /\ TypeOK
    /\ \A p \in Sessions : SessionOK(p)
    /\ \A i \in I : DepositOK(i)
    /\ CreditedOnce

-----------------------------------------------------------------------------
(* A step of session p on deposit i.                                       *)

Own(p, i) ==
    /\ \A q \in Sessions \ {p} :
          /\ work'[q] = work[q]
          /\ \A j \in I : row[j] = q => row'[j] = q
          /\ \A t \in T : key[t] = q => key'[t] = q
    /\ MayUpdate(p, i) \/ (status'[i] = status[i] /\ tx'[i] = tx[i])
    /\ \A j \in I \ {i} : status'[j] = status[j] /\ tx'[j] = tx[j]
    /\ \A t \in T : record'[t] # record[t] => key[t] = p /\ record[t] = None /\ record'[t] = i
    /\ manual \subseteq manual'
    /\ status[i] \in {"confirmed", "expired"} =>
          status'[i] \in {"confirmed", "expired"} \/ i \in manual'

LEMMA NoneOutside == None \notin I /\ None \notin T /\ None \notin Sessions
BY DepositsAssumption DEF Sessions

LEMMA Working ==
    ASSUME TypeOK, NEW p \in Sessions, work[p].at # "idle"
    PROVE  work[p] \in Active /\ work[p].i \in I /\ work[p] # Idle
BY DEF TypeOK, Active, Idle

LEMMA WorkingIf ==
    ASSUME TypeOK, NEW p \in Sessions, work[p] # Idle
    PROVE  work[p] \in Active /\ work[p].i \in I
BY DEF TypeOK, Active

\* It leaves the other sessions as they were, ...
LEMMA OthersKeep ==
    ASSUME IInv, NEW p \in Sessions, NEW i \in I, Own(p, i), NEW q \in Sessions \ {p}
    PROVE  SessionOK(q)'
<1> USE DEF IInv, Own
<1>0. work'[q] = work[q] /\ SessionOK(q)  OBVIOUS
<1>1. HashKnown(q)'  BY <1>0 DEF SessionOK, HashKnown
<1>2. KeyHeld(q)'
  <2> SUFFICES ASSUME At(q, "recorded"), NEW t \in T, t = work[q].t
               PROVE  key'[t] = q /\ record'[t] = None
    BY <1>0 DEF SessionOK, HashKnown, KeyHeld, At
  <2>1. key[t] = q /\ record[t] = None  BY <1>0 DEF SessionOK, KeyHeld
  <2> QED  BY <2>1
<1>3. MonitorOwns(q)'
  <2> SUFFICES ASSUME q \in Workers, work[q] # Idle, NEW j \in I, j = work[q].i
               PROVE  MonitorOwns(q)'
    BY <1>0, WorkingIf DEF MonitorOwns
  <2>1. row[j] = q  BY <1>0 DEF SessionOK, MonitorOwns
  <2>2. ~MayUpdate(p, j)  BY <2>1, NoneOutside DEF MayUpdate
  <2>3. status'[j] = status[j] /\ tx'[j] = tx[j] /\ row'[j] = q  BY <2>1, <2>2
  <2> QED  BY <1>0, <2>3 DEF SessionOK, MonitorOwns, At
<1>4. RetryInVain(q)'
  <2> SUFFICES ASSUME q \in Admins, work[q] # Idle, NEW j \in I, j = work[q].i, j \notin manual'
               PROVE  RetryInVain(q)'
    BY <1>0, WorkingIf DEF RetryInVain
  <2>1. j \notin manual  OBVIOUS
  <2>2. /\ work[q].at \in {"retry", "read"} /\ work[q].seen = "confirmed"
        /\ status[j] \in {"confirmed", "expired"}
        /\ record[work[q].t] # None \/ (At(q, "retry") /\ Amount[work[q].t] = 0)
    BY <1>0, <2>1 DEF SessionOK, RetryInVain
  <2>3. status'[j] \in {"confirmed", "expired"}  BY <2>2
  <2>4. work[q].t \in T  BY <1>0, <2>2 DEF SessionOK, HashKnown
  <2>5. record'[work[q].t] # None \/ (At(q, "retry") /\ Amount[work[q].t] = 0)  BY <2>2, <2>4
  <2> QED  BY <1>0, <2>2, <2>3, <2>5 DEF RetryInVain, At
<1> QED  BY <1>1, <1>2, <1>3, <1>4 DEF SessionOK

\* ... and the other deposits.
LEMMA OwnKeeps ==
    ASSUME IInv, NEW p \in Sessions, NEW i \in I, Own(p, i),
           TypeOK', SessionOK(p)', DepositOK(i)', CreditedOnce'
    PROVE  IInv'
<1> USE DEF IInv
<1>1. \A q \in Sessions : SessionOK(q)'  BY OthersKeep
<1>2. ASSUME NEW j \in I \ {i}  PROVE DepositOK(j)'
  <2>1. DepositOK(j) /\ status'[j] = status[j] /\ tx'[j] = tx[j]  BY DEF Own
  <2>2. \A t \in T : record'[t] = j => record[t] = j  BY DEF Own
  <2>3. \A t \in T : record[t] # None => record'[t] # None  BY DEF Own
  <2> QED  BY <2>1, <2>2, <2>3 DEF DepositOK, Own
<1> QED  BY <1>1, <1>2

\* A step that leaves the records and the credits as they were.
LEMMA SameCredits == UNCHANGED <<record, credits>> /\ CreditedOnce => CreditedOnce'
BY DEF CreditedOnce

\* A session that ends leaves the locks of the others.
LEMMA UnlockKeeps ==
    ASSUME TypeOK, NEW p \in Sessions, Commit(p) \/ Rollback(p)
    PROVE  /\ row' \in [I -> Sessions \cup {None}] /\ key' \in [T -> Sessions \cup {None}]
           /\ work' \in [Sessions -> Active \cup {Idle}] /\ todo' \in [Workers -> SUBSET I]
           /\ work'[p] = Idle
           /\ \A q \in Sessions \ {p} :
                 /\ work'[q] = work[q]
                 /\ \A j \in I : row[j] = q => row'[j] = q
                 /\ \A t \in T : key[t] = q => key'[t] = q
BY DEF TypeOK, Commit, Rollback, Unlock

LEMMA IdleOK == ASSUME NEW p, work'[p] = Idle PROVE SessionOK(p)'
BY DEF SessionOK, HashKnown, KeyHeld, MonitorOwns, RetryInVain, At, Idle

\* A session that ends and writes a status, a hash at most.
LEMMA EndIInv ==
    ASSUME IInv, NEW p \in Sessions, work[p] # Idle, Commit(p) \/ Rollback(p),
           NEW i \in I, i = work[p].i,
           status' = status \/ \E s \in Statuses : status' = [status EXCEPT ![i] = s],
           tx' = tx \/ \E t \in T : tx' = [tx EXCEPT ![i] = t],
           MayUpdate(p, i) \/ UNCHANGED <<status, tx>>,
           UNCHANGED <<record, credits, expired, manual>>,
           chain' \in [T -> {"none", "seen", "final", "lost"}], requests' \in Nat, failures' \in Nat,
           status[i] \in {"confirmed", "expired"} =>
              status'[i] \in {"confirmed", "expired"} \/ i \in manual',
           DepositOK(i)'
    PROVE  IInv'
<1> USE DEF IInv
<1>1. TypeOK'  BY UnlockKeeps DEF TypeOK
<1>2. Own(p, i)  BY UnlockKeeps DEF Own, TypeOK
<1>3. SessionOK(p)'  BY UnlockKeeps, IdleOK
<1> QED  BY <1>1, <1>2, <1>3, OwnKeeps, SameCredits

-----------------------------------------------------------------------------
(* Every step keeps IInv.                                                  *)

LEMMA InitIInv == Init => IInv
<1> SUFFICES ASSUME Init PROVE IInv  OBVIOUS
<1> USE DEF Init
<1>1. TypeOK  BY DEF TypeOK, Statuses
<1>2. \A p \in Sessions : SessionOK(p)
  BY DEF SessionOK, HashKnown, KeyHeld, MonitorOwns, RetryInVain, At, Idle
<1>3. \A i \in I : DepositOK(i)  BY NoneOutside DEF DepositOK
<1>4. CreditedOnce  BY DEF CreditedOnce
<1> QED  BY <1>1, <1>2, <1>3, <1>4 DEF IInv

\* The row of a new deposit is nobody's.
LEMMA InitiateIInv == ASSUME IInv, NEW i \in I, Initiate(i) PROVE IInv'
<1> USE DEF IInv, Initiate, dbVars, lockVars, SetStatus
<1>1. TypeOK'  BY DEF TypeOK, Statuses
<1>2. ASSUME NEW p \in Sessions PROVE SessionOK(p)'
  <2>1. SessionOK(p)  OBVIOUS
  <2>2. CASE work[p] = Idle  BY <2>2, IdleOK
  <2>3. CASE work[p] # Idle
    <3>1. PICK j \in I : j = work[p].i  BY <2>3, WorkingIf
    <3>2. CASE j = i
      <4>1. p \notin Workers  BY <2>1, <2>3, <3>1, <3>2 DEF SessionOK, MonitorOwns
      <4>2. p \in Admins => j \in manual
        BY <2>1, <2>3, <3>1, <3>2 DEF SessionOK, RetryInVain
      <4> QED  BY <2>1, <3>1, <4>1, <4>2
               DEF SessionOK, HashKnown, KeyHeld, MonitorOwns, RetryInVain, At
    <3>3. CASE j # i
      <4>1. status'[j] = status[j]  BY <3>3 DEF TypeOK
      <4> QED  BY <2>1, <3>1, <4>1
               DEF SessionOK, HashKnown, KeyHeld, MonitorOwns, RetryInVain, At
    <3> QED  BY <3>2, <3>3
  <2> QED  BY <2>2, <2>3
<1>3. \A j \in I : DepositOK(j)'  BY DEF DepositOK, TypeOK
<1> QED  BY <1>1, <1>2, <1>3, SameCredits

\* Steps that change nothing the invariant speaks of but the types.
LEMMA QuietIInv ==
    ASSUME IInv, TypeOK', UNCHANGED <<dbVars, lockVars, work, manual>>
    PROVE  IInv'
<1> USE DEF IInv, dbVars, lockVars
<1>1. \A p \in Sessions : SessionOK(p)'
  BY DEF SessionOK, HashKnown, KeyHeld, MonitorOwns, RetryInVain, At
<1>2. \A i \in I : DepositOK(i)'  BY DEF DepositOK
<1> QED  BY <1>1, <1>2, SameCredits

LEMMA WorldIInv ==
    ASSUME IInv,
           \/ \E i \in I : Expire(i)
           \/ \E t \in T : Pay(t) \/ Mine(t) \/ Drop(t)
           \/ \E w \in Workers : Scan(w)
           \/ UNCHANGED vars
    PROVE  IInv'
<1>1. UNCHANGED <<dbVars, lockVars, work, manual>>
  BY DEF Expire, Pay, Mine, Drop, Scan, vars, dbVars, lockVars
<1>2. TypeOK'
  <2> USE DEF IInv, TypeOK, dbVars, lockVars
  <2>1. CASE \E i \in I : Expire(i)  BY <2>1 DEF Expire
  <2>2. CASE \E t \in T : Pay(t) \/ Mine(t) \/ Drop(t)  BY <2>2 DEF Pay, Mine, Drop
  <2>3. CASE \E w \in Workers : Scan(w)  BY <2>3 DEF Scan, Scannable
  <2>4. CASE UNCHANGED vars  BY <2>4 DEF vars
  <2> QED  BY <2>1, <2>2, <2>3, <2>4
<1> QED  BY <1>1, <1>2, QuietIInv

LEMMA TakeIInv == ASSUME IInv, NEW w \in Workers, Take(w) PROVE IInv'
<1> USE DEF IInv
<1>0. w \in Sessions  BY DEF Sessions
<1>1. PICK i \in I :
         /\ work[w] = Idle
         /\ \/ /\ MayLock(w, i) /\ status[i] \in {"pending", "detected"}
               /\ row' = [row EXCEPT ![i] = w]
               /\ work' = [work EXCEPT ![w] = [at |-> status[i], i |-> i, t |-> tx[i],
                                               seen |-> status[i]]]
               /\ UNCHANGED todo
            \/ /\ todo' = [todo EXCEPT ![w] = @ \ {i}]
               /\ UNCHANGED <<row, work>>
         /\ UNCHANGED <<dbVars, expired, chain, key, requests, failures, manual>>
  <2>1. todo[w] \in SUBSET I  BY DEF TypeOK
  <2> QED  BY <2>1 DEF Take
<1>2. CASE UNCHANGED work
  <2>1. TypeOK' /\ UNCHANGED row
    <3>1. UNCHANGED row  BY <1>0, <1>1, <1>2 DEF TypeOK, Idle
    <3> QED  BY <1>1, <1>2, <3>1 DEF TypeOK, dbVars
  <2> QED  BY <1>1, <1>2, <2>1, QuietIInv DEF lockVars
<1>3. CASE ~UNCHANGED work
  <2>1. /\ MayUpdate(w, i) /\ status[i] \in {"pending", "detected"}
        /\ row' = [row EXCEPT ![i] = w]
        /\ work' = [work EXCEPT ![w] = [at |-> status[i], i |-> i, t |-> tx[i], seen |-> status[i]]]
        /\ UNCHANGED <<dbVars, expired, chain, key, requests, failures, manual, todo>>
    BY <1>1, <1>3 DEF MayLock
  <2>2. TypeOK'  BY <1>0, <2>1 DEF TypeOK, Active, dbVars, Statuses
  <2>3. Own(w, i)  BY <1>0, <2>1, NoneOutside DEF Own, MayUpdate, TypeOK, dbVars
  <2>4. SessionOK(w)'
    <3>1. /\ work'[w].at = status[i] /\ work'[w].i = i /\ work'[w].t = tx[i]
          /\ row'[i] = w /\ UNCHANGED <<status, tx>> /\ w \notin Admins
      BY <1>0, <2>1, DepositsAssumption DEF TypeOK, dbVars
    <3>2. DepositOK(i)  OBVIOUS
    <3> QED  BY <2>1, <3>1, <3>2
             DEF DepositOK, SessionOK, HashKnown, KeyHeld, MonitorOwns, RetryInVain, At
  <2>5. DepositOK(i)'  BY <2>1 DEF DepositOK, dbVars
  <2> QED  BY <1>0, <2>1, <2>2, <2>3, <2>4, <2>5, OwnKeeps, SameCredits DEF dbVars
<1> QED  BY <1>2, <1>3

\* What a monitor at work knows.
LEMMA MonitorKnows ==
    ASSUME IInv, NEW w \in Workers, work[w].at # "idle"
    PROVE  /\ w \in Sessions /\ work[w] # Idle /\ work[w] \in Active /\ work[w].i \in I
           /\ MayUpdate(w, work[w].i) /\ MonitorOwns(w) /\ HashKnown(w)
<1>1. w \in Sessions  BY DEF Sessions
<1> QED  BY <1>1, Working DEF IInv, SessionOK, MonitorOwns, MayUpdate

LEMMA DetectIInv == ASSUME IInv, NEW w \in Workers, Detect(w) PROVE IInv'
<1> USE DEF IInv
<1>1. PICK i \in I : i = work[w].i  BY MonitorKnows DEF Detect, At
<1>2. /\ w \in Sessions /\ work[w] # Idle /\ MayUpdate(w, i) /\ status[i] = "pending"
  BY <1>1, MonitorKnows DEF Detect, At, MonitorOwns
<1>3. /\ Commit(w) /\ UNCHANGED <<record, credits, expired, manual, chain, requests, failures>>
      /\ \/ UNCHANGED <<status, tx>>
         \/ status' = [status EXCEPT ![i] = "failed"] /\ UNCHANGED tx
         \/ \E t \in T : /\ status' = [status EXCEPT ![i] = "detected"]
                         /\ tx' = [tx EXCEPT ![i] = t]
  BY <1>1 DEF Detect, SetStatus, Arrived
<1>4. DepositOK(i)'  BY <1>2, <1>3 DEF DepositOK, TypeOK
<1>5. /\ status' = status \/ \E s \in Statuses : status' = [status EXCEPT ![i] = s]
      /\ tx' = tx \/ \E t \in T : tx' = [tx EXCEPT ![i] = t]
  <2>1. "failed" \in Statuses /\ "detected" \in Statuses  BY DEF Statuses
  <2> QED  BY <1>3, <2>1
<1>6. chain' \in [T -> {"none", "seen", "final", "lost"}] /\ requests' \in Nat /\ failures' \in Nat
  BY <1>3 DEF TypeOK
<1> QED  BY <1>1, <1>2, <1>3, <1>4, <1>5, <1>6, EndIInv

\* A session that goes on to another label.
LEMMA GotoSession ==
    ASSUME work \in [Sessions -> Active \cup {Idle}], NEW p \in Sessions, work[p] \in Active,
           NEW label \in {"read", "checked", "recorded"}, Goto(p, label)
    PROVE  /\ work' \in [Sessions -> Active \cup {Idle}]
           /\ work'[p].at = label /\ work'[p].i = work[p].i /\ work'[p].t = work[p].t
           /\ work'[p].seen = work[p].seen /\ work'[p] # Idle
           /\ \A q \in Sessions \ {p} : work'[q] = work[q]
BY DEF Goto, Active, Idle

LEMMA ReadSession ==
    ASSUME work \in [Sessions -> Active \cup {Idle}], NEW w \in Sessions, work[w] \in Active,
           work' = [work EXCEPT ![w].at = "read", ![w].seen = "confirmed"]
    PROVE  /\ work' \in [Sessions -> Active \cup {Idle}]
           /\ work'[w].at = "read" /\ work'[w].i = work[w].i /\ work'[w].t = work[w].t
           /\ work'[w].seen = "confirmed" /\ work'[w] # Idle
           /\ \A q \in Sessions \ {w} : work'[q] = work[q]
<1>1. work' \in [Sessions -> Active \cup {Idle}]  BY DEF Active, Statuses
<1>2. /\ work'[w].at = "read" /\ work'[w].i = work[w].i /\ work'[w].t = work[w].t
      /\ work'[w].seen = "confirmed"
  BY DEF Active
<1>3. \A q \in Sessions \ {w} : work'[q] = work[q]  OBVIOUS
<1>4. work'[w] # Idle  BY ONLY <1>2 DEF Idle
<1> QED  BY ONLY <1>1, <1>2, <1>3, <1>4

LEMMA FollowIInv == ASSUME IInv, NEW w \in Workers, Follow(w) PROVE IInv'
<1> USE DEF IInv
<1>1. PICK i \in I : i = work[w].i  BY MonitorKnows DEF Follow, At
<1>2. PICK t \in T : t = work[w].t  BY MonitorKnows DEF Follow, At, HashKnown
<1>3. /\ w \in Sessions /\ work[w] \in Active /\ work[w] # Idle /\ MayUpdate(w, i)
      /\ row[i] = w /\ status[i] = "detected" /\ tx[i] = t
  BY <1>1, <1>2, MonitorKnows DEF Follow, At, MonitorOwns
<1>4. UNCHANGED <<tx, record, credits, expired, chain, requests, failures, manual>>
  BY DEF Follow
<1>5. CASE Commit(w)
  <2>1. \/ UNCHANGED status
        \/ status' = [status EXCEPT ![i] = "confirmed"] /\ Amount[t] = 0
    <3>1. \/ UNCHANGED status
          \/ status' = [status EXCEPT ![i] = "confirmed"] /\ Amount[t] = 0
      BY <1>1, <1>2 DEF Follow, SetStatus
    <3> QED  BY <3>1
  <2>2. DepositOK(i)'  BY <1>3, <1>4, <2>1 DEF DepositOK, TypeOK
  <2>3. status' = status \/ \E s \in Statuses : status' = [status EXCEPT ![i] = s]
    BY <2>1 DEF Statuses
  <2>4. chain' \in [T -> {"none", "seen", "final", "lost"}] /\ requests' \in Nat /\ failures' \in Nat
    BY <1>4 DEF TypeOK
  <2> QED  BY <1>1, <1>3, <1>4, <1>5, <2>2, <2>3, <2>4, EndIInv
<1>6. CASE ~Commit(w)
  <2>1. work' = [work EXCEPT ![w].at = "read", ![w].seen = "confirmed"]
        /\ UNCHANGED <<status, lockVars, todo>>
    BY <1>6 DEF Follow
  <2>2. /\ work' \in [Sessions -> Active \cup {Idle}]
        /\ work'[w].at = "read" /\ work'[w].i = i /\ work'[w].t = t /\ work'[w].seen = "confirmed"
        /\ work'[w] # Idle /\ \A q \in Sessions \ {w} : work'[q] = work[q]
    <3>1. work \in [Sessions -> Active \cup {Idle}]  BY DEF TypeOK
    <3>2. work' = [work EXCEPT ![w].at = "read", ![w].seen = "confirmed"]  BY <2>1
    <3>3. w \in Sessions /\ work[w] \in Active  BY <1>3
    <3>4. /\ work' \in [Sessions -> Active \cup {Idle}]
          /\ work'[w].at = "read" /\ work'[w].i = work[w].i /\ work'[w].t = work[w].t
          /\ work'[w].seen = "confirmed" /\ work'[w] # Idle
          /\ \A q \in Sessions \ {w} : work'[q] = work[q]
      BY ONLY <3>1, <3>2, <3>3, ReadSession
    <3> QED  BY <1>1, <1>2, <3>4
  <2>3. TypeOK'  BY <1>4, <2>1, <2>2 DEF TypeOK, lockVars
  <2>4. Own(w, i)  BY <1>4, <2>1, <2>2 DEF Own, lockVars
  <2>5. SessionOK(w)'
    <3>1. w \notin Admins  BY DepositsAssumption
    <3> QED  BY <1>3, <1>4, <2>1, <2>2, <3>1
             DEF SessionOK, HashKnown, KeyHeld, MonitorOwns, RetryInVain, At, lockVars
  <2>6. DepositOK(i)'  BY <1>4, <2>1 DEF DepositOK
  <2> QED  BY <1>3, <1>4, <2>3, <2>4, <2>5, <2>6, OwnKeeps, SameCredits
<1> QED  BY <1>5, <1>6

\* A session that rolls back, or ends without having changed anything.
LEMMA RollbackIInv ==
    ASSUME IInv, NEW p \in Sessions, work[p] # Idle, Commit(p) \/ Rollback(p),
           UNCHANGED <<dbVars, expired, chain, manual>>, requests' \in Nat, failures' \in Nat
    PROVE  IInv'
<1> USE DEF IInv, dbVars
<1>1. PICK i \in I : i = work[p].i  BY WorkingIf
<1>2. DepositOK(i)'  BY DEF DepositOK
<1>3. chain' \in [T -> {"none", "seen", "final", "lost"}]  BY DEF TypeOK
<1> QED  BY <1>1, <1>2, <1>3, EndIInv

LEMMA FailIInv ==
    ASSUME IInv, NEW p \in Sessions, Victim(p) \/ Fail(p) \/ (p \in Workers /\ NotFound(p))
    PROVE  IInv'
<1>1. work[p] # Idle  BY DEF Victim, Fail, NotFound, Deadlocked, At, Idle
<1>2. Rollback(p) /\ UNCHANGED <<dbVars, expired, chain, manual>>  BY DEF Victim, Fail, NotFound
<1>3. requests' \in Nat /\ failures' \in Nat
  BY DEF Victim, Fail, NotFound, IInv, TypeOK
<1> QED  BY <1>1, <1>2, <1>3, RollbackIInv

\* A request that has read the row.
LEMMA BeginIInv ==
    ASSUME IInv, NEW r \in Admins, Begin(r), NEW i \in I,
           NEW label \in {"read", "retry", "failing"}, NEW t \in T \cup {None},
           NEW seen \in Statuses,
           work' = [work EXCEPT ![r] = [at |-> label, i |-> i, t |-> t, seen |-> seen]],
           UNCHANGED <<dbVars, expired, chain, lockVars, todo, failures>>,
           manual' \subseteq I, manual \subseteq manual',
           label \in {"read", "retry"} => t \in T,
           i \in manual' \/ (label = "retry" /\ seen = "confirmed" /\ status[i] = "confirmed"
                             /\ t = tx[i])
    PROVE  IInv'
<1> USE DEF IInv, dbVars, lockVars
<1>0. r \in Sessions /\ r \notin Workers  BY DepositsAssumption DEF Sessions
<1>1. work' \in [Sessions -> Active \cup {Idle}]
  BY <1>0 DEF TypeOK, Active
<1>2. TypeOK'  BY <1>1 DEF TypeOK, Begin
<1>3. /\ work'[r].at = label /\ work'[r].i = i /\ work'[r].t = t /\ work'[r].seen = seen
      /\ \A q \in Sessions \ {r} : work'[q] = work[q]
  BY <1>0 DEF TypeOK
<1>4. Own(r, i)  BY <1>3 DEF Own
<1>5. SessionOK(r)'
  BY <1>0, <1>3 DEF DepositOK, SessionOK, HashKnown, KeyHeld, MonitorOwns, RetryInVain, At
<1>6. DepositOK(i)'  BY DEF DepositOK
<1> QED  BY <1>0, <1>2, <1>4, <1>5, <1>6, OwnKeeps, SameCredits

LEMMA RequestIInv ==
    ASSUME IInv, NEW r \in Admins, NEW i \in I,
           Retry(r, i) \/ MarkFailed(r, i) \/ \E t \in T : Confirm(r, i, t)
    PROVE  IInv'
<1>0. status[i] \in Statuses /\ "confirmed" \in Statuses /\ manual \subseteq I
  BY DEF IInv, TypeOK, Statuses
<1>1. CASE Retry(r, i)
  <2>1. tx[i] \in T  BY <1>1 DEF Retry, IInv, DepositOK
  <2> QED  BY <1>0, <1>1, <2>1, BeginIInv DEF Retry
<1>2. CASE MarkFailed(r, i)  BY <1>0, <1>2, BeginIInv DEF MarkFailed
<1>3. CASE \E t \in T : Confirm(r, i, t)
  <2>1. PICK t \in T : Confirm(r, i, t)  BY <1>3
  <2>2. /\ Begin(r) /\ i \in manual' /\ manual' \subseteq I /\ manual \subseteq manual'
        /\ work' = [work EXCEPT ![r] = [at |-> "read", i |-> i, t |-> t, seen |-> status[i]]]
        /\ UNCHANGED <<dbVars, expired, chain, lockVars, todo, failures>>
    BY <1>0, <2>1 DEF Confirm
  <2> QED  BY <1>0, <2>2, BeginIInv
<1> QED  BY <1>1, <1>2, <1>3

LEMMA LockRetryIInv == ASSUME IInv, NEW r \in Admins, LockRetry(r) PROVE IInv'
<1> USE DEF IInv
<1>0. r \in Sessions /\ r \notin Workers  BY DepositsAssumption DEF Sessions
<1>1. PICK i \in I : i = work[r].i /\ work[r] \in Active /\ work[r] # Idle
  BY <1>0, Working DEF LockRetry, At
<1>2. UNCHANGED <<dbVars, expired, chain, requests, failures, manual>>  BY DEF LockRetry
<1>3. CASE Commit(r)
  <2>1. requests' \in Nat /\ failures' \in Nat  BY <1>2 DEF TypeOK
  <2> QED  BY <1>0, <1>1, <1>2, <1>3, <2>1, RollbackIInv
<1>4. CASE ~Commit(r)
  <2>1. /\ MayUpdate(r, i) /\ row' = [row EXCEPT ![i] = r] /\ Goto(r, "read")
        /\ UNCHANGED <<key, todo>> /\ Amount[work[r].t] # 0
    BY <1>1, <1>4 DEF LockRetry, MayLock
  <2>2. /\ work' \in [Sessions -> Active \cup {Idle}]
        /\ work'[r].at = "read" /\ work'[r].i = i /\ work'[r].t = work[r].t
        /\ work'[r].seen = work[r].seen /\ \A q \in Sessions \ {r} : work'[q] = work[q]
    <3>1. work \in [Sessions -> Active \cup {Idle}]  BY DEF TypeOK
    <3> QED  BY <1>0, <1>1, <2>1, <3>1, GotoSession
  <2>3. TypeOK'  BY <1>0, <1>2, <2>1, <2>2 DEF TypeOK, dbVars
  <2>4. Own(r, i)
    <3>1. \A q \in Sessions \ {r}, j \in I : row[j] = q => row'[j] = q
      BY <2>1, NoneOutside DEF MayUpdate, TypeOK
    <3> QED  BY <1>2, <2>1, <2>2, <3>1 DEF Own, dbVars
  <2>5. SessionOK(r)'
    <3>1. SessionOK(r) /\ At(r, "retry")  BY <1>0 DEF LockRetry
    <3> QED  BY <1>0, <1>1, <1>2, <2>1, <2>2, <3>1
             DEF SessionOK, HashKnown, KeyHeld, MonitorOwns, RetryInVain, At, dbVars
  <2>6. DepositOK(i)'  BY <1>2 DEF DepositOK, dbVars
  <2> QED  BY <1>0, <1>2, <2>3, <2>4, <2>5, <2>6, OwnKeeps, SameCredits DEF dbVars
<1> QED  BY <1>3, <1>4

LEMMA WriteFailedIInv == ASSUME IInv, NEW r \in Admins, WriteFailed(r) PROVE IInv'
<1> USE DEF IInv
<1>0. r \in Sessions  BY DEF Sessions
<1>1. PICK i \in I : i = work[r].i /\ work[r] # Idle  BY <1>0, Working DEF WriteFailed, At
<1>2. /\ Commit(r) /\ MayUpdate(r, i) /\ status' = [status EXCEPT ![i] = "failed"]
      /\ UNCHANGED <<tx, record, credits, expired, chain, requests, failures, manual>>
  BY <1>1 DEF WriteFailed, SetStatus
<1>3. i \in manual  BY <1>0, <1>1 DEF WriteFailed, At, SessionOK, RetryInVain
<1>4. DepositOK(i)'  BY <1>2, <1>3 DEF DepositOK, TypeOK
<1>5. chain' \in [T -> {"none", "seen", "final", "lost"}] /\ requests' \in Nat /\ failures' \in Nat
  BY <1>2 DEF TypeOK
<1>6. "failed" \in Statuses  BY DEF Statuses
<1> QED  BY <1>0, <1>1, <1>2, <1>3, <1>4, <1>5, <1>6, EndIInv

\* confirm_deposit, up to the insert.
LEMMA CheckIInv == ASSUME IInv, NEW p \in Sessions, Check(p) PROVE IInv'
<1> USE DEF IInv
<1>1. PICK i \in I : i = work[p].i /\ work[p] \in Active /\ work[p] # Idle
  BY Working DEF Check, At
<1>2. PICK t \in T : t = work[p].t  BY DEF Check, At, SessionOK, HashKnown
<1>3. /\ UNCHANGED <<tx, record, credits, expired, chain, requests, failures, manual>>
      /\ \/ Commit(p) /\ UNCHANGED status
         \/ MayUpdate(p, i) /\ status' = [status EXCEPT ![i] = "expired"] /\ Commit(p)
         \/ p \in Workers /\ record[t] # None /\ status' = [status EXCEPT ![i] = "confirmed"]
            /\ Commit(p)
         \/ record[t] = None /\ Goto(p, "checked") /\ UNCHANGED <<status, lockVars, todo>>
  BY <1>1, <1>2 DEF Check, Refused, SetStatus
<1>4. SessionOK(p) /\ At(p, "read")  BY DEF Check
<1>5. CASE Commit(p)
  <2>1. p \in Workers => MayUpdate(p, i) /\ status[i] = "detected" /\ tx[i] = t
    BY <1>1, <1>2, <1>4 DEF SessionOK, MonitorOwns, MayUpdate, At
  <2>2. p \in Admins => i \in manual \/ status[i] \in {"confirmed", "expired"}
    BY <1>1, <1>4 DEF SessionOK, RetryInVain
  <2>3. p \in Workers \/ p \in Admins  BY DEF Sessions
  <2>4. DepositOK(i)
    OBVIOUS
  <2>5. \/ UNCHANGED status
        \/ MayUpdate(p, i) /\ status' = [status EXCEPT ![i] = "expired"]
        \/ p \in Workers /\ record[t] # None /\ status' = [status EXCEPT ![i] = "confirmed"]
    BY <1>3
  <2>6. DepositOK(i)'
    BY <1>3, <2>1, <2>2, <2>3, <2>4, <2>5 DEF DepositOK, TypeOK
  <2>7. /\ status' = status \/ \E s \in Statuses : status' = [status EXCEPT ![i] = s]
        /\ MayUpdate(p, i) \/ UNCHANGED <<status, tx>>
    BY <1>3, <2>1, <2>5 DEF Statuses
  <2>8. status[i] \in {"confirmed", "expired"} => status'[i] \in {"confirmed", "expired"}
    BY <2>5 DEF TypeOK
  <2>9. chain' \in [T -> {"none", "seen", "final", "lost"}] /\ requests' \in Nat /\ failures' \in Nat
    BY <1>3 DEF TypeOK
  <2> QED  BY <1>1, <1>3, <1>5, <2>6, <2>7, <2>8, <2>9, EndIInv
<1>6. CASE ~Commit(p)
  <2>1. record[t] = None /\ Goto(p, "checked") /\ UNCHANGED <<status, lockVars, todo>>
    BY <1>3, <1>6
  <2>2. /\ work' \in [Sessions -> Active \cup {Idle}]
        /\ work'[p].at = "checked" /\ work'[p].i = i /\ work'[p].t = t
        /\ work'[p].seen = work[p].seen /\ \A q \in Sessions \ {p} : work'[q] = work[q]
    <3>1. work \in [Sessions -> Active \cup {Idle}]  BY DEF TypeOK
    <3> QED  BY <1>1, <1>2, <2>1, <3>1, GotoSession
  <2>3. TypeOK'  BY <1>3, <2>1, <2>2 DEF TypeOK, lockVars
  <2>4. Own(p, i)  BY <1>3, <2>1, <2>2 DEF Own, lockVars
  <2>5. SessionOK(p)'
    <3>0. p \in Workers \/ p \in Admins  BY DEF Sessions
    <3>1. p \in Admins => i \in manual
      BY <1>1, <1>2, <1>4, <2>1 DEF SessionOK, RetryInVain, At
    <3>2. MonitorOwns(p)'
      BY <1>1, <1>2, <1>3, <1>4, <2>1, <2>2 DEF SessionOK, MonitorOwns, At, lockVars
    <3>3. RetryInVain(p)'  BY <1>3, <2>2, <3>1 DEF RetryInVain
    <3>4. HashKnown(p)' /\ KeyHeld(p)'  BY <2>2 DEF HashKnown, KeyHeld, At
    <3> QED  BY <3>2, <3>3, <3>4 DEF SessionOK
  <2>6. DepositOK(i)'  BY <1>3, <2>1 DEF DepositOK
  <2> QED  BY <1>3, <2>3, <2>4, <2>5, <2>6, OwnKeeps, SameCredits
<1> QED  BY <1>5, <1>6

LEMMA InsertIInv == ASSUME IInv, NEW p \in Sessions, Insert(p) PROVE IInv'
<1> USE DEF IInv
<1>1. PICK i \in I : i = work[p].i /\ work[p] \in Active /\ work[p] # Idle
  BY Working DEF Insert, At
<1>2. PICK t \in T : t = work[p].t  BY DEF Insert, At, SessionOK, HashKnown
<1>3. /\ UNCHANGED <<dbVars, expired, chain, requests, failures, manual>> /\ key[t] = None
      /\ \/ Rollback(p)
         \/ /\ record[t] = None /\ key' = [key EXCEPT ![t] = p] /\ Goto(p, "recorded")
            /\ UNCHANGED <<row, todo>>
  BY <1>2 DEF Insert
<1>4. CASE Rollback(p)
  <2>1. requests' \in Nat /\ failures' \in Nat  BY <1>3 DEF TypeOK
  <2> QED  BY <1>1, <1>3, <1>4, <2>1, RollbackIInv
<1>5. CASE ~Rollback(p)
  <2>1. /\ record[t] = None /\ key' = [key EXCEPT ![t] = p] /\ Goto(p, "recorded")
        /\ UNCHANGED <<row, todo>>
    BY <1>3, <1>5
  <2>2. /\ work' \in [Sessions -> Active \cup {Idle}]
        /\ work'[p].at = "recorded" /\ work'[p].i = i /\ work'[p].t = t
        /\ work'[p].seen = work[p].seen /\ \A q \in Sessions \ {p} : work'[q] = work[q]
    <3>1. work \in [Sessions -> Active \cup {Idle}]  BY DEF TypeOK
    <3> QED  BY <1>1, <1>2, <2>1, <3>1, GotoSession
  <2>3. TypeOK'  BY <1>3, <2>1, <2>2 DEF TypeOK, dbVars
  <2>4. Own(p, i)
    <3>1. \A q \in Sessions \ {p}, u \in T : key[u] = q => key'[u] = q
      BY <1>3, <2>1, NoneOutside DEF TypeOK
    <3> QED  BY <1>3, <2>1, <2>2, <3>1 DEF Own, dbVars
  <2>5. SessionOK(p)'
    <3>0. SessionOK(p) /\ At(p, "checked")  BY DEF Insert
    <3>1. MonitorOwns(p)'
      BY <1>1, <1>2, <1>3, <2>1, <2>2, <3>0 DEF SessionOK, MonitorOwns, At, dbVars
    <3>2. RetryInVain(p)'
      BY <1>1, <1>3, <2>2, <3>0 DEF SessionOK, RetryInVain, At
    <3>3. KeyHeld(p)'  BY <1>3, <2>1, <2>2 DEF KeyHeld, TypeOK, dbVars
    <3> QED  BY <2>2, <3>1, <3>2, <3>3 DEF SessionOK, HashKnown
  <2>6. DepositOK(i)'  BY <1>3 DEF DepositOK, dbVars
  <2> QED  BY <1>3, <2>3, <2>4, <2>5, <2>6, OwnKeeps, SameCredits DEF dbVars
<1> QED  BY <1>4, <1>5

LEMMA SettleIInv == ASSUME IInv, NEW p \in Sessions, Settle(p) PROVE IInv'
<1> USE DEF IInv
<1>1. PICK i \in I : i = work[p].i /\ work[p] # Idle  BY Working DEF Settle, At
<1>2. PICK t \in T : t = work[p].t  BY DEF Settle, At, SessionOK, HashKnown
<1>3. /\ UNCHANGED <<expired, chain, requests, failures, manual>> /\ MayUpdate(p, i)
      /\ \/ /\ status' = [status EXCEPT ![i] = "settled"] /\ tx' = [tx EXCEPT ![i] = t]
            /\ record' = [record EXCEPT ![t] = i] /\ credits' = [credits EXCEPT ![t] = @ + 1]
            /\ Commit(p)
         \/ Rollback(p) /\ UNCHANGED dbVars
  BY <1>1, <1>2 DEF Settle, SetStatus
<1>4. CASE UNCHANGED dbVars
  <2>1. requests' \in Nat /\ failures' \in Nat  BY <1>3 DEF TypeOK
  <2> QED  BY <1>1, <1>3, <1>4, <2>1, RollbackIInv
<1>5. CASE ~UNCHANGED dbVars
  <2>1. /\ status' = [status EXCEPT ![i] = "settled"] /\ tx' = [tx EXCEPT ![i] = t]
        /\ record' = [record EXCEPT ![t] = i] /\ credits' = [credits EXCEPT ![t] = @ + 1]
        /\ Commit(p)
    BY <1>3, <1>5
  <2>2. key[t] = p /\ record[t] = None /\ credits[t] = 0
    BY <1>2 DEF Settle, SessionOK, KeyHeld, CreditedOnce
  <2>3. status[i] \in {"confirmed", "expired"} => i \in manual
    <3>1. p \in Workers \/ p \in Admins  BY DEF Sessions
    <3>2. CASE p \in Workers  BY <1>1, <3>2 DEF Settle, SessionOK, MonitorOwns, At
    <3>3. CASE p \in Admins  BY <1>1, <3>3 DEF Settle, SessionOK, RetryInVain, At
    <3> QED  BY <3>1, <3>2, <3>3
  <2>4. TypeOK'
    <3>1. "settled" \in Statuses  BY DEF Statuses
    <3> QED  BY <1>3, <2>1, <3>1, UnlockKeeps DEF TypeOK
  <2>5. Own(p, i)
    <3>1. \A j \in I \ {i} : status'[j] = status[j] /\ tx'[j] = tx[j]  BY <2>1 DEF TypeOK
    <3>2. \A u \in T : record'[u] # record[u] => u = t /\ record'[u] = i  BY <2>1 DEF TypeOK
    <3> QED  BY <1>3, <2>1, <2>2, <2>3, <3>1, <3>2, UnlockKeeps DEF Own
  <2>6. SessionOK(p)'  BY <2>1, UnlockKeeps, IdleOK
  <2>7. DepositOK(i)'  BY <2>1 DEF DepositOK, TypeOK
  <2>8. CreditedOnce'
    <3> SUFFICES ASSUME NEW u \in T PROVE credits'[u] = IF record'[u] = None THEN 0 ELSE 1
      BY DEF CreditedOnce
    <3>1. CASE u = t  BY <2>1, <2>2, <3>1, NoneOutside DEF TypeOK
    <3>2. CASE u # t  BY <2>1, <3>2 DEF TypeOK, CreditedOnce
    <3> QED  BY <3>1, <3>2
  <2> QED  BY <2>4, <2>5, <2>6, <2>7, <2>8, OwnKeeps
<1> QED  BY <1>4, <1>5

LEMMA NextIInv == IInv /\ [Next]_vars => IInv'
<1> SUFFICES ASSUME IInv, [Next]_vars PROVE IInv'  OBVIOUS
<1>1. CASE \E i \in I : Initiate(i)  BY <1>1, InitiateIInv
<1>2. CASE \/ \E i \in I : Expire(i)
           \/ \E t \in T : Pay(t) \/ Mine(t) \/ Drop(t)
           \/ \E w \in Workers : Scan(w)
           \/ UNCHANGED vars
  BY <1>2, WorldIInv
<1>3. CASE \E w \in Workers : Take(w) \/ Detect(w) \/ Follow(w)
  BY <1>3, TakeIInv, DetectIInv, FollowIInv
<1>4. CASE \E w \in Workers : NotFound(w)
  <2>1. PICK w \in Workers : NotFound(w)  BY <1>4
  <2>2. w \in Sessions  BY DEF Sessions
  <2> QED  BY <2>1, <2>2, FailIInv
<1>5. CASE \E r \in Admins : RequestStep(r)
  BY <1>5, LockRetryIInv, WriteFailedIInv DEF RequestStep
<1>6. CASE \E r \in Admins, i \in I : Retry(r, i) \/ MarkFailed(r, i)  BY <1>6, RequestIInv
<1>7. CASE \E r \in Admins, i \in I, t \in T : Confirm(r, i, t)  BY <1>7, RequestIInv
<1>8. CASE \E p \in Sessions : SessionStep(p) \/ Fail(p)
  BY <1>8, CheckIInv, InsertIInv, SettleIInv, FailIInv DEF SessionStep
<1> QED  BY <1>1, <1>2, <1>3, <1>4, <1>5, <1>6, <1>7, <1>8 DEF Next, MonitorStep

\* The inductive invariant of Deposits: what a session that inserts or settles
\* found out under its lock or its key stays true until its commit.
THEOREM Invariance == Spec => []IInv
<1> QED  BY InitIInv, NextIInv, PTL DEF Spec

\* Every state is well-typed: each handler and each cycle of the monitor writes a
\* status and hashes of deposits there are.
THEOREM TypeCorrect == Spec => []TypeOK
<1>1. IInv => TypeOK  BY DEF IInv
<1> QED  BY <1>1, Invariance, PTL

\* However many monitors, retries and confirmations by hand overlap, fail or are
\* chosen as a deadlock's victim, a transfer is credited when it is recorded, and
\* once: of the sessions that found it unrecorded one at a time has inserted it.
THEOREM CreditsAudit == Spec => []CreditedOnce
<1>1. IInv => CreditedOnce  BY DEF IInv
<1> QED  BY <1>1, Invariance, PTL

\* A deposit is left confirmed only when its transfer has no value or was
\* recorded for another deposit or by hand: the row lock of the monitor keeps
\* what it found out true until it writes the status.
THEOREM ConfirmedIsFinal == Spec => []ConfirmedWasRefused
<1>1. IInv => ConfirmedWasRefused  BY DEF IInv, DepositOK, ConfirmedWasRefused
<1> QED  BY <1>1, Invariance, PTL

-----------------------------------------------------------------------------
(* The life of a deposit that nobody touches by hand.                      *)

Records(i) == {t \in T : record[t] = i}

\* What a step does to deposit i.
Lives(i) ==
    \/ status'[i] = status[i] /\ Records(i)' = Records(i)
    \/ /\ <<status[i], status'[i]>> \in
             {<<"none", "pending">>, <<"pending", "detected">>, <<"pending", "failed">>,
              <<"detected", "confirmed">>, <<"detected", "expired">>, <<"confirmed", "expired">>}
       /\ Records(i)' = Records(i)
    \/ /\ status[i] = "detected" /\ status'[i] = "settled"
       /\ Records(i) = {} /\ \E t \in T : Records(i)' = {t}

\* Only a request of an administrator that ends with this step unsettles a deposit.
Unsettled ==
    \A i \in I : status[i] = "settled" /\ status'[i] # "settled" =>
       \E r \in Admins : work[r].at \in {"failing", "read"} /\ work[r].i = i /\ work'[r] = Idle

LEMMA LivesIsLife ==
    ASSUME NEW i \in I, Lives(i)
    PROVE  Life(i)!Next \/ UNCHANGED Life(i)!vars
<1>1. Cardinality({}) = 0 /\ \A t : Cardinality({t}) = 1  BY FS_EmptySet, FS_Singleton
<1>2. CASE status'[i] = status[i] /\ Records(i)' = Records(i)
  BY <1>2 DEF Records, Life!vars
<1>3. CASE /\ <<status[i], status'[i]>> \in
             {<<"none", "pending">>, <<"pending", "detected">>, <<"pending", "failed">>,
              <<"detected", "confirmed">>, <<"detected", "expired">>, <<"confirmed", "expired">>}
           /\ Records(i)' = Records(i)
  BY <1>3 DEF Records, Life!Next, Life!Move, Life!Uncredited
<1>4. CASE /\ status[i] = "detected" /\ status'[i] = "settled"
           /\ Records(i) = {} /\ \E t \in T : Records(i)' = {t}
  <2>1. Cardinality(Records(i)) = 0 /\ Cardinality(Records(i)') = 1  BY <1>1, <1>4
  <2> QED  BY <1>4, <2>1 DEF Records, Life!Next, Life!Settle
<1> QED  BY <1>2, <1>3, <1>4 DEF Lives

LEMMA SameRecords == UNCHANGED record => \A i \in I : Records(i)' = Records(i)
BY DEF Records

LEMMA SameLives ==
    ASSUME UNCHANGED <<status, record>>
    PROVE  (\A i \in I : Lives(i)) /\ Unsettled
BY SameRecords DEF Lives, Unsettled

\* A step that writes the status of deposit i, and no record.
LEMMA WriteLives ==
    ASSUME TypeOK, NEW i \in I, NEW s, status' = [status EXCEPT ![i] = s], UNCHANGED record,
           \/ i \in manual'
           \/ status[i] = s
           \/ <<status[i], s>> \in
                {<<"none", "pending">>, <<"pending", "detected">>, <<"pending", "failed">>,
                 <<"detected", "confirmed">>, <<"detected", "expired">>, <<"confirmed", "expired">>},
           \/ status[i] # "settled"
           \/ \E r \in Admins : work[r].at \in {"failing", "read"} /\ work[r].i = i /\ work'[r] = Idle
    PROVE  (\A j \in I \ manual' : Lives(j)) /\ Unsettled
<1>1. status'[i] = s /\ \A j \in I \ {i} : status'[j] = status[j]  BY DEF TypeOK
<1> QED  BY <1>1, SameRecords DEF Lives, Unsettled

LEMMA InitiateLives ==
    ASSUME IInv, NEW i \in I, Initiate(i)
    PROVE  (\A j \in I \ manual' : Lives(j)) /\ Unsettled
BY WriteLives DEF IInv, Initiate, SetStatus

LEMMA MonitorLives ==
    ASSUME IInv, NEW w \in Workers, Detect(w) \/ Follow(w)
    PROVE  (\A j \in I \ manual' : Lives(j)) /\ Unsettled
<1> USE DEF IInv
<1>1. PICK i \in I : i = work[w].i  BY MonitorKnows DEF Detect, Follow, At
<1>2. UNCHANGED record  BY DEF Detect, Follow
<1>3. CASE Detect(w)
  <2>1. status[i] = "pending"  BY <1>1, <1>3, MonitorKnows DEF Detect, At, MonitorOwns
  <2>2. \/ UNCHANGED status
        \/ \E s \in {"failed", "detected"} : status' = [status EXCEPT ![i] = s]
    BY <1>1, <1>3 DEF Detect, SetStatus
  <2> QED  BY <1>2, <2>1, <2>2, WriteLives, SameLives
<1>4. CASE Follow(w)
  <2>1. status[i] = "detected"  BY <1>1, <1>4, MonitorKnows DEF Follow, At, MonitorOwns
  <2>2. UNCHANGED status \/ status' = [status EXCEPT ![i] = "confirmed"]
    BY <1>1, <1>4 DEF Follow, SetStatus
  <2> QED  BY <1>2, <2>1, <2>2, WriteLives, SameLives
<1> QED  BY <1>3, <1>4

LEMMA WriteFailedLives ==
    ASSUME IInv, NEW r \in Admins, WriteFailed(r)
    PROVE  (\A j \in I \ manual' : Lives(j)) /\ Unsettled
<1> USE DEF IInv
<1>0. r \in Sessions  BY DEF Sessions
<1>1. PICK i \in I : i = work[r].i /\ work[r] # Idle  BY <1>0, Working DEF WriteFailed, At
<1>2. /\ Commit(r) /\ status' = [status EXCEPT ![i] = "failed"] /\ UNCHANGED <<record, manual>>
  BY <1>1 DEF WriteFailed, SetStatus
<1>3. i \in manual'  BY <1>0, <1>1, <1>2 DEF WriteFailed, At, SessionOK, RetryInVain
<1>4. work'[r] = Idle /\ work[r].at = "failing"
  BY <1>0, <1>2, UnlockKeeps DEF WriteFailed, At
<1> QED  BY <1>1, <1>2, <1>3, <1>4, WriteLives

LEMMA CheckLives ==
    ASSUME IInv, NEW p \in Sessions, Check(p)
    PROVE  (\A j \in I \ manual' : Lives(j)) /\ Unsettled
<1> USE DEF IInv
<1>1. PICK i \in I : i = work[p].i /\ work[p] # Idle  BY Working DEF Check, At
<1>2. /\ UNCHANGED <<record, manual>>
      /\ \/ UNCHANGED status
         \/ status' = [status EXCEPT ![i] = "expired"] /\ Commit(p)
         \/ p \in Workers /\ status' = [status EXCEPT ![i] = "confirmed"] /\ Commit(p)
  BY <1>1 DEF Check, Refused, SetStatus
<1>3. SessionOK(p) /\ At(p, "read")  BY DEF Check
<1>4. CASE UNCHANGED status  BY <1>2, <1>4, SameLives
<1>5. CASE p \in Workers /\ ~UNCHANGED status
  <2>1. status[i] = "detected"  BY <1>1, <1>3, <1>5 DEF SessionOK, MonitorOwns, At
  <2>2. \E s \in {"expired", "confirmed"} : status' = [status EXCEPT ![i] = s]  BY <1>2, <1>5
  <2> QED  BY <1>2, <2>1, <2>2, WriteLives
<1>6. CASE p \in Admins \ Workers /\ ~UNCHANGED status
  <2>1. i \in manual \/ status[i] \in {"confirmed", "expired"}
    BY <1>1, <1>3, <1>6 DEF SessionOK, RetryInVain
  <2>2. status' = [status EXCEPT ![i] = "expired"] /\ Commit(p)  BY <1>2, <1>6
  <2>3. work'[p] = Idle /\ work[p].at = "read" /\ work[p].i = i
    BY <1>1, <1>3, <2>2, UnlockKeeps DEF At
  <2> QED  BY <1>2, <1>6, <2>1, <2>2, <2>3, WriteLives
<1> QED  BY <1>4, <1>5, <1>6 DEF Sessions

\* The settlement of a deposit nobody touches by hand is its first record.
LEMMA SettleLives ==
    ASSUME IInv, NEW p \in Sessions, Settle(p)
    PROVE  (\A j \in I \ manual' : Lives(j)) /\ Unsettled
<1> USE DEF IInv
<1>1. PICK i \in I : i = work[p].i /\ work[p] # Idle  BY Working DEF Settle, At
<1>2. PICK t \in T : t = work[p].t  BY DEF Settle, At, SessionOK, HashKnown
<1>3. CASE UNCHANGED dbVars  BY <1>3, SameLives DEF dbVars
<1>4. CASE ~UNCHANGED dbVars
  <2>1. /\ status' = [status EXCEPT ![i] = "settled"] /\ record' = [record EXCEPT ![t] = i]
        /\ UNCHANGED manual
    BY <1>1, <1>2, <1>4 DEF Settle, SetStatus
  <2>2. record[t] = None  BY <1>2 DEF Settle, SessionOK, KeyHeld
  <2>3. status'[i] = "settled" /\ \A j \in I \ {i} : status'[j] = status[j]  BY <2>1 DEF TypeOK
  <2>4. \A u \in T : record'[u] = IF u = t THEN i ELSE record[u]  BY <2>1 DEF TypeOK
  <2>5. \A j \in I \ {i} : Records(j)' = Records(j)  BY <2>2, <2>4, NoneOutside DEF Records
  <2>6. ASSUME i \notin manual' PROVE Lives(i)
    <3>1. p \in Workers  BY <1>1, <2>1, <2>6 DEF Settle, SessionOK, RetryInVain, At, Sessions
    <3>2. status[i] = "detected"  BY <1>1, <3>1 DEF Settle, SessionOK, MonitorOwns, At
    <3>3. Records(i) = {}  BY <2>1, <2>6, <3>2 DEF Records, DepositOK
    <3>4. Records(i)' = {t}  BY <2>4, <3>3 DEF Records
    <3> QED  BY <2>3, <3>2, <3>3, <3>4 DEF Lives
  <2>7. \A j \in I \ {i} : Lives(j)  BY <2>3, <2>5 DEF Lives
  <2> QED  BY <2>3, <2>6, <2>7 DEF Unsettled
<1> QED  BY <1>3, <1>4

LEMMA NextLives ==
    ASSUME IInv, [Next]_vars
    PROVE  (\A i \in I \ manual' : Lives(i)) /\ Unsettled
<1>1. CASE \E i \in I : Initiate(i)  BY <1>1, InitiateLives
<1>2. CASE \E w \in Workers : Detect(w) \/ Follow(w)  BY <1>2, MonitorLives
<1>3. CASE \E r \in Admins : WriteFailed(r)  BY <1>3, WriteFailedLives
<1>4. CASE \E p \in Sessions : Check(p)  BY <1>4, CheckLives
<1>5. CASE \E p \in Sessions : Settle(p)  BY <1>5, SettleLives
<1>6. CASE \/ \E i \in I : Expire(i)
           \/ \E t \in T : Pay(t) \/ Mine(t) \/ Drop(t)
           \/ \E w \in Workers : Scan(w) \/ Take(w) \/ NotFound(w)
           \/ \E r \in Admins : LockRetry(r)
           \/ \E r \in Admins, i \in I : Retry(r, i) \/ MarkFailed(r, i)
           \/ \E r \in Admins, i \in I, t \in T : Confirm(r, i, t)
           \/ \E p \in Sessions : Insert(p) \/ Victim(p) \/ Fail(p)
           \/ UNCHANGED vars
  <2>1. UNCHANGED <<status, record>>
    BY <1>6 DEF Expire, Pay, Mine, Drop, Scan, Take, NotFound, LockRetry, Retry, MarkFailed,
       Confirm, Insert, Victim, Fail, vars, dbVars
  <2> QED  BY <2>1, SameLives
<1> QED  BY <1>1, <1>2, <1>3, <1>4, <1>5, <1>6
         DEF Next, MonitorStep, RequestStep, SessionStep

\* Every step implements DepositLife for the deposits nobody touches by hand:
\* monitors that overlap and retries credit a deposit once, at its settlement,
\* and none takes back what has ended.
THEOREM LivesRefine == Spec => UntouchedDepositsLive
<1>1. IInv /\ [Next]_vars =>
        [/\ \A i \in I \ manual' : Life(i)!Next \/ UNCHANGED Life(i)!vars
         /\ \A i \in I : status[i] = "settled" /\ status'[i] # "settled" =>
               \E r \in Admins :
                   work[r].at \in {"failing", "read"} /\ work[r].i = i /\ work'[r] = Idle]_vars
  BY NextLives, LivesIsLife DEF Unsettled
<1> QED  BY <1>1, Invariance, PTL DEF Spec, UntouchedDepositsLive

=============================================================================
