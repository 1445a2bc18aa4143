-------------------------- MODULE Withdrawals_proofs ----------------------------
(***************************************************************************)
(* What TLAPS proves of Withdrawals, for any number of requests, sessions, *)
(* sends and retries and any amounts.  Whatever races, crashes or is lost: *)
(* only a debit is refunded, and once; what is reported as completed was   *)
(* paid.  Of a withdrawal that is not in doubt: it is sent at most once.   *)
(* As long as none is in doubt: the funds are where the status says, and   *)
(* every step keeps the promise made to the user.                          *)
(*                                                                         *)
(* And, at the end, of what SendService and Monitoring say of the service  *)
(* that sends them: the breaker keeps calls as far apart as it promises,   *)
(* and the heartbeat of the monitoring worker stands for a cycle that has  *)
(* gone through all of its checks.                                         *)
(***************************************************************************)
EXTENDS Withdrawals, Monitoring, WalletService_proofs

-----------------------------------------------------------------------------
(* What holds of every withdrawal.                                         *)

\* A hash, in the row or in a session, is that of a transaction of its own
\* withdrawal.
HashesOwn ==
    /\ \A w \in W : tx[w] # 0 => tx[w] \in Sends(w)
    /\ \A s \in Sessions :
          session[s].at \in {"sent", "undebited"} => session[s].tx \in Sends(session[s].w)

\* From the checks to the look at the limits, the row is locked.
ChecksLocked == \A s \in Sessions : At(s, "check") => rowLock[session[s].w] = s

\* What the cycle of the monitor has found out is still so when it commits: the
\* hashes of the scan, the confirmations, and the debits it will refund.
CycleSound ==
    monitor # Sleep =>
        /\ \A w \in W : monitor.seen[w] # 0 => monitor.seen[w] \in Sends(w)
        /\ \A w \in monitor.todo : monitor.seen[w] # 0 /\ monitor.verdict[w] = "none"
        /\ \A w \in W : monitor.verdict[w] # "none" => rowLock[w] = Monitor
        /\ \A w \in W : monitor.verdict[w] = "completed"
                          => \E i \in Sends(w) : chain[i].state = "confirmed"
        /\ \A w \in monitor.refund : /\ monitor.verdict[w] = "failed"
                                     /\ entries[w].refund = 0 /\ entries[w].debit >= 1

IInv ==
    TypeOK /\ HashesOwn /\ ChecksLocked /\ CycleSound /\ RefundsFollowDebits /\ CompletedWasPaid

-----------------------------------------------------------------------------
(* What holds of a withdrawal that is not in doubt.                        *)

\* An execution of w by s holds the row from the checks to the commit, finds w
\* approved until then, and has sent nothing but what it says.
Alone(s, w) ==
    Executing(s, w) =>
        /\ rowLock[w] = s /\ status[w] = "approved"
        /\ Sends(w) = IF At(s, "sent") THEN {session[s].tx} ELSE {}

SendsMatch(w) ==
    /\ status[w] \in {"none", "pending", "cancelled", "rejected"} => Sends(w) = {}
    /\ status[w] = "approved" =>
          Sends(w) = {} \/ \E s \in Sessions : At(s, "sent") /\ session[s].w = w
    /\ status[w] \in {"processing", "completed"} => Sends(w) = {tx[w]}
    /\ \A i, j \in Sends(w) : i = j

RetriesDoubted ==
    \A s \in Sessions : session[s].at \in {"undebited", "retried"} => session[s].w \in doubt

TraceInv ==
    /\ \A w \in W \ doubt : SendsMatch(w) /\ \A s \in Sessions : Alone(s, w)
    /\ RetriesDoubted

-----------------------------------------------------------------------------
(* What holds as long as none is in doubt.                                 *)

Held == {w \in W : status[w] \in {"pending", "approved"}}

\* The reservation is what the pending and approved withdrawals ask for, and
\* what the monitor is about to commit fits the withdrawals as they are.
Books ==
    doubt = {} =>
        /\ wallet.reserved = SumFunctionOnSet(Amount, Held)
        /\ monitor # Sleep =>
              \A w \in W :
                 /\ w \in monitor.todo \/ monitor.verdict[w] # "none" => status[w] = "processing"
                 /\ monitor.verdict[w] = "failed" => w \in monitor.refund

FundsInv == Books /\ FundsFollowStatus

-----------------------------------------------------------------------------
(* Frames: what a step has to show of the state it does not work on.       *)

ChainGrows ==
    /\ \A w \in W : Sends(w) \subseteq Sends(w)'
    /\ \A i \in DOMAIN chain : chain[i].state = "confirmed" => chain'[i].state = "confirmed"

BooksKept ==
    /\ wallet' \in Row
    /\ entries' \in [W -> [Kinds -> Nat]]
    /\ \A w \in W : /\ entries'[w].refund = entries[w].refund
                    /\ entries'[w].debit >= entries[w].debit

\* A step of a handler, of the chain or of the clock.
OutsideMonitor ==
    /\ UNCHANGED monitor /\ ChainGrows /\ BooksKept
    /\ \A w \in W : rowLock[w] = Monitor => rowLock'[w] = Monitor
    /\ \A w \in W : status'[w] = "completed" => status[w] = "completed"

LEMMA OutsideKeeps ==
    ASSUME IInv, OutsideMonitor
    PROVE  CycleSound' /\ RefundsFollowDebits' /\ CompletedWasPaid'
<1> USE DEF IInv, OutsideMonitor
<1>1. CycleSound'
  <2> SUFFICES ASSUME monitor # Sleep
               PROVE  CycleSound'
    BY DEF CycleSound
  <2>1. monitor \in Cycle  BY DEF TypeOK
  <2>2. ASSUME NEW w \in W, monitor.verdict[w] = "completed"
        PROVE  \E i \in Sends(w)' : chain'[i].state = "confirmed"
    BY <2>2 DEF CycleSound, ChainGrows, Sends
  <2>3. \A w \in monitor.refund : entries'[w].refund = 0 /\ entries'[w].debit >= 1
    <3> TAKE w \in monitor.refund
    <3>1. w \in W  BY <2>1 DEF Cycle
    <3>2. entries[w].refund = 0 /\ entries[w].debit >= 1  BY DEF CycleSound
    <3>3. entries'[w].refund = entries[w].refund /\ entries'[w].debit >= entries[w].debit
      BY <3>1 DEF BooksKept
    <3>4. entries[w].debit \in Nat /\ entries'[w].debit \in Nat
      BY <3>1 DEF TypeOK, BooksKept, Kinds
    <3> QED  BY <3>2, <3>3, <3>4
  <2> QED  BY <2>2, <2>3 DEF CycleSound, ChainGrows
<1>2. RefundsFollowDebits'
  <2> SUFFICES ASSUME NEW w \in W
               PROVE  entries'[w].refund <= 1 /\ entries'[w].refund <= entries'[w].debit
    BY DEF RefundsFollowDebits
  <2>1. entries[w].refund \in Nat /\ entries[w].debit \in Nat /\ entries'[w].debit \in Nat
    BY DEF TypeOK, BooksKept, Kinds
  <2> QED  BY <2>1 DEF RefundsFollowDebits, BooksKept
<1>3. CompletedWasPaid'
  BY DEF CompletedWasPaid, ChainGrows, Sends
<1> QED  BY <1>1, <1>2, <1>3

LEMMA SameChain == UNCHANGED chain => ChainGrows
BY DEF ChainGrows, Sends

LEMMA SameBooks == TypeOK /\ UNCHANGED <<wallet, entries>> => BooksKept
<1> SUFFICES ASSUME TypeOK, UNCHANGED <<wallet, entries>> PROVE BooksKept  OBVIOUS
<1>1. \A w \in W : entries[w].debit \in Nat  BY DEF TypeOK, Kinds
<1> QED  BY <1>1 DEF TypeOK, BooksKept

\* An operation of the wallet that is not refused, with its entry.
LEMMA BookKeeps ==
    ASSUME TypeOK, NEW w \in W, NEW kind \in {"lock", "unlock", "debit"},
           Can(kind, w), Book(kind, w)
    PROVE  BooksKept
<1> DEFINE call == [op |-> IF kind = "debit" THEN "deduct" ELSE kind, amount |-> Amount[w]]
<1>1. call \in Call  BY WithdrawalsAssumption DEF Call, Ops
<1>2. Apply(wallet, call) \in Row  BY <1>1, ApplyRow DEF TypeOK, Can
<1>3. wallet' = Apply(wallet, call) /\ entries' = [entries EXCEPT ![w][kind] = @ + 1]
  BY DEF Book
<1> HIDE DEF call
<1>4. kind \in Kinds /\ kind # "refund" /\ "debit" \in Kinds /\ "refund" \in Kinds  BY DEF Kinds
<1>5. entries \in [W -> [Kinds -> Nat]]  BY DEF TypeOK
<1>6. entries' \in [W -> [Kinds -> Nat]]  BY <1>3, <1>4, <1>5
<1>7. ASSUME NEW v \in W
      PROVE  entries'[v].refund = entries[v].refund /\ entries'[v].debit >= entries[v].debit
  <2>1. entries[v].debit \in Nat  BY <1>4, <1>5
  <2>2. entries'[v].refund = entries[v].refund  BY <1>3, <1>4, <1>5
  <2>3. entries'[v].debit = entries[v].debit \/ entries'[v].debit = entries[v].debit + 1
    BY <1>3, <1>4, <1>5
  <2> QED  BY <2>1, <2>2, <2>3
<1> QED  BY <1>2, <1>3, <1>6, <1>7 DEF BooksKept

LEMMA TryUnlockKeeps ==
    ASSUME TypeOK, NEW w \in W, TryUnlock(w)
    PROVE  BooksKept
BY BookKeeps, SameBooks DEF TryUnlock

-----------------------------------------------------------------------------
(* Every step keeps IInv.                                                  *)

LEMMA InitIInv == Init => IInv
<1> SUFFICES ASSUME Init PROVE IInv  OBVIOUS
<1> USE DEF Init
<1>1. TypeOK
  <2>1. Len(chain) = 0 /\ chain \in Seq(Transaction)  OBVIOUS
  <2> QED  BY <2>1, WithdrawalsAssumption DEF TypeOK, Statuses, Row
<1>2. HashesOwn /\ ChecksLocked /\ CycleSound  BY DEF HashesOwn, ChecksLocked, CycleSound, At, Idle
<1>3. RefundsFollowDebits /\ CompletedWasPaid  BY DEF RefundsFollowDebits, CompletedWasPaid, Kinds
<1> QED  BY <1>1, <1>2, <1>3 DEF IInv

LEMMA InitiateIInv ==
    ASSUME IInv, NEW w \in W, Initiate(w)
    PROVE  IInv'
<1> USE DEF IInv, Initiate
<1>0. BooksKept  BY BookKeeps
<1>1. TypeOK'  BY <1>0 DEF TypeOK, BooksKept, Statuses, Cycle
<1>2. HashesOwn' /\ ChecksLocked'  BY DEF HashesOwn, ChecksLocked, Sends, At
<1>3. OutsideMonitor  BY <1>0, SameChain DEF OutsideMonitor, TypeOK
<1> QED  BY <1>1, <1>2, <1>3, OutsideKeeps

LEMMA ReadPendingIInv ==
    ASSUME IInv, NEW s \in Sessions, NEW w \in W,
           NEW label \in {"cancel", "approve", "reject"}, ReadPending(s, w, label)
    PROVE  IInv'
<1> USE DEF IInv, ReadPending, dbVars, Start
<1>1. TypeOK'  BY DEF TypeOK, Active, Cycle
<1>2. HashesOwn' /\ ChecksLocked'  BY DEF TypeOK, HashesOwn, ChecksLocked, Sends, At
<1>3. OutsideMonitor  BY SameBooks, SameChain DEF OutsideMonitor
<1> QED  BY <1>1, <1>2, <1>3, OutsideKeeps

\* What a session that ends leaves: its own locks are free, the others stay.
LEMMA EndKeeps ==
    ASSUME TypeOK, NEW s \in Sessions, End(s)
    PROVE  /\ session' \in [Sessions -> Active \cup {Idle}]
           /\ rowLock' \in [W -> Sessions \cup {Monitor, None}]
           /\ \A w \in W : rowLock[w] = Monitor => rowLock'[w] = Monitor
           /\ \A t \in Sessions \ {s} :
                 session'[t] = session[t] /\ \A w \in W : rowLock[w] = t => rowLock'[w] = t
           /\ session'[s] = Idle
BY WithdrawalsAssumption DEF TypeOK, End

\* A session that ends without more than a new status and a booking.
LEMMA EndIInv ==
    ASSUME IInv, NEW s \in Sessions, End(s), BooksKept,
           status' \in [W -> Statuses], doubt' \subseteq W, retries' \in Nat, limitsRow' \in BOOLEAN,
           \A w \in W : status'[w] = "completed" => status[w] = "completed",
           UNCHANGED <<chain, monitor>>,
           \A w \in W : tx'[w] = tx[w] \/ tx'[w] \in Sends(w),
           DOMAIN tx' = W /\ tx' = [w \in W |-> tx'[w]]
    PROVE  IInv'
<1> USE DEF IInv
<1>0. \A w \in W : Sends(w) \subseteq 0..Len(chain)
  <2>1. DOMAIN chain \subseteq 0..Len(chain)  BY DEF TypeOK
  <2> QED  BY <2>1 DEF Sends
<1>1. TypeOK'
  <2>1. tx' \in [W -> 0..Len(chain)]  BY <1>0 DEF TypeOK
  <2> QED  BY <2>1, EndKeeps DEF TypeOK, BooksKept, Cycle
<1>2. HashesOwn'  BY EndKeeps DEF HashesOwn, Sends, Idle
<1>3. ChecksLocked'
  <2> SUFFICES ASSUME NEW t \in Sessions, At(t, "check")'
               PROVE  rowLock'[session'[t].w] = t
    BY DEF ChecksLocked
  <2>1. t # s /\ session'[t] = session[t]  BY EndKeeps DEF At, Idle
  <2>2. rowLock[session[t].w] = t /\ session[t].w \in W
    BY <2>1 DEF ChecksLocked, At, TypeOK, Active, Idle
  <2> QED  BY <2>1, <2>2, EndKeeps
<1>4. OutsideMonitor  BY SameChain, EndKeeps DEF OutsideMonitor
<1> QED  BY <1>1, <1>2, <1>3, <1>4, OutsideKeeps

LEMMA OverwriteIInv ==
    ASSUME IInv, NEW s \in Sessions, Cancel(s) \/ Reject(s) \/ Approve(s)
    PROVE  IInv'
<1>1. PICK label \in {"cancel", "reject", "approve"}, new \in {"cancelled", "rejected", "approved"} :
         Overwrite(s, label, new)
  BY DEF Cancel, Reject, Approve
<1>2. session[s] \in Active  BY <1>1 DEF IInv, TypeOK, Overwrite, At, Idle
<1>3. session[s].w \in W  BY <1>2 DEF Active
<1>4. BooksKept
  BY <1>3, TryUnlockKeeps, SameBooks DEF IInv, Cancel, Reject, Approve
<1>5. /\ status' \in [W -> Statuses]
      /\ \A w \in W : status'[w] = "completed" => status[w] = "completed"
  BY <1>1, <1>3 DEF IInv, TypeOK, Overwrite, Statuses
<1>6. End(s) /\ doubt' \subseteq W /\ UNCHANGED <<tx, limitsRow, monitor, chain, retries>>
  BY <1>1, <1>3 DEF Overwrite, IInv, TypeOK
<1>7. retries' \in Nat /\ limitsRow' \in BOOLEAN /\ DOMAIN tx' = W /\ tx' = [w \in W |-> tx'[w]]
  BY <1>6 DEF IInv, TypeOK
<1> QED  BY <1>4, <1>5, <1>6, <1>7, EndIInv

LEMMA ExecuteIInv ==
    ASSUME IInv, NEW s \in Sessions, NEW w \in W, Execute(s, w)
    PROVE  IInv'
<1> USE DEF IInv, Execute, dbVars, Start, At
<1>1. TypeOK'  BY DEF TypeOK, Active, Cycle
<1>2. HashesOwn' /\ ChecksLocked'
  BY WithdrawalsAssumption DEF TypeOK, HashesOwn, ChecksLocked, Sends, Active, Idle
<1>3. OutsideMonitor  BY WithdrawalsAssumption, SameBooks, SameChain DEF OutsideMonitor, TypeOK
<1> QED  BY <1>1, <1>2, <1>3, OutsideKeeps

LEMMA ExecuteRetriedIInv ==
    ASSUME IInv, NEW s \in Sessions, ExecuteRetried(s)
    PROVE  IInv'
<1> USE DEF IInv, ExecuteRetried, dbVars, Goto, At
<1>0. session[s] \in Active /\ session[s].w \in W  BY DEF TypeOK, Active, Idle
<1>1. TypeOK'  BY <1>0 DEF TypeOK, Active, Cycle
<1>2. HashesOwn' /\ ChecksLocked'
  BY <1>0, WithdrawalsAssumption DEF TypeOK, HashesOwn, ChecksLocked, Sends, Active, Idle
<1>3. OutsideMonitor
  BY <1>0, WithdrawalsAssumption, SameBooks, SameChain DEF OutsideMonitor, TypeOK
<1> QED  BY <1>1, <1>2, <1>3, OutsideKeeps

\* An execution that ends with nothing done, and a process that dies.
LEMMA RefuseIInv ==
    ASSUME IInv, NEW s \in Sessions, Refuse(s) \/ Crash(s)
    PROVE  IInv'
<1> USE DEF IInv, Refuse, Crash, dbVars, At
<1>0. session[s] \in Active /\ session[s].w \in W  BY DEF TypeOK, Active, Idle
<1>1. End(s) /\ UNCHANGED <<dbVars, limitsRow, monitor, chain, retries>>  OBVIOUS
<1>2. doubt' \subseteq W  BY <1>0 DEF TypeOK
<1>3. DOMAIN tx' = W /\ tx' = [w \in W |-> tx'[w]]  BY DEF TypeOK
<1> QED  BY <1>1, <1>2, <1>3, SameBooks, EndIInv DEF TypeOK

LEMMA CheckLimitsIInv ==
    ASSUME IInv, NEW s \in Sessions, CheckLimits(s)
    PROVE  IInv'
<1> USE DEF IInv, CheckLimits, dbVars, Goto, At
<1>0. session[s] \in Active /\ session[s].w \in W /\ rowLock[session[s].w] = s
  BY DEF TypeOK, Active, Idle, ChecksLocked
<1>1. TypeOK'  BY <1>0 DEF TypeOK, Active, Cycle
<1>2. HashesOwn'  BY <1>0 DEF TypeOK, HashesOwn, Sends, Active, Idle
<1>3. ChecksLocked'  BY <1>0 DEF TypeOK, ChecksLocked, Active, Idle
<1>4. OutsideMonitor
  BY <1>0, WithdrawalsAssumption, SameBooks, SameChain DEF OutsideMonitor, TypeOK
<1> QED  BY <1>1, <1>2, <1>3, <1>4, OutsideKeeps

\* One more transaction on the chain.
LEMMA ReachGrows ==
    ASSUME TypeOK, NEW w \in W, Reach(w)
    PROVE  /\ ChainGrows
           /\ chain' \in Seq(Transaction)
           /\ Len(chain') = Len(chain) + 1 /\ Len(chain) \in Nat
           /\ Sends(w)' = Sends(w) \cup {Len(chain) + 1}
           /\ \A v \in W \ {w} : Sends(v)' = Sends(v)
<1> DEFINE new == [w |-> w, state |-> "inflight", overdue |-> FALSE]
<1>1. /\ chain' = Append(chain, new)
      /\ new \in Transaction
      /\ new.w = w
  BY DEF Reach, Transaction
<1> HIDE DEF new
<1>2. PICK n \in Nat : n = Len(chain) /\ DOMAIN chain = 1..n  BY DEF TypeOK
<1>3. /\ chain' \in Seq(Transaction)
      /\ Len(chain') = n + 1 /\ DOMAIN chain' = 1..(n + 1)
      /\ chain'[n + 1] = new /\ \A i \in 1..n : chain'[i] = chain[i]
  BY <1>1, <1>2 DEF TypeOK
<1>4. 1..(n + 1) = (1..n) \cup {n + 1} /\ n + 1 \notin 1..n  BY <1>2
<1>5. Sends(w)' = Sends(w) \cup {n + 1}  BY <1>1, <1>2, <1>3, <1>4 DEF Sends
<1>6. \A v \in W \ {w} : Sends(v)' = Sends(v)  BY <1>1, <1>2, <1>3, <1>4 DEF Sends
<1>7. ChainGrows  BY <1>2, <1>3, <1>5, <1>6 DEF ChainGrows
<1> QED  BY <1>2, <1>3, <1>5, <1>6, <1>7

LEMMA GotoSession ==
    ASSUME session \in [Sessions -> Active \cup {Idle}], NEW s \in Sessions, session[s] \in Active,
           NEW label \in {"check", "send", "unsent", "undebited"}, Goto(s, label)
    PROVE  /\ session' \in [Sessions -> Active \cup {Idle}]
           /\ session'[s].at = label /\ session'[s].w = session[s].w
           /\ session'[s].tx = session[s].tx
           /\ \A t \in Sessions \ {s} : session'[t] = session[t]
BY DEF Goto, Active

LEMMA SentSession ==
    ASSUME session \in [Sessions -> Active \cup {Idle}], NEW s \in Sessions, session[s] \in Active,
           NEW n \in Nat, session' = [session EXCEPT ![s].at = "sent", ![s].tx = n]
    PROVE  /\ session' \in [Sessions -> Active \cup {Idle}]
           /\ session'[s].at = "sent" /\ session'[s].w = session[s].w /\ session'[s].tx = n
           /\ \A t \in Sessions \ {s} : session'[t] = session[t]
<1>1. session' \in [Sessions -> Active \cup {Idle}]  BY DEF Active
<1>2. session'[s].at = "sent" /\ session'[s].w = session[s].w /\ session'[s].tx = n  BY DEF Active
<1>3. \A t \in Sessions \ {s} : session'[t] = session[t]  BY DEF Active
<1> QED  BY <1>1, <1>2, <1>3

LEMMA BroadcastIInv ==
    ASSUME IInv, NEW s \in Sessions, BroadcastOk(s) \/ BroadcastLost(s)
    PROVE  IInv'
<1> USE DEF IInv
<1>0. session[s] \in Active  BY DEF TypeOK, Idle, BroadcastOk, BroadcastLost, At
<1>1. PICK w \in W : w = session[s].w  BY <1>0 DEF Active
<1>2. Reach(w) /\ UNCHANGED <<status, tx, wallet, entries, rowLock, limitsRow, monitor, retries>>
  BY <1>1 DEF BroadcastOk, BroadcastLost, dbVars
<1>3. PICK n \in Nat : n = Len(chain)  BY DEF TypeOK
<1>4. /\ session' \in [Sessions -> Active \cup {Idle}]
      /\ session'[s].w = w
      /\ session'[s].at = "unsent" \/ (session'[s].at = "sent" /\ session'[s].tx = n + 1)
      /\ \A t \in Sessions \ {s} : session'[t] = session[t]
  <2>1. CASE BroadcastOk(s)
    <3>1. session' = [session EXCEPT ![s].at = "sent", ![s].tx = n + 1]
      BY <1>3, <2>1 DEF BroadcastOk
    <3>2. session \in [Sessions -> Active \cup {Idle}] /\ n + 1 \in Nat  BY DEF TypeOK
    <3> QED  BY <1>0, <1>1, <3>1, <3>2, SentSession
  <2>2. CASE BroadcastLost(s)
    <3>1. Goto(s, "unsent")  BY <2>2 DEF BroadcastLost
    <3>2. session \in [Sessions -> Active \cup {Idle}]  BY DEF TypeOK
    <3> QED  BY <1>0, <1>1, <3>1, <3>2, GotoSession
  <2> QED  BY <2>1, <2>2
<1>5. doubt' \subseteq W  BY <1>1 DEF TypeOK, BroadcastOk, BroadcastLost
<1>6. /\ ChainGrows
      /\ chain' \in Seq(Transaction)
      /\ Len(chain') = n + 1
      /\ Sends(w)' = Sends(w) \cup {n + 1}
  BY <1>2, <1>3, ReachGrows
<1>7. TypeOK'
  <2>1. 0..Len(chain) \subseteq 0..Len(chain')  BY <1>3, <1>6
  <2>2. tx' \in [W -> 0..Len(chain')]  BY <1>2, <2>1 DEF TypeOK
  <2>3. monitor' \in Cycle' \cup {Sleep}  BY <1>2, <2>1 DEF TypeOK, Cycle
  <2> QED  BY <1>2, <1>4, <1>5, <1>6, <2>2, <2>3 DEF TypeOK
<1>8. HashesOwn'
  <2>1. \A v \in W : tx'[v] # 0 => tx'[v] \in Sends(v)'
    BY <1>2, <1>6 DEF HashesOwn, ChainGrows
  <2>2. ASSUME NEW t \in Sessions, session'[t].at \in {"sent", "undebited"},
               NEW v \in W, v = session'[t].w
        PROVE  session'[t].tx \in Sends(v)'
    <3>1. CASE t # s
      <4>1. session'[t] = session[t]  BY <1>4, <3>1
      <4>2. session[t].tx \in Sends(v)  BY <2>2, <4>1 DEF HashesOwn
      <4> QED  BY <1>6, <4>1, <4>2 DEF ChainGrows
    <3>2. CASE t = s
      <4>1. session'[s].tx = n + 1 /\ session'[s].w = w
        BY <1>4, <2>2, <3>2
      <4> QED  BY <1>6, <2>2, <3>2, <4>1
    <3> QED  BY <3>1, <3>2
  <2>3. \A t \in Sessions : session'[t].at \in {"sent", "undebited"} => session'[t].w \in W
    BY <1>7 DEF TypeOK, Active, Idle
  <2> QED  BY <2>1, <2>2, <2>3 DEF HashesOwn, Sends
<1>9. ChecksLocked'
  <2>1. \A t \in Sessions : At(t, "check")' => session'[t] = session[t]
    BY <1>4 DEF At
  <2> QED  BY <1>2, <2>1 DEF ChecksLocked, At
<1>10. OutsideMonitor  BY <1>2, <1>6, SameBooks DEF OutsideMonitor
<1> QED  BY <1>7, <1>8, <1>9, <1>10, OutsideKeeps

LEMMA BroadcastFailIInv ==
    ASSUME IInv, NEW s \in Sessions, BroadcastFail(s)
    PROVE  IInv'
<1> USE DEF IInv, BroadcastFail, dbVars, Goto, At
<1>0. session[s] \in Active  BY DEF TypeOK, Active, Idle
<1>1. TypeOK'  BY <1>0 DEF TypeOK, Active, Cycle
<1>2. HashesOwn' /\ ChecksLocked'  BY <1>0 DEF TypeOK, HashesOwn, ChecksLocked, Sends, Active
<1>3. OutsideMonitor  BY SameBooks, SameChain DEF OutsideMonitor
<1> QED  BY <1>1, <1>2, <1>3, OutsideKeeps

\* The commits of an execution.
LEMMA OutcomeIInv ==
    ASSUME IInv, NEW s \in Sessions, GiveUp(s) \/ Settle(s) \/ FailUndebited(s)
    PROVE  IInv'
<1> USE DEF IInv
<1>0. session[s] \in Active /\ session[s].w \in W  BY DEF TypeOK, Active, Idle, GiveUp, Settle, FailUndebited, At
<1>1. BooksKept
  BY <1>0, TryUnlockKeeps, BookKeeps, SameBooks DEF GiveUp, Settle, FailUndebited
<1>2. /\ End(s) /\ UNCHANGED <<limitsRow, monitor, chain, retries, doubt>>
      /\ \E new \in {"failed", "processing"} : status' = [status EXCEPT ![session[s].w] = new]
      /\ \/ UNCHANGED tx
         \/ /\ session[s].at \in {"sent", "undebited"}
            /\ tx' = [tx EXCEPT ![session[s].w] = session[s].tx]
  BY DEF GiveUp, Settle, FailUndebited, At
<1>3. /\ status' \in [W -> Statuses]
      /\ \A w \in W : status'[w] = "completed" => status[w] = "completed"
  BY <1>0, <1>2 DEF TypeOK, Statuses
<1>4. /\ \A w \in W : tx'[w] = tx[w] \/ tx'[w] \in Sends(w)
      /\ DOMAIN tx' = W /\ tx' = [w \in W |-> tx'[w]]
  BY <1>0, <1>2 DEF TypeOK, HashesOwn
<1> QED  BY <1>1, <1>2, <1>3, <1>4, EndIInv DEF TypeOK

LEMMA DebitFailIInv ==
    ASSUME IInv, NEW s \in Sessions, DebitFail(s)
    PROVE  IInv'
<1> USE DEF IInv, DebitFail, dbVars, Goto, At, MayLock
<1>0. session[s] \in Active /\ session[s].w \in W  BY DEF TypeOK, Active, Idle
<1>1. TypeOK'  BY <1>0 DEF TypeOK, Active, Cycle
<1>2. HashesOwn'  BY <1>0 DEF TypeOK, HashesOwn, Sends, Active
<1>3. ChecksLocked'
  BY <1>0, WithdrawalsAssumption DEF TypeOK, ChecksLocked, Active, Idle
<1>4. OutsideMonitor
  BY <1>0, WithdrawalsAssumption, SameBooks, SameChain DEF OutsideMonitor, TypeOK
<1> QED  BY <1>1, <1>2, <1>3, <1>4, OutsideKeeps

LEMMA RetryIInv ==
    ASSUME IInv, NEW s \in Sessions, NEW w \in W, Retry(s, w)
    PROVE  IInv'
<1> USE DEF IInv, Retry, Start, At
<1>0. BooksKept  BY BookKeeps, SameBooks
<1>1. TypeOK'
  <2>1. 0 \in 0..Len(chain)  BY DEF TypeOK
  <2>2. /\ status' \in [W -> Statuses] /\ tx' \in [W -> 0..Len(chain')]
        /\ retries' \in Nat /\ doubt' \subseteq W
    BY <2>1 DEF TypeOK, Statuses
  <2>3. session' \in [Sessions -> Active \cup {Idle}]  BY DEF TypeOK, Active
  <2>4. monitor' \in Cycle' \cup {Sleep}  BY DEF TypeOK, Cycle
  <2> QED  BY <1>0, <2>2, <2>3, <2>4 DEF TypeOK, BooksKept
<1>2. HashesOwn' /\ ChecksLocked'  BY DEF TypeOK, HashesOwn, ChecksLocked, Sends, Active
<1>3. OutsideMonitor  BY <1>0, SameChain DEF OutsideMonitor, TypeOK
<1> QED  BY <1>1, <1>2, <1>3, OutsideKeeps

LEMMA ScanIInv == ASSUME IInv, Scan PROVE IInv'
<1> USE DEF IInv, Scan, dbVars
<1>1. TypeOK'
  <2>1. monitor' \in Cycle'  BY DEF TypeOK, Cycle
  <2> QED  BY <2>1 DEF TypeOK
<1>2. HashesOwn' /\ ChecksLocked'  BY DEF HashesOwn, ChecksLocked, Sends, At
<1>3. CycleSound'  BY DEF CycleSound, HashesOwn, Sends
<1>4. RefundsFollowDebits' /\ CompletedWasPaid'
  BY DEF RefundsFollowDebits, CompletedWasPaid, Sends
<1> QED  BY <1>1, <1>2, <1>3, <1>4

LEMMA SkipIInv == ASSUME IInv, NEW w \in W, Skip(w) PROVE IInv'
<1> USE DEF IInv, Skip, dbVars
<1>0. monitor \in Cycle /\ monitor' = [monitor EXCEPT !.todo = @ \ {w}]  BY DEF TypeOK
<1>1. TypeOK'  BY <1>0 DEF TypeOK, Cycle
<1>2. HashesOwn' /\ ChecksLocked'  BY DEF HashesOwn, ChecksLocked, Sends, At
<1>3. CycleSound'  BY <1>0 DEF CycleSound, Cycle, Sends
<1>4. RefundsFollowDebits' /\ CompletedWasPaid'
  BY DEF RefundsFollowDebits, CompletedWasPaid, Sends
<1> QED  BY <1>1, <1>2, <1>3, <1>4

\* A verdict is one of three, and a success was confirmed.
LEMMA VerdictsKnown ==
    ASSUME NEW t, NEW v \in Verdicts(t)
    PROVE  v \in {"none", "completed", "failed"} /\ (v = "completed" => t.state = "confirmed")
BY DEF Verdicts

\* What a look at w with verdict v makes of the cycle.
Looked(w, v) ==
    LET back == v = "failed" /\ Refundable(w) IN
    monitor' = [monitor EXCEPT
        !.todo = @ \ {w}, !.verdict[w] = v,
        !.refund = IF back THEN @ \cup {w} ELSE @,
        !.credit = IF back THEN @ + Amount[w] ELSE @]

LEMMA LookedCycle ==
    ASSUME monitor \in Cycle, UNCHANGED chain,
           NEW w \in W, NEW v \in {"none", "completed", "failed"}, Looked(w, v)
    PROVE  /\ monitor'.at = "scan" /\ monitor'.seen = monitor.seen
           /\ monitor'.todo = monitor.todo \ {w}
           /\ monitor'.verdict = [monitor.verdict EXCEPT ![w] = v]
           /\ monitor'.refund = (IF v = "failed" /\ Refundable(w) THEN monitor.refund \cup {w}
                                 ELSE monitor.refund)
           /\ monitor' \in Cycle' /\ monitor' # Sleep /\ monitor # Sleep
<1>1. Amount[w] \in Nat  BY WithdrawalsAssumption, AmountsAssumption
<1>2. PICK back \in BOOLEAN : back <=> (v = "failed" /\ Refundable(w))  OBVIOUS
<1>3. monitor' = [monitor EXCEPT
         !.todo = monitor.todo \ {w}, !.verdict = [monitor.verdict EXCEPT ![w] = v],
         !.refund = IF back THEN monitor.refund \cup {w} ELSE monitor.refund,
         !.credit = IF back THEN monitor.credit + Amount[w] ELSE monitor.credit]
  BY <1>2 DEF Looked, Cycle
<1>4. monitor' = [at |-> "scan", todo |-> monitor.todo \ {w}, seen |-> monitor.seen,
                  verdict |-> [monitor.verdict EXCEPT ![w] = v],
                  refund |-> IF back THEN monitor.refund \cup {w} ELSE monitor.refund,
                  credit |-> IF back THEN monitor.credit + Amount[w] ELSE monitor.credit]
  BY <1>3 DEF Cycle
<1>5. monitor' \in Cycle'  BY <1>1, <1>4 DEF Cycle
<1> QED  BY <1>2, <1>4, <1>5 DEF Cycle, Sleep

LEMMA ProcessIInv == ASSUME IInv, NEW w \in W, Process(w) PROVE IInv'
<1> USE DEF IInv
<1>0. /\ monitor \in Cycle /\ w \in monitor.todo /\ rowLock[w] = None
      /\ rowLock' = [rowLock EXCEPT ![w] = Monitor]
      /\ UNCHANGED <<status, tx, wallet, entries, limitsRow, session, chain, retries, doubt>>
  BY DEF TypeOK, Process, dbVars
<1>1. PICK v \in Verdicts(chain[monitor.seen[w]]) : Looked(w, v)  BY DEF Process, Looked
<1>2. v \in {"none", "completed", "failed"}
      /\ (v = "completed" => chain[monitor.seen[w]].state = "confirmed")
  BY VerdictsKnown
<1>3. monitor.seen[w] \in Sends(w) /\ monitor.verdict[w] = "none"
  BY <1>0 DEF CycleSound, Sleep, Cycle
<1>4. /\ monitor'.at = "scan" /\ monitor'.seen = monitor.seen /\ monitor'.todo = monitor.todo \ {w}
      /\ monitor'.verdict = [monitor.verdict EXCEPT ![w] = v]
      /\ monitor'.refund = (IF v = "failed" /\ Refundable(w) THEN monitor.refund \cup {w}
                            ELSE monitor.refund)
      /\ monitor' \in Cycle' /\ monitor' # Sleep /\ monitor # Sleep
  BY <1>0, <1>1, <1>2, LookedCycle
<1>5. TypeOK'  BY <1>0, <1>4 DEF TypeOK
<1>6. HashesOwn' /\ ChecksLocked'
  <2>1. HashesOwn'  BY <1>0 DEF HashesOwn, Sends
  <2>2. ASSUME NEW s \in Sessions, At(s, "check")  PROVE rowLock'[session[s].w] = s
    <3>1. rowLock[session[s].w] = s  BY <2>2 DEF ChecksLocked
    <3> QED  BY <1>0, <3>1, WithdrawalsAssumption DEF TypeOK
  <2> QED  BY <1>0, <2>1, <2>2 DEF ChecksLocked, At
<1>7. CycleSound'
  <2>0. monitor.verdict \in [W -> {"none", "completed", "failed"}]  BY <1>0 DEF Cycle
  <2>1. \A x \in W : monitor'.seen[x] # 0 => monitor'.seen[x] \in Sends(x)'
    BY <1>0, <1>4 DEF CycleSound, Sends
  <2>2. \A x \in monitor'.todo : monitor'.seen[x] # 0 /\ monitor'.verdict[x] = "none"
    BY <1>0, <1>4, <2>0 DEF CycleSound, Cycle
  <2>3. \A x \in W : monitor'.verdict[x] # "none" => rowLock'[x] = Monitor
    BY <1>0, <1>4, <2>0 DEF CycleSound, TypeOK
  <2>4. \A x \in W : monitor'.verdict[x] = "completed" => \E i \in Sends(x) : chain[i].state = "confirmed"
    BY <1>2, <1>3, <1>4, <2>0 DEF CycleSound
  <2>5. ASSUME NEW x \in monitor'.refund
        PROVE  monitor'.verdict[x] = "failed" /\ entries[x].refund = 0 /\ entries[x].debit >= 1
    <3>1. CASE x \in monitor.refund
      <4>1. monitor.verdict[x] = "failed" /\ entries[x].refund = 0 /\ entries[x].debit >= 1
        BY <1>4, <3>1 DEF CycleSound
      <4> QED  BY <1>3, <1>4, <2>0, <4>1
    <3>2. CASE x = w /\ v = "failed" /\ Refundable(w)
      BY <1>4, <2>0, <3>2 DEF Refundable
    <3> QED  BY <1>4, <3>1, <3>2
  <2> QED  BY <1>0, <2>1, <2>2, <2>3, <2>4, <2>5 DEF CycleSound, Sends
<1>8. RefundsFollowDebits' /\ CompletedWasPaid'
  BY <1>0 DEF RefundsFollowDebits, CompletedWasPaid, Sends
<1> QED  BY <1>5, <1>6, <1>7, <1>8

\* What the end of the cycle leaves, whether it commits or not.
LEMMA MonitorEndKeeps ==
    ASSUME IInv, MonitorEnd, UNCHANGED <<session, tx, chain>>
    PROVE  /\ rowLock' \in [W -> Sessions \cup {Monitor, None}]
           /\ HashesOwn' /\ ChecksLocked' /\ CycleSound'
<1> USE DEF IInv, MonitorEnd
<1>1. rowLock' \in [W -> Sessions \cup {Monitor, None}]  BY DEF TypeOK
<1>2. HashesOwn' /\ CycleSound'  BY DEF HashesOwn, CycleSound, Sends
<1>3. ASSUME NEW s \in Sessions, At(s, "check")  PROVE rowLock'[session[s].w] = s
  <2>1. rowLock[session[s].w] = s /\ session[s].w \in W
    BY <1>3 DEF ChecksLocked, At, TypeOK, Active, Idle
  <2> QED  BY <2>1, WithdrawalsAssumption
<1> QED  BY <1>1, <1>2, <1>3 DEF ChecksLocked, At

LEMMA MonitorCommitIInv == ASSUME IInv, MonitorCommit PROVE IInv'
<1> USE DEF IInv
<1>0. /\ monitor \in Cycle /\ monitor # Sleep /\ monitor' = Sleep
      /\ UNCHANGED <<tx, limitsRow, session, chain, retries>>
  BY DEF TypeOK, MonitorCommit, MonitorEnd
<1>1. /\ rowLock' \in [W -> Sessions \cup {Monitor, None}]
      /\ HashesOwn' /\ ChecksLocked' /\ CycleSound'
  BY MonitorEndKeeps DEF MonitorCommit
<1>2. /\ \A w \in W : entries[w].refund \in Nat /\ entries[w].debit \in Nat
      /\ entries' \in [W -> [Kinds -> Nat]]
      /\ \A w \in W : /\ entries'[w].debit = entries[w].debit
                      /\ entries'[w].refund = IF w \in monitor.refund THEN entries[w].refund + 1
                                              ELSE entries[w].refund
  <2>1. "refund" \in Kinds /\ "debit" \in Kinds  BY DEF Kinds
  <2> QED  BY <2>1 DEF TypeOK, MonitorCommit
<1>3. TypeOK'
  <2>1. wallet' \in Row
    <3>1. wallet \in Row /\ monitor.credit \in Nat  BY <1>0 DEF TypeOK, Cycle
    <3> QED  BY <3>1, CreditRow DEF MonitorCommit
  <2>2. status' \in [W -> Statuses]  BY <1>0 DEF MonitorCommit, TypeOK, Cycle, Statuses
  <2>3. doubt' \subseteq W  BY DEF MonitorCommit, TypeOK
  <2> QED  BY <1>0, <1>1, <1>2, <2>1, <2>2, <2>3 DEF TypeOK
<1>4. RefundsFollowDebits'
  <2> SUFFICES ASSUME NEW w \in W
               PROVE  entries'[w].refund <= 1 /\ entries'[w].refund <= entries'[w].debit
    BY DEF RefundsFollowDebits
  <2>1. CASE w \in monitor.refund
    <3>1. entries[w].refund = 0 /\ entries[w].debit >= 1  BY <1>0, <2>1 DEF CycleSound
    <3> QED  BY <1>2, <2>1, <3>1
  <2>2. CASE w \notin monitor.refund  BY <1>2, <2>2 DEF RefundsFollowDebits
  <2> QED  BY <2>1, <2>2
<1>5. CompletedWasPaid'
  <2> SUFFICES ASSUME NEW w \in W, status'[w] = "completed"
               PROVE  \E i \in Sends(w) : chain[i].state = "confirmed"
    BY <1>0 DEF CompletedWasPaid, Sends
  <2>1. status[w] = "completed" \/ monitor.verdict[w] = "completed"  BY DEF MonitorCommit
  <2> QED  BY <1>0, <2>1 DEF CompletedWasPaid, CycleSound
<1> QED  BY <1>1, <1>3, <1>4, <1>5

LEMMA MonitorAbortIInv == ASSUME IInv, MonitorAbort PROVE IInv'
<1> USE DEF IInv, MonitorAbort, dbVars
<1>1. /\ rowLock' \in [W -> Sessions \cup {Monitor, None}]
      /\ HashesOwn' /\ ChecksLocked' /\ CycleSound'
  BY MonitorEndKeeps
<1>2. TypeOK'  BY <1>1 DEF TypeOK, MonitorEnd
<1>3. RefundsFollowDebits' /\ CompletedWasPaid'
  BY DEF RefundsFollowDebits, CompletedWasPaid, Sends
<1> QED  BY <1>1, <1>2, <1>3

\* The chain and the clock change a transaction without giving it to another
\* withdrawal, and take no confirmation back.
LEMMA WorldIInv ==
    ASSUME IInv, NEW i \in DOMAIN chain,
           NEW t \in Transaction,
           t.w = chain[i].w, chain[i].state = "confirmed" => t.state = "confirmed",
           chain' = [chain EXCEPT ![i] = t],
           UNCHANGED <<dbVars, rowLock, limitsRow, session, monitor, retries, doubt>>
    PROVE  IInv' /\ \A w \in W : Sends(w)' = Sends(w)
<1> USE DEF IInv, dbVars
<1>1. /\ chain' \in Seq(Transaction)
      /\ Len(chain') = Len(chain) /\ DOMAIN chain' = DOMAIN chain
      /\ \A j \in DOMAIN chain : chain'[j] = IF j = i THEN t ELSE chain[j]
  BY DEF TypeOK
<1>2. \A w \in W : Sends(w)' = Sends(w)  BY <1>1 DEF Sends
<1>3. ChainGrows  BY <1>1, <1>2 DEF ChainGrows
<1>4. TypeOK'  BY <1>1 DEF TypeOK, Cycle
<1>5. HashesOwn'
  <2>1. \A w \in W : tx'[w] # 0 => tx'[w] \in Sends(w)'  BY <1>2 DEF HashesOwn
  <2>2. ASSUME NEW s \in Sessions, session'[s].at \in {"sent", "undebited"},
               NEW w \in W, w = session'[s].w
        PROVE  session'[s].tx \in Sends(w)'
    BY <1>2, <2>2 DEF HashesOwn
  <2>3. \A s \in Sessions : session'[s].at \in {"sent", "undebited"} => session'[s].w \in W
    <3>1. session' \in [Sessions -> Active \cup {Idle}]  BY <1>4 DEF TypeOK
    <3> QED  BY <3>1 DEF Active, Idle
  <2> QED  BY <2>1, <2>2, <2>3 DEF HashesOwn, Sends
<1>6. ChecksLocked'  BY DEF ChecksLocked, At
<1>7. OutsideMonitor  BY <1>3, SameBooks DEF OutsideMonitor
<1> QED  BY <1>2, <1>4, <1>5, <1>6, <1>7, OutsideKeeps

LEMMA ChainDecidesIInv ==
    ASSUME IInv, NEW i \in DOMAIN chain, NEW outcome \in {"confirmed", "failed"},
           ChainDecides(i, outcome)
    PROVE  IInv' /\ \A w \in W : Sends(w)' = Sends(w)
<1>1. chain[i] \in Transaction  BY DEF IInv, TypeOK
<1>2. PICK t : t = [chain[i] EXCEPT !.state = outcome]  OBVIOUS
<1>3. t \in Transaction
      /\ t.w = chain[i].w
  BY <1>1, <1>2 DEF Transaction
<1> QED  BY <1>2, <1>3, WorldIInv DEF ChainDecides

LEMMA ElapseIInv ==
    ASSUME IInv, NEW w \in W, Elapse(w)
    PROVE  IInv' /\ \A v \in W : Sends(v)' = Sends(v)
<1>1. tx[w] \in DOMAIN chain  BY DEF Elapse, IInv, HashesOwn, Sends
<1>2. chain[tx[w]] \in Transaction
  BY <1>1 DEF IInv, TypeOK
<1>3. PICK t : t = [chain[tx[w]] EXCEPT !.overdue = TRUE]  OBVIOUS
<1>4. t \in Transaction
      /\ t.w = chain[tx[w]].w /\ t.state = chain[tx[w]].state
  BY <1>2, <1>3 DEF Transaction
<1> QED  BY <1>1, <1>3, <1>4, WorldIInv DEF Elapse

LEMMA StutterIInv == ASSUME IInv, NextDay \/ UNCHANGED vars PROVE IInv'
<1> USE DEF IInv, NextDay, vars, dbVars
<1>1. TypeOK'  BY DEF TypeOK, Cycle
<1>2. HashesOwn' /\ ChecksLocked'  BY DEF HashesOwn, ChecksLocked, Sends, At
<1>3. CycleSound'  BY DEF CycleSound, Sends
<1>4. RefundsFollowDebits' /\ CompletedWasPaid'
  BY DEF RefundsFollowDebits, CompletedWasPaid, Sends
<1> QED  BY <1>1, <1>2, <1>3, <1>4

LEMMA HandlerIInv ==
    ASSUME IInv, NEW s \in Sessions, Handler(s) \/ Crash(s)
    PROVE  IInv'
<1>1. CASE Cancel(s) \/ Approve(s) \/ Reject(s)  BY <1>1, OverwriteIInv
<1>2. CASE Refuse(s) \/ Crash(s)  BY <1>2, RefuseIInv
<1>3. CASE CheckLimits(s)  BY <1>3, CheckLimitsIInv
<1>4. CASE BroadcastOk(s) \/ BroadcastLost(s)  BY <1>4, BroadcastIInv
<1>5. CASE BroadcastFail(s)  BY <1>5, BroadcastFailIInv
<1>6. CASE GiveUp(s) \/ Settle(s) \/ FailUndebited(s)  BY <1>6, OutcomeIInv
<1>7. CASE DebitFail(s)  BY <1>7, DebitFailIInv
<1>8. CASE ExecuteRetried(s)  BY <1>8, ExecuteRetriedIInv
<1> QED  BY <1>1, <1>2, <1>3, <1>4, <1>5, <1>6, <1>7, <1>8 DEF Handler

LEMMA RequestIInv ==
    ASSUME IInv, NEW s \in Sessions, NEW w \in W, Request(s, w)
    PROVE  IInv'
BY ReadPendingIInv, ExecuteIInv, RetryIInv DEF Request

LEMMA NextIInv == IInv /\ [Next]_vars => IInv'
<1> SUFFICES ASSUME IInv, [Next]_vars PROVE IInv'  OBVIOUS
<1>1. CASE \E w \in W : Initiate(w)  BY <1>1, InitiateIInv
<1>2. CASE \E w \in W : Skip(w)  BY <1>2, SkipIInv
<1>3. CASE \E w \in W : Process(w)  BY <1>3, ProcessIInv
<1>4. CASE \E w \in W : Elapse(w)  BY <1>4, ElapseIInv
<1>5. CASE \E s \in Sessions : Handler(s) \/ Crash(s)  BY <1>5, HandlerIInv
<1>6. CASE \E s \in Sessions, w \in W : Request(s, w)  BY <1>6, RequestIInv
<1>7. CASE Scan \/ MonitorCommit \/ MonitorAbort
  BY <1>7, ScanIInv, MonitorCommitIInv, MonitorAbortIInv
<1>8. CASE \E i \in DOMAIN chain, outcome \in {"confirmed", "failed"} : ChainDecides(i, outcome)
  BY <1>8, ChainDecidesIInv
<1>9. CASE NextDay \/ UNCHANGED vars  BY <1>9, StutterIInv
<1> QED  BY <1>1, <1>2, <1>3, <1>4, <1>5, <1>6, <1>7, <1>8, <1>9 DEF Next

\* The inductive invariant of Withdrawals: what a session or a cycle has checked
\* under the lock of a row stays true until it commits.
THEOREM Invariance == Spec => []IInv
<1> QED  BY InitIInv, NextIInv, PTL DEF Spec

\* No sequence of requests, payouts and refunds makes the balance or the
\* reservation of the user negative.
THEOREM TypeCorrect == Spec => []TypeOK
<1>1. IInv => TypeOK  BY DEF IInv
<1> QED  BY <1>1, Invariance, PTL

\* The monitor refunds a withdrawal at most once and only after a debit: what it
\* saw of the entries when it came to its verdict is still so at its commit,
\* which the lock of the row and the one cycle at a time are enough for.
THEOREM RefundsAudit == Spec => []RefundsFollowDebits
<1>1. IInv => RefundsFollowDebits  BY DEF IInv
<1> QED  BY <1>1, Invariance, PTL

\* A withdrawal is reported as completed only if a transaction of its own, not
\* one of another withdrawal or of nobody, is confirmed.
THEOREM CompletionsPaid == Spec => []CompletedWasPaid
<1>1. IInv => CompletedWasPaid  BY DEF IInv
<1> QED  BY <1>1, Invariance, PTL

-----------------------------------------------------------------------------
(* Every step keeps TraceInv.                                              *)

\* A step of session s on withdrawal w leaves the other sessions and the other
\* withdrawals alone.
LocalStep(s, w) ==
    /\ \A t \in Sessions \ {s} : session'[t] = session[t]
    /\ \A v \in W \ {w} : /\ status'[v] = status[v] /\ tx'[v] = tx[v] /\ Sends(v)' = Sends(v)
                          /\ ~Executing(s, v) /\ ~Executing(s, v)'
                          /\ \A t \in Sessions \ {s} : rowLock[v] = t => rowLock'[v] = t
    /\ doubt \subseteq doubt'
    /\ session'[s].at \in {"undebited", "retried"} => session'[s].w \in doubt'

LEMMA LocalKeeps ==
    ASSUME TraceInv, NEW s \in Sessions, NEW w \in W, LocalStep(s, w),
           w \notin doubt' => SendsMatch(w)' /\ \A t \in Sessions : Alone(t, w)'
    PROVE  TraceInv'
<1>1. RetriesDoubted'  BY DEF TraceInv, RetriesDoubted, LocalStep
<1>2. ASSUME NEW v \in W \ {w}, v \notin doubt'
      PROVE  SendsMatch(v)' /\ \A t \in Sessions : Alone(t, v)'
  <2>1. SendsMatch(v) /\ \A t \in Sessions : Alone(t, v)  BY <1>2 DEF TraceInv, LocalStep
  <2>2. status'[v] = status[v] /\ tx'[v] = tx[v] /\ Sends(v)' = Sends(v)  BY DEF LocalStep
  <2>3. SendsMatch(v)'
    <3>1. ASSUME NEW t \in Sessions, At(t, "sent"), session[t].w = v
          PROVE  At(t, "sent")' /\ session'[t].w = v
      BY <3>1 DEF LocalStep, Executing, At
    <3> QED  BY <2>1, <2>2, <3>1 DEF SendsMatch
  <2>4. ASSUME NEW t \in Sessions PROVE Alone(t, v)'
    <3>1. CASE t = s  BY <3>1 DEF Alone, LocalStep
    <3>2. CASE t # s
      <4>1. session'[t] = session[t]  BY <3>2 DEF LocalStep
      <4>2. rowLock[v] = t => rowLock'[v] = t  BY <3>2 DEF LocalStep
      <4> QED  BY <2>1, <2>2, <4>1, <4>2 DEF Alone, Executing, At
    <3> QED  BY <3>1, <3>2
  <2> QED  BY <2>3, <2>4
<1> QED  BY <1>1, <1>2 DEF TraceInv

LEMMA SameSends == UNCHANGED chain => \A w \in W : Sends(w)' = Sends(w)
BY DEF Sends

LEMMA SessionOn ==
    ASSUME TypeOK, NEW s \in Sessions, session[s].at # "idle"
    PROVE  session[s] \in Active /\ session[s].w \in W
BY DEF TypeOK, Active, Idle

\* The end of a session that worked on w.
LEMMA EndLocal ==
    ASSUME TypeOK, NEW s \in Sessions, NEW w \in W, w = session[s].w, End(s),
           UNCHANGED chain, doubt \subseteq doubt',
           \A v \in W \ {w} : status'[v] = status[v] /\ tx'[v] = tx[v]
    PROVE  LocalStep(s, w)
BY EndKeeps, SameSends DEF LocalStep, Executing, Idle

LEMMA OverwriteTrace ==
    ASSUME IInv, TraceInv, NEW s \in Sessions, Cancel(s) \/ Reject(s) \/ Approve(s)
    PROVE  TraceInv'
<1> USE DEF IInv
<1>1. PICK label \in {"cancel", "reject", "approve"}, new \in {"cancelled", "rejected", "approved"} :
         Overwrite(s, label, new)
  BY DEF Cancel, Reject, Approve
<1>2. PICK w \in W : w = session[s].w  BY <1>1, SessionOn DEF Overwrite, At
<1>3. LocalStep(s, w)  BY <1>1, <1>2, EndLocal DEF Overwrite, TypeOK
<1>4. ASSUME w \notin doubt'  PROVE SendsMatch(w)' /\ \A t \in Sessions : Alone(t, w)'
  <2>1. status[w] = "pending" /\ w \notin doubt /\ status'[w] = new
    BY <1>1, <1>2, <1>4 DEF Overwrite, TypeOK
  <2>2. SendsMatch(w) /\ \A t \in Sessions : Alone(t, w)  BY <2>1 DEF TraceInv
  <2>3. Sends(w)' = {}  BY <1>1, <2>1, <2>2, SameSends DEF SendsMatch, Overwrite
  <2>4. \A t \in Sessions : ~Executing(t, w)  BY <2>1, <2>2 DEF Alone
  <2>5. \A t \in Sessions : ~Executing(t, w)'  BY <1>1, <2>4, EndKeeps DEF Overwrite, Executing, Idle
  <2> QED  BY <2>1, <2>3, <2>5 DEF SendsMatch, Alone
<1> QED  BY <1>3, <1>4, LocalKeeps

\* A request that has read w begins a session.
LEMMA StartLocal ==
    ASSUME TypeOK, NEW s \in Sessions, NEW w \in W, At(s, "idle"),
           NEW label \in {"cancel", "approve", "reject", "check", "retried"}, Start(s, label, w),
           UNCHANGED chain, doubt \subseteq doubt', label = "retried" => w \in doubt',
           \A v \in W \ {w} : status'[v] = status[v] /\ tx'[v] = tx[v] /\ rowLock'[v] = rowLock[v]
    PROVE  LocalStep(s, w) /\ session'[s].at = label /\ session'[s].w = w
BY SameSends DEF LocalStep, Executing, Start, At, TypeOK

LEMMA ReadPendingTrace ==
    ASSUME IInv, TraceInv, NEW s \in Sessions, NEW w \in W,
           NEW label \in {"cancel", "approve", "reject"}, ReadPending(s, w, label)
    PROVE  TraceInv'
<1> USE DEF IInv, ReadPending, dbVars
<1>1. LocalStep(s, w) /\ session'[s].at = label /\ session'[s].w = w  BY StartLocal DEF TypeOK
<1>2. ASSUME w \notin doubt'  PROVE SendsMatch(w)' /\ \A t \in Sessions : Alone(t, w)'
  <2>1. SendsMatch(w) /\ \A t \in Sessions : Alone(t, w)  BY <1>2 DEF TraceInv
  <2>2. \A t \in Sessions : ~Executing(t, w)'  BY <1>1, <2>1 DEF Alone, Executing, LocalStep
  <2> QED  BY <2>1, <2>2, SameSends DEF SendsMatch, Alone
<1> QED  BY <1>1, <1>2, LocalKeeps

LEMMA ExecuteTrace ==
    ASSUME IInv, TraceInv, NEW s \in Sessions, NEW w \in W, Execute(s, w)
    PROVE  TraceInv'
<1> USE DEF IInv, Execute, dbVars
<1>1. LocalStep(s, w) /\ session'[s].at = "check" /\ session'[s].w = w  BY StartLocal DEF TypeOK
<1>2. ASSUME w \notin doubt'  PROVE SendsMatch(w)' /\ \A t \in Sessions : Alone(t, w)'
  <2>1. SendsMatch(w) /\ \A t \in Sessions : Alone(t, w)  BY <1>2 DEF TraceInv
  <2>2. \A t \in Sessions : ~Executing(t, w)  BY <2>1, WithdrawalsAssumption DEF Alone
  <2>3. Sends(w) = {}  BY <2>1, <2>2 DEF SendsMatch, Executing, At
  <2>4. Sends(w)' = {} /\ rowLock'[w] = s /\ status'[w] = "approved"
    BY <2>3, SameSends DEF TypeOK
  <2>5. \A t \in Sessions : Executing(t, w)' => t = s  BY <1>1, <2>2 DEF LocalStep, Executing
  <2> QED  BY <1>1, <2>4, <2>5 DEF SendsMatch, Alone, At
<1> QED  BY <1>1, <1>2, LocalKeeps

LEMMA RetryTrace ==
    ASSUME IInv, TraceInv, NEW s \in Sessions, NEW w \in W, Retry(s, w)
    PROVE  TraceInv'
<1>1. LocalStep(s, w)  BY StartLocal DEF IInv, Retry, TypeOK
<1> QED  BY <1>1, LocalKeeps DEF Retry

\* A session that ends without a new status, and all that was sent is said.
LEMMA RefuseTrace ==
    ASSUME IInv, TraceInv, NEW s \in Sessions, Refuse(s) \/ Crash(s)
    PROVE  TraceInv'
<1> USE DEF IInv, dbVars
<1>1. PICK w \in W : w = session[s].w  BY SessionOn DEF Refuse, Crash, At
<1>2. End(s) /\ UNCHANGED <<status, tx, chain>> /\ doubt \subseteq doubt'  BY DEF Refuse, Crash
<1>3. LocalStep(s, w)  BY <1>1, <1>2, EndLocal
<1>4. ASSUME w \notin doubt'  PROVE SendsMatch(w)' /\ \A t \in Sessions : Alone(t, w)'
  <2>1. SendsMatch(w) /\ \A t \in Sessions : Alone(t, w)  BY <1>4, <1>2 DEF TraceInv
  <2>2. Sends(w)' = Sends(w)  BY <1>2, SameSends
  <2>3. ~At(s, "sent")  BY <1>1, <1>4 DEF Refuse, Crash, At
  <2>4. SendsMatch(w)'
    <3>1. \A t \in Sessions : At(t, "sent") /\ session[t].w = w => At(t, "sent")' /\ session'[t].w = w
      BY <1>2, <2>3, EndKeeps DEF At
    <3> QED  BY <1>2, <2>1, <2>2, <3>1 DEF SendsMatch
  <2>5. ASSUME NEW t \in Sessions PROVE Alone(t, w)'
    <3>1. CASE t = s  BY <1>2, <3>1, EndKeeps DEF Alone, Executing, Idle
    <3>2. CASE t # s
      <4>1. session'[t] = session[t] /\ (rowLock[w] = t => rowLock'[w] = t)  BY <1>2, <3>2, EndKeeps
      <4> QED  BY <1>2, <2>1, <2>2, <4>1 DEF Alone, Executing, At
    <3> QED  BY <3>1, <3>2
  <2> QED  BY <2>4, <2>5
<1> QED  BY <1>3, <1>4, LocalKeeps

\* A handler that goes on.
LEMMA GotoLocal ==
    ASSUME TypeOK, NEW s \in Sessions, NEW w \in W, w = session[s].w, session[s] \in Active,
           NEW label \in {"check", "send", "unsent", "undebited"}, Goto(s, label),
           doubt \subseteq doubt', label = "undebited" => w \in doubt',
           UNCHANGED <<status, tx>>,
           \A v \in W \ {w} : rowLock'[v] = rowLock[v] /\ Sends(v)' = Sends(v)
    PROVE  LocalStep(s, w) /\ session'[s].at = label /\ session'[s].w = w
<1>1. session \in [Sessions -> Active \cup {Idle}]  BY DEF TypeOK
<1>2. /\ session'[s].at = label /\ session'[s].w = w
      /\ \A t \in Sessions \ {s} : session'[t] = session[t]
  BY <1>1, GotoSession
<1> QED  BY <1>2 DEF LocalStep, Executing

LEMMA CheckLimitsTrace ==
    ASSUME IInv, TraceInv, NEW s \in Sessions, CheckLimits(s)
    PROVE  TraceInv'
<1> USE DEF IInv, CheckLimits, dbVars
<1>0. session[s] \in Active  BY SessionOn DEF At
<1>1. PICK w \in W : w = session[s].w  BY <1>0 DEF Active
<1>2. LocalStep(s, w) /\ session'[s].at = "send" /\ session'[s].w = w
  <2>1. \A v \in W \ {w} : rowLock'[v] = rowLock[v] /\ Sends(v)' = Sends(v)
    BY <1>1, SameSends DEF TypeOK
  <2> QED  BY <1>0, <1>1, <2>1, GotoLocal
<1>3. ASSUME w \notin doubt'  PROVE SendsMatch(w)' /\ \A t \in Sessions : Alone(t, w)'
  <2>1. SendsMatch(w) /\ \A t \in Sessions : Alone(t, w)  BY <1>3 DEF TraceInv
  <2>2. rowLock[w] = s /\ status[w] = "approved" /\ Sends(w) = {}
    BY <1>1, <2>1 DEF Alone, Executing, At
  <2>3. rowLock'[w] = s /\ status'[w] = "approved" /\ Sends(w)' = {}
    BY <1>1, <1>3, <2>2, SameSends
  <2>4. \A t \in Sessions : Executing(t, w)' => t = s
    BY <1>2, <2>1, <2>2 DEF LocalStep, Alone, Executing
  <2> QED  BY <1>2, <2>3, <2>4 DEF SendsMatch, Alone, At
<1> QED  BY <1>2, <1>3, LocalKeeps

LEMMA BroadcastFailTrace ==
    ASSUME IInv, TraceInv, NEW s \in Sessions, BroadcastFail(s)
    PROVE  TraceInv'
<1> USE DEF IInv, BroadcastFail, dbVars
<1>0. session[s] \in Active  BY SessionOn DEF At
<1>1. PICK w \in W : w = session[s].w  BY <1>0 DEF Active
<1>2. LocalStep(s, w) /\ session'[s].at = "unsent" /\ session'[s].w = w
  BY <1>0, <1>1, GotoLocal, SameSends
<1>3. ASSUME w \notin doubt'  PROVE SendsMatch(w)' /\ \A t \in Sessions : Alone(t, w)'
  <2>1. SendsMatch(w) /\ \A t \in Sessions : Alone(t, w)  BY <1>3 DEF TraceInv
  <2>2. rowLock[w] = s /\ status[w] = "approved" /\ Sends(w) = {}
    BY <1>1, <2>1 DEF Alone, Executing, At
  <2>3. rowLock'[w] = s /\ status'[w] = "approved" /\ Sends(w)' = {}
    BY <2>2, SameSends
  <2>4. \A t \in Sessions : Executing(t, w)' => t = s
    BY <1>2, <2>1, <2>2 DEF LocalStep, Alone, Executing
  <2> QED  BY <1>2, <2>3, <2>4 DEF SendsMatch, Alone, At
<1> QED  BY <1>2, <1>3, LocalKeeps

LEMMA BroadcastLostTrace ==
    ASSUME IInv, TraceInv, NEW s \in Sessions, BroadcastLost(s)
    PROVE  TraceInv'
<1> USE DEF IInv, BroadcastLost, dbVars
<1>0. session[s] \in Active  BY SessionOn DEF At
<1>1. PICK w \in W : w = session[s].w  BY <1>0 DEF Active
<1>2. LocalStep(s, w)  BY <1>0, <1>1, GotoLocal, ReachGrows
<1> QED  BY <1>1, <1>2, LocalKeeps

LEMMA BroadcastOkTrace ==
    ASSUME IInv, TraceInv, NEW s \in Sessions, BroadcastOk(s)
    PROVE  TraceInv'
<1> USE DEF IInv, BroadcastOk, dbVars
<1>0. session[s] \in Active  BY SessionOn DEF At
<1>1. PICK w \in W : w = session[s].w  BY <1>0 DEF Active
<1>2. PICK n \in Nat : n = Len(chain)
  <2>1. chain \in Seq(Transaction)  BY ONLY IInv DEF IInv, TypeOK
  <2> QED  BY ONLY <2>1
<1>3. /\ session'[s].at = "sent" /\ session'[s].w = w /\ session'[s].tx = n + 1
      /\ \A t \in Sessions \ {s} : session'[t] = session[t]
  <2>1. session \in [Sessions -> Active \cup {Idle}] /\ n + 1 \in Nat  BY DEF TypeOK
  <2>2. session' = [session EXCEPT ![s].at = "sent", ![s].tx = n + 1]  BY <1>2
  <2> QED  BY <1>0, <1>1, <2>1, <2>2, SentSession
<1>4. Sends(w)' = Sends(w) \cup {n + 1} /\ \A v \in W \ {w} : Sends(v)' = Sends(v)
  BY <1>1, <1>2, ReachGrows
<1>5. LocalStep(s, w)  BY <1>1, <1>3, <1>4 DEF LocalStep, Executing
<1>6. ASSUME w \notin doubt'  PROVE SendsMatch(w)' /\ \A t \in Sessions : Alone(t, w)'
  <2>1. SendsMatch(w) /\ \A t \in Sessions : Alone(t, w)  BY <1>6 DEF TraceInv
  <2>2. rowLock[w] = s /\ status[w] = "approved" /\ Sends(w) = {}
    BY <1>1, <2>1 DEF Alone, Executing, At
  <2>3. rowLock'[w] = s /\ status'[w] = "approved" /\ Sends(w)' = {n + 1}
    BY <1>4, <2>2
  <2>4. \A t \in Sessions : Executing(t, w)' => t = s
    BY <1>3, <2>1, <2>2 DEF Alone, Executing
  <2> QED  BY <1>3, <2>3, <2>4 DEF SendsMatch, Alone, At
<1> QED  BY <1>5, <1>6, LocalKeeps

\* An execution that ends: failed with nothing sent, or processing with its hash.
LEMMA OutcomeTrace ==
    ASSUME IInv, TraceInv, NEW s \in Sessions, GiveUp(s) \/ Settle(s) \/ FailUndebited(s)
    PROVE  TraceInv'
<1> USE DEF IInv
<1>1. PICK w \in W : w = session[s].w
  BY SessionOn DEF GiveUp, Settle, FailUndebited, At
<1>2. /\ End(s) /\ UNCHANGED <<chain, doubt>>
      /\ \A v \in W \ {w} : status'[v] = status[v] /\ tx'[v] = tx[v]
  BY <1>1 DEF GiveUp, Settle, FailUndebited, TypeOK
<1>3. LocalStep(s, w)  BY <1>1, <1>2, EndLocal
<1>4. ASSUME w \notin doubt'  PROVE SendsMatch(w)' /\ \A t \in Sessions : Alone(t, w)'
  <2>1. w \notin doubt /\ SendsMatch(w) /\ \A t \in Sessions : Alone(t, w)
    BY <1>4, <1>2 DEF TraceInv
  <2>2. session[s].at \in {"unsent", "sent"}
    BY <1>1, <2>1 DEF TraceInv, RetriesDoubted, GiveUp, Settle, FailUndebited, At
  <2>3. Executing(s, w) /\ rowLock[w] = s  BY <1>1, <2>1, <2>2 DEF Executing, Alone
  <2>4. Sends(w)' = Sends(w)  BY <1>2, SameSends
  <2>5. CASE GiveUp(s)
    <3>1. Sends(w) = {}  BY <2>1, <2>3, <2>5 DEF Alone, GiveUp, At
    <3>2. status'[w] = "failed"  BY <1>1, <2>5 DEF GiveUp, TypeOK
    <3>3. SendsMatch(w)'  BY <2>4, <3>1, <3>2 DEF SendsMatch
    <3>4. \A t \in Sessions : ~Executing(t, w)'
      BY <1>2, <1>3, <2>1, <2>3, EndKeeps DEF Alone, LocalStep, Executing, Idle
    <3> QED  BY <3>3, <3>4 DEF Alone
  <2>6. CASE Settle(s)
    <3>1. Sends(w) = {session[s].tx}  BY <2>1, <2>3, <2>6 DEF Alone, Settle
    <3>2. status'[w] = "processing" /\ tx'[w] = session[s].tx  BY <1>1, <2>6 DEF Settle, TypeOK
    <3>3. SendsMatch(w)'  BY <2>4, <3>1, <3>2 DEF SendsMatch
    <3>4. \A t \in Sessions : ~Executing(t, w)'
      BY <1>2, <1>3, <2>1, <2>3, EndKeeps DEF Alone, LocalStep, Executing, Idle
    <3> QED  BY <3>3, <3>4 DEF Alone
  <2>7. CASE FailUndebited(s)  BY <2>2, <2>7 DEF FailUndebited, At
  <2> QED  BY <2>5, <2>6, <2>7
<1> QED  BY <1>3, <1>4, LocalKeeps

\* A debit that fails, and a retry that goes on, are of a withdrawal in doubt.
LEMMA DoubtedTrace ==
    ASSUME IInv, TraceInv, NEW s \in Sessions, DebitFail(s) \/ ExecuteRetried(s)
    PROVE  TraceInv'
<1> USE DEF IInv, dbVars
<1>0. session[s] \in Active  BY SessionOn DEF DebitFail, ExecuteRetried, At
<1>1. PICK w \in W : w = session[s].w  BY <1>0 DEF Active
<1>2. w \in doubt' /\ doubt \subseteq doubt' /\ UNCHANGED <<status, tx, chain>>
  BY <1>1 DEF DebitFail, ExecuteRetried, TraceInv, RetriesDoubted, At
<1>3. \A v \in W \ {w} : rowLock'[v] = rowLock[v] /\ Sends(v)' = Sends(v)
  BY <1>1, <1>2, SameSends DEF DebitFail, ExecuteRetried, TypeOK
<1>4. PICK label \in {"undebited", "check"} : Goto(s, label)  BY DEF DebitFail, ExecuteRetried
<1>5. LocalStep(s, w)  BY <1>0, <1>1, <1>2, <1>3, <1>4, GotoLocal
<1> QED  BY <1>2, <1>5, LocalKeeps

LEMMA InitiateTrace ==
    ASSUME IInv, TraceInv, NEW w \in W, Initiate(w)
    PROVE  TraceInv'
<1> USE DEF IInv, Initiate
<1>1. \A v \in W : Sends(v)' = Sends(v)  BY SameSends
<1>2. RetriesDoubted'  BY DEF TraceInv, RetriesDoubted
<1>3. ASSUME NEW v \in W, v \notin doubt
      PROVE  SendsMatch(v)' /\ \A s \in Sessions : Alone(s, v)'
  <2>1. SendsMatch(v) /\ \A s \in Sessions : Alone(s, v)  BY <1>3 DEF TraceInv
  <2>2. CASE v = w
    BY <1>1, <2>1, <2>2 DEF SendsMatch, Alone, Executing, TypeOK
  <2>3. CASE v # w
    <3>1. status'[v] = status[v]  BY <2>3 DEF TypeOK
    <3> QED  BY <1>1, <2>1, <3>1 DEF SendsMatch, Alone, Executing, At
  <2> QED  BY <2>2, <2>3
<1> QED  BY <1>2, <1>3 DEF TraceInv

\* A step of the monitor, the chain or the clock that decides nothing.
LEMMA QuietTrace ==
    ASSUME TraceInv, UNCHANGED <<status, tx, session>>,
           doubt \subseteq doubt', \A w \in W : Sends(w)' = Sends(w),
           \A w \in W, s \in Sessions : rowLock[w] = s => rowLock'[w] = s
    PROVE  TraceInv'
<1>1. RetriesDoubted'  BY DEF TraceInv, RetriesDoubted
<1>2. ASSUME NEW w \in W, w \notin doubt'
      PROVE  SendsMatch(w)' /\ \A s \in Sessions : Alone(s, w)'
  <2>1. SendsMatch(w) /\ \A s \in Sessions : Alone(s, w)  BY <1>2 DEF TraceInv
  <2>2. SendsMatch(w)'  BY <2>1 DEF SendsMatch, At
  <2>3. \A s \in Sessions : Alone(s, w)'  BY <2>1 DEF Alone, Executing, At
  <2> QED  BY <2>2, <2>3
<1> QED  BY <1>1, <1>2 DEF TraceInv

LEMMA MonitorTrace ==
    ASSUME IInv, TraceInv, Scan \/ MonitorAbort \/ \E w \in W : Skip(w) \/ Process(w)
    PROVE  TraceInv'
<1> USE DEF IInv, dbVars
<1>1. UNCHANGED <<status, tx, session, doubt, chain>>
  BY DEF Scan, MonitorAbort, Skip, Process
<1>2. \A w \in W, s \in Sessions : rowLock[w] = s => rowLock'[w] = s
  BY WithdrawalsAssumption DEF Scan, MonitorAbort, Skip, Process, MonitorEnd, TypeOK
<1> QED  BY <1>1, <1>2, QuietTrace, SameSends

LEMMA MonitorCommitTrace == ASSUME IInv, TraceInv, MonitorCommit PROVE TraceInv'
<1> USE DEF IInv, MonitorCommit, MonitorEnd
<1>1. monitor \in Cycle /\ \A w \in W : Sends(w)' = Sends(w)  BY SameSends DEF TypeOK
<1>2. RetriesDoubted'  BY DEF TraceInv, RetriesDoubted
<1>3. ASSUME NEW w \in W, w \notin doubt'
      PROVE  SendsMatch(w)' /\ \A s \in Sessions : Alone(s, w)'
  <2>1. SendsMatch(w) /\ \A s \in Sessions : Alone(s, w)  BY <1>3 DEF TraceInv
  <2>2. CASE monitor.verdict[w] = "none"
    <3>1. status'[w] = status[w]  BY <2>2
    <3>2. SendsMatch(w)'  BY <1>1, <2>1, <3>1 DEF SendsMatch, At
    <3>3. \A s \in Sessions : rowLock[w] = s => rowLock'[w] = s  BY WithdrawalsAssumption
    <3> QED  BY <1>1, <2>1, <3>1, <3>2, <3>3 DEF Alone, Executing, At
  <2>3. CASE monitor.verdict[w] # "none"
    <3>1. status[w] = "processing" /\ status'[w] \in {"completed", "failed"}
      BY <1>1, <1>3, <2>3 DEF Cycle
    <3>2. SendsMatch(w)'  BY <1>1, <2>1, <3>1 DEF SendsMatch
    <3>3. \A s \in Sessions : ~Executing(s, w)'  BY <2>1, <3>1 DEF Alone, Executing
    <3> QED  BY <3>2, <3>3 DEF Alone
  <2> QED  BY <2>2, <2>3
<1> QED  BY <1>2, <1>3 DEF TraceInv

LEMMA WorldTrace ==
    ASSUME IInv, TraceInv,
           \/ \E w \in W : Elapse(w)
           \/ \E i \in DOMAIN chain, outcome \in {"confirmed", "failed"} : ChainDecides(i, outcome)
           \/ NextDay
           \/ UNCHANGED vars
    PROVE  TraceInv'
<1>1. UNCHANGED <<status, tx, session, doubt, rowLock>>
  BY DEF Elapse, ChainDecides, NextDay, vars, dbVars
<1>2. \A w \in W : Sends(w)' = Sends(w)
  BY ElapseIInv, ChainDecidesIInv, SameSends DEF NextDay, vars
<1> QED  BY <1>1, <1>2, QuietTrace

LEMMA InitTrace == Init => TraceInv
BY DEF Init, TraceInv, SendsMatch, Alone, Executing, RetriesDoubted, Sends, Idle, At

LEMMA NextTrace == IInv /\ TraceInv /\ [Next]_vars => TraceInv'
<1> SUFFICES ASSUME IInv, TraceInv, [Next]_vars PROVE TraceInv'  OBVIOUS
<1>1. CASE \E w \in W : Initiate(w)  BY <1>1, InitiateTrace
<1>2. CASE Scan \/ MonitorAbort \/ \E w \in W : Skip(w) \/ Process(w)  BY <1>2, MonitorTrace
<1>3. CASE MonitorCommit  BY <1>3, MonitorCommitTrace
<1>4. CASE \E s \in Sessions : Handler(s) \/ Crash(s)
  <2>1. PICK s \in Sessions : Handler(s) \/ Crash(s)  BY <1>4
  <2> QED  BY <2>1, OverwriteTrace, RefuseTrace, CheckLimitsTrace, BroadcastOkTrace,
              BroadcastLostTrace, BroadcastFailTrace, OutcomeTrace, DoubtedTrace DEF Handler
<1>5. CASE \E s \in Sessions, w \in W : Request(s, w)
  BY <1>5, ReadPendingTrace, ExecuteTrace, RetryTrace DEF Request
<1>6. CASE \/ \E w \in W : Elapse(w)
           \/ \E i \in DOMAIN chain, outcome \in {"confirmed", "failed"} : ChainDecides(i, outcome)
           \/ NextDay
           \/ UNCHANGED vars
  BY <1>6, WorldTrace
<1> QED  BY <1>1, <1>2, <1>3, <1>4, <1>5, <1>6 DEF Next

LEMMA TraceInvariance == Spec => []TraceInv
<1> QED  BY Invariance, InitTrace, NextTrace, PTL DEF Spec

\* A withdrawal that no retry, lost answer, crash or blind overwrite has put in
\* doubt is sent at most once, and its execution has the row to itself: the look
\* at status and hash under the lock is enough, for any number of sessions.
THEOREM SentOnce == Spec => []SentOnceUnlessInDoubt
<1>1. IInv /\ TraceInv => SentOnceUnlessInDoubt
  <2> SUFFICES ASSUME IInv, TraceInv PROVE SentOnceUnlessInDoubt  OBVIOUS
  <2>1. ASSUME NEW i \in DOMAIN chain, NEW j \in DOMAIN chain, chain[i].w = chain[j].w,
               chain[i].w \notin doubt
        PROVE  i = j
    <3>1. chain \in Seq(Transaction)  BY DEF IInv, TypeOK
    <3>2. chain[i] \in Transaction  BY ONLY <2>1, <3>1
    <3>3. PICK w \in W : w = chain[i].w  BY <3>2 DEF Transaction
    <3>4. i \in Sends(w) /\ j \in Sends(w)  BY <2>1, <3>3 DEF Sends
    <3> QED  BY <2>1, <3>3, <3>4 DEF TraceInv, SendsMatch
  <2>2. ASSUME NEW w \in W \ doubt, NEW s \in Sessions, NEW t \in Sessions,
               Executing(s, w), Executing(t, w)
        PROVE  s = t
    BY <2>2 DEF TraceInv, Alone
  <2> QED  BY <2>1, <2>2 DEF SentOnceUnlessInDoubt
<1> QED  BY <1>1, Invariance, TraceInvariance, PTL

-----------------------------------------------------------------------------
(* Where the funds are, as long as no withdrawal is in doubt.              *)

LEMMA EntriesAre ==
    \A l, u, d, r \in Nat :
        /\ Entries(l, u, d, r) \in [Kinds -> Nat]
        /\ Entries(l, u, d, r)["lock"] = l /\ Entries(l, u, d, r)["unlock"] = u
        /\ Entries(l, u, d, r)["debit"] = d /\ Entries(l, u, d, r)["refund"] = r
BY DEF Entries, Kinds

\* The bookings of a withdrawal.
LEMMA EntriesAdd ==
    ASSUME NEW e \in [Kinds -> Nat], NEW kind \in Kinds, NEW f, f = [e EXCEPT ![kind] = @ + 1]
    PROVE  /\ e = Entries(0, 0, 0, 0) /\ kind = "lock" => f = Entries(1, 0, 0, 0)
           /\ e = Entries(1, 0, 0, 0) /\ kind = "unlock" => f = Entries(1, 1, 0, 0)
           /\ e = Entries(1, 0, 0, 0) /\ kind = "debit" => f = Entries(1, 0, 1, 0)
           /\ e = Entries(1, 0, 1, 0) /\ kind = "refund" => f = Entries(1, 0, 1, 1)
<1>1. /\ f \in [Kinds -> Nat] /\ f[kind] = e[kind] + 1
      /\ \A k \in Kinds \ {kind} : f[k] = e[k]
  OBVIOUS
<1>2. {"lock", "unlock", "debit", "refund"} = Kinds  BY DEF Kinds
<1>3. CASE e = Entries(0, 0, 0, 0) /\ kind = "lock"
  <2>1. e["lock"] = 0 /\ e["unlock"] = 0 /\ e["debit"] = 0 /\ e["refund"] = 0
    BY <1>3, EntriesAre
  <2>2. f["lock"] = 1 /\ f["unlock"] = 0 /\ f["debit"] = 0 /\ f["refund"] = 0
    BY <1>1, <1>2, <1>3, <2>1
  <2> QED  BY <1>1, <1>3, <2>2 DEF Entries, Kinds
<1>4. CASE e = Entries(1, 0, 0, 0) /\ kind = "unlock"
  <2>1. e["lock"] = 1 /\ e["unlock"] = 0 /\ e["debit"] = 0 /\ e["refund"] = 0
    BY <1>4, EntriesAre
  <2>2. f["lock"] = 1 /\ f["unlock"] = 1 /\ f["debit"] = 0 /\ f["refund"] = 0
    BY <1>1, <1>2, <1>4, <2>1
  <2> QED  BY <1>1, <1>4, <2>2 DEF Entries, Kinds
<1>5. CASE e = Entries(1, 0, 0, 0) /\ kind = "debit"
  <2>1. e["lock"] = 1 /\ e["unlock"] = 0 /\ e["debit"] = 0 /\ e["refund"] = 0
    BY <1>5, EntriesAre
  <2>2. f["lock"] = 1 /\ f["unlock"] = 0 /\ f["debit"] = 1 /\ f["refund"] = 0
    BY <1>1, <1>2, <1>5, <2>1
  <2> QED  BY <1>1, <1>5, <2>2 DEF Entries, Kinds
<1>6. CASE e = Entries(1, 0, 1, 0) /\ kind = "refund"
  <2>1. e["lock"] = 1 /\ e["unlock"] = 0 /\ e["debit"] = 1 /\ e["refund"] = 0
    BY <1>6, EntriesAre
  <2>2. f["lock"] = 1 /\ f["unlock"] = 0 /\ f["debit"] = 1 /\ f["refund"] = 1
    BY <1>1, <1>2, <1>6, <2>1
  <2> QED  BY <1>1, <1>6, <2>2 DEF Entries, Kinds
<1> QED  BY <1>3, <1>4, <1>5, <1>6

LEMMA AmountType == \A w \in W : Amount[w] \in Nat /\ Amount[w] \in Int /\ Amount[w] > 0
<1> SUFFICES ASSUME NEW w \in W PROVE Amount[w] \in Nat /\ Amount[w] \in Int /\ Amount[w] > 0
  OBVIOUS
<1>1. Amount[w] \in Amounts /\ Amount[w] # 0  BY WithdrawalsAssumption
<1>2. Amount[w] \in Nat  BY <1>1, AmountsAssumption
<1> QED  BY <1>1, <1>2

\* What a booking adds to the reservation, and to the entries of its withdrawal.
LEMMA BookMoves ==
    ASSUME TypeOK, NEW w \in W, NEW kind \in {"lock", "unlock", "debit"}, Book(kind, w)
    PROVE  /\ wallet'.reserved = IF kind = "lock" THEN wallet.reserved + Amount[w]
                                 ELSE wallet.reserved - Amount[w]
           /\ entries'[w] = [entries[w] EXCEPT ![kind] = @ + 1]
           /\ \A v \in W \ {w} : entries'[v] = entries[v]
<1>1. wallet \in Row /\ entries \in [W -> [Kinds -> Nat]]  BY DEF TypeOK
<1>2. wallet'.reserved = IF kind = "lock" THEN wallet.reserved + Amount[w]
                         ELSE wallet.reserved - Amount[w]
  BY <1>1 DEF Book, Apply, LockBalance, UnlockBalance, DeductReservedBalance, Row
<1> QED  BY <1>1, <1>2 DEF Book

\* What is held of one withdrawal is covered by the reservation.
LEMMA HeldCovered ==
    ASSUME IInv, FundsInv, doubt = {}, NEW w \in Held
    PROVE  /\ Can("unlock", w) /\ Can("debit", w)
           /\ SumFunctionOnSet(Amount, Held \ {w}) = wallet.reserved - Amount[w]
<1>1. Held \in SUBSET W /\ IsFiniteSet(W) /\ IsFiniteSet(Held) /\ w \in W
  BY WithdrawalsAssumption, FS_Subset DEF Held
<1>2. \A v \in W : Amount[v] \in Nat /\ Amount[v] \in Int /\ Amount[v] > 0  BY AmountType
<1>3. wallet.reserved = SumFunctionOnSet(Amount, Held)  BY DEF FundsInv, Books
<1>4. SumFunctionOnSet(Amount, Held) >= Amount[w]
  <2>1. \A v \in Held : Amount[v] \in Nat  BY <1>1, <1>2
  <2> QED  BY <1>1, <2>1, SumNat
<1>5. SumFunctionOnSet(Amount, Held \ {w}) = SumFunctionOnSet(Amount, Held) - Amount[w]
  BY <1>1, <1>2, SumRemove
<1> QED  BY <1>1, <1>2, <1>3, <1>4, <1>5 DEF Can, Accepts, Sufficient

\* What a step does to the status of w, and to whether it was sent.
Sent(w) == Sends(w) # {}

Moves(w) ==
    \/ status'[w] = status[w] /\ Sent(w)' = Sent(w)
    \/ <<status[w], Sent(w), status'[w], Sent(w)'>> \in
          {<<"none", FALSE, "pending", FALSE>>, <<"pending", FALSE, "cancelled", FALSE>>,
           <<"pending", FALSE, "rejected", FALSE>>, <<"pending", FALSE, "approved", FALSE>>,
           <<"approved", FALSE, "failed", FALSE>>, <<"approved", FALSE, "approved", TRUE>>,
           <<"approved", TRUE, "processing", TRUE>>, <<"processing", TRUE, "completed", TRUE>>,
           <<"processing", TRUE, "failed", TRUE>>}

\* A step on one withdrawal that the monitor does not look at.
LEMMA StepOnOne ==
    ASSUME IInv, FundsInv, doubt = {}, NEW w \in W, status[w] # "processing",
           UNCHANGED monitor,
           \A v \in W \ {w} : status'[v] = status[v] /\ entries'[v] = entries[v],
           wallet'.reserved = SumFunctionOnSet(Amount, Held'),
           entries'[w] \in EntriesOf(status'[w])
    PROVE  FundsInv'
<1>1. FundsFollowStatus'  BY DEF FundsInv, FundsFollowStatus
<1>2. ASSUME monitor # Sleep, NEW v \in W
      PROVE  /\ v \in monitor.todo \/ monitor.verdict[v] # "none" => status'[v] = "processing"
             /\ monitor.verdict[v] = "failed" => v \in monitor.refund
  BY <1>2 DEF FundsInv, Books
<1> QED  BY <1>1, <1>2 DEF FundsInv, Books

LEMMA InitiateFunds ==
    ASSUME IInv, TraceInv, FundsInv, doubt = {}, NEW w \in W, Initiate(w)
    PROVE  FundsInv' /\ \A v \in W : Moves(v)
<1> USE DEF IInv, Initiate
<1>1. /\ wallet'.reserved = wallet.reserved + Amount[w]
      /\ entries'[w] = [entries[w] EXCEPT !["lock"] = @ + 1]
      /\ \A v \in W \ {w} : entries'[v] = entries[v]
  BY BookMoves
<1>2. status'[w] = "pending" /\ \A v \in W \ {w} : status'[v] = status[v]  BY DEF TypeOK
<1>3. entries'[w] \in EntriesOf(status'[w])
  <2>1. entries[w] = Entries(0, 0, 0, 0)  BY DEF FundsInv, FundsFollowStatus, EntriesOf
  <2>2. entries[w] \in [Kinds -> Nat] /\ "lock" \in Kinds  BY DEF TypeOK, Kinds
  <2>3. entries'[w] = Entries(1, 0, 0, 0)  BY ONLY <1>1, <2>1, <2>2, EntriesAdd
  <2> QED  BY <1>2, <2>3 DEF EntriesOf
<1>4. wallet'.reserved = SumFunctionOnSet(Amount, Held')
  <2>1. Held' = Held \cup {w} /\ w \notin Held /\ Held \in SUBSET W  BY <1>2 DEF Held
  <2>2. IsFiniteSet(W) /\ \A v \in W : Amount[v] \in Int  BY WithdrawalsAssumption, AmountType
  <2>3. SumFunctionOnSet(Amount, Held \cup {w}) = SumFunctionOnSet(Amount, Held) + Amount[w]
    BY <2>1, <2>2, SumAdd
  <2> QED  BY <1>1, <2>1, <2>3 DEF FundsInv, Books
<1>5. FundsInv'  BY <1>1, <1>2, <1>3, <1>4, StepOnOne
<1>6. ASSUME NEW v \in W PROVE Moves(v)
  <2>1. Sent(v)' = Sent(v)  BY SameSends DEF Sent
  <2>2. CASE v = w
    <3>1. Sent(w) = FALSE  BY DEF TraceInv, SendsMatch, Sent
    <3> QED  BY <1>2, <2>1, <2>2, <3>1 DEF Moves
  <2>3. CASE v # w  BY <1>2, <2>1, <2>3 DEF Moves
  <2> QED  BY <2>2, <2>3
<1> QED  BY <1>5, <1>6

\* A held withdrawal gives its amount back or pays it out.
LEMMA ReleaseFunds ==
    ASSUME IInv, FundsInv, doubt = {}, NEW w \in Held, UNCHANGED monitor,
           NEW kind \in {"unlock", "debit"}, Book(kind, w),
           NEW new \in Statuses \ {"pending", "approved"},
           status' = [status EXCEPT ![w] = new],
           kind = "unlock" => Entries(1, 1, 0, 0) \in EntriesOf(new),
           kind = "debit" => Entries(1, 0, 1, 0) \in EntriesOf(new)
    PROVE  FundsInv'
<1> USE DEF IInv
<1>0. w \in W /\ status[w] \in {"pending", "approved"}  BY DEF Held
<1>1. /\ wallet'.reserved = wallet.reserved - Amount[w]
      /\ entries'[w] = [entries[w] EXCEPT ![kind] = @ + 1]
      /\ \A v \in W \ {w} : entries'[v] = entries[v]
  BY <1>0, BookMoves
<1>2. status'[w] = new /\ \A v \in W \ {w} : status'[v] = status[v]  BY <1>0 DEF TypeOK
<1>3. entries[w] = Entries(1, 0, 0, 0)  BY <1>0 DEF FundsInv, FundsFollowStatus, EntriesOf
<1>4. entries'[w] \in EntriesOf(status'[w])
  <2>0. entries[w] \in [Kinds -> Nat] /\ kind \in Kinds  BY <1>0 DEF TypeOK, Kinds
  <2>1. CASE kind = "unlock"
    <3>1. entries'[w] = Entries(1, 1, 0, 0)  BY ONLY <1>1, <1>3, <2>0, <2>1, EntriesAdd
    <3> QED  BY <1>2, <2>1, <3>1
  <2>2. CASE kind = "debit"
    <3>1. entries'[w] = Entries(1, 0, 1, 0)  BY ONLY <1>1, <1>3, <2>0, <2>2, EntriesAdd
    <3> QED  BY <1>2, <2>2, <3>1
  <2> QED  BY <2>1, <2>2
<1>5. Held' = Held \ {w}  BY <1>0, <1>2 DEF Held
<1>6. wallet'.reserved = SumFunctionOnSet(Amount, Held')  BY <1>1, <1>5, HeldCovered
<1> QED  BY <1>0, <1>1, <1>2, <1>4, <1>6, StepOnOne

LEMMA OverwriteFunds ==
    ASSUME IInv, TraceInv, FundsInv, doubt = {}, doubt' = {},
           NEW s \in Sessions, Cancel(s) \/ Reject(s) \/ Approve(s)
    PROVE  FundsInv' /\ \A v \in W : Moves(v)
<1> USE DEF IInv
<1>1. PICK label \in {"cancel", "reject", "approve"}, new \in {"cancelled", "rejected", "approved"} :
         /\ Overwrite(s, label, new)
         /\ (new = "approved" /\ UNCHANGED <<wallet, entries>>)
              \/ (new # "approved" /\ TryUnlock(session[s].w))
  BY DEF Cancel, Reject, Approve
<1>2. PICK w \in W : w = session[s].w  BY <1>1, SessionOn DEF Overwrite, At
<1>3. /\ status[w] = "pending" /\ status' = [status EXCEPT ![w] = new]
      /\ UNCHANGED <<chain, monitor>>
  BY <1>1, <1>2 DEF Overwrite
<1>4. w \in Held /\ new \in Statuses  BY <1>3 DEF Held, Statuses
<1>5. FundsInv'
  <2>1. CASE new = "approved"
    <3>1. UNCHANGED <<wallet, entries>>  BY <1>1, <2>1
    <3>2. status'[w] = "approved" /\ \A v \in W \ {w} : status'[v] = status[v]
      BY <1>3, <2>1 DEF TypeOK
    <3>3. Held' = Held  BY <1>3, <3>2 DEF Held
    <3>4. wallet'.reserved = SumFunctionOnSet(Amount, Held')  BY <3>1, <3>3 DEF FundsInv, Books
    <3>5. entries'[w] \in EntriesOf(status'[w])
      BY <1>3, <3>1, <3>2 DEF FundsInv, FundsFollowStatus, EntriesOf
    <3> QED  BY <1>3, <3>1, <3>2, <3>4, <3>5, StepOnOne
  <2>2. CASE new # "approved"
    <3>1. Book("unlock", w)  BY <1>1, <1>2, <1>4, <2>2, HeldCovered DEF TryUnlock
    <3>2. Entries(1, 1, 0, 0) \in EntriesOf(new)  BY <2>2 DEF EntriesOf
    <3>3. new \in Statuses \ {"pending", "approved"}  BY <1>4, <2>2
    <3> QED  BY <1>3, <1>4, <3>1, <3>2, <3>3, ReleaseFunds
  <2> QED  BY <2>1, <2>2
<1>6. ASSUME NEW v \in W PROVE Moves(v)
  <2>1. Sent(v)' = Sent(v)  BY <1>3, SameSends DEF Sent
  <2>2. CASE v = w
    <3>1. Sent(w) = FALSE  BY <1>3 DEF TraceInv, SendsMatch, Sent
    <3>2. status'[w] = new  BY <1>3 DEF TypeOK
    <3> QED  BY <1>3, <2>1, <2>2, <3>1, <3>2 DEF Moves
  <2>3. CASE v # w
    <3>1. status'[v] = status[v]  BY <1>3, <2>3 DEF TypeOK
    <3> QED  BY <2>1, <3>1 DEF Moves
  <2> QED  BY <2>2, <2>3
<1> QED  BY <1>5, <1>6

LEMMA OutcomeFunds ==
    ASSUME IInv, TraceInv, FundsInv, doubt = {}, doubt' = {},
           NEW s \in Sessions, GiveUp(s) \/ Settle(s) \/ FailUndebited(s)
    PROVE  FundsInv' /\ \A v \in W : Moves(v)
<1> USE DEF IInv
<1>1. PICK w \in W : w = session[s].w
  BY SessionOn DEF GiveUp, Settle, FailUndebited, At
<1>2. ~FailUndebited(s)  BY DEF FailUndebited, At, TraceInv, RetriesDoubted
<1>3. Alone(s, w)  BY DEF TraceInv
<1>4. status[w] = "approved" /\ Sent(w) = At(s, "sent")
  <2>1. Executing(s, w)  BY <1>1, <1>2 DEF Executing, GiveUp, Settle, At
  <2>2. CASE At(s, "sent")  BY <1>3, <2>1, <2>2 DEF Alone, Sent
  <2>3. CASE ~At(s, "sent")
    <3>1. Sends(w) = {}  BY <1>3, <2>1, <2>3 DEF Alone
    <3>2. Sent(w) = FALSE  BY <3>1 DEF Sent
    <3> QED  BY ONLY <1>3, <2>1, <2>3, <3>2 DEF Alone, At
  <2> QED  BY <2>2, <2>3
<1>5. w \in Held  BY <1>4 DEF Held
<1>6. PICK kind \in {"unlock", "debit"}, new \in {"failed", "processing"} :
         /\ Book(kind, w) /\ status' = [status EXCEPT ![w] = new]
         /\ kind = "unlock" <=> new = "failed"
         /\ At(s, "sent") <=> new = "processing"
  <2>1. CASE GiveUp(s)
    <3>1. Book("unlock", w)  BY <1>1, <1>5, <2>1, HeldCovered DEF GiveUp, TryUnlock
    <3> QED  BY <1>1, <2>1, <3>1 DEF GiveUp, At
  <2>2. CASE Settle(s)  BY <1>1, <2>2 DEF Settle
  <2> QED  BY <1>2, <2>1, <2>2
<1>7. UNCHANGED <<chain, monitor>>  BY DEF GiveUp, Settle, FailUndebited
<1>8. FundsInv'
  <2>1. kind = "unlock" => Entries(1, 1, 0, 0) \in EntriesOf(new)  BY <1>6 DEF EntriesOf
  <2>2. kind = "debit" => Entries(1, 0, 1, 0) \in EntriesOf(new)  BY <1>6 DEF EntriesOf
  <2>3. new \in Statuses \ {"pending", "approved"}  BY DEF Statuses
  <2> QED  BY <1>5, <1>6, <1>7, <2>1, <2>2, <2>3, ReleaseFunds
<1>9. ASSUME NEW v \in W PROVE Moves(v)
  <2>1. Sent(v)' = Sent(v)  BY <1>7, SameSends DEF Sent
  <2>2. CASE v = w
    <3>1. status'[w] = new  BY <1>6 DEF TypeOK
    <3> QED  BY <1>4, <1>6, <2>1, <2>2, <3>1 DEF Moves, At
  <2>3. CASE v # w
    <3>1. status'[v] = status[v]  BY <1>6, <2>3 DEF TypeOK
    <3> QED  BY <2>1, <3>1 DEF Moves
  <2> QED  BY <2>2, <2>3
<1> QED  BY <1>8, <1>9

\* Steps of the handlers that touch neither a status nor the wallet.
LEMMA HandlerQuiet ==
    ASSUME IInv, FundsInv, UNCHANGED <<status, wallet, entries, monitor>>, doubt = {}
    PROVE  FundsInv'
BY DEF FundsInv, Books, FundsFollowStatus, Held

LEMMA SameMoves ==
    ASSUME UNCHANGED status, \A v \in W : Sends(v)' = Sends(v)
    PROVE  \A v \in W : Moves(v)
BY DEF Moves, Sent

LEMMA BroadcastOkMoves ==
    ASSUME IInv, TraceInv, doubt = {}, NEW s \in Sessions, BroadcastOk(s)
    PROVE  \A v \in W : Moves(v)
<1> USE DEF IInv, BroadcastOk, dbVars
<1>1. PICK w \in W : w = session[s].w  BY SessionOn DEF At
<1>2. Alone(s, w)  BY DEF TraceInv
<1>3. status[w] = "approved" /\ Sends(w) = {}  BY <1>1, <1>2 DEF Alone, Executing, At
<1>4. Sends(w)' # {} /\ \A v \in W \ {w} : Sends(v)' = Sends(v)  BY <1>1, ReachGrows
<1>5. Sent(w) = FALSE /\ Sent(w)' = TRUE  BY <1>3, <1>4 DEF Sent
<1>6. Moves(w)  BY <1>3, <1>5 DEF Moves
<1>7. \A v \in W \ {w} : Moves(v)  BY <1>4 DEF Moves, Sent
<1> QED  BY <1>6, <1>7

LEMMA ScanFunds == ASSUME IInv, FundsInv, doubt = {}, Scan PROVE FundsInv'
<1>1. FundsFollowStatus'  BY DEF Scan, dbVars, FundsInv, FundsFollowStatus
<1>2. Books'  BY DEF Scan, dbVars, FundsInv, Books, Held
<1> QED  BY <1>1, <1>2 DEF FundsInv

LEMMA SkipFunds == ASSUME IInv, FundsInv, doubt = {}, NEW w \in W, Skip(w) PROVE FundsInv'
<1> USE DEF Skip, dbVars, FundsInv
<1>1. FundsFollowStatus'  BY DEF FundsFollowStatus
<1>2. monitor \in Cycle  BY DEF IInv, TypeOK
<1>3. Books'  BY <1>2 DEF Books, Held, Cycle
<1> QED  BY <1>1, <1>3

\* A verdict that the payout failed is a refund: there was one debit, and no
\* refund yet.
LEMMA ProcessFunds == ASSUME IInv, FundsInv, doubt = {}, NEW w \in W, Process(w) PROVE FundsInv'
<1>0. /\ monitor \in Cycle /\ monitor # Sleep /\ w \in monitor.todo
      /\ UNCHANGED <<status, tx, wallet, entries, chain, doubt>>
  BY DEF IInv, TypeOK, Process, dbVars
<1>1. PICK v \in Verdicts(chain[monitor.seen[w]]) : Looked(w, v)  BY DEF Process, Looked
<1>2. v \in {"none", "completed", "failed"}  BY VerdictsKnown
<1>3. /\ monitor'.todo = monitor.todo \ {w}
      /\ monitor'.verdict = [monitor.verdict EXCEPT ![w] = v]
      /\ monitor'.refund = (IF v = "failed" /\ Refundable(w) THEN monitor.refund \cup {w}
                            ELSE monitor.refund)
      /\ monitor' # Sleep
  BY <1>0, <1>1, <1>2, LookedCycle
<1>4. status[w] = "processing"  BY <1>0 DEF FundsInv, Books
<1>5. Refundable(w)
  <2>1. entries[w] = Entries(1, 0, 1, 0)  BY <1>4 DEF FundsInv, FundsFollowStatus, EntriesOf
  <2>2. entries[w]["debit"] = 1 /\ entries[w]["refund"] = 0  BY <2>1, EntriesAre
  <2> QED  BY <2>2 DEF Refundable
<1>6. FundsFollowStatus'  BY <1>0 DEF FundsInv, FundsFollowStatus
<1>7. monitor.verdict \in [W -> {"none", "completed", "failed"}]  BY <1>0 DEF Cycle
<1>8. ASSUME NEW x \in W
      PROVE  /\ x \in monitor'.todo \/ monitor'.verdict[x] # "none" => status[x] = "processing"
             /\ monitor'.verdict[x] = "failed" => x \in monitor'.refund
  BY <1>0, <1>3, <1>4, <1>5, <1>7 DEF FundsInv, Books
<1>9. Books'  BY <1>0, <1>8 DEF FundsInv, Books, Held
<1> QED  BY <1>6, <1>9 DEF FundsInv

LEMMA MonitorAbortFunds == ASSUME IInv, FundsInv, doubt = {}, MonitorAbort PROVE FundsInv'
BY DEF MonitorAbort, MonitorEnd, dbVars, FundsInv, FundsFollowStatus, Books, Held

LEMMA MonitorCommitFunds ==
    ASSUME IInv, TraceInv, FundsInv, doubt = {}, MonitorCommit
    PROVE  FundsInv' /\ \A v \in W : Moves(v)
<1> USE DEF MonitorCommit, MonitorEnd
<1>0. /\ monitor \in Cycle /\ monitor.verdict \in [W -> {"none", "completed", "failed"}]
      /\ \A w \in W : Sends(w)' = Sends(w)
  BY SameSends DEF IInv, TypeOK, Cycle
<1>1. ASSUME NEW w \in W, monitor.verdict[w] # "none"
      PROVE  status[w] = "processing" /\ status'[w] = monitor.verdict[w]
  BY <1>1 DEF FundsInv, Books
<1>2. ASSUME NEW w \in W, monitor.verdict[w] = "none"
      PROVE  status'[w] = status[w] /\ entries'[w] = entries[w]
  BY <1>2 DEF IInv, CycleSound
<1>3. ASSUME NEW w \in W  PROVE entries'[w] \in EntriesOf(status'[w])
  <2>1. entries[w] \in EntriesOf(status[w])  BY DEF FundsInv, FundsFollowStatus
  <2>2. CASE monitor.verdict[w] = "none"  BY <1>2, <2>1, <2>2
  <2>3. CASE monitor.verdict[w] = "completed"
    <3>1. status[w] = "processing" /\ status'[w] = "completed"  BY <1>1, <2>3
    <3>2. w \notin monitor.refund  BY <2>3 DEF IInv, CycleSound
    <3> QED  BY <2>1, <3>1, <3>2 DEF EntriesOf
  <2>4. CASE monitor.verdict[w] = "failed"
    <3>1. status[w] = "processing" /\ status'[w] = "failed"  BY <1>1, <2>4
    <3>2. w \in monitor.refund  BY <2>4 DEF FundsInv, Books
    <3>3. entries[w] = Entries(1, 0, 1, 0)  BY <2>1, <3>1 DEF EntriesOf
    <3>4. entries'[w] = [entries[w] EXCEPT !["refund"] = @ + 1]  BY <3>2
    <3>5. entries[w] \in [Kinds -> Nat] /\ "refund" \in Kinds  BY DEF IInv, TypeOK, Kinds
    <3>6. entries'[w] = Entries(1, 0, 1, 1)  BY ONLY <3>3, <3>4, <3>5, EntriesAdd
    <3> QED  BY <3>1, <3>6 DEF EntriesOf
  <2> QED  BY <1>0, <2>2, <2>3, <2>4
<1>4. FundsFollowStatus'  BY <1>3 DEF FundsFollowStatus
<1>5. Held' = Held
  <2>1. \A w \in W : status'[w] \in {"pending", "approved"} <=> status[w] \in {"pending", "approved"}
    BY <1>0, <1>1, <1>2
  <2> QED  BY <2>1 DEF Held
<1>6. wallet'.reserved = wallet.reserved  BY <1>0, CreditRow DEF IInv, TypeOK, Cycle
<1>7. Books'  BY <1>5, <1>6 DEF FundsInv, Books
<1>8. ASSUME NEW v \in W PROVE Moves(v)
  <2>1. Sent(v)' = Sent(v)  BY <1>0 DEF Sent
  <2>2. CASE monitor.verdict[v] = "none"  BY <1>2, <2>1, <2>2 DEF Moves
  <2>3. CASE monitor.verdict[v] # "none"
    <3>1. status[v] = "processing" /\ status'[v] \in {"completed", "failed"}
      BY <1>0, <1>1, <2>3
    <3>2. Sent(v) = TRUE  BY <3>1 DEF TraceInv, SendsMatch, Sent
    <3> QED  BY <2>1, <3>1, <3>2 DEF Moves
  <2> QED  BY <2>2, <2>3
<1> QED  BY <1>4, <1>7, <1>8 DEF FundsInv

LEMMA DoubtStays == IInv /\ [Next]_vars /\ doubt' = {} => doubt = {}
<1> SUFFICES ASSUME [Next]_vars PROVE doubt \subseteq doubt'  OBVIOUS
<1>1. CASE \E w \in W : Initiate(w) \/ Skip(w) \/ Process(w) \/ Elapse(w)
  BY <1>1 DEF Initiate, Skip, Process, Elapse
<1>2. CASE \E s \in Sessions : Handler(s) \/ Crash(s)
  BY <1>2 DEF Handler, Crash, Cancel, Approve, Reject, Overwrite, Refuse, CheckLimits, BroadcastOk,
     BroadcastLost, BroadcastFail, GiveUp, Settle, DebitFail, FailUndebited, ExecuteRetried
<1>3. CASE \E s \in Sessions, w \in W : Request(s, w)
  BY <1>3 DEF Request, ReadPending, Execute, Retry
<1>4. CASE Scan \/ MonitorCommit \/ MonitorAbort  BY <1>4 DEF Scan, MonitorCommit, MonitorAbort
<1>5. CASE \E i \in DOMAIN chain, outcome \in {"confirmed", "failed"} : ChainDecides(i, outcome)
  BY <1>5 DEF ChainDecides
<1>6. CASE NextDay \/ UNCHANGED vars  BY <1>6 DEF NextDay, vars
<1> QED  BY <1>1, <1>2, <1>3, <1>4, <1>5, <1>6 DEF Next

LEMMA HandlerFunds ==
    ASSUME IInv, TraceInv, FundsInv, doubt = {}, doubt' = {},
           NEW s \in Sessions, Handler(s) \/ Crash(s)
    PROVE  FundsInv' /\ \A v \in W : Moves(v)
<1>1. CASE Cancel(s) \/ Approve(s) \/ Reject(s)  BY <1>1, OverwriteFunds
<1>2. CASE GiveUp(s) \/ Settle(s) \/ FailUndebited(s)  BY <1>2, OutcomeFunds
<1>3. CASE BroadcastLost(s) \/ DebitFail(s)  BY <1>3 DEF BroadcastLost, DebitFail
<1>4. CASE BroadcastOk(s)
  <2>1. UNCHANGED <<status, wallet, entries, monitor>>  BY <1>4 DEF BroadcastOk, dbVars
  <2> QED  BY <1>4, <2>1, HandlerQuiet, BroadcastOkMoves
<1>5. CASE Refuse(s) \/ Crash(s) \/ CheckLimits(s) \/ BroadcastFail(s) \/ ExecuteRetried(s)
  <2>1. UNCHANGED <<status, wallet, entries, monitor, chain>>
    BY <1>5 DEF Refuse, Crash, CheckLimits, BroadcastFail, ExecuteRetried, dbVars
  <2> QED  BY <2>1, HandlerQuiet, SameMoves, SameSends
<1> QED  BY <1>1, <1>2, <1>3, <1>4, <1>5 DEF Handler

LEMMA RequestFunds ==
    ASSUME IInv, TraceInv, FundsInv, doubt = {}, doubt' = {},
           NEW s \in Sessions, NEW w \in W, Request(s, w)
    PROVE  FundsInv' /\ \A v \in W : Moves(v)
<1>1. ~Retry(s, w)  BY DEF Retry
<1>2. UNCHANGED <<status, wallet, entries, monitor, chain>>
  BY <1>1 DEF Request, ReadPending, Execute, dbVars
<1> QED  BY <1>2, HandlerQuiet, SameMoves, SameSends

LEMMA NextFunds ==
    ASSUME IInv, TraceInv, FundsInv, [Next]_vars, doubt' = {}
    PROVE  FundsInv' /\ \A v \in W : Moves(v)
<1>0. doubt = {}  BY DoubtStays
<1>1. CASE \E w \in W : Initiate(w)  BY <1>0, <1>1, InitiateFunds
<1>2. CASE \E s \in Sessions : Handler(s) \/ Crash(s)  BY <1>0, <1>2, HandlerFunds
<1>3. CASE \E s \in Sessions, w \in W : Request(s, w)  BY <1>0, <1>3, RequestFunds
<1>4. CASE MonitorCommit  BY <1>0, <1>4, MonitorCommitFunds
<1>5. CASE Scan \/ MonitorAbort \/ \E w \in W : Skip(w) \/ Process(w)
  <2>1. UNCHANGED <<status, chain>>  BY <1>5 DEF Scan, MonitorAbort, Skip, Process, dbVars
  <2> QED  BY <1>0, <1>5, <2>1, ScanFunds, SkipFunds, ProcessFunds, MonitorAbortFunds,
              SameMoves, SameSends
<1>6. CASE \/ \E w \in W : Elapse(w)
           \/ \E i \in DOMAIN chain, outcome \in {"confirmed", "failed"} : ChainDecides(i, outcome)
           \/ NextDay
           \/ UNCHANGED vars
  <2>1. UNCHANGED <<status, wallet, entries, monitor>>
    BY <1>6 DEF Elapse, ChainDecides, NextDay, vars, dbVars
  <2>2. \A w \in W : Sends(w)' = Sends(w)
    BY <1>6, ElapseIInv, ChainDecidesIInv, SameSends DEF NextDay, vars
  <2> QED  BY <1>0, <2>1, <2>2, HandlerQuiet, SameMoves
<1> QED  BY <1>1, <1>2, <1>3, <1>4, <1>5, <1>6 DEF Next

LEMMA InitFunds == Init => FundsInv
<1> SUFFICES ASSUME Init PROVE FundsInv  OBVIOUS
<1> USE DEF Init
<1>1. Held = {} /\ wallet.reserved = 0  BY DEF Held
<1>2. SumFunctionOnSet(Amount, {}) = 0
  <2>1. \A w \in W : Amount[w] \in Int  BY AmountType
  <2> QED  BY <2>1, WithdrawalsAssumption, SumType
<1>3. \A w \in W : entries[w] = Entries(0, 0, 0, 0)  BY DEF Entries
<1> QED  BY <1>1, <1>2, <1>3 DEF FundsInv, Books, FundsFollowStatus, EntriesOf

LEMMA FundsInvariance == Spec => []FundsInv
<1>1. IInv /\ TraceInv /\ FundsInv /\ [Next]_vars => FundsInv'
  <2>1. doubt' # {} => FundsInv'  BY DEF FundsInv, Books, FundsFollowStatus
  <2> QED  BY <2>1, NextFunds
<1> QED  BY <1>1, Invariance, TraceInvariance, InitFunds, PTL DEF Spec

\* As long as no withdrawal is in doubt, each has exactly the ledger entries its
\* status stands for, whatever the sessions and the monitor interleave, and no
\* unlock or debit of a reserved amount is ever refused.
THEOREM FundsAudit == Spec => []FundsFollowStatus
<1>1. FundsInv => FundsFollowStatus  BY DEF FundsInv
<1> QED  BY <1>1, FundsInvariance, PTL

\* Where the entries put the money, by status.
PlaceOf(st) ==
    CASE st \in {"pending", "approved"}     -> "reserved"
      [] st \in {"processing", "completed"} -> "out"
      [] OTHER                             -> "user"

LEMMA FundsOfStatus ==
    FundsInv /\ doubt = {} => \A w \in W : FundsOf(w) = PlaceOf(status[w])
<1> SUFFICES ASSUME FundsInv, doubt = {}, NEW w \in W PROVE FundsOf(w) = PlaceOf(status[w])
  OBVIOUS
<1>1. entries[w] \in EntriesOf(status[w])  BY DEF FundsInv, FundsFollowStatus
<1>2. CASE status[w] \in {"pending", "approved"}
  <2>1. entries[w] = Entries(1, 0, 0, 0)  BY <1>1, <1>2 DEF EntriesOf
  <2>2. /\ entries[w]["lock"] = 1 /\ entries[w]["unlock"] = 0
        /\ entries[w]["debit"] = 0 /\ entries[w]["refund"] = 0
    BY <2>1, EntriesAre
  <2> QED  BY <1>2, <2>2 DEF FundsOf, PlaceOf
<1>3. CASE status[w] \in {"processing", "completed"}
  <2>1. entries[w] = Entries(1, 0, 1, 0)  BY <1>1, <1>3 DEF EntriesOf
  <2>2. /\ entries[w]["lock"] = 1 /\ entries[w]["unlock"] = 0
        /\ entries[w]["debit"] = 1 /\ entries[w]["refund"] = 0
    BY <2>1, EntriesAre
  <2> QED  BY <1>3, <2>2 DEF FundsOf, PlaceOf
<1>4. CASE status[w] \notin {"pending", "approved", "processing", "completed"}
  <2>1. \/ entries[w] = Entries(0, 0, 0, 0) \/ entries[w] = Entries(1, 1, 0, 0)
        \/ entries[w] = Entries(1, 0, 1, 1)
    BY <1>1, <1>4 DEF EntriesOf
  <2>2. FundsOf(w) = "user"
    <3>1. CASE entries[w] = Entries(0, 0, 0, 0)
      <4>1. /\ entries[w]["lock"] = 0 /\ entries[w]["unlock"] = 0
            /\ entries[w]["debit"] = 0 /\ entries[w]["refund"] = 0
        BY <3>1, EntriesAre
      <4> QED  BY <4>1 DEF FundsOf
    <3>2. CASE entries[w] = Entries(1, 1, 0, 0)
      <4>1. /\ entries[w]["lock"] = 1 /\ entries[w]["unlock"] = 1
            /\ entries[w]["debit"] = 0 /\ entries[w]["refund"] = 0
        BY <3>2, EntriesAre
      <4> QED  BY <4>1 DEF FundsOf
    <3>3. CASE entries[w] = Entries(1, 0, 1, 1)
      <4>1. /\ entries[w]["lock"] = 1 /\ entries[w]["unlock"] = 0
            /\ entries[w]["debit"] = 1 /\ entries[w]["refund"] = 1
        BY <3>3, EntriesAre
      <4> QED  BY <4>1 DEF FundsOf
    <3> QED  BY <2>1, <3>1, <3>2, <3>3
  <2> QED  BY <1>4, <2>2 DEF PlaceOf
<1> QED  BY <1>2, <1>3, <1>4

LEMMA FundsOfNextStatus ==
    (FundsInv /\ doubt = {} => \A w \in W : FundsOf(w) = PlaceOf(status[w]))'
BY FundsOfStatus, PTL

\* The withdrawals implement the promise, step by step, as long as none is in
\* doubt: money is in one place at a time, leaves the reservation only for the
\* payout or back to the user, and is not sent after it was given back.
THEOREM PromiseKept == Spec => KeepsPromise
<1>1. ASSUME IInv, TraceInv, FundsInv, FundsInv', [Next]_vars, doubt' = {}
      PROVE  Promised!Next
  <2>0. doubt = {} /\ \A w \in W : Moves(w)  BY <1>1, DoubtStays, NextFunds
  <2>1. ASSUME NEW w \in W
        PROVE  PromiseOf(w)' = PromiseOf(w) \/ <<PromiseOf(w), PromiseOf(w)'>> \in Promised!Steps
    <3>1. Moves(w)  BY <2>0
    <3>2. FundsOf(w) = PlaceOf(status[w])  BY <1>1, <2>0, FundsOfStatus
    <3>3. FundsOf(w)' = PlaceOf(status'[w])  BY <1>1, FundsOfNextStatus
    <3>4. PromiseOf(w) = Promised!Made(status[w], PlaceOf(status[w]), Sent(w))
      BY <3>2 DEF PromiseOf, Promised!Made, Sent
    <3>5. PromiseOf(w)' = Promised!Made(status'[w], PlaceOf(status'[w]), Sent(w)')
      BY <3>3 DEF PromiseOf, Promised!Made, Sent
    <3> QED  BY <3>1, <3>4, <3>5 DEF Moves, PlaceOf, Promised!Steps
  <2> QED  BY <2>1 DEF Promised!Next
<1>2. IInv /\ TraceInv /\ FundsInv /\ FundsInv' /\ [Next]_vars
        => [doubt' = {} => Promised!Next]_<<status, entries, chain>>
  BY <1>1
<1> QED  BY <1>2, Invariance, TraceInvariance, FundsInvariance, PTL DEF Spec, KeepsPromise

-----------------------------------------------------------------------------
(* The circuit breaker and the monitoring worker.                          *)

\* The prover knows of a power of two that it is an integer, no more.
BreakerRecord ==
    [failures : 0 .. Threshold + MaxLevel, age : 0 .. MaxBackoff, left : Int, level : 0 .. MaxLevel]

SendTypeOK ==
    /\ breaker \in [Processes -> BreakerRecord]
    /\ answering \in SUBSET Calls
    /\ executing \in Nat

\* The backoff level counts the failures from the threshold on.
LevelCounts(b) ==
    b.level = IF b.failures < Threshold THEN 0 ELSE Least(b.failures - Threshold + 1, MaxLevel)

\* What degraded_until leaves, and what has passed already, make up the quiet time.
Quiet(b) ==
    b.failures >= Threshold =>
        b.age >= QuietTime(b.failures) \/ b.age + b.left >= QuietTime(b.failures)

SendInv == SendTypeOK /\ \A p \in Processes : LevelCounts(breaker[p]) /\ Quiet(breaker[p])

CycleRecord == [at : 1 .. Len(Checks), new : SUBSET Keys, beat : BOOLEAN]

MonitorTypeOK ==
    /\ alerts \in [Keys -> Seq({"open", "closed"})]
    /\ heartbeat \in BOOLEAN
    /\ cycle \in CycleRecord \cup {Resting}

\* A cycle past its first check has found no heartbeat and raises the alerts for
\* the missing ones; at the commit it has written its own.
CycleBeats ==
    cycle # Resting =>
        /\ cycle.at > 1 => ~heartbeat /\ Missing \subseteq cycle.new
        /\ cycle.at = Len(Checks) => cycle.beat

MonitorInv == MonitorTypeOK /\ CycleBeats /\ HeartbeatMeansChecked

LEMMA SendConstants ==
    /\ Threshold \in Nat \ {0} /\ Recovery \in Nat \ {0}
    /\ MaxBackoff \in Nat /\ MaxLevel \in Nat /\ MaxExecutions \in Nat
BY SendServiceAssumption

LEMMA WindowInt ==
    /\ \A level \in Nat : Window(level) \in Int /\ Window(level) <= MaxBackoff
    /\ \A n \in Nat : n >= Threshold =>
          QuietTime(n) = Window(n - Threshold) /\ QuietTime(n) \in Int /\ QuietTime(n) <= MaxBackoff
<1>1. ASSUME NEW level \in Nat PROVE Window(level) \in Int /\ Window(level) <= MaxBackoff
  <2>1. PICK power \in Int : power = 2 ^ level  OBVIOUS
  <2>2. Recovery * power \in Int  BY SendConstants
  <2> QED  BY <2>1, <2>2, SendConstants DEF Window, Least
<1>2. ASSUME NEW n \in Nat, n >= Threshold
      PROVE  QuietTime(n) = Window(n - Threshold) /\ n - Threshold \in Nat
  BY <1>2, SendConstants DEF QuietTime, Window
<1> QED  BY <1>1, <1>2

LEMMA NewBreaker == New \in BreakerRecord /\ LevelCounts(New) /\ Quiet(New)
<1>1. New \in BreakerRecord  BY SendConstants DEF New, BreakerRecord
<1>2. New.failures = 0 /\ New.level = 0  BY DEF New
<1> QED  BY <1>1, <1>2, SendConstants DEF LevelCounts, Quiet

\* One more failure: what is left of the window is the quiet time of the new count.
LEMMA FailedBreaker ==
    ASSUME NEW b \in BreakerRecord, LevelCounts(b), Quiet(b)
    PROVE  Failed(b) \in BreakerRecord /\ LevelCounts(Failed(b)) /\ Quiet(Failed(b))
<1>1. /\ b.failures \in 0 .. Threshold + MaxLevel /\ b.age \in 0 .. MaxBackoff
      /\ b.left \in Int /\ b.level \in 0 .. MaxLevel
      /\ b = [failures |-> b.failures, age |-> b.age, left |-> b.left, level |-> b.level]
  BY DEF BreakerRecord
<1>2. PICK n : n = Least(b.failures + 1, Threshold + MaxLevel)  OBVIOUS
<1>3. n \in 0 .. Threshold + MaxLevel /\ n \in Nat /\ n >= 1  BY <1>1, <1>2, SendConstants DEF Least
<1>4. CASE n < Threshold
  <2>1. Failed(b) = [failures |-> n, age |-> 0, left |-> b.left, level |-> b.level]
    BY <1>1, <1>2, <1>4 DEF Failed
  <2>2. b.failures < Threshold  BY <1>1, <1>2, <1>4, SendConstants DEF Least
  <2>3. b.level = 0  BY <2>2 DEF LevelCounts
  <2>4. Failed(b).failures = n /\ Failed(b).level = b.level  BY <2>1
  <2>5. Failed(b) \in BreakerRecord  BY <1>1, <1>3, <2>1, SendConstants DEF BreakerRecord
  <2> QED  BY <1>3, <1>4, <2>3, <2>4, <2>5, SendConstants DEF LevelCounts, Quiet
<1>5. CASE n >= Threshold
  <2>1. PICK left, level : left = Window(b.level) /\ level = Least(b.level + 1, MaxLevel)  OBVIOUS
  <2>2. Failed(b) = [failures |-> n, age |-> 0, left |-> left, level |-> level]
    BY <1>1, <1>2, <1>3, <1>5, <2>1, SendConstants DEF Failed
  <2>3. left \in Int  BY <1>1, <2>1, WindowInt
  <2>4. level \in 0 .. MaxLevel  BY <1>1, <2>1, SendConstants DEF Least
  <2>5. b.level = n - Threshold
    <3>1. CASE b.failures < Threshold
      <4>1. b.level = 0 /\ n = Threshold  BY <1>1, <1>2, <1>5, <3>1, SendConstants DEF LevelCounts, Least
      <4> QED  BY <4>1, SendConstants
    <3>2. CASE b.failures >= Threshold
      BY <1>1, <1>2, <3>2, SendConstants DEF LevelCounts, Least
    <3> QED  BY <1>1, <3>1, <3>2, SendConstants
  <2>6. left = QuietTime(n)  BY <1>3, <1>5, <2>1, <2>5, WindowInt
  <2>7. level = Least(n - Threshold + 1, MaxLevel)  BY <2>1, <2>5
  <2>8. Failed(b) \in BreakerRecord
    BY <1>3, <2>2, <2>3, <2>4, SendConstants DEF BreakerRecord
  <2>9. Failed(b).failures = n /\ Failed(b).age = 0 /\ Failed(b).left = left /\ Failed(b).level = level
    BY <2>2
  <2>10. ~(n < Threshold)  BY <1>3, <1>5, SendConstants
  <2>11. LevelCounts(Failed(b))  BY <2>7, <2>9, <2>10 DEF LevelCounts
  <2>12. Quiet(Failed(b))
    <3>1. 0 + left >= QuietTime(n)  BY <2>3, <2>6
    <3> QED  BY <2>9, <3>1 DEF Quiet
  <2> QED  BY <2>8, <2>11, <2>12
<1> QED  BY <1>3, <1>4, <1>5, SendConstants

LEMMA OlderBreaker ==
    ASSUME NEW b \in BreakerRecord, LevelCounts(b), Quiet(b)
    PROVE  Older(b) \in BreakerRecord /\ LevelCounts(Older(b)) /\ Quiet(Older(b))
<1>1. /\ b.failures \in 0 .. Threshold + MaxLevel /\ b.age \in 0 .. MaxBackoff
      /\ b.left \in Int /\ b.level \in 0 .. MaxLevel
      /\ b = [failures |-> b.failures, age |-> b.age, left |-> b.left, level |-> b.level]
  BY DEF BreakerRecord
<1>2. CASE b.failures = 0  BY <1>2 DEF Older
<1>3. CASE b.failures # 0
  <2>1. PICK age, left : age = Least(b.age + 1, MaxBackoff) /\ left = IF b.left = 0 THEN 0 ELSE b.left - 1
    OBVIOUS
  <2>2. Older(b) = [failures |-> b.failures, age |-> age, left |-> left, level |-> b.level]
    BY <1>1, <1>3, <2>1 DEF Older
  <2>3. age \in 0 .. MaxBackoff /\ left \in Int  BY <1>1, <2>1, SendConstants DEF Least
  <2>4. Older(b) \in BreakerRecord  BY <1>1, <2>2, <2>3 DEF BreakerRecord
  <2>5. /\ Older(b).failures = b.failures /\ Older(b).age = age
        /\ Older(b).left = left /\ Older(b).level = b.level
    BY <2>2
  <2>6. LevelCounts(Older(b))  BY <2>5 DEF LevelCounts
  <2>7. ASSUME b.failures >= Threshold
        PROVE  age >= QuietTime(b.failures) \/ age + left >= QuietTime(b.failures)
    <3>1. PICK quiet \in Int : quiet = QuietTime(b.failures) /\ quiet <= MaxBackoff
      BY <1>1, <2>7, WindowInt, SendConstants
    <3>2. b.age >= quiet \/ b.age + b.left >= quiet  BY <2>7, <3>1 DEF Quiet
    <3>3. age = b.age + 1 \/ age = MaxBackoff  BY <2>1 DEF Least
    <3>4. age >= quiet \/ age + left >= quiet  BY <1>1, <2>1, <3>1, <3>2, <3>3, SendConstants
    <3> QED  BY <3>1, <3>4
  <2> QED  BY <2>4, <2>5, <2>6, <2>7 DEF Quiet
<1> QED  BY <1>2, <1>3

LEMMA AnsweredBreaker ==
    ASSUME SendInv, NEW p \in Processes, NEW call, Answered(p, call)
    PROVE  /\ breaker' \in [Processes -> BreakerRecord]
           /\ \A q \in Processes : LevelCounts(breaker'[q]) /\ Quiet(breaker'[q])
<1>1. breaker[p] \in BreakerRecord /\ LevelCounts(breaker[p]) /\ Quiet(breaker[p])
  BY DEF SendInv, SendTypeOK
<1>2. PICK b \in BreakerRecord : breaker' = [breaker EXCEPT ![p] = b] /\ LevelCounts(b) /\ Quiet(b)
  BY <1>1, NewBreaker, FailedBreaker DEF Answered, Succeeded
<1> QED  BY <1>2 DEF SendInv, SendTypeOK

LEMMA ResetBreaker ==
    ASSUME SendInv, NEW p \in Processes, Reset(p)
    PROVE  SendInv'
BY NewBreaker DEF SendInv, SendTypeOK, Reset

LEMMA InitSend == SendInit => SendInv
BY NewBreaker DEF SendInit, SendInv, SendTypeOK

LEMMA NextSend ==
    ASSUME SendInv, SendNext
    PROVE  SendInv'
<1> USE DEF SendInv, SendTypeOK
<1>0. "backend" \in Processes  BY DEF Processes
<1>1. CASE ShowHealth \/ Reconcile  BY <1>0, <1>1, AnsweredBreaker DEF ShowHealth, Reconcile, Inquire
<1>2. ASSUME NEW enough \in BOOLEAN, CheckFunds(enough) PROVE SendInv'
  <2>1. executing' \in Nat  BY <1>2 DEF CheckFunds
  <2> QED  BY <1>0, <1>2, <2>1, AnsweredBreaker DEF CheckFunds
<1>3. CASE Send \/ GiveUpSending
  <2>1. executing' \in Nat  BY <1>3 DEF Send, GiveUpSending
  <2>2. UNCHANGED breaker \/ Answered("backend", "send")  BY <1>3 DEF Send, GiveUpSending
  <2> QED  BY <1>0, <1>3, <2>1, <2>2, AnsweredBreaker DEF Send, GiveUpSending
<1>4. CASE Tick
  <2>1. \A p \in Processes : breaker'[p] = Older(breaker[p])  BY <1>4 DEF Tick
  <2>2. \A p \in Processes : Older(breaker[p]) \in BreakerRecord /\ LevelCounts(Older(breaker[p]))
                               /\ Quiet(Older(breaker[p]))
    BY OlderBreaker
  <2> QED  BY <1>4, <2>1, <2>2 DEF Tick
<1>5. CASE Turn  BY <1>5 DEF Turn
<1>6. CASE Reset("backend")  BY <1>0, <1>6, ResetBreaker
<1> QED  BY <1>1, <1>2, <1>3, <1>4, <1>5, <1>6 DEF SendNext

\* What a step may do to a breaker.
LEMMA BreakerSteps ==
    ASSUME SendInv, [OperationsNext]_operationsVars, NEW p \in Processes, breaker'[p] # breaker[p]
    PROVE  breaker'[p] = New \/ breaker'[p] = Older(breaker[p]) \/ ~Degraded(breaker[p])
<1> USE DEF SendInv, SendTypeOK
<1>1. PICK q \in Processes : \/ Reset(q)
                             \/ Tick
                             \/ ~Degraded(breaker[q]) /\ \E call \in Calls : Answered(q, call)
  <2>1. breaker' # breaker  OBVIOUS
  <2>2. {"backend", "monitor"} = Processes /\ {"balance", "send"} = Calls  BY DEF Processes, Calls
  <2>3. CASE MonitorNext
    BY <2>1, <2>2, <2>3 DEF MonitorNext, sendVars, Begin, CheckHeartbeats, Count, CheckHotWallet,
       CheckRefunds, UpdateHeartbeat, Commit, CycleFails, RestartMonitor, Close
  <2>4. CASE SendNext
    BY <2>1, <2>2, <2>4 DEF SendNext, ShowHealth, Reconcile, Inquire, CheckFunds, Send,
       GiveUpSending, Turn
  <2> QED  BY <2>1, <2>3, <2>4 DEF OperationsNext, operationsVars, sendVars
<1>2. CASE Reset(q)  BY <1>2 DEF Reset
<1>3. CASE Tick  BY <1>3 DEF Tick
<1>4. ASSUME NEW call \in Calls, ~Degraded(breaker[q]), Answered(q, call) PROVE ~Degraded(breaker[p])
  <2>1. q = p  BY <1>4 DEF Answered
  <2> QED  BY <1>4, <2>1
<1> QED  BY <1>1, <1>2, <1>3, <1>4

LEMMA OperationsSend == SendInv /\ [OperationsNext]_operationsVars => SendInv'
<1> SUFFICES ASSUME SendInv, [OperationsNext]_operationsVars PROVE SendInv'  OBVIOUS
<1>1. CASE UNCHANGED sendVars  BY <1>1 DEF SendInv, SendTypeOK, sendVars
<1>2. CASE CheckHotWallet
  <2>1. "monitor" \in Processes  BY DEF Processes
  <2>2. UNCHANGED breaker \/ Answered("monitor", "balance")  BY <1>2 DEF CheckHotWallet
  <2>3. UNCHANGED <<answering, executing>>  BY <1>2 DEF CheckHotWallet
  <2>4. CASE UNCHANGED breaker  BY <2>3, <2>4 DEF SendInv, SendTypeOK
  <2>5. CASE Answered("monitor", "balance")
    BY <2>1, <2>3, <2>5, AnsweredBreaker DEF SendInv, SendTypeOK
  <2> QED  BY <2>2, <2>4, <2>5
<1>3. CASE RestartMonitor  BY <1>3, ResetBreaker DEF RestartMonitor, Processes
<1>4. CASE SendNext  BY <1>4, NextSend
<1> QED  BY <1>1, <1>2, <1>3, <1>4 DEF OperationsNext, MonitorNext, operationsVars, Begin,
            CheckHeartbeats, Count, CheckRefunds, UpdateHeartbeat, Commit, CycleFails, Close

\* The inductive invariant of the breakers.
THEOREM SendInvariance == OperationsSpec => []SendInv
<1>1. OperationsInit => SendInv  BY InitSend DEF OperationsInit
<1> QED  BY <1>1, OperationsSend, PTL DEF OperationsSpec

\* No call goes to a node that has failed often enough before the time that the
\* class promises has passed since the last failure, from whichever request it
\* comes, after any number of failures and for any thresholds and times.
THEOREM SpacedCalls == OperationsSpec => CallsAreSpaced
<1>1. ASSUME SendInv, [OperationsNext]_operationsVars, NEW p \in Processes,
             breaker[p].failures >= Threshold, breaker'[p] # breaker[p],
             breaker'[p] = Failed(breaker[p])
      PROVE  breaker[p].age >= QuietTime(breaker[p].failures)
  <2>1. PICK b \in BreakerRecord : b = breaker[p]  BY <1>1 DEF SendInv, SendTypeOK
  <2>2. /\ b.failures \in 0 .. Threshold + MaxLevel /\ b.age \in 0 .. MaxBackoff
        /\ b.left \in Int /\ b.failures >= Threshold /\ Quiet(b)
    BY <1>1, <2>1 DEF SendInv, BreakerRecord
  <2>3. PICK quiet \in Int : quiet = QuietTime(b.failures) /\ quiet <= MaxBackoff
    BY <2>2, WindowInt, SendConstants
  <2>4. b.age >= quiet \/ b.age + b.left >= quiet  BY <2>2, <2>3 DEF Quiet
  <2>5. Failed(b).failures >= 1 /\ Failed(b).age = 0
    BY <2>2, SendConstants DEF Failed, Least, BreakerRecord
  <2>6. CASE ~Degraded(b)
    <3>1. b.left <= 0  BY <2>2, <2>6 DEF Degraded
    <3>2. b.age >= quiet  BY <2>2, <2>3, <2>4, <3>1, SendConstants
    <3> QED  BY <2>1, <2>3, <3>2
  <2>7. CASE Failed(b) = New
    <3>1. New.failures = 0  BY DEF New
    <3> QED  BY <2>5, <2>7, <3>1
  <2>8. CASE Failed(b) = Older(b)
    <3>1. b.failures # 0  BY <2>2, SendConstants
    <3>2. Older(b).age = Least(b.age + 1, MaxBackoff)  BY <3>1 DEF Older, BreakerRecord
    <3>3. MaxBackoff = 0  BY <2>2, <2>5, <2>8, <3>2, SendConstants DEF Least
    <3>4. b.age >= quiet  BY <2>2, <2>3, <3>3
    <3> QED  BY <2>1, <2>3, <3>4
  <2> QED  BY <1>1, <2>1, <2>6, <2>7, <2>8, BreakerSteps
<1>2. SendInv /\ [OperationsNext]_operationsVars =>
         [\A p \in Processes :
            /\ breaker[p].failures >= Threshold
            /\ breaker'[p] # breaker[p]
            /\ breaker'[p] = Failed(breaker[p])
            => breaker[p].age >= QuietTime(breaker[p].failures)]_breaker
  BY <1>1
<1> QED  BY <1>2, SendInvariance, PTL DEF OperationsSpec, CallsAreSpaced

-----------------------------------------------------------------------------
(* The cycles of the monitoring worker.                                    *)

LEMMA Joined ==
    ASSUME NEW S, NEW u \in Seq(S), NEW v \in Seq(S)
    PROVE  /\ u \o v \in Seq(S) /\ Len(u \o v) = Len(u) + Len(v)
           /\ \A i \in 1 .. Len(u) : (u \o v)[i] = u[i]
           /\ \A i \in Len(u) + 1 .. Len(u) + Len(v) : (u \o v)[i] = v[i - Len(u)]
<1>1. u \o v \in Seq(S) /\ Len(u \o v) = Len(u) + Len(v)  OBVIOUS
<1> QED  BY <1>1

\* The first check is that of the heartbeats; the last steps are the update of the
\* worker's own heartbeat and the commit.
LEMMA ChecksInOrder ==
    /\ Len(Checks) \in Nat /\ Len(Checks) > 1
    /\ Checks[1] = "heartbeats"
    /\ Checks[Len(Checks) - 1] = "update_heartbeat" /\ Checks[Len(Checks)] = "commit"
    /\ \A i \in 1 .. Len(Checks) : Checks[i] = "commit" => i = Len(Checks)
<1> DEFINE Named == Counting \cup {"heartbeats", "hot_wallet"}
           Starts(u) == u \in Seq(Named) /\ Len(u) >= 1 /\ u[1] = "heartbeats"
<1>1. "commit" \notin Named  BY MonitoringAssumption
<1>2. ASSUME NEW u, Starts(u), NEW v \in Seq(Named) PROVE Starts(u \o v)
  <2>1. u \o v \in Seq(Named) /\ Len(u \o v) = Len(u) + Len(v) /\ (u \o v)[1] = u[1]
    BY <1>2, Joined
  <2> QED  BY <1>2, <2>1
<1>3. \A check : IfRun(check) \in Seq(Named)
  <2>1. (\A x \in Named : <<x>> \in Seq(Named)) /\ <<>> \in Seq(Named)  OBVIOUS
  <2>2. \A check : check \in Counting => check \in Named  OBVIOUS
  <2> HIDE DEF Named
  <2> QED  BY <2>1, <2>2 DEF IfRun
<1>4. <<"heartbeats">> \in Seq(Named) /\ <<"hot_wallet">> \in Seq(Named)  OBVIOUS
<1>5. Starts(<<"heartbeats">>)  BY <1>4
<1> HIDE DEF Starts, Named
<1>6. Starts(<<"heartbeats">> \o IfRun("stuck_deposits"))  BY <1>2, <1>3, <1>5
<1>7. Starts(<<"heartbeats">> \o IfRun("stuck_deposits") \o IfRun("stuck_withdrawals"))
  BY <1>2, <1>3, <1>6
<1>8. Starts(<<"heartbeats">> \o IfRun("stuck_deposits") \o IfRun("stuck_withdrawals") \o <<"hot_wallet">>)
  BY <1>2, <1>4, <1>7
<1>9. PICK front : front = <<"heartbeats">> \o IfRun("stuck_deposits") \o IfRun("stuck_withdrawals")
                             \o <<"hot_wallet">> \o IfRun("duplicate_credits")
  OBVIOUS
<1>10. Starts(front)  BY <1>2, <1>3, <1>8, <1>9
<1>11. PICK end : end = <<"refund_anomalies", "update_heartbeat", "commit">>  OBVIOUS
<1>12. PICK checks : checks = front \o end  OBVIOUS
<1>13. Checks = checks  BY <1>9, <1>11, <1>12 DEF Checks
<1>14. PICK All : All = Named \cup {"refund_anomalies", "update_heartbeat", "commit"}  OBVIOUS
<1>15. front \in Seq(All) /\ end \in Seq(All) /\ Len(end) = 3
       /\ end[1] = "refund_anomalies" /\ end[2] = "update_heartbeat" /\ end[3] = "commit"
  BY <1>10, <1>11, <1>14 DEF Starts
<1>16. PICK n \in Nat : n = Len(front) /\ n >= 1  BY <1>10 DEF Starts
<1>17. /\ Len(checks) = n + 3
       /\ \A i \in 1 .. n : checks[i] = front[i]
       /\ \A i \in n + 1 .. n + 3 : checks[i] = end[i - n]
  <2>1. /\ Len(front \o end) = Len(front) + Len(end)
        /\ \A i \in 1 .. Len(front) : (front \o end)[i] = front[i]
        /\ \A i \in Len(front) + 1 .. Len(front) + Len(end) : (front \o end)[i] = end[i - Len(front)]
    BY <1>15, Joined
  <2>2. /\ Len(checks) = Len(front) + Len(end)
        /\ \A i \in 1 .. Len(front) : checks[i] = front[i]
        /\ \A i \in Len(front) + 1 .. Len(front) + Len(end) : checks[i] = end[i - Len(front)]
    BY <1>12, <2>1
  <2> QED  BY <1>15, <1>16, <2>2
<1>18. \A i \in 1 .. n : checks[i] # "commit"  BY <1>1, <1>10, <1>16, <1>17 DEF Starts
<1>19. checks[n + 1] = "refund_anomalies" /\ checks[n + 2] = "update_heartbeat" /\ checks[n + 3] = "commit"
  BY <1>15, <1>16, <1>17
<1>20. checks[1] = "heartbeats"  BY <1>10, <1>16, <1>17 DEF Starts
<1>21. ASSUME NEW i \in 1 .. n + 3, checks[i] = "commit" PROVE i = n + 3
  BY <1>16, <1>18, <1>19, <1>21
<1> QED  BY <1>13, <1>16, <1>17, <1>19, <1>20, <1>21

LEMMA MonitorTypes ==
    ASSUME MonitorTypeOK, NEW check, AtCheck(check)
    PROVE  /\ cycle \in CycleRecord /\ cycle.at \in 1 .. Len(Checks) /\ Checks[cycle.at] = check
           /\ cycle = [at |-> cycle.at, new |-> cycle.new, beat |-> cycle.beat]
<1>1. cycle # Resting  BY DEF AtCheck, Resting
<1>2. cycle \in CycleRecord  BY <1>1 DEF MonitorTypeOK
<1> QED  BY <1>2 DEF AtCheck, CycleRecord

\* A check that is passed: the cycle goes on, with more alerts to raise, and is not at
\* the commit unless it has just written its heartbeat.
LEMMA PassedCheck ==
    ASSUME MonitorInv, NEW check, check \notin {"commit", "update_heartbeat"}, AtCheck(check),
           NEW keys \in SUBSET Keys, Go(keys), UNCHANGED <<alerts, heartbeat>>,
           check = "heartbeats" => ~heartbeat /\ keys = Missing
    PROVE  MonitorInv'
<1>1. PICK at \in 1 .. Len(Checks), new \in SUBSET Keys, beat \in BOOLEAN :
          cycle = [at |-> at, new |-> new, beat |-> beat] /\ Checks[at] = check
  BY MonitorTypes DEF MonitorInv, CycleRecord
<1>2. PICK more \in SUBSET Keys : more = new \cup {k \in keys : ~Open(k)}  OBVIOUS
<1>3. cycle' = [at |-> at + 1, new |-> more, beat |-> beat]
  BY <1>1, <1>2 DEF Go, Raising
<1>4. PICK n \in Nat : n = Len(Checks) /\ n > 1  BY ChecksInOrder
<1>5. at # n /\ at # n - 1  BY <1>1, <1>4, ChecksInOrder
<1>6. at + 1 \in 1 .. n /\ at + 1 # n /\ at + 1 # 1  BY <1>1, <1>4, <1>5
<1>7. MonitorTypeOK'
  <2>1. cycle' \in CycleRecord  BY <1>3, <1>4, <1>6 DEF CycleRecord
  <2> QED  BY <2>1 DEF MonitorInv, MonitorTypeOK
<1>8. cycle'.at = at + 1 /\ cycle'.new = more  BY <1>3
<1>9. ~heartbeat /\ Missing \subseteq more
  <2>1. CASE at > 1
    <3>1. cycle # Resting /\ cycle.at > 1 /\ cycle.new = new
      <4>1. cycle.at = at /\ Resting.at = 0  BY <1>1 DEF Resting
      <4> QED  BY <1>1, <2>1, <4>1
    <3> QED  BY <1>2, <3>1 DEF MonitorInv, CycleBeats
  <2>2. CASE at = 1
    <3>1. ~heartbeat /\ keys = Missing  BY <1>1, <2>2, ChecksInOrder
    <3>2. \A k \in Keys : alerts[k] = <<>>  BY <3>1 DEF MonitorInv, HeartbeatMeansChecked
    <3>3. \A k \in Missing : k \in Keys /\ ~Open(k)  BY <3>2 DEF Keys, Open
    <3> QED  BY <1>2, <3>1, <3>3
  <2> QED  BY <1>1, <2>1, <2>2
<1>10. CycleBeats'  BY <1>4, <1>6, <1>8, <1>9 DEF CycleBeats, Missing
<1>11. HeartbeatMeansChecked'  BY DEF MonitorInv, HeartbeatMeansChecked
<1> QED  BY <1>7, <1>10, <1>11 DEF MonitorInv

LEMMA CommittedCycle ==
    ASSUME MonitorInv, Commit
    PROVE  MonitorInv'
<1>1. PICK at \in 1 .. Len(Checks), new \in SUBSET Keys, beat \in BOOLEAN :
          cycle = [at |-> at, new |-> new, beat |-> beat] /\ Checks[at] = "commit"
  BY MonitorTypes DEF MonitorInv, CycleRecord, Commit
<1>2. at = Len(Checks) /\ at > 1  BY <1>1, ChecksInOrder
<1>3. cycle # Resting /\ cycle.at = at /\ cycle.new = new /\ cycle.beat = beat
  <2>1. cycle.at = at /\ Resting.at = 0  BY <1>1 DEF Resting
  <2> QED  BY <1>1, <1>2, <2>1
<1>4. Missing \subseteq new /\ beat  BY <1>2, <1>3 DEF MonitorInv, CycleBeats
<1>5. /\ alerts' = [k \in Keys |-> IF k \in new THEN Append(alerts[k], "open") ELSE alerts[k]]
      /\ heartbeat' = TRUE /\ cycle' = Resting
  BY <1>3, <1>4 DEF Commit, MonitorInv, MonitorTypeOK
<1>6. \A k \in Keys : alerts[k] \in Seq({"open", "closed"})  BY DEF MonitorInv, MonitorTypeOK
<1>7. \A s \in Seq({"open", "closed"}) :
          Append(s, "open") \in Seq({"open", "closed"}) /\ Append(s, "open") # <<>>
  OBVIOUS
<1>8. MonitorTypeOK'  BY <1>5, <1>6, <1>7 DEF MonitorTypeOK
<1>9. \A k \in Missing : k \in Keys /\ alerts'[k] # <<>>
  <2>1. Missing \subseteq Keys  BY DEF Keys
  <2> QED  BY <1>4, <1>5, <1>6, <1>7, <2>1
<1> QED  BY <1>5, <1>8, <1>9 DEF MonitorInv, CycleBeats, HeartbeatMeansChecked, Missing

LEMMA WalletKeysAre ==
    /\ <<"hot_wallet_low_usdt", "low">> \in Keys /\ <<"hot_wallet_low_usdt", "zero">> \in Keys
    /\ <<"hot_wallet_low_trx", "low">> \in Keys /\ <<"hot_wallet_check_failed", "">> \in Keys
    /\ \A trx \in TrxKeys : trx \in SUBSET Keys
    /\ \A check \in Counting \cup {"refund_anomalies"}, n \in Counts : <<check, n>> \in Keys
BY DEF Keys, WalletKeys, TrxKeys

\* The end of a cycle that leaves nothing.
LEMMA FailedCycle ==
    ASSUME MonitorInv, cycle' = Resting, UNCHANGED <<alerts, heartbeat>>
    PROVE  MonitorInv'
BY DEF MonitorInv, MonitorTypeOK, CycleBeats, HeartbeatMeansChecked

LEMMA InitMonitor == OperationsInit => MonitorInv
<1> SUFFICES ASSUME OperationsInit PROVE MonitorInv  OBVIOUS
<1>1. <<>> \in Seq({"open", "closed"})  OBVIOUS
<1>2. MonitorTypeOK  BY <1>1 DEF OperationsInit, MonitorTypeOK
<1>3. \A k \in Keys : alerts[k] = <<>>  BY DEF OperationsInit
<1> QED  BY <1>2, <1>3 DEF OperationsInit, MonitorInv, CycleBeats, HeartbeatMeansChecked

LEMMA NextMonitor == MonitorInv /\ [OperationsNext]_operationsVars => MonitorInv'
<1> SUFFICES ASSUME MonitorInv, [OperationsNext]_operationsVars PROVE MonitorInv'  OBVIOUS
<1> USE DEF MonitorInv
<1>1. CASE UNCHANGED monitorVars
  BY <1>1 DEF monitorVars, MonitorTypeOK, CycleBeats, HeartbeatMeansChecked
<1>2. CASE Begin
  <2>1. PICK n \in Nat : n = Len(Checks) /\ n > 1  BY ChecksInOrder
  <2>2. cycle' = [at |-> 1, new |-> {}, beat |-> FALSE] /\ UNCHANGED <<alerts, heartbeat>>
    BY <1>2 DEF Begin
  <2>3. cycle' \in CycleRecord /\ cycle'.at = 1  BY <2>1, <2>2 DEF CycleRecord
  <2>4. MonitorTypeOK'  BY <2>2, <2>3 DEF MonitorTypeOK
  <2>5. PICK at : at = cycle'.at  OBVIOUS
  <2>6. HeartbeatMeansChecked'  BY <2>2 DEF HeartbeatMeansChecked
  <2>7. ~(at > 1) /\ at # n
    <3>1. at = 1  BY <2>3, <2>5
    <3> QED  BY <2>1, <3>1
  <2>8. CycleBeats'  BY <2>1, <2>5, <2>7 DEF CycleBeats
  <2> QED  BY <2>4, <2>6, <2>8
<1>3. CASE CheckHeartbeats
  <2>1. Missing \in SUBSET Keys  BY DEF Keys
  <2>2. CASE heartbeat  BY <1>3, <2>2, FailedCycle DEF CheckHeartbeats
  <2>3. CASE ~heartbeat  BY <1>3, <2>1, <2>3, PassedCheck DEF CheckHeartbeats
  <2> QED  BY <2>2, <2>3
<1>4. ASSUME NEW check \in Counting, Count(check) PROVE MonitorInv'
  <2>1. check \notin {"commit", "update_heartbeat", "heartbeats"}  BY MonitoringAssumption
  <2>2. PICK keys \in SUBSET Keys : Go(keys)
    <3>1. CASE Go({})  BY <3>1
    <3>2. CASE \E n \in Counts : Go({<<check, n>>})
      <4>1. PICK n \in Counts : Go({<<check, n>>})  BY <3>2
      <4>2. <<check, n>> \in Keys  BY WalletKeysAre
      <4> QED  BY <4>1, <4>2
    <3> QED  BY <1>4, <3>1, <3>2 DEF Count
  <2> QED  BY <1>4, <2>1, <2>2, PassedCheck DEF Count
<1>5. CASE CheckHotWallet
  <2>1. PICK keys \in SUBSET Keys : Go(keys)
    <3>1. CASE \E trx \in TrxKeys : Go({<<"hot_wallet_low_usdt", "zero">>} \cup trx)
      BY <3>1, WalletKeysAre
    <3>2. CASE \E usdt \in {{}, {<<"hot_wallet_low_usdt", "low">>}}, trx \in TrxKeys : Go(usdt \cup trx)
      BY <3>2, WalletKeysAre
    <3>3. CASE Go({<<"hot_wallet_check_failed", "">>})  BY <3>3, WalletKeysAre
    <3>4. CASE Degraded(breaker["monitor"])
      BY <1>5, <3>1, <3>4, Zenon DEF CheckHotWallet
    <3>5. CASE ~Degraded(breaker["monitor"])
      BY <1>5, <3>2, <3>3, <3>5, Zenon DEF CheckHotWallet
    <3> QED  BY <3>4, <3>5
  <2>2. AtCheck("hot_wallet") /\ UNCHANGED <<alerts, heartbeat>>  BY <1>5, Zenon DEF CheckHotWallet
  <2> QED  BY <2>1, <2>2, PassedCheck
<1>6. CASE CheckRefunds
  <2>1. CASE cycle' = Resting  BY <1>6, <2>1, FailedCycle DEF CheckRefunds
  <2>2. CASE cycle' # Resting
    <3>1. PICK keys \in SUBSET Keys : Go(keys)
      <4>1. CASE Go({})  BY <4>1
      <4>2. CASE \E n \in Counts : Go({<<"refund_anomalies", n>>})
        <5>1. PICK n \in Counts : Go({<<"refund_anomalies", n>>})  BY <4>2
        <5>2. <<"refund_anomalies", n>> \in Keys  BY WalletKeysAre
        <5> QED  BY <5>1, <5>2
      <4> QED  BY <1>6, <2>2, <4>1, <4>2 DEF CheckRefunds
    <3> QED  BY <1>6, <3>1, PassedCheck DEF CheckRefunds
  <2> QED  BY <2>1, <2>2
<1>7. CASE UpdateHeartbeat
  <2>1. PICK at \in 1 .. Len(Checks), new \in SUBSET Keys, beat \in BOOLEAN :
            cycle = [at |-> at, new |-> new, beat |-> beat] /\ Checks[at] = "update_heartbeat"
    BY <1>7, MonitorTypes DEF CycleRecord, UpdateHeartbeat
  <2>2. PICK n \in Nat : n = Len(Checks) /\ n > 1  BY ChecksInOrder
  <2>3. at # n /\ at # 1  BY <2>1, <2>2, ChecksInOrder
  <2>4. cycle' = [at |-> at + 1, new |-> new, beat |-> TRUE] /\ UNCHANGED <<alerts, heartbeat>>
    BY <1>7, <2>1 DEF UpdateHeartbeat
  <2>5. cycle' \in CycleRecord /\ cycle'.new = new /\ cycle'.beat = TRUE
    <3>1. at + 1 \in 1 .. n  BY <2>1, <2>2, <2>3
    <3> QED  BY <2>2, <2>4, <3>1 DEF CycleRecord
  <2>6. cycle # Resting /\ cycle.at > 1 /\ cycle.new = new
    <3>1. cycle.at = at /\ Resting.at = 0  BY <2>1 DEF Resting
    <3> QED  BY <2>1, <2>3, <3>1
  <2>7. ~heartbeat /\ Missing \subseteq new  BY <2>6 DEF CycleBeats
  <2> QED  BY <2>4, <2>5, <2>7 DEF MonitorTypeOK, CycleBeats, HeartbeatMeansChecked, Missing
<1>8. CASE Commit  BY <1>8, CommittedCycle
<1>9. CASE CycleFails \/ RestartMonitor  BY <1>9, FailedCycle DEF CycleFails, RestartMonitor
<1>10. ASSUME NEW k \in Keys, Close(k) PROVE MonitorInv'
  <2>1. PICK i \in DOMAIN alerts[k] : alerts' = [alerts EXCEPT ![k][i] = "closed"]
    BY <1>10 DEF Close
  <2>2. UNCHANGED <<heartbeat, cycle>>  BY <1>10 DEF Close
  <2>3. alerts \in [Keys -> Seq({"open", "closed"})]  BY DEF MonitorTypeOK
  <2>4. PICK s \in Seq({"open", "closed"}) : s = alerts[k]  BY <2>3
  <2>5. PICK u : u = [s EXCEPT ![i] = "closed"]  OBVIOUS
  <2>6. u \in Seq({"open", "closed"}) /\ u # <<>> /\ s # <<>>
    <3>1. i \in 1 .. Len(s)  BY <2>1, <2>4
    <3>2. u \in Seq({"open", "closed"}) /\ Len(u) = Len(s)  BY <2>5, <3>1
    <3> QED  BY <3>1, <3>2
  <2>7. alerts' = [alerts EXCEPT ![k] = u]  BY <2>1, <2>3, <2>4, <2>5
  <2>8. alerts' \in [Keys -> Seq({"open", "closed"})]  BY <2>3, <2>6, <2>7
  <2>9. \A j \in Keys : alerts'[j] = <<>> <=> alerts[j] = <<>>  BY <2>3, <2>4, <2>6, <2>7
  <2>10. Missing \subseteq Keys /\ Missing' = Missing  BY DEF Keys, Missing
  <2> QED  BY <2>2, <2>8, <2>9, <2>10 DEF MonitorTypeOK, CycleBeats, HeartbeatMeansChecked
<1> QED  BY <1>1, <1>2, <1>3, <1>4, <1>5, <1>6, <1>7, <1>8, <1>9, <1>10
         DEF OperationsNext, MonitorNext, operationsVars

\* The inductive invariant of the cycles.
THEOREM MonitorInvariance == OperationsSpec => []MonitorInv
<1> QED  BY InitMonitor, NextMonitor, PTL DEF OperationsSpec

\* The worker's heartbeat says that a cycle has gone through all of its checks, and
\* that the alerts of the missing heartbeats are there; without it there are none:
\* for any set of workers and checks, wherever cycles fail and whenever the process
\* is restarted.
THEOREM HeartbeatsMean == OperationsSpec => []HeartbeatMeansChecked
<1>1. MonitorInv => HeartbeatMeansChecked  BY DEF MonitorInv
<1> QED  BY <1>1, MonitorInvariance, PTL

=============================================================================
