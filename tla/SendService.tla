------------------------------ MODULE SendService ------------------------------
(***************************************************************************)
(* The circuit breaker of app/services/tron_send_service.py.  The service  *)
(* is a singleton of its process: the backend, which executes withdrawals, *)
(* reconciles and shows the health of the system, has a breaker, and the   *)
(* monitoring worker has another; both are lost with the process.          *)
(*                                                                         *)
(* Calls to the node are synchronous, so a call and what the breaker       *)
(* learns from it are one step of the process.  Times are ages, in steps   *)
(* of a clock, and stop growing at MaxBackoff, beyond which none of them   *)
(* makes a difference.                                                     *)
(***************************************************************************)
EXTENDS Integers

CONSTANTS
    Threshold,      \* FAILURE_THRESHOLD
    Recovery,       \* RECOVERY_TIMEOUT_SECONDS; BACKOFF_MULTIPLIER is 2
    MaxBackoff,     \* "Max 1 hour backoff"
    MaxLevel,       \* cap on the backoff level: windows no longer grow there
    MaxExecutions   \* bound on the executions that are about to send

ASSUME SendServiceAssumption ==
    /\ Threshold \in Nat \ {0} /\ Recovery \in Nat \ {0}
    /\ MaxBackoff \in Nat /\ MaxLevel \in Nat /\ MaxExecutions \in Nat
    /\ Recovery * 2 ^ MaxLevel >= MaxBackoff

VARIABLES
    breaker,    \* breaker[p]: the breaker of process p
    answering,  \* the calls that the node would answer now
    executing   \* executions that have seen the balance they need and will send

sendVars == <<breaker, answering, executing>>

Processes == {"backend", "monitor"}

Calls == {"balance", "send"}

\* failures in a row, the age of the last, what is left of degraded_until, backoff level.
New == [failures |-> 0, age |-> 0, left |-> 0, level |-> 0]

SendInit ==
    /\ breaker = [p \in Processes |-> New]
    /\ answering = Calls
    /\ executing = 0

Least(i, j) == IF i < j THEN i ELSE j

Window(level) == Least(Recovery * 2 ^ level, MaxBackoff)

\* The second test is for the level that the last failure has raised, so it is
\* the one that closes last.
Degraded(b) ==
    \/ b.left > 0
    \/ b.failures >= Threshold /\ b.age < Window(b.level)

\* Mutant: the backoff level is never raised.
MutantFailed(b) ==
    LET n == Least(b.failures + 1, Threshold + MaxLevel) IN
    IF n < Threshold THEN [b EXCEPT !.failures = n, !.age = 0]
    ELSE [b EXCEPT !.failures = n, !.age = 0, !.left = Window(b.level)]

Failed(b) ==
    LET n == Least(b.failures + 1, Threshold + MaxLevel) IN
    IF n < Threshold THEN [b EXCEPT !.failures = n, !.age = 0]
    ELSE [failures |-> n, age |-> 0, left |-> Window(b.level), level |-> Least(b.level + 1, MaxLevel)]

\* Mutant: a success ends the degraded mode but does not forget the failures.
MutantSucceeded(b) == [b EXCEPT !.left = 0, !.level = 0]

Succeeded(b) == New

Answered(p, call) ==
    breaker' = [breaker EXCEPT ![p] = IF call \in answering THEN Succeeded(@) ELSE Failed(@)]

-----------------------------------------------------------------------------
(* The calls.  What a degraded service refuses changes nothing: the balance *)
(* is then said to be zero, and a transfer raises.                          *)

\* get_hot_wallet_balance.
Inquire ==
    /\ ~Degraded(breaker["backend"])
    /\ Answered("backend", "balance")
    /\ UNCHANGED <<answering, executing>>

\* The health page, which goes on to fail once there is a heartbeat: see Monitoring.
ShowHealth == Inquire

\* The reconciliation, which asks for the balance and then fails over the types of
\* the two sides: neither a report nor an alert of it is ever stored.
Reconcile == Inquire

\* The same, for an execution: it goes on if the balance suffices.
CheckFunds(enough) ==
    /\ executing < MaxExecutions
    /\ ~Degraded(breaker["backend"])
    /\ Answered("backend", "balance")
    /\ executing' = IF "balance" \in answering /\ enough THEN executing + 1 ELSE executing
    /\ UNCHANGED answering

\* send_usdt_trc20.
Send ==
    /\ executing > 0
    /\ executing' = executing - 1
    /\ IF Degraded(breaker["backend"]) THEN UNCHANGED breaker ELSE Answered("backend", "send")
    /\ UNCHANGED answering

\* The execution fails before it sends.
GiveUpSending ==
    /\ executing > 0
    /\ executing' = executing - 1
    /\ UNCHANGED <<breaker, answering>>

-----------------------------------------------------------------------------
(* The world.                                                              *)

Older(b) == IF b.failures = 0 THEN b
            ELSE [b EXCEPT !.age = Least(@ + 1, MaxBackoff), !.left = IF @ = 0 THEN 0 ELSE @ - 1]

Tick ==
    /\ breaker' = [p \in Processes |-> Older(breaker[p])]
    /\ UNCHANGED <<answering, executing>>

\* The node, or the way to it, fails or recovers.
Turn ==
    /\ \E calls \in SUBSET Calls : answering' = calls
    /\ UNCHANGED <<breaker, executing>>

\* The process is killed and started again.
Reset(p) ==
    /\ breaker' = [breaker EXCEPT ![p] = New]
    /\ executing' = IF p = "backend" THEN 0 ELSE executing
    /\ UNCHANGED answering

SendNext ==
    \/ ShowHealth \/ Reconcile
    \/ \E enough \in BOOLEAN : CheckFunds(enough)
    \/ Send \/ GiveUpSending
    \/ Tick \/ Turn
    \/ Reset("backend")

\* Time goes on, and somebody looks at the health page now and then.
SendFairness == WF_sendVars(Tick) /\ WF_sendVars(ShowHealth)

-----------------------------------------------------------------------------
(* Properties.                                                             *)

\* What the class promises ("Exponential backoff multiplier", "Max 1 hour
\* backoff"): after the failure that reaches the threshold the node is left alone
\* for the recovery time, and for twice as long after each that follows.
QuietTime(failures) == Least(Recovery * 2 ^ (failures - Threshold), MaxBackoff)

\* No call goes to a failing node, from whatever request, before that time has
\* passed since the last one.
CallsAreSpaced ==
    [][\A p \in Processes :
          /\ breaker[p].failures >= Threshold
          /\ breaker'[p] # breaker[p]
          /\ breaker'[p] = Failed(breaker[p])
          => breaker[p].age >= QuietTime(breaker[p].failures)]_breaker

\* The service does not stay out of use when the node answers again, however
\* long it has failed and however far the backoff has gone.
BreakerCloses == <>[](answering = Calls) => <>[](breaker["backend"].failures = 0)
=============================================================================
