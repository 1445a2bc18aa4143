------------------------------- MODULE Monitoring -------------------------------
(***************************************************************************)
(* The monitoring worker (app/workers/monitoring_worker.py) and its alerts *)
(* (app/services/alert_service.py), next to a backend whose breaker is     *)
(* that of SendService.                                                    *)
(*                                                                         *)
(* A cycle runs its checks one after the other in one transaction, which   *)
(* also writes the worker's own heartbeat.  Times come back from the       *)
(* database without a zone and are compared with times that have one,      *)
(* which raises: once there is a heartbeat every cycle fails at its first  *)
(* check, and no cycle after the first that commits leaves anything.       *)
(***************************************************************************)
EXTENDS SendService, Sequences

CONSTANTS
    Workers,    \* the workers whose heartbeats are expected
    Counting,   \* the checks that count rows and are run: they are alike
    Counts      \* the numbers that they may find

ASSUME MonitoringAssumption ==
    /\ Workers \subseteq {"deposit_monitor", "withdrawal_monitor", "monitoring_worker"}
    /\ Counting \subseteq {"stuck_deposits", "stuck_withdrawals", "duplicate_credits"}
    /\ Counts \subseteq Nat \ {0}

VARIABLES
    alerts,     \* alerts[k]: the rows of system_alerts with the dedupe key k
    heartbeat,  \* is there a heartbeat of the monitoring worker?
    cycle       \* where the worker stands

monitorVars == <<alerts, heartbeat, cycle>>
operationsVars == <<sendVars, monitorVars>>

IfRun(check) == IF check \in Counting THEN <<check>> ELSE <<>>

Checks ==
    <<"heartbeats">> \o IfRun("stuck_deposits") \o IfRun("stuck_withdrawals") \o <<"hot_wallet">>
        \o IfRun("duplicate_credits") \o <<"refund_anomalies", "update_heartbeat", "commit">>

Unhealthy(w) == <<"worker_unhealthy", w>>

Missing == {Unhealthy(w) : w \in Workers}

WalletKeys == {<<"hot_wallet_low_usdt", "low">>, <<"hot_wallet_low_usdt", "zero">>,
               <<"hot_wallet_low_trx", "low">>, <<"hot_wallet_check_failed", "">>}

Keys == Missing \cup WalletKeys \cup ((Counting \cup {"refund_anomalies"}) \X Counts)

Resting == [at |-> 0]

OperationsInit ==
    /\ SendInit
    /\ alerts = [k \in Keys |-> <<>>]
    /\ heartbeat = FALSE
    /\ cycle = Resting

-----------------------------------------------------------------------------
(* A cycle: `new` are the alerts it has added, `beat` whether the heartbeat *)
(* is written; neither is visible before the commit.                        *)

AtCheck(check) == cycle.at > 0 /\ Checks[cycle.at] = check

Open(k) == \E i \in DOMAIN alerts[k] : alerts[k][i] = "open"

\* create_alert: nothing if there is an open alert with this key.  The mail goes
\* out before the commit, whatever becomes of it.
Raising(keys) == cycle.new \cup {k \in keys : ~Open(k)}

Go(keys) == cycle' = [cycle EXCEPT !.at = @ + 1, !.new = Raising(keys)]

Begin ==
    /\ cycle = Resting
    /\ cycle' = [at |-> 1, new |-> {}, beat |-> FALSE]
    /\ UNCHANGED <<sendVars, alerts, heartbeat>>

\* No other worker writes a heartbeat.
CheckHeartbeats ==
    /\ AtCheck("heartbeats")
    /\ IF heartbeat THEN cycle' = Resting ELSE Go(Missing)
    /\ UNCHANGED <<sendVars, alerts, heartbeat>>

Count(check) ==
    /\ AtCheck(check)
    /\ \/ Go({})
       \/ \E n \in Counts : Go({<<check, n>>})
    /\ UNCHANGED <<sendVars, alerts, heartbeat>>

TrxKeys == {{}, {<<"hot_wallet_low_trx", "low">>}}

\* The worker's own breaker: a degraded service is taken for an empty wallet.
CheckHotWallet ==
    LET b == breaker["monitor"] IN
    /\ AtCheck("hot_wallet")
    /\ \/ /\ Degraded(b)
          /\ \E trx \in TrxKeys : Go({<<"hot_wallet_low_usdt", "zero">>} \cup trx)
          /\ UNCHANGED breaker
       \/ /\ ~Degraded(b)
          /\ IF "balance" \in answering
             THEN \E usdt \in {{}, {<<"hot_wallet_low_usdt", "low">>}}, trx \in TrxKeys : Go(usdt \cup trx)
             ELSE Go({<<"hot_wallet_check_failed", "">>})
          /\ Answered("monitor", "balance")
    /\ UNCHANGED <<answering, executing, alerts, heartbeat>>

\* A refunded withdrawal with two debits, as after a retry, is more than
\* scalar_one_or_none accepts.
CheckRefunds ==
    /\ AtCheck("refund_anomalies")
    /\ \/ Go({})
       \/ \E n \in Counts : Go({<<"refund_anomalies", n>>})
       \/ cycle' = Resting
    /\ UNCHANGED <<sendVars, alerts, heartbeat>>

\* Mutant: the heartbeat is committed at once, in a session of its own.
MutantUpdateHeartbeat ==
    /\ AtCheck("update_heartbeat")
    /\ cycle' = [cycle EXCEPT !.at = @ + 1]
    /\ heartbeat' = TRUE
    /\ UNCHANGED <<sendVars, alerts>>

UpdateHeartbeat ==
    /\ AtCheck("update_heartbeat")
    /\ cycle' = [cycle EXCEPT !.at = @ + 1, !.beat = TRUE]
    /\ UNCHANGED <<sendVars, alerts, heartbeat>>

Commit ==
    /\ AtCheck("commit")
    /\ alerts' = [k \in Keys |-> IF k \in cycle.new THEN Append(alerts[k], "open") ELSE alerts[k]]
    /\ heartbeat' = (heartbeat \/ cycle.beat)
    /\ cycle' = Resting
    /\ UNCHANGED sendVars

\* A statement fails: the cycle is rolled back and the next one comes in a minute.
CycleFails ==
    /\ cycle # Resting
    /\ cycle' = Resting
    /\ UNCHANGED <<sendVars, alerts, heartbeat>>

RestartMonitor ==
    /\ Reset("monitor")
    /\ cycle' = Resting
    /\ UNCHANGED <<alerts, heartbeat>>

\* An administrator acknowledges or resolves an alert; neither opens it again.
Close(k) ==
    /\ \E i \in DOMAIN alerts[k] : alerts' = [alerts EXCEPT ![k][i] = "closed"]
    /\ UNCHANGED <<sendVars, heartbeat, cycle>>

MonitorNext ==
    \/ Begin \/ CheckHeartbeats
    \/ \E check \in Counting : Count(check)
    \/ CheckHotWallet \/ CheckRefunds \/ UpdateHeartbeat
    \/ Commit \/ CycleFails \/ RestartMonitor
    \/ \E k \in Keys : Close(k)

OperationsNext == MonitorNext \/ (SendNext /\ UNCHANGED monitorVars)

OperationsSpec == OperationsInit /\ [][OperationsNext]_operationsVars /\ SendFairness

-----------------------------------------------------------------------------
(* Properties.                                                             *)

\* A heartbeat says that a cycle has gone through all of its checks: its alerts
\* are there, at least those for the workers without a heartbeat, and no alert is
\* there without it, wherever cycles fail and the worker is killed.
HeartbeatMeansChecked ==
    /\ heartbeat => \A k \in Missing : alerts[k] # <<>>
    /\ (\E k \in Keys : alerts[k] # <<>>) => heartbeat
=============================================================================
