------------------------------ MODULE MCDeposits --------------------------------
(* Two deposits with a transfer each, the second of no value.  One monitor and *)
(* a sequence of administrators' requests.                                     *)
EXTENDS Deposits

CONSTANTS t1, t2

Receiver == [t \in T |-> IF t = t1 THEN 1 ELSE 2]

Value == [t \in T |-> IF t = t1 THEN 1 ELSE 0]
=============================================================================
