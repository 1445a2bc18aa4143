------------------------------ MODULE MCMonitoring ------------------------------
(* A threshold of two failures, and a backoff that reaches its limit after one  *)
(* more.                                                                        *)
EXTENDS Monitoring
=============================================================================
