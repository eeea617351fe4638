----------------------------- MODULE MCTelemetry -----------------------------
(* Telemetry with two owners, whose lifetimes overlap or follow each other, *)
(* and two threads that report errors meanwhile.                            *)
EXTENDS Telemetry, TLC

CONSTANTS o1, o2, c1, c2
=============================================================================
