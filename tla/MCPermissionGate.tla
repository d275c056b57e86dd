-------------------------- MODULE MCPermissionGate ---------------------------
(* Two tool calls of a first turn ask at the same time, one of a second.   *)
EXTENDS PermissionGate

CONSTANTS r1, r2, r3

MCTurnOf == [r \in Requests |-> IF r = r3 THEN 2 ELSE 1]
=============================================================================
