----------------------------- MODULE MCGateway -----------------------------
(* Values of Gateway's constants for TLC.                                   *)
EXTENDS Gateway

CONSTANTS d1, d2

Two    == {d1, d2}
Nobody == {}
Only1  == {d1}

\* PAN 1 does not share its data, PAN 2 does.
NoPan   == [d \in Devices |-> 1]
SamePan == [d \in Devices |-> 2]
=============================================================================
