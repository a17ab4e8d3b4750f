---------------------------- MODULE MCNodeComm -----------------------------
(* Values of NodeComm's constants for TLC.                                  *)
EXTENDS NodeComm

CONSTANTS c1, c2, c3

Two   == {c1, c2}
Three == {c1, c2, c3}

\* One message of a single frame, the others in two.
Mixed  == [c \in Clients |-> IF c = c1 THEN 1 ELSE 2]
Single == [c \in Clients |-> 1]
=============================================================================
