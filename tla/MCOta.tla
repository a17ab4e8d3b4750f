------------------------------- MODULE MCOta -------------------------------
(* Values of Ota's constants for TLC.                                       *)
EXTENDS Ota

CONSTANTS t1, t2

TwoTasks == {t1, t2}

\* The image in use, a newer one, and a newer one that the fuses refuse.
Image(v, s) == [version |-> v, secure |-> s]
Current     == Image(1, 1)
Offer       == {Current, Image(2, 1), Image(3, 0)}
=============================================================================
