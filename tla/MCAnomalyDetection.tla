------------------------ MODULE MCAnomalyDetection -------------------------
(* Values of AnomalyDetection's constants for TLC.                          *)
EXTENDS AnomalyDetection

\* Series that repeat after Window points: every window of three values is one of theirs.
Repeated(f) == [k \in 0..(Points - 1) |-> f[k % Window]]
Windows == [In -> 0..2]

\* Two series, of which the first starts with its least value (the windows of later points
\* start with the others), and one that stands still or steps up.
Triples ==
    {[r \in 0..2 |-> Repeated(<<f, g, h>>[r + 1])] :
        f \in {w \in Windows : \A j \in In : w[0] <= w[j]}, g \in Windows,
        h \in {[j \in In |-> 1], [j \in In |-> IF j = 0 THEN 0 ELSE 2]}}
=============================================================================
