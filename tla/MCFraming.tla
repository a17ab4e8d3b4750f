----------------------------- MODULE MCFraming -----------------------------
(* Values of Framing's constants for TLC.                                   *)
EXTENDS Framing, TLC

CONSTANTS a, b

Two     == {a, b}
SamePan == [n \in Nodes |-> 2]

Txt(topic, payload, lead) == [topic |-> topic, payload |-> payload, lead |-> lead]

\* Around the limits of a frame: 239 and 242 characters, 243 and the longest of all;
\* an empty payload, and numbers in a frame of their own or in two.
Edges   == {Txt(6, 0, 0), Txt(6, 232, 0), Txt(6, 235, 0), Txt(6, 236, 0), Txt(200, 300, 0),
            Txt(6, 1, 3), Txt(6, 235, 7), Txt(127, 239, 1)}

Ord(pad, command, payload) == [pad |-> pad, command |-> command, payload |-> payload]

\* With the six characters, with five and without; 249, 255, 270 and more than 500 bytes.
Sizes   == {Ord(0, "config", 20), Ord(5, "config", 20), Ord(6, "config", 20),
            Ord(6, "update", 236), Ord(6, "config", 242), Ord(6, "config", 257),
            Ord(6, "update", 600), Ord(6, "other", 20)}

Symmetric == Permutations(Nodes)
=============================================================================
