--------------------------- MODULE MCNodePairing ---------------------------
(* Values of NodePairing's constants for TLC.                               *)
EXTENDS NodePairing, TLC

\* Configuration messages: one setting, so that the other is 0 when it was never sent;
\* both, with a timeout that loses its high bits when Word is 128; a timeout that ends
\* the scan of 13 channels after nine.
SleepMsg    == "sleep" :> 5
BothMsg     == "sleep" :> 5 @@ "timeout" :> 248
ShortMsg    == "timeout" :> 1000
NoMsgs      == {}
PartialMsgs == {SleepMsg}
AllMsgs     == {SleepMsg, BothMsg}
ShortMsgs   == {ShortMsg}

\* Disturbances. All but other nodes' requests in pairing_faults. In pairing_scan
\* iterations take their time and "erased" stands for both loads that fail. Nothing but
\* late iterations and other nodes hinders a decision in pairing_live.
Punctual  == {}
Faults    == Disturbance \ {"rival"}
InTime    == {"crash", "save", "erased", "rival", "deaf"}
LateRival == {"slow", "rival", "deaf"}
=============================================================================
