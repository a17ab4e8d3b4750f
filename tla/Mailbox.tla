------------------------------ MODULE Mailbox ------------------------------
(***************************************************************************)
(* What the gateway promises a device that sleeps most of the time: the    *)
(* messages published for it are kept in order, each is handed over once,  *)
(* and it is told "no more data" only when nothing is left for it.         *)
(***************************************************************************)
EXTENDS Sequences

CONSTANTS Devices, Messages, NoData

VARIABLES
    box,  \* the messages kept for each device
    out   \* what each device has been sent

vars == <<box, out>>

TypeOK ==
    /\ box \in [Devices -> Seq(Messages)]
    /\ out \in [Devices -> Seq(Messages \cup {NoData})]

Init ==
    /\ box = [d \in Devices |-> <<>>]
    /\ out = [d \in Devices |-> <<>>]

Deposit(d, m) ==
    /\ box' = [box EXCEPT ![d] = Append(@, m)]
    /\ UNCHANGED out

Collect(d) ==
    /\ box[d] # <<>>
    /\ out' = [out EXCEPT ![d] = Append(@, Head(box[d]))]
    /\ box' = [box EXCEPT ![d] = Tail(@)]

TellEmpty(d) ==
    /\ box[d] = <<>>
    /\ out' = [out EXCEPT ![d] = Append(@, NoData)]
    /\ UNCHANGED box

Next ==
    \E d \in Devices :
        (\E m \in Messages : Deposit(d, m)) \/ Collect(d) \/ TellEmpty(d)

Spec == Init /\ [][Next]_vars
=============================================================================
