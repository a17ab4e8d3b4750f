------------------------------ MODULE Gateway ------------------------------
(***************************************************************************)
(* The ESP-NOW to MQTT gateway.  OnDataRecv runs in the Wi-Fi task, loop() *)
(* in the Arduino task on the other core; they share the containers below  *)
(* without a lock.  A step of the callback or of loop() is the code up to  *)
(* the next access by which the other one could notice it; an operation on *)
(* a container is taken as indivisible, and so are the pushes of one block *)
(* of the callback, no two of which the same part of loop() reads.         *)
(*                                                                         *)
(* Frames carry a complete message: the digit after '|' that starts the    *)
(* reassembly of long ones is not one the nodes of this repository send.   *)
(***************************************************************************)
EXTENDS Naturals, FiniteSets, Sequences, SequencesExt

CONSTANTS
    Devices,        \* the nodes in range
    PanOf,          \* the PAN address each node puts in its frames
    Restored,       \* nodes that kept a pairing from before the gateway booted
    PeerLimit,      \* size of the driver's peer table (20)
    MaxFrames,      \* bound: frames the nodes send
    MaxMessages,    \* bound: messages published for the nodes
    BrokerMayFail,  \* the MQTT connection can be lost
    NoData          \* the NODATA answer

ASSUME GatewayAssumption ==
    /\ IsFiniteSet(Devices) /\ Restored \subseteq Devices
    /\ PanOf \in [Devices -> 0..15]
    /\ PeerLimit \in Nat /\ MaxFrames \in Nat /\ MaxMessages \in Nat
    /\ BrokerMayFail \in BOOLEAN
    /\ NoData \notin [to : Devices, id : 1..MaxMessages]

VARIABLES
    at,            \* where OnDataRecv stands
    cbFrame,       \* the frame it handles
    readyMACs,     \* devices waiting for their MQTT messages
    readyMACsPAN,  \* devices waiting for their PAN messages
    mensajesMQTT,  \* messages kept for the devices
    mensajesPAN,   \* PAN messages, with the devices that have had them
    cola,          \* cola_mensajes: data to publish
    pairMACs,      \* pairings to publish
    pairedMACs,    \* the registered devices, in order
    peers,         \* the driver's peer table
    loop,          \* the next part of loop()
    mqttUp,        \* mqtt_client.connected()
    frames,        \* frames received so far
    deposits,      \* messages published for the devices so far
    out,           \* history: what each device was sent from its mailbox
    panOut,        \* history: the PAN messages each device was sent
    published      \* history: the data published, in order

cbVars   == <<at, cbFrame, frames>>
sentVars == <<out, panOut, published>>
vars == <<cbVars, readyMACs, readyMACsPAN, mensajesMQTT, mensajesPAN, cola, pairMACs,
          pairedMACs, peers, loop, mqttUp, deposits, sentVars>>

Messages == [to : Devices, id : 1..MaxMessages]
Frame    == [from : Devices, id : 1..MaxFrames, type : {"DATA", "PAIRING"},
             check : BOOLEAN]
NoFrame  == [type |-> "none"]
Data     == [from : Devices, id : 1..MaxFrames]
PanMessage == [from : Devices, id : 1..MaxFrames, sent : Seq(Devices)]

TypeOK ==
    /\ at \in {"idle", "ready", "store", "peer"}
    /\ cbFrame \in Frame \cup {NoFrame} /\ (at = "idle") = (cbFrame = NoFrame)
    /\ readyMACs \in Seq(Devices) /\ readyMACsPAN \in Seq(Devices)
    /\ mensajesMQTT \in Seq(Messages) /\ mensajesPAN \in Seq(PanMessage)
    /\ cola \in Seq(Data)
    /\ pairMACs \in Seq(Devices)
    /\ pairedMACs \in Seq(Devices) /\ Len(pairedMACs) <= PeerLimit
    /\ peers \subseteq Devices
    /\ loop \in {"mqtt", "poll", "serve", "servePan", "notify", "publish"}
    /\ mqttUp \in BOOLEAN /\ frames \in 0..MaxFrames /\ deposits \in 0..MaxMessages
    /\ out \in [Devices -> Seq(Messages \cup {NoData})]
    /\ panOut \in [Devices -> Seq(Data)]
    /\ published \in Seq(1..MaxFrames)

Init ==
    /\ at = "idle" /\ cbFrame = NoFrame
    /\ readyMACs = <<>> /\ readyMACsPAN = <<>>
    /\ mensajesMQTT = <<>> /\ mensajesPAN = <<>> /\ cola = <<>>
    /\ pairMACs = <<>> /\ pairedMACs = <<>> /\ peers = {}
    /\ loop = "mqtt" /\ mqttUp = FALSE /\ frames = 0 /\ deposits = 0
    /\ out = [d \in Devices |-> <<>>] /\ panOut = [d \in Devices |-> <<>>]
    /\ published = <<>>

-----------------------------------------------------------------------------
(* OnDataRecv *)

\* A frame arrives.  A node sends data once it has had its pairing answered, by
\* this boot of the gateway or, for the restored ones, by an earlier one.
Receive ==
    /\ at = "idle" /\ frames < MaxFrames
    /\ \E d \in Devices, type \in {"DATA", "PAIRING"}, check \in BOOLEAN :
         /\ type = "DATA" => d \in peers \cup Restored
         /\ type = "PAIRING" => ~check
         /\ cbFrame' = [from |-> d, id |-> frames + 1, type |-> type, check |-> check]
         /\ at' = IF check THEN "ready" ELSE IF type = "DATA" THEN "store" ELSE "peer"
    /\ frames' = frames + 1
    /\ UNCHANGED <<readyMACs, readyMACsPAN, mensajesMQTT, mensajesPAN, cola, pairMACs,
                   pairedMACs, peers, loop, mqttUp, deposits, sentVars>>

\* CHECK: the device waits for its messages, those of its PAN as well above PAN 1.
QueueReady ==
    /\ at = "ready"
    /\ readyMACs' = Append(readyMACs, cbFrame.from)
    /\ readyMACsPAN' = IF PanOf[cbFrame.from] > 1
                       THEN Append(readyMACsPAN, cbFrame.from) ELSE readyMACsPAN
    /\ at' = "store"
    /\ UNCHANGED <<cbFrame, frames, mensajesMQTT, mensajesPAN, cola, pairMACs,
                   pairedMACs, peers, loop, mqttUp, deposits, sentVars>>

\* DATA: to be published, and shared with the PAN it comes from.
StoreData ==
    /\ at = "store"
    /\ LET d == cbFrame.from IN
         /\ cola' = Append(cola, [from |-> d, id |-> cbFrame.id])
         /\ mensajesPAN' =
              IF PanOf[d] > 1
              THEN Append(mensajesPAN, [from |-> d, id |-> cbFrame.id, sent |-> <<d>>])
              ELSE mensajesPAN
    /\ at' = "peer"
    /\ UNCHANGED <<cbFrame, frames, readyMACs, readyMACsPAN, mensajesMQTT, pairMACs,
                   pairedMACs, peers, loop, mqttUp, deposits, sentVars>>

\* Seeded fault: a device that is a peer already counts as new.
NewPeerOrKnown(d) == Cardinality(peers) < PeerLimit

\* addPeer succeeds for a new device while the peer table has room.
NewPeer(d) == d \notin peers /\ Cardinality(peers) < PeerLimit

AddPeer ==
    /\ at = "peer"
    /\ LET d == cbFrame.from IN
         IF NewPeer(d)
         THEN /\ peers' = peers \cup {d}
              /\ pairMACs' = Append(pairMACs, d)
              /\ pairedMACs' = Append(pairedMACs, d)
         ELSE UNCHANGED <<peers, pairMACs, pairedMACs>>
    /\ at' = "idle" /\ cbFrame' = NoFrame
    /\ UNCHANGED <<frames, readyMACs, readyMACsPAN, mensajesMQTT, mensajesPAN, cola,
                   loop, mqttUp, deposits, sentVars>>

Callback == QueueReady \/ StoreData \/ AddPeer

-----------------------------------------------------------------------------
(* loop() *)

\* esp_now_send: the driver refuses an address that is not in its peer table.
Send(d, x, log) == IF d \in peers THEN [log EXCEPT ![d] = Append(@, x)] ELSE log

\* loop() goes on when the client is connected; conecta_mqtt returns once it is.
Connect ==
    /\ loop = "mqtt"
    /\ mqttUp' = TRUE
    /\ loop' = "poll"
    /\ UNCHANGED <<cbVars, readyMACs, readyMACsPAN, mensajesMQTT, mensajesPAN, cola,
                   pairMACs, pairedMACs, peers, deposits, sentVars>>

\* mqtt_client.loop, which may call procesa_mensaje for one message.
PollMqtt ==
    /\ loop = "poll"
    /\ \/ UNCHANGED <<mensajesMQTT, deposits>>
       \/ /\ mqttUp /\ deposits < MaxMessages
          /\ deposits' = deposits + 1
          /\ \E d \in Devices :
               mensajesMQTT' = Append(mensajesMQTT, [to |-> d, id |-> deposits + 1])
    /\ loop' = "serve"
    /\ UNCHANGED <<cbVars, readyMACs, readyMACsPAN, mensajesPAN, cola, pairMACs,
                   pairedMACs, peers, mqttUp, sentVars>>

\* Seeded fault: the newest message instead of the oldest.
EncuentraUltimo(d) == SelectLastInSeq(mensajesMQTT, LAMBDA m : m.to = d)

\* encuentra_mensaje: the place of the first message for d, 0 if there is none.
Encuentra(d) == SelectInSeq(mensajesMQTT, LAMBDA m : m.to = d)

\* Seeded fault: a device that the driver refuses is not popped.
StillWaiting == IF Head(readyMACs) \in peers THEN Tail(readyMACs) ELSE readyMACs

\* A device that has been told NODATA waits no more.
NotWaiting == Tail(readyMACs)

\* The first waiting device gets its next message, and stays first until it gets
\* NODATA because none is left.
Serve ==
    /\ loop = "serve"
    /\ \/ /\ readyMACs = <<>>
          /\ UNCHANGED <<readyMACs, mensajesMQTT, out>>
       \/ /\ readyMACs # <<>>
          /\ LET d == Head(readyMACs)
                 i == Encuentra(d)
             IN  IF i = 0
                 THEN /\ readyMACs' = NotWaiting
                      /\ out' = Send(d, NoData, out)
                      /\ UNCHANGED mensajesMQTT
                 ELSE /\ mensajesMQTT' = RemoveAt(mensajesMQTT, i)
                      /\ out' = Send(d, mensajesMQTT[i], out)
                      /\ UNCHANGED readyMACs
    /\ loop' = "servePan"
    /\ UNCHANGED <<cbVars, readyMACsPAN, mensajesPAN, cola, pairMACs, pairedMACs, peers,
                   mqttUp, deposits, panOut, published>>

\* Seeded fault: the devices that have had the message are not looked at.
EncuentraPANAnyone(d) ==
    SelectInSeq(mensajesPAN, LAMBDA m : PanOf[m.from] = PanOf[d])

\* encuentra_mensajePAN and ausente: the first message of the PAN d has not had.
EncuentraPAN(d) ==
    SelectInSeq(mensajesPAN,
                LAMBDA m : PanOf[m.from] = PanOf[d] /\ ~Contains(m.sent, d))

\* is_permutation(sent.begin(), sent.end(), paired.begin()): it compares sent with
\* as many elements of paired, and reads past its end when there are fewer.
IsPermutation(sent, paired) ==
    IF Len(sent) > Len(paired) THEN BOOLEAN
    ELSE {ToSet(sent) = ToSet(SubSeq(paired, 1, Len(sent)))}

\* The same for the messages of the PAN. The NODATA of the PAN is not recorded: no
\* state of the gateway depends on it.
ServePan ==
    /\ loop = "servePan"
    /\ \/ /\ readyMACsPAN = <<>>
          /\ UNCHANGED <<readyMACsPAN, mensajesPAN, panOut>>
       \/ /\ readyMACsPAN # <<>>
          /\ LET d == Head(readyMACsPAN)
                 i == EncuentraPAN(d)
             IN  IF i = 0
                 THEN /\ readyMACsPAN' = Tail(readyMACsPAN)
                      /\ UNCHANGED <<mensajesPAN, panOut>>
                 ELSE LET sent == Append(mensajesPAN[i].sent, d) IN
                      /\ panOut' = Send(d, [from |-> mensajesPAN[i].from, id |-> mensajesPAN[i].id],
                                        panOut)
                      /\ \E everybody \in IsPermutation(sent, pairedMACs) :
                           mensajesPAN' = IF everybody THEN RemoveAt(mensajesPAN, i)
                                          ELSE [mensajesPAN EXCEPT ![i].sent = sent]
                      /\ UNCHANGED readyMACsPAN
    /\ loop' = "notify"
    /\ UNCHANGED <<cbVars, readyMACs, mensajesMQTT, cola, pairMACs, pairedMACs, peers,
                   mqttUp, deposits, out, published>>

\* The pairing is published on MQTT.
Notify ==
    /\ loop = "notify"
    /\ pairMACs' = IF pairMACs = <<>> THEN <<>> ELSE Tail(pairMACs)
    /\ loop' = "publish"
    /\ UNCHANGED <<cbVars, readyMACs, readyMACsPAN, mensajesMQTT, mensajesPAN, cola,
                   pairedMACs, peers, mqttUp, deposits, sentVars>>

\* Seeded faults: data is queued again when the connection is down; the whole
\* queue is dropped with the message taken.
UnsentAgain == IF mqttUp THEN Tail(cola) ELSE Append(Tail(cola), Head(cola))
UnsentNone  == <<>>

\* The message taken leaves the queue before it is published.
Unsent == Tail(cola)

\* The oldest data is popped and published, and lost when the connection is.
Publish ==
    /\ loop = "publish"
    /\ IF cola = <<>>
       THEN UNCHANGED <<cola, published>>
       ELSE /\ cola' = Unsent
            /\ published' = IF mqttUp THEN Append(published, Head(cola).id) ELSE published
    /\ loop' = "mqtt"
    /\ UNCHANGED <<cbVars, readyMACs, readyMACsPAN, mensajesMQTT, mensajesPAN, pairMACs,
                   pairedMACs, peers, mqttUp, deposits, out, panOut>>

Loop == Connect \/ PollMqtt \/ Serve \/ ServePan \/ Notify \/ Publish

\* The broker or the router goes away.
BrokerDown ==
    /\ BrokerMayFail /\ mqttUp
    /\ mqttUp' = FALSE
    /\ UNCHANGED <<cbVars, readyMACs, readyMACsPAN, mensajesMQTT, mensajesPAN, cola,
                   pairMACs, pairedMACs, peers, loop, deposits, sentVars>>

Next == Receive \/ Callback \/ Loop \/ BrokerDown

Spec == Init /\ [][Next]_vars

\* The Wi-Fi task finishes a callback, and the Arduino core calls loop() for ever.
FairSpec == Spec /\ WF_vars(Callback) /\ WF_vars(Loop)

-----------------------------------------------------------------------------
(* What must hold *)

\* The messages of a list that are for d, in order.
For(d, list) ==
    LET kept[n \in 0..Len(list)] ==
          IF n = 0 THEN <<>>
          ELSE IF list[n].to = d THEN Append(kept[n - 1], list[n]) ELSE kept[n - 1]
    IN  kept[Len(list)]

\* The list of messages, seen as one mailbox per device, keeps what Mailbox
\* promises although devices wait in one queue and messages in one list.
Box == INSTANCE Mailbox WITH box <- [d \in Devices |-> For(d, mensajesMQTT)]
ImplementsMailbox == Box!Spec

\* Every device that asked for its messages is served to the end, whatever devices
\* wait before it and however often the broker goes away: loop() stays in
\* conecta_mqtt only until the connection is back.
CheckServed ==
    \A d \in Devices : Contains(readyMACs, d) ~> ~Contains(readyMACs, d)

\* A PAN message is sent to a device at most once, and never to the one it comes
\* from, while other devices are served in between.
PanOnce ==
    \A d \in Devices :
        /\ Cardinality(ToSet(panOut[d])) = Len(panOut[d])
        /\ \A m \in ToSet(panOut[d]) : m.from # d

\* The data of the nodes is published in the order it was received, none twice,
\* even when the connection is lost between two messages.
UpstreamOrdered ==
    LET ids == published \o [i \in 1..Len(cola) |-> cola[i].id]
    IN  \A i, j \in 1..Len(ids) : i < j => ids[i] < ids[j]

\* What is in the queue while the broker is up is published, also after a connection
\* that was lost and came back, unless the connection is lost once more before.
EventuallyPublished ==
    \A n \in 1..MaxFrames :
        (mqttUp /\ \E i \in 1..Len(cola) : cola[i].id = n) ~> (Contains(published, n) \/ ~mqttUp)
=============================================================================
