--------------------------- MODULE GatewayProofs ---------------------------
(***************************************************************************)
(* Theorems about Gateway, for every number of devices, frames and         *)
(* messages, every size of the peer table and every choice of PANs.        *)
(***************************************************************************)
EXTENDS Gateway, Induction, FiniteSetTheorems, SequenceTheorems, TLAPS

-----------------------------------------------------------------------------
(* Sequences searched and shortened *)

\* Min of FiniteSetsExt picks the least natural number of a set.
LEMMA MinOfNaturals ==
    ASSUME NEW S \in SUBSET Nat, S # {}
    PROVE  Min(S) \in S /\ \A y \in S : Min(S) <= y
<1>1. \E x \in S : \A y \in S : x <= y
  BY LeastNatural
<1> QED  BY <1>1 DEF Min

\* list::erase keeps the other elements, in their order.
LEMMA RemoveAtProperties ==
    ASSUME NEW S, NEW s \in Seq(S), NEW i \in 1..Len(s)
    PROVE  /\ RemoveAt(s, i) \in Seq(S)
           /\ Len(RemoveAt(s, i)) = Len(s) - 1
           /\ \A k \in 1..(Len(s) - 1) :
                RemoveAt(s, i)[k] = IF k < i THEN s[k] ELSE s[k + 1]
<1> DEFINE a == SubSeq(s, 1, i - 1)
           b == SubSeq(s, i + 1, Len(s))
<1>1. /\ a \in Seq(S) /\ Len(a) = i - 1
      /\ \A k \in 1..(i - 1) : a[k] = s[k]
  BY SubSeqProperties
<1>2. /\ b \in Seq(S) /\ Len(b) = Len(s) - i
      /\ \A k \in 1..(Len(s) - i) : b[k] = s[i + k]
  BY SubSeqProperties
<1> HIDE DEF a, b
<1>3. /\ a \o b \in Seq(S) /\ Len(a \o b) = Len(a) + Len(b)
      /\ \A k \in 1..(Len(a) + Len(b)) :
            (a \o b)[k] = IF k <= Len(a) THEN a[k] ELSE b[k - Len(a)]
  BY <1>1, <1>2, ConcatProperties
<1>4. RemoveAt(s, i) = a \o b
  BY DEF RemoveAt, a, b
<1>5. Len(s) \in Nat /\ Len(a) + Len(b) = Len(s) - 1
  BY <1>1, <1>2
<1>6. ASSUME NEW k \in 1..(Len(s) - 1)
      PROVE  RemoveAt(s, i)[k] = IF k < i THEN s[k] ELSE s[k + 1]
  <2>1. CASE k < i
    BY <1>1, <1>3, <1>4, <1>5, <2>1
  <2>2. CASE k >= i
    <3>1. k - (i - 1) \in 1..(Len(s) - i) /\ i + (k - (i - 1)) = k + 1
      BY <1>5, <2>2
    <3>2. b[k - (i - 1)] = s[k + 1]
      BY <1>2, <3>1
    <3> QED  BY <1>1, <1>3, <1>4, <1>5, <2>2, <3>2
  <2> QED  BY <1>5, <2>1, <2>2
<1> QED  BY <1>3, <1>4, <1>5, <1>6

\* encuentra_mensaje finds the first message for the device, if there is one.
LEMMA EncuentraFirst ==
    ASSUME mensajesMQTT \in Seq(Messages), NEW d
    PROVE  LET i == Encuentra(d) IN
             /\ i \in 0..Len(mensajesMQTT)
             /\ i = 0 => \A j \in 1..Len(mensajesMQTT) : mensajesMQTT[j].to # d
             /\ i # 0 => /\ mensajesMQTT[i].to = d
                         /\ \A j \in 1..(i - 1) : mensajesMQTT[j].to # d
<1> DEFINE I == {j \in 1..Len(mensajesMQTT) : mensajesMQTT[j].to = d}
<1>1. Encuentra(d) = IF I # {} THEN Min(I) ELSE 0
  BY DEF Encuentra, SelectInSeq
<1>2. I \in SUBSET Nat
  OBVIOUS
<1> HIDE DEF I
<1>3. I # {} => Min(I) \in I /\ \A j \in I : Min(I) <= j
  BY <1>2, MinOfNaturals
<1>4. CASE I = {}
  BY <1>1, <1>4 DEF I
<1>5. CASE I # {}
  <2>1. Encuentra(d) \in I /\ \A j \in I : Encuentra(d) <= j
    BY <1>1, <1>3, <1>5
  <2> QED  BY <2>1 DEF I
<1> QED  BY <1>4, <1>5

\* encuentra_mensajePAN finds a message of the device's PAN that it has not had.
LEMMA EncuentraPANAbsent ==
    ASSUME mensajesPAN \in Seq(PanMessage), NEW d
    PROVE  LET i == EncuentraPAN(d) IN
             /\ i \in 0..Len(mensajesPAN)
             /\ i # 0 => \A k \in 1..Len(mensajesPAN[i].sent) : mensajesPAN[i].sent[k] # d
<1> DEFINE I == {j \in 1..Len(mensajesPAN) :
                   PanOf[mensajesPAN[j].from] = PanOf[d] /\ ~Contains(mensajesPAN[j].sent, d)}
<1>1. EncuentraPAN(d) = IF I # {} THEN Min(I) ELSE 0
  BY DEF EncuentraPAN, SelectInSeq
<1>2. I \in SUBSET Nat
  OBVIOUS
<1> HIDE DEF I
<1>3. I # {} => Min(I) \in I
  BY <1>2, MinOfNaturals
<1>4. CASE I = {}
  BY <1>1, <1>4 DEF I
<1>5. CASE I # {}
  <2>1. EncuentraPAN(d) \in I
    BY <1>1, <1>3, <1>5
  <2> QED  BY <2>1 DEF I, Contains
<1> QED  BY <1>4, <1>5

-----------------------------------------------------------------------------
(* Types *)

\* The registered devices are the driver's peers, each registered once; a frame in the
\* callback is the last that arrived.
TypeInv ==
    /\ TypeOK
    /\ IsFiniteSet(peers) /\ Len(pairedMACs) = Cardinality(peers)
    /\ at # "idle" => cbFrame \in Frame /\ cbFrame.id = frames

LEMMA TypeInit == Init => TypeInv
<1> SUFFICES ASSUME Init PROVE TypeInv
  OBVIOUS
<1>1. IsFiniteSet({}) /\ Cardinality({}) = 0 /\ Len(<<>>) = 0
  BY FS_EmptySet
<1>2. /\ out \in [Devices -> Seq(Messages \cup {NoData})]
      /\ panOut \in [Devices -> Seq(Data)]
  BY DEF Init
<1>3. IsFiniteSet(peers) /\ Len(pairedMACs) = Cardinality(peers)
      /\ Len(pairedMACs) <= PeerLimit
  BY <1>1, GatewayAssumption DEF Init
<1>4. /\ readyMACs \in Seq(Devices) /\ readyMACsPAN \in Seq(Devices)
      /\ mensajesMQTT \in Seq(Messages) /\ mensajesPAN \in Seq(PanMessage)
      /\ cola \in Seq(Data) /\ pairMACs \in Seq(Devices) /\ pairedMACs \in Seq(Devices)
      /\ published \in Seq(1..MaxFrames)
  BY DEF Init
<1>5. /\ at = "idle" /\ cbFrame = NoFrame /\ peers = {} /\ loop = "mqtt"
      /\ mqttUp = FALSE /\ frames \in 0..MaxFrames /\ deposits \in 0..MaxMessages
  BY GatewayAssumption DEF Init
<1> QED  BY <1>2, <1>3, <1>4, <1>5 DEF TypeInv, TypeOK

\* The callback.
LEMMA CallbackType ==
    ASSUME TypeInv, Receive \/ Callback
    PROVE  TypeInv'
<1> USE DEF TypeInv, TypeOK, cbVars, sentVars
<1>1. CASE Receive
  <2>1. PICK d \in Devices, type \in {"DATA", "PAIRING"}, check \in BOOLEAN :
          /\ type = "PAIRING" => ~check
          /\ cbFrame' = [from |-> d, id |-> frames + 1, type |-> type, check |-> check]
          /\ at' = IF check THEN "ready" ELSE IF type = "DATA" THEN "store" ELSE "peer"
    BY <1>1 DEF Receive
  <2>2. frames + 1 \in 1..MaxFrames /\ frames' = frames + 1
    BY <1>1, GatewayAssumption DEF Receive
  <2>3. cbFrame' \in Frame /\ cbFrame'.id = frames' /\ cbFrame' # NoFrame
    BY <2>1, <2>2 DEF Frame, NoFrame
  <2>4. at' \in {"ready", "store", "peer"}
    BY <2>1
  <2> QED  BY <1>1, <2>2, <2>3, <2>4, GatewayAssumption DEF Receive
<1>2. CASE QueueReady
  <2>1. cbFrame.from \in Devices
    BY <1>2 DEF QueueReady, Frame
  <2>2. Append(readyMACs, cbFrame.from) \in Seq(Devices)
        /\ Append(readyMACsPAN, cbFrame.from) \in Seq(Devices)
    BY <2>1
  <2> QED  BY <1>2, <2>2 DEF QueueReady
<1>3. CASE StoreData
  <2>1. cbFrame.from \in Devices /\ cbFrame.id \in 1..MaxFrames
    BY <1>3 DEF StoreData, Frame
  <2>2. [from |-> cbFrame.from, id |-> cbFrame.id] \in Data
        /\ [from |-> cbFrame.from, id |-> cbFrame.id, sent |-> <<cbFrame.from>>] \in PanMessage
    BY <2>1 DEF Data, PanMessage
  <2>3. cola' \in Seq(Data) /\ mensajesPAN' \in Seq(PanMessage)
    BY <1>3, <2>2 DEF StoreData
  <2> QED  BY <1>3, <2>3 DEF StoreData
<1>4. CASE AddPeer
  <2>1. cbFrame.from \in Devices
    BY <1>4 DEF AddPeer, Frame
  <2>2. CASE NewPeer(cbFrame.from)
    <3>1. /\ peers' = peers \cup {cbFrame.from}
          /\ pairMACs' = Append(pairMACs, cbFrame.from)
          /\ pairedMACs' = Append(pairedMACs, cbFrame.from)
      BY <1>4, <2>2 DEF AddPeer
    <3>2. IsFiniteSet(peers') /\ Cardinality(peers') = Cardinality(peers) + 1
      BY <2>2, <3>1, FS_AddElement DEF NewPeer
    <3>3. Len(pairedMACs') = Len(pairedMACs) + 1 /\ pairedMACs' \in Seq(Devices)
          /\ pairMACs' \in Seq(Devices)
      BY <2>1, <3>1, AppendProperties
    <3>4. Len(pairedMACs') <= PeerLimit
      BY <2>2, <3>3, GatewayAssumption DEF NewPeer
    <3> QED  BY <1>4, <2>1, <3>1, <3>2, <3>3, <3>4 DEF AddPeer
  <2>3. CASE ~NewPeer(cbFrame.from)
    BY <1>4, <2>3 DEF AddPeer
  <2> QED  BY <2>2, <2>3
<1> QED  BY <1>1, <1>2, <1>3, <1>4 DEF Callback

\* What a device is sent is added to its history, or nothing is.
LEMMA SendType ==
    ASSUME NEW S, NEW log \in [Devices -> Seq(S)], NEW d \in Devices, NEW x \in S
    PROVE  Send(d, x, log) \in [Devices -> Seq(S)]
<1>1. Append(log[d], x) \in Seq(S)
  OBVIOUS
<1> QED  BY <1>1 DEF Send

\* The two steps of loop() that send.
LEMMA ServeType ==
    ASSUME TypeInv, Serve \/ ServePan
    PROVE  TypeInv'
<1> USE DEF TypeInv, TypeOK, cbVars, sentVars
<1>1. CASE Serve
  <2>1. CASE readyMACs = <<>>
    BY <1>1, <2>1 DEF Serve
  <2>2. CASE readyMACs # <<>>
    <3> DEFINE d == Head(readyMACs)
               i == Encuentra(d)
    <3>1. d \in Devices /\ Tail(readyMACs) \in Seq(Devices)
      BY <2>2
    <3>2. i \in 0..Len(mensajesMQTT)
      BY EncuentraFirst
    <3>3. CASE i = 0
      <4>1. Send(d, NoData, out) \in [Devices -> Seq(Messages \cup {NoData})]
        BY <3>1, SendType
      <4> QED  BY <1>1, <2>2, <3>1, <3>3, <4>1 DEF Serve, NotWaiting
    <3>4. CASE i # 0
      <4>1. mensajesMQTT[i] \in Messages /\ i \in 1..Len(mensajesMQTT)
        BY <3>2, <3>4
      <4>2. RemoveAt(mensajesMQTT, i) \in Seq(Messages)
        BY <4>1, RemoveAtProperties
      <4>3. Send(d, mensajesMQTT[i], out) \in [Devices -> Seq(Messages \cup {NoData})]
        BY <3>1, <4>1, SendType
      <4> QED  BY <1>1, <2>2, <3>4, <4>2, <4>3 DEF Serve
    <3> QED  BY <3>3, <3>4
  <2> QED  BY <2>1, <2>2
<1>2. CASE ServePan
  <2>1. CASE readyMACsPAN = <<>>
    BY <1>2, <2>1 DEF ServePan
  <2>2. CASE readyMACsPAN # <<>>
    <3> DEFINE d == Head(readyMACsPAN)
               i == EncuentraPAN(d)
    <3>1. d \in Devices /\ Tail(readyMACsPAN) \in Seq(Devices)
      BY <2>2
    <3>2. i \in 0..Len(mensajesPAN)
      BY EncuentraPANAbsent
    <3>3. CASE i = 0
      BY <1>2, <2>2, <3>1, <3>3 DEF ServePan
    <3>4. CASE i # 0
      <4> DEFINE m == mensajesPAN[i]
                 had == Append(m.sent, d)
      <4>1. i \in 1..Len(mensajesPAN) /\ m \in PanMessage
        BY <3>2, <3>4
      <4>2. [from |-> m.from, id |-> m.id] \in Data /\ m.sent \in Seq(Devices)
        BY <4>1 DEF PanMessage, Data
      <4>9. had \in Seq(Devices)
        BY <3>1, <4>2, AppendProperties
      <4>10. Send(d, [from |-> m.from, id |-> m.id], panOut) \in [Devices -> Seq(Data)]
        BY <3>1, <4>2, SendType
      <4>3. panOut' \in [Devices -> Seq(Data)]
        BY <1>2, <2>2, <3>4, <4>10 DEF ServePan
      <4>4. RemoveAt(mensajesPAN, i) \in Seq(PanMessage)
        BY <4>1, RemoveAtProperties
      <4>5. [m EXCEPT !.sent = had] \in PanMessage
        BY <4>1, <4>9 DEF PanMessage
      <4>6. [mensajesPAN EXCEPT ![i] = [m EXCEPT !.sent = had]] \in Seq(PanMessage)
        BY <4>1, <4>5
      <4>7. [mensajesPAN EXCEPT ![i].sent = had] \in Seq(PanMessage)
        BY <4>6
      <4>8. mensajesPAN' \in Seq(PanMessage)
        BY <1>2, <2>2, <3>4, <4>4, <4>7 DEF ServePan
      <4> QED  BY <1>2, <2>2, <3>4, <4>3, <4>8 DEF ServePan
    <3> QED  BY <3>3, <3>4
  <2> QED  BY <2>1, <2>2
<1> QED  BY <1>1, <1>2

\* The rest of loop(), and the broker.
LEMMA LoopType ==
    ASSUME TypeInv, Connect \/ PollMqtt \/ Notify \/ Publish \/ BrokerDown
    PROVE  TypeInv'
<1> USE DEF TypeInv, TypeOK, cbVars, sentVars
<1>1. CASE Connect
  BY <1>1 DEF Connect
<1>2. CASE PollMqtt
  <2>1. CASE UNCHANGED <<mensajesMQTT, deposits>>
    BY <1>2, <2>1 DEF PollMqtt
  <2>2. CASE /\ mqttUp /\ deposits < MaxMessages
             /\ deposits' = deposits + 1
             /\ \E d \in Devices :
                  mensajesMQTT' = Append(mensajesMQTT, [to |-> d, id |-> deposits + 1])
    <3>1. PICK d \in Devices :
            mensajesMQTT' = Append(mensajesMQTT, [to |-> d, id |-> deposits + 1])
      BY <2>2
    <3>2. deposits' \in 1..MaxMessages
      BY <2>2, GatewayAssumption
    <3>3. mensajesMQTT' \in Seq(Messages)
      BY <2>2, <3>1, <3>2 DEF Messages
    <3> QED  BY <1>2, <3>2, <3>3 DEF PollMqtt
  <2> QED  BY <1>2, <2>1, <2>2 DEF PollMqtt
<1>3. CASE Notify
  <2>1. pairMACs' \in Seq(Devices)
    BY <1>3 DEF Notify
  <2> QED  BY <1>3, <2>1 DEF Notify
<1>4. CASE Publish
  <2>1. CASE cola = <<>>
    BY <1>4, <2>1 DEF Publish
  <2>2. CASE cola # <<>>
    <3>1. Head(cola) \in Data /\ Tail(cola) \in Seq(Data)
      BY <2>2
    <3>2. Head(cola).id \in 1..MaxFrames
      BY <3>1 DEF Data
    <3>3. Append(published, Head(cola).id) \in Seq(1..MaxFrames)
      BY <3>2
    <3> QED  BY <1>4, <2>2, <3>1, <3>3 DEF Publish, Unsent
  <2> QED  BY <2>1, <2>2
<1>5. CASE BrokerDown
  BY <1>5 DEF BrokerDown
<1> QED  BY <1>1, <1>2, <1>3, <1>4, <1>5

LEMMA TypeStep == TypeInv /\ [Next]_vars => TypeInv'
<1>1. CASE UNCHANGED vars
  BY <1>1 DEF vars, cbVars, sentVars, TypeInv, TypeOK
<1> QED  BY <1>1, CallbackType, ServeType, LoopType DEF Next, Loop

LEMMA TypeInvariant == Spec => []TypeInv
  BY TypeInit, TypeStep, PTL DEF Spec

\* Type correctness of the gateway: among others, no more devices are registered than
\* the driver takes.
THEOREM TypeCorrect == Spec => []TypeOK
<1>1. TypeInv => TypeOK
  BY DEF TypeInv
<1> QED  BY <1>1, TypeInvariant, PTL

-----------------------------------------------------------------------------
(* Data goes up in order *)

\* The ids the callback may have queued already: a frame it still holds is newer.
Queued == {n \in Nat : n <= frames /\ (at \in {"ready", "store"} => n < frames)}

\* What is published, then what is queued, in growing order, all of it older than a frame
\* that is still to be queued.
UpstreamInv ==
    /\ \A j \in 1..Len(published) : published[j] \in Queued
    /\ \A k \in 1..Len(cola) : cola[k].id \in Queued
    /\ \A j, k \in 1..Len(published) : j < k => published[j] < published[k]
    /\ \A j, k \in 1..Len(cola) : j < k => cola[j].id < cola[k].id
    /\ \A j \in 1..Len(published), k \in 1..Len(cola) : published[j] < cola[k].id

LEMMA UpstreamTypes ==
    ASSUME TypeInv
    PROVE  /\ MaxFrames \in Nat /\ frames \in Nat
           /\ cola \in Seq(Data) /\ published \in Seq(1..MaxFrames)
           /\ \A j \in 1..Len(published) : published[j] \in 1..MaxFrames /\ published[j] \in Nat
           /\ \A k \in 1..Len(cola) : cola[k].id \in 1..MaxFrames /\ cola[k].id \in Nat
<1>1. MaxFrames \in Nat /\ frames \in Nat /\ cola \in Seq(Data) /\ published \in Seq(1..MaxFrames)
  BY GatewayAssumption DEF TypeInv, TypeOK
<1>2. \A j \in 1..Len(published) : published[j] \in 1..MaxFrames
  BY <1>1, ElementOfSeq
<1>3. \A k \in 1..Len(cola) : cola[k] \in Data
  BY <1>1, ElementOfSeq
<1> QED  BY <1>1, <1>2, <1>3 DEF Data

\* Steps that do not touch the data and leave what is queued queued.
LEMMA UpstreamUntouched ==
    ASSUME TypeInv, UpstreamInv, UNCHANGED <<cola, published>>,
           Queued \subseteq Queued'
    PROVE  UpstreamInv'
  BY UpstreamTypes DEF UpstreamInv

LEMMA UpstreamStep ==
    ASSUME TypeInv, UpstreamInv, [Next]_vars
    PROVE  UpstreamInv'
<1> USE DEF cbVars, sentVars
<1>0. frames \in Nat /\ cola \in Seq(Data) /\ published \in Seq(1..MaxFrames)
  BY DEF TypeInv, TypeOK
<1>1. CASE Receive
  <2>1. at' \in {"ready", "store", "peer"} /\ at = "idle" /\ frames' = frames + 1
        /\ UNCHANGED <<cola, published>>
    BY <1>1 DEF Receive
  <2>2. Queued \subseteq Queued'
    BY <1>0, <2>1 DEF Queued
  <2> QED  BY <2>1, <2>2, UpstreamUntouched
<1>2. CASE QueueReady
  <2>1. Queued \subseteq Queued'
    BY <1>2 DEF Queued, QueueReady
  <2> QED  BY <1>2, <2>1, UpstreamUntouched DEF QueueReady
<1>3. CASE StoreData
  <2> DEFINE new == [from |-> cbFrame.from, id |-> cbFrame.id]
  <2>1. cola' = Append(cola, new) /\ published' = published /\ frames' = frames
        /\ at' = "peer" /\ at = "store"
    BY <1>3 DEF StoreData
  <2>2. new.id = frames /\ new \in Data
    BY <2>1 DEF TypeInv, Frame, Data
  <2> HIDE DEF new
  <2>3. /\ Len(cola') = Len(cola) + 1 /\ cola'[Len(cola) + 1] = new
        /\ \A k \in 1..Len(cola) : cola'[k] = cola[k]
    BY <1>0, <2>1, <2>2, AppendProperties
  <2>4. \A k \in 1..Len(cola) : cola[k].id \in Nat /\ cola[k].id < new.id
    BY UpstreamTypes, <2>1, <2>2 DEF UpstreamInv, Queued, Data
  <2>5. \A j \in 1..Len(published) : published[j] \in Nat /\ published[j] < new.id
    BY UpstreamTypes, <2>1, <2>2 DEF UpstreamInv, Queued
  <2>6. \A k \in 1..Len(cola') : k \in 1..Len(cola) \/ k = Len(cola) + 1
    BY <1>0, <2>3
  <2>7. \A n \in Nat : n <= frames => n \in Queued'
    BY <2>1 DEF Queued
  <2>8. (\A j \in 1..Len(published) : published[j] \in Queued)'
    BY <1>0, <2>1, <2>2, <2>5, <2>7
  <2>9. (\A k \in 1..Len(cola) : cola[k].id \in Queued)'
    BY <1>0, <2>1, <2>2, <2>3, <2>4, <2>6, <2>7
  <2>10. \A j, k \in 1..Len(cola') : j < k => cola'[j].id < cola'[k].id
    BY <1>0, <2>3, <2>4, <2>6 DEF UpstreamInv
  <2>11. \A j \in 1..Len(published), k \in 1..Len(cola') : published[j] < cola'[k].id
    BY <2>3, <2>5, <2>6 DEF UpstreamInv
  <2> QED  BY <2>1, <2>8, <2>9, <2>10, <2>11 DEF UpstreamInv
<1>4. CASE AddPeer
  <2>1. Queued \subseteq Queued'
    BY <1>4 DEF Queued, AddPeer
  <2> QED  BY <1>4, <2>1, UpstreamUntouched DEF AddPeer
<1>5. CASE Connect \/ PollMqtt \/ Serve \/ ServePan \/ Notify \/ BrokerDown \/ UNCHANGED vars
  <2>1. UNCHANGED <<at, frames, cola, published>>
    BY <1>5 DEF Connect, PollMqtt, Serve, ServePan, Notify, BrokerDown, vars
  <2>2. Queued \subseteq Queued'
    BY <2>1 DEF Queued
  <2> QED  BY <2>1, <2>2, UpstreamUntouched
<1>6. CASE Publish
  <2>1. UNCHANGED <<at, frames>>
    BY <1>6 DEF Publish
  <2>2. Queued \subseteq Queued'
    BY <2>1 DEF Queued
  <2>3. CASE cola = <<>>
    BY <1>6, <2>2, <2>3, UpstreamUntouched DEF Publish
  <2>4. CASE cola # <<>>
    <3>1. cola' = Tail(cola)
      BY <1>6, <2>4 DEF Publish, Unsent
    <3>2. /\ Len(cola') = Len(cola) - 1
          /\ \A k \in 1..Len(cola') : cola'[k] = cola[k + 1] /\ k + 1 \in 1..Len(cola)
      BY <1>0, <2>4, <3>1, HeadTailProperties
    <3>3. /\ 1 \in 1..Len(cola) /\ Head(cola) = cola[1]
          /\ \A k \in 1..Len(cola) : cola[k].id \in Nat
      BY UpstreamTypes, <2>4
    <3>4. \A j \in 1..Len(published) : published[j] \in Nat
      BY UpstreamTypes
    <3>5. /\ \A k \in 1..Len(cola') : cola'[k].id \in Queued'
          /\ \A j, k \in 1..Len(cola') : j < k => cola'[j].id < cola'[k].id
      <4>1. \A k \in 1..Len(cola) : cola[k].id \in Queued'
        BY <2>2 DEF UpstreamInv
      <4>2. \A j, k \in 1..Len(cola') : j < k => j + 1 < k + 1
        BY <1>0, <3>2
      <4> QED  BY <3>2, <4>1, <4>2 DEF UpstreamInv
    <3>6. CASE published' = published
      BY <2>2, <3>2, <3>3, <3>4, <3>5, <3>6 DEF UpstreamInv
    <3>7. CASE published' = Append(published, cola[1].id)
      <4>1. /\ Len(published') = Len(published) + 1
            /\ published'[Len(published) + 1] = cola[1].id
            /\ \A k \in 1..Len(published) : published'[k] = published[k]
        BY <1>0, <3>3, <3>4, <3>7, AppendProperties
      <4>2. \A k \in 1..Len(published') : k \in 1..Len(published) \/ k = Len(published) + 1
        BY <1>0, <4>1
      <4>3. (\A j \in 1..Len(published) : published[j] \in Queued)'
        BY <2>2, <3>3, <3>4, <4>1, <4>2 DEF UpstreamInv
      <4>4. \A j, k \in 1..Len(published') : j < k => published'[j] < published'[k]
        BY <1>0, <3>3, <3>4, <4>1, <4>2 DEF UpstreamInv
      <4>5. \A j \in 1..Len(published'), k \in 1..Len(cola') : published'[j] < cola'[k].id
        <5> SUFFICES ASSUME NEW j \in 1..Len(published'), NEW k \in 1..Len(cola')
                     PROVE  published'[j] < cola[k + 1].id
          BY <3>2
        <5>1. CASE j \in 1..Len(published)
          BY <3>2, <4>1, <5>1 DEF UpstreamInv
        <5>2. CASE j = Len(published) + 1
          BY <3>2, <3>3, <4>1, <5>2 DEF UpstreamInv
        <5> QED  BY <4>2, <5>1, <5>2
      <4> QED  BY <3>5, <4>3, <4>4, <4>5 DEF UpstreamInv
    <3> QED  BY <1>6, <2>4, <3>3, <3>6, <3>7 DEF Publish
  <2> QED  BY <2>3, <2>4
<1> QED  BY <1>1, <1>2, <1>3, <1>4, <1>5, <1>6 DEF Next, Callback, Loop

\* UpstreamOrdered, for all constants: a message leaves the queue before it is published,
\* and is never queued again, so that a lost connection costs it but repeats nothing.
THEOREM UpstreamCorrect == Spec => []UpstreamOrdered
<1>1. Init => UpstreamInv
  BY DEF Init, UpstreamInv
<1>2. TypeInv /\ UpstreamInv => UpstreamOrdered
  <2> SUFFICES ASSUME TypeInv, UpstreamInv PROVE UpstreamOrdered
    OBVIOUS
  <2> DEFINE queue == [i \in 1..Len(cola) |-> cola[i].id]
             ids == published \o queue
  <2>1. published \in Seq(1..MaxFrames) /\ cola \in Seq(Data)
    BY DEF TypeInv, TypeOK
  <2>2. \A i \in 1..Len(cola) : cola[i].id \in 1..MaxFrames
    BY UpstreamTypes
  <2>3. queue \in Seq(1..MaxFrames) /\ Len(queue) = Len(cola)
    BY <2>1, <2>2, IsASeq
  <2>4. \A i \in 1..Len(cola) : queue[i] = cola[i].id
    OBVIOUS
  <2> HIDE DEF queue
  <2>5. /\ Len(ids) = Len(published) + Len(queue)
        /\ \A i \in 1..(Len(published) + Len(queue)) :
             ids[i] = IF i <= Len(published) THEN published[i] ELSE queue[i - Len(published)]
    BY <2>1, <2>3, ConcatProperties
  <2> HIDE DEF ids
  <2>6. ASSUME NEW i \in 1..Len(ids), NEW j \in 1..Len(ids), i < j
        PROVE  ids[i] < ids[j]
    <3>1. CASE j <= Len(published)
      BY <2>1, <2>3, <2>5, <2>6, <3>1 DEF UpstreamInv
    <3>2. CASE i <= Len(published) /\ j > Len(published)
      <4>1. j - Len(published) \in 1..Len(cola) /\ i \in 1..Len(published)
        BY <2>1, <2>3, <2>5, <3>2
      <4> QED  BY <2>1, <2>3, <2>4, <2>5, <3>2, <4>1 DEF UpstreamInv
    <3>3. CASE i > Len(published)
      <4> DEFINE a == i - Len(published)
                 b == j - Len(published)
      <4>1. a \in 1..Len(cola) /\ b \in 1..Len(cola) /\ a < b
        BY <2>1, <2>3, <2>5, <2>6, <3>3
      <4>2. ids[i] = queue[a] /\ ids[j] = queue[b]
        BY <2>1, <2>3, <2>5, <2>6, <3>3
      <4> HIDE DEF a, b
      <4> QED  BY <2>4, <4>1, <4>2 DEF UpstreamInv
    <3> QED  BY <2>1, <2>3, <2>5, <3>1, <3>2, <3>3
  <2> QED  BY <2>6 DEF UpstreamOrdered, ids, queue
<1> QED  BY <1>1, <1>2, UpstreamStep, TypeInvariant, PTL DEF Spec

-----------------------------------------------------------------------------
(* A PAN message reaches a device once *)

Had(m, d) == \E a \in 1..Len(m.sent) : m.sent[a] = d

\* The messages kept for the PAN are different ones, each had by its sender.
PanKept ==
    /\ \A k \in 1..Len(mensajesPAN) :
          mensajesPAN[k].id \in Queued /\ Had(mensajesPAN[k], mensajesPAN[k].from)
    /\ \A j, k \in 1..Len(mensajesPAN) : mensajesPAN[j].id = mensajesPAN[k].id => j = k

\* What a device has been sent comes from others, is different, and marked as had by the
\* device while it is kept; when it is erased its id never comes again.
PanSent ==
    \A d \in Devices :
        /\ \A j \in 1..Len(panOut[d]) :
              panOut[d][j].id \in Queued /\ panOut[d][j].from # d
        /\ \A i, j \in 1..Len(panOut[d]) : panOut[d][i].id = panOut[d][j].id => i = j
        /\ \A j \in 1..Len(panOut[d]), k \in 1..Len(mensajesPAN) :
              mensajesPAN[k].id = panOut[d][j].id => Had(mensajesPAN[k], d)

PanInv == PanKept /\ PanSent

LEMMA PanTypes ==
    ASSUME TypeInv
    PROVE  /\ frames \in Nat /\ mensajesPAN \in Seq(PanMessage)
           /\ panOut \in [Devices -> Seq(Data)]
           /\ \A k \in 1..Len(mensajesPAN) :
                /\ mensajesPAN[k] \in PanMessage /\ mensajesPAN[k].id \in Nat
                /\ mensajesPAN[k].sent \in Seq(Devices)
           /\ \A d \in Devices : \A j \in 1..Len(panOut[d]) : panOut[d][j].id \in Nat
<1>1. frames \in Nat /\ mensajesPAN \in Seq(PanMessage) /\ panOut \in [Devices -> Seq(Data)]
  BY GatewayAssumption DEF TypeInv, TypeOK
<1>2. \A k \in 1..Len(mensajesPAN) : mensajesPAN[k] \in PanMessage
  BY <1>1, ElementOfSeq
<1>3. ASSUME NEW d \in Devices, NEW j \in 1..Len(panOut[d])
      PROVE  panOut[d][j] \in Data
  BY <1>1, ElementOfSeq
<1>4. \A m \in PanMessage : m.id \in Nat /\ m.sent \in Seq(Devices)
  BY DEF PanMessage
<1>5. \A m \in Data : m.id \in Nat
  BY DEF Data
<1> QED  BY <1>1, <1>2, <1>3, <1>4, <1>5

LEMMA PanUntouched ==
    ASSUME TypeInv, PanInv, UNCHANGED <<mensajesPAN, panOut>>, Queued \subseteq Queued'
    PROVE  PanInv'
<1>1. PanKept'
  BY DEF PanInv, PanKept, Had
<1>2. PanSent'
  BY DEF PanInv, PanSent, Had
<1> QED  BY <1>1, <1>2 DEF PanInv

\* StoreData: a new message that only its sender has had.
LEMMA PanStored ==
    ASSUME TypeInv, PanInv, StoreData
    PROVE  PanInv'
<1> DEFINE d == cbFrame.from
           new == [from |-> d, id |-> cbFrame.id, sent |-> <<d>>]
<1>1. /\ panOut' = panOut /\ frames' = frames /\ at' = "peer" /\ at = "store"
      /\ mensajesPAN' = IF PanOf[d] > 1 THEN Append(mensajesPAN, new) ELSE mensajesPAN
  BY DEF StoreData, sentVars
<1>2. new.id = frames /\ new \in PanMessage /\ Had(new, new.from)
  BY <1>1 DEF TypeInv, Frame, PanMessage, Had
<1> HIDE DEF new, d
<1>3. Queued \subseteq Queued' /\ \A n \in Queued : n < frames
  BY <1>1 DEF Queued
<1>4. frames \in Queued'
  BY <1>1, PanTypes DEF Queued
<1>5. CASE mensajesPAN' = mensajesPAN
  BY <1>1, <1>3, <1>5, PanUntouched
<1>6. CASE mensajesPAN' = Append(mensajesPAN, new)
  <2>1. /\ Len(mensajesPAN') = Len(mensajesPAN) + 1
        /\ mensajesPAN'[Len(mensajesPAN) + 1] = new
        /\ \A k \in 1..Len(mensajesPAN) : mensajesPAN'[k] = mensajesPAN[k]
    BY <1>2, <1>6, PanTypes, AppendProperties
  <2>2. \A k \in 1..Len(mensajesPAN') :
            k \in 1..Len(mensajesPAN) \/ k = Len(mensajesPAN) + 1
    BY <2>1, PanTypes
  <2>3. \A k \in 1..Len(mensajesPAN) : mensajesPAN[k].id < frames /\ mensajesPAN[k].id \in Queued'
    BY <1>3 DEF PanInv, PanKept
  <2>4. \A e \in Devices : \A j \in 1..Len(panOut[e]) :
            panOut[e][j].id < frames /\ panOut[e][j].id \in Queued'
    BY <1>3 DEF PanInv, PanSent
  <2>5. \A k \in 1..Len(mensajesPAN') :
            mensajesPAN'[k].id \in Queued' /\ Had(mensajesPAN'[k], mensajesPAN'[k].from)
    <3> SUFFICES ASSUME NEW k \in 1..Len(mensajesPAN')
                 PROVE  mensajesPAN'[k].id \in Queued' /\ Had(mensajesPAN'[k], mensajesPAN'[k].from)
      OBVIOUS
    <3>1. CASE k \in 1..Len(mensajesPAN)
      BY <2>1, <2>3, <3>1 DEF PanInv, PanKept
    <3>2. CASE k = Len(mensajesPAN) + 1
      BY <1>2, <1>4, <2>1, <3>2
    <3> QED  BY <2>2, <3>1, <3>2
  <2>6. \A j, k \in 1..Len(mensajesPAN') : mensajesPAN'[j].id = mensajesPAN'[k].id => j = k
    <3> SUFFICES ASSUME NEW j \in 1..Len(mensajesPAN'), NEW k \in 1..Len(mensajesPAN'),
                        mensajesPAN'[j].id = mensajesPAN'[k].id
                 PROVE  j = k
      OBVIOUS
    <3>1. CASE j \in 1..Len(mensajesPAN) /\ k \in 1..Len(mensajesPAN)
      BY <2>1, <3>1 DEF PanInv, PanKept
    <3>2. ~(j \in 1..Len(mensajesPAN) /\ k = Len(mensajesPAN) + 1)
      BY <1>2, <2>1, <2>3, PanTypes
    <3>3. ~(k \in 1..Len(mensajesPAN) /\ j = Len(mensajesPAN) + 1)
      BY <1>2, <2>1, <2>3, PanTypes
    <3> QED  BY <2>2, <3>1, <3>2, <3>3
  <2>7. ASSUME NEW e \in Devices, NEW j \in 1..Len(panOut[e]), NEW k \in 1..Len(mensajesPAN'),
               mensajesPAN'[k].id = panOut[e][j].id
        PROVE  Had(mensajesPAN'[k], e)
    <3>1. k # Len(mensajesPAN) + 1
      BY <1>2, <2>1, <2>4, <2>7, PanTypes
    <3> QED  BY <2>1, <2>2, <2>7, <3>1 DEF PanInv, PanSent
  <2>8. PanKept'
    BY <2>5, <2>6 DEF PanKept, Had
  <2>9. PanSent'
    BY <1>1, <2>4, <2>7 DEF PanInv, PanSent, Had
  <2> QED  BY <2>8, <2>9 DEF PanInv
<1> QED  BY <1>1, <1>5, <1>6

\* ServePan: the message found is erased, or marked as had, and goes to one device.
LEMMA PanServed ==
    ASSUME TypeInv, PanInv, ServePan
    PROVE  PanInv'
<1> DEFINE d == Head(readyMACsPAN)
           i == EncuentraPAN(d)
           m == mensajesPAN[i]
           had == Append(m.sent, d)
           copy == [from |-> m.from, id |-> m.id]
<1>1. UNCHANGED <<at, frames>> /\ Queued' = Queued
  BY DEF ServePan, cbVars, Queued
<1>2. CASE UNCHANGED <<mensajesPAN, panOut>>
  BY <1>1, <1>2, PanUntouched
<1>3. CASE ~UNCHANGED <<mensajesPAN, panOut>>
  <2>1. readyMACsPAN # <<>> /\ i # 0
    BY <1>3 DEF ServePan
  <2>2. d \in Devices /\ i \in 1..Len(mensajesPAN) /\ ~Had(m, d)
    <3>1. d \in Devices
      BY <2>1 DEF TypeInv, TypeOK
    <3>2. mensajesPAN \in Seq(PanMessage)
      BY PanTypes
    <3> QED  BY <2>1, <3>1, <3>2, EncuentraPANAbsent DEF Had
  <2>3. m \in PanMessage /\ m.sent \in Seq(Devices) /\ copy.id = m.id /\ copy.from = m.from
    BY <2>2, PanTypes
  <2>4. /\ panOut' = Send(d, copy, panOut)
        /\ \/ mensajesPAN' = RemoveAt(mensajesPAN, i)
           \/ mensajesPAN' = [mensajesPAN EXCEPT ![i].sent = had]
    BY <2>1 DEF ServePan
  <2>5. /\ \A a \in 1..Len(m.sent) : had[a] = m.sent[a]
        /\ Len(had) = Len(m.sent) + 1 /\ had[Len(had)] = d /\ Len(had) \in 1..Len(had)
    BY <2>2, <2>3, AppendProperties
  <2> HIDE DEF d, i, m, had, copy
  \* Where the messages kept come from.
  <2>6. \E src \in [1..Len(mensajesPAN') -> 1..Len(mensajesPAN)] :
          \A k \in 1..Len(mensajesPAN') :
            /\ mensajesPAN'[k].id = mensajesPAN[src[k]].id
            /\ mensajesPAN'[k].from = mensajesPAN[src[k]].from
            /\ \A e : Had(mensajesPAN[src[k]], e) => Had(mensajesPAN'[k], e)
            /\ src[k] = i => Had(mensajesPAN'[k], d)
            /\ \A j \in 1..Len(mensajesPAN') : src[j] = src[k] => j = k
    <3>1. CASE mensajesPAN' = RemoveAt(mensajesPAN, i)
      <4> DEFINE src == [k \in 1..Len(mensajesPAN') |-> IF k < i THEN k ELSE k + 1]
      <4>1. /\ Len(mensajesPAN') = Len(mensajesPAN) - 1 /\ Len(mensajesPAN) \in Nat
            /\ \A k \in 1..(Len(mensajesPAN) - 1) :
                 mensajesPAN'[k] = IF k < i THEN mensajesPAN[k] ELSE mensajesPAN[k + 1]
        BY <2>2, <3>1, PanTypes, RemoveAtProperties
      <4>2. src \in [1..Len(mensajesPAN') -> 1..Len(mensajesPAN)]
        BY <2>2, <4>1
      <4>3. \A k \in 1..Len(mensajesPAN') : mensajesPAN'[k] = mensajesPAN[src[k]] /\ src[k] # i
        BY <2>2, <4>1
      <4>4. \A j, k \in 1..Len(mensajesPAN') : src[j] = src[k] => j = k
        BY <2>2, <4>1
      <4> HIDE DEF src
      <4>5. \A k \in 1..Len(mensajesPAN') :
              /\ mensajesPAN'[k].id = mensajesPAN[src[k]].id
              /\ mensajesPAN'[k].from = mensajesPAN[src[k]].from
              /\ \A e : Had(mensajesPAN[src[k]], e) => Had(mensajesPAN'[k], e)
              /\ src[k] = i => Had(mensajesPAN'[k], d)
              /\ \A j \in 1..Len(mensajesPAN') : src[j] = src[k] => j = k
        BY <4>3, <4>4
      <4> QED  BY <4>2, <4>5
    <3>2. CASE mensajesPAN' = [mensajesPAN EXCEPT ![i].sent = had]
      <4> DEFINE src == [k \in 1..Len(mensajesPAN') |-> k]
      <4>1. Len(mensajesPAN') = Len(mensajesPAN) /\ Len(mensajesPAN) \in Nat
        BY <2>2, <3>2, PanTypes
      <4>2. /\ \A k \in 1..Len(mensajesPAN) : k # i => mensajesPAN'[k] = mensajesPAN[k]
            /\ mensajesPAN'[i] = [mensajesPAN[i] EXCEPT !.sent = had]
        BY <2>2, <3>2, PanTypes
      <4>3. mensajesPAN'[i].id = m.id /\ mensajesPAN'[i].from = m.from /\ mensajesPAN'[i].sent = had
        BY <2>3, <4>2 DEF PanMessage, m
      <4>4. \A e : Had(m, e) => Had(mensajesPAN'[i], e)
        BY <2>3, <2>5, <4>3 DEF Had
      <4>5. Had(mensajesPAN'[i], d)
        BY <2>5, <4>3 DEF Had
      <4>6. \A k \in 1..Len(mensajesPAN') :
              /\ mensajesPAN'[k].id = mensajesPAN[k].id
              /\ mensajesPAN'[k].from = mensajesPAN[k].from
              /\ \A e : Had(mensajesPAN[k], e) => Had(mensajesPAN'[k], e)
              /\ k = i => Had(mensajesPAN'[k], d)
        BY <4>1, <4>2, <4>3, <4>4, <4>5 DEF m
      <4>7. src \in [1..Len(mensajesPAN') -> 1..Len(mensajesPAN)]
            /\ \A k \in 1..Len(mensajesPAN') : src[k] = k
        BY <4>1
      <4> HIDE DEF src
      <4> QED  BY <4>6, <4>7
    <3> QED  BY <2>4, <3>1, <3>2
  <2>7. PICK src \in [1..Len(mensajesPAN') -> 1..Len(mensajesPAN)] :
          \A k \in 1..Len(mensajesPAN') :
            /\ mensajesPAN'[k].id = mensajesPAN[src[k]].id
            /\ mensajesPAN'[k].from = mensajesPAN[src[k]].from
            /\ \A e : Had(mensajesPAN[src[k]], e) => Had(mensajesPAN'[k], e)
            /\ src[k] = i => Had(mensajesPAN'[k], d)
            /\ \A j \in 1..Len(mensajesPAN') : src[j] = src[k] => j = k
    BY <2>6
  <2>8. \A k \in 1..Len(mensajesPAN') : src[k] \in 1..Len(mensajesPAN)
    BY <2>7
  <2>9. PanKept'
    <3>1. \A k \in 1..Len(mensajesPAN') :
            mensajesPAN'[k].id \in Queued' /\ Had(mensajesPAN'[k], mensajesPAN'[k].from)
      BY <1>1, <2>7, <2>8 DEF PanInv, PanKept
    <3>2. \A j, k \in 1..Len(mensajesPAN') : mensajesPAN'[j].id = mensajesPAN'[k].id => j = k
      BY <2>7, <2>8 DEF PanInv, PanKept
    <3> QED  BY <3>1, <3>2 DEF PanKept, Had
  \* The device that is sent the message has not had it, so it has not been sent it.
  <2>10. copy.id \in Queued /\ copy.from # d
    BY <2>2, <2>3 DEF PanInv, PanKept, m
  <2>11. \A j \in 1..Len(panOut[d]) : panOut[d][j].id # copy.id
    BY <2>2, <2>3 DEF PanInv, PanSent, m
  <2>12. ASSUME NEW e \in Devices
         PROVE  /\ \A j \in 1..Len(panOut'[e]) :
                      panOut'[e][j].id \in Queued' /\ panOut'[e][j].from # e
                /\ \A a, b \in 1..Len(panOut'[e]) : panOut'[e][a].id = panOut'[e][b].id => a = b
                /\ \A j \in 1..Len(panOut'[e]), k \in 1..Len(mensajesPAN') :
                      mensajesPAN'[k].id = panOut'[e][j].id => Had(mensajesPAN'[k], e)
    <3>1. /\ panOut[e] \in Seq(Data)
          /\ \A k \in 1..Len(mensajesPAN') : \A j \in 1..Len(panOut[e]) :
                mensajesPAN'[k].id = panOut[e][j].id => Had(mensajesPAN'[k], e)
      BY <2>7, <2>8, PanTypes DEF PanInv, PanSent
    <3>2. CASE panOut'[e] = panOut[e]
      BY <1>1, <3>1, <3>2 DEF PanInv, PanSent
    <3>3. CASE e = d /\ panOut'[e] = Append(panOut[e], copy)
      <4>1. copy \in Data
        BY <2>3 DEF PanMessage, Data, copy
      <4>2. /\ Len(panOut'[e]) = Len(panOut[e]) + 1 /\ panOut'[e][Len(panOut[e]) + 1] = copy
            /\ \A j \in 1..Len(panOut[e]) : panOut'[e][j] = panOut[e][j]
        BY <3>1, <3>3, <4>1, AppendProperties
      <4>3. \A j \in 1..Len(panOut'[e]) : j \in 1..Len(panOut[e]) \/ j = Len(panOut[e]) + 1
        BY <3>1, <4>2
      <4>4. \A j \in 1..Len(panOut'[e]) :
                panOut'[e][j].id \in Queued' /\ panOut'[e][j].from # e
        BY <1>1, <2>10, <3>3, <4>2, <4>3 DEF PanInv, PanSent
      <4>5. \A a, b \in 1..Len(panOut'[e]) : panOut'[e][a].id = panOut'[e][b].id => a = b
        BY <2>11, <3>3, <4>2, <4>3 DEF PanInv, PanSent
      <4>6. \A k \in 1..Len(mensajesPAN') : mensajesPAN'[k].id = copy.id => src[k] = i
        BY <2>2, <2>3, <2>7, <2>8 DEF PanInv, PanKept, m
      <4>7. \A j \in 1..Len(panOut'[e]), k \in 1..Len(mensajesPAN') :
                mensajesPAN'[k].id = panOut'[e][j].id => Had(mensajesPAN'[k], e)
        BY <2>7, <3>1, <3>3, <4>2, <4>3, <4>6
      <4> QED  BY <4>4, <4>5, <4>7
    <3>4. panOut \in [Devices -> Seq(Data)]
      BY PanTypes
    <3> QED  BY <2>2, <2>4, <3>2, <3>3, <3>4 DEF Send
  <2>13. PanSent'
    BY <2>12 DEF PanSent, Had
  <2> QED  BY <2>9, <2>13 DEF PanInv
<1> QED  BY <1>2, <1>3

LEMMA PanStep ==
    ASSUME TypeInv, PanInv, [Next]_vars
    PROVE  PanInv'
<1> USE DEF cbVars, sentVars
<1>1. CASE Receive
  <2>1. UNCHANGED <<mensajesPAN, panOut>> /\ at = "idle" /\ frames' = frames + 1
    BY <1>1 DEF Receive
  <2>2. Queued \subseteq Queued'
    BY <2>1, PanTypes DEF Queued
  <2> QED  BY <2>1, <2>2, PanUntouched
<1>2. CASE QueueReady \/ AddPeer
  <2>1. UNCHANGED <<mensajesPAN, panOut, frames>>
        /\ (at \notin {"ready", "store"} => at' \notin {"ready", "store"})
    BY <1>2 DEF QueueReady, AddPeer
  <2>2. Queued \subseteq Queued'
    BY <1>2, <2>1 DEF Queued, QueueReady, AddPeer
  <2> QED  BY <2>1, <2>2, PanUntouched
<1>3. CASE Connect \/ PollMqtt \/ Serve \/ Notify \/ Publish \/ BrokerDown \/ UNCHANGED vars
  <2>1. UNCHANGED <<mensajesPAN, panOut, frames, at>>
    BY <1>3 DEF Connect, PollMqtt, Serve, Notify, Publish, BrokerDown, vars
  <2>2. Queued \subseteq Queued'
    BY <2>1 DEF Queued
  <2> QED  BY <2>1, <2>2, PanUntouched
<1> QED  BY <1>1, <1>2, <1>3, PanStored, PanServed DEF Next, Callback, Loop

\* A sequence of different elements has as many of them as it is long.
LEMMA DifferentElements ==
    ASSUME NEW S, NEW s \in Seq(S), \A i, j \in 1..Len(s) : s[i] = s[j] => i = j
    PROVE  Cardinality(ToSet(s)) = Len(s)
<1>0. Len(s) \in Nat
  OBVIOUS
<1>2. s \in Bijection(1..Len(s), ToSet(s))
  BY DEF Bijection, Injection, Surjection, IsInjective, ToSet
<1>3. ExistsBijection(1..Len(s), ToSet(s))
  BY <1>2 DEF ExistsBijection
<1> QED  BY <1>0, <1>3, FS_CountingElements

\* PanOnce, for all constants: whatever the three-argument is_permutation says of the
\* devices served, even where it reads past the end, a message erased too late or too
\* early is sent to nobody twice.
THEOREM PanCorrect == Spec => []PanOnce
<1>1. Init => PanInv
  BY DEF Init, PanInv, PanKept, PanSent
<1>2. TypeInv /\ PanInv => PanOnce
  <2> SUFFICES ASSUME TypeInv, PanInv, NEW d \in Devices
               PROVE  /\ Cardinality(ToSet(panOut[d])) = Len(panOut[d])
                      /\ \A m \in ToSet(panOut[d]) : m.from # d
    BY DEF PanOnce
  <2>1. panOut[d] \in Seq(Data)
    BY PanTypes
  <2>2. \A i, j \in 1..Len(panOut[d]) : panOut[d][i] = panOut[d][j] => i = j
    BY DEF PanInv, PanSent
  <2>3. Cardinality(ToSet(panOut[d])) = Len(panOut[d])
    BY <2>1, <2>2, DifferentElements
  <2>4. \A m \in ToSet(panOut[d]) : m.from # d
    BY <2>1 DEF PanInv, PanSent, ToSet
  <2> QED  BY <2>3, <2>4
<1> QED  BY <1>1, <1>2, PanStep, TypeInvariant, PTL DEF Spec

-----------------------------------------------------------------------------
(* One list of messages is as good as a mailbox for each device *)

\* kept[n] is what the first n messages of the list hold for d.
IsKept(kept, d, list) ==
    /\ kept \in [0..Len(list) -> Seq(Messages)]
    /\ kept[0] = <<>>
    /\ \A n \in 1..Len(list) :
          kept[n] = IF list[n].to = d THEN Append(kept[n - 1], list[n]) ELSE kept[n - 1]

\* The first m messages are for others; those of two lists are the same.
NoneFor(d, list, m)   == \A n \in 1..m : list[n].to # d
Alike(list, other, m) == \A n \in 1..m : list[n] = other[n]

\* The recursion of For is well founded.
LEMMA ForKept ==
    ASSUME NEW d, NEW list \in Seq(Messages)
    PROVE  \E kept : IsKept(kept, d, list) /\ For(d, list) = kept[Len(list)]
<1> DEFINE N == Len(list)
           T == Seq(Messages)
           after == [n \in 1..N |-> [box \in T |->
                       IF list[n].to = d THEN Append(box, list[n]) ELSE box]]
           Rec(g) == g = [n \in 0..N |->
                       IF n = 0 THEN <<>>
                       ELSE IF list[n].to = d THEN Append(g[n - 1], list[n]) ELSE g[n - 1]]
           G == CHOOSE g : Rec(g)
<1>1. N \in Nat /\ <<>> \in T /\ \A n \in 1..N : list[n] \in Messages
  BY EmptySeq, LenProperties, ElementOfSeq
<1>2. after \in [1..N -> [T -> T]]
  BY <1>1, AppendProperties
<1> HIDE DEF N
<1>3. PICK f \in [0..N -> T] : Follows(f, <<>>, after, N)
  <2> HIDE DEF after, T
  <2> QED  BY <1>1, <1>2, Iterates
<1>4. \A n \in 1..N : n - 1 \in 0..N /\ f[n - 1] \in T
  BY <1>1
<1>5. \A n \in 1..N :
         f[n] = IF list[n].to = d THEN Append(f[n - 1], list[n]) ELSE f[n - 1]
  BY <1>3, <1>4 DEF Follows
<1> HIDE DEF after, T
<1>6. Rec(f)
  <2>1. ASSUME NEW n \in 0..N
        PROVE  f[n] = IF n = 0 THEN <<>>
                      ELSE IF list[n].to = d THEN Append(f[n - 1], list[n]) ELSE f[n - 1]
    <3>1. CASE n = 0
      BY <1>3, <3>1 DEF Follows
    <3>2. CASE n # 0
      <4>1. n \in 1..N
        BY <1>1, <3>2
      <4> QED  BY <1>5, <3>2, <4>1, Zenon
    <3> QED  BY <3>1, <3>2
  <2> QED  BY <2>1, Zenon
<1>7. Rec(G)
  <2> HIDE DEF Rec
  <2> QED  BY <1>6
<1>8. For(d, list) = G[N]
  BY DEF For, N
<1> HIDE DEF G
<1>9. G[0] = <<>> /\ \A n \in 1..N :
         G[n] = IF list[n].to = d THEN Append(G[n - 1], list[n]) ELSE G[n - 1]
  <2>1. ASSUME NEW n \in 0..N
        PROVE  G[n] = IF n = 0 THEN <<>>
                      ELSE IF list[n].to = d THEN Append(G[n - 1], list[n]) ELSE G[n - 1]
    BY <1>7, Zenon
  <2>2. 0 \in 0..N /\ \A n \in 1..N : n \in 0..N /\ n # 0
    BY <1>1
  <2> QED  BY <2>1, <2>2
<1> HIDE DEF Rec
<1>10. \A n \in 0..N : G[n] = f[n]
  <2> DEFINE S == {n \in 0..N : G[n] = f[n]}
  <2>1. 0 \in S /\ \A n \in 0..(N - 1) : n \in S => n + 1 \in S
    <3>1. 0 \in S
      BY <1>1, <1>3, <1>9 DEF Follows
    <3>2. ASSUME NEW n \in 0..(N - 1), n \in S PROVE n + 1 \in S
      <4>1. n + 1 \in 1..N /\ (n + 1) - 1 = n
        BY <1>1
      <4>2. G[n + 1] = f[n + 1]
        BY <1>5, <1>9, <3>2, <4>1
      <4> QED  BY <4>1, <4>2
    <3> QED  BY <3>1, <3>2
  <2>2. Inductive(S, 0, N)
    BY <2>1 DEF Inductive
  <2> HIDE DEF S
  <2>3. 0..N \subseteq S
    BY <1>1, <2>2, UpTo
  <2> QED  BY <2>3 DEF S
<1>11. IsKept(f, d, list) /\ For(d, list) = f[N]
  BY <1>1, <1>3, <1>5, <1>8, <1>10 DEF IsKept, T, N, Follows
<1> QED  BY <1>11 DEF N

\* What lists have in common they hold in common.
LEMMA KeptSame ==
    ASSUME NEW d, NEW list \in Seq(Messages), NEW other \in Seq(Messages),
           NEW f, NEW g, IsKept(f, d, list), IsKept(g, d, other),
           NEW m \in Nat, m <= Len(list), m <= Len(other), Alike(list, other, m)
    PROVE  f[m] = g[m]
<1> USE DEF Alike
<1> DEFINE S == {n \in 0..m : f[n] = g[n]}
<1>1. Len(list) \in Nat /\ Len(other) \in Nat
  BY LenProperties
<1>2. 0 \in S
  BY DEF IsKept
<1>3. ASSUME NEW n \in 0..(m - 1), n \in S PROVE n + 1 \in S
  <2>1. n + 1 \in 1..Len(list) /\ n + 1 \in 1..Len(other) /\ (n + 1) - 1 = n /\ n + 1 \in 1..m
    BY <1>1
  <2>2. f[n + 1] = g[n + 1]
    BY <1>3, <2>1 DEF IsKept
  <2> QED  BY <2>1, <2>2
<1>4. Inductive(S, 0, m)
  BY <1>2, <1>3 DEF Inductive
<1> HIDE DEF S
<1>5. 0..m \subseteq S
  BY <1>4, UpTo
<1> QED  BY <1>5 DEF S

LEMMA ForEmpty == ASSUME NEW d PROVE For(d, <<>>) = <<>>
<1>1. <<>> \in Seq(Messages) /\ Len(<<>>) = 0
  BY EmptySeq
<1>2. PICK kept : IsKept(kept, d, <<>>) /\ For(d, <<>>) = kept[0]
  BY <1>1, ForKept
<1> QED  BY <1>2 DEF IsKept

LEMMA ForType ==
    ASSUME NEW d, NEW list \in Seq(Messages)
    PROVE  For(d, list) \in Seq(Messages)
<1>1. PICK kept : IsKept(kept, d, list) /\ For(d, list) = kept[Len(list)]
  BY ForKept
<1> QED  BY <1>1, LenProperties DEF IsKept

\* A message put at the end of the list is put at the end of its device's mailbox.
LEMMA ForAppend ==
    ASSUME NEW d, NEW list \in Seq(Messages), NEW m \in Messages
    PROVE  For(d, Append(list, m)) = IF m.to = d THEN Append(For(d, list), m) ELSE For(d, list)
<1> DEFINE longer == Append(list, m)
           N == Len(list)
<1>1. /\ longer \in Seq(Messages) /\ Len(longer) = N + 1 /\ N \in Nat
      /\ longer[N + 1] = m /\ \A n \in 1..N : longer[n] = list[n]
  BY AppendProperties, LenProperties
<1> HIDE DEF longer
<1>2. PICK f : IsKept(f, d, list) /\ For(d, list) = f[N]
  BY ForKept
<1>3. PICK g : IsKept(g, d, longer) /\ For(d, longer) = g[N + 1]
  BY <1>1, ForKept
<1>4. g[N] = f[N]
  <2>1. Alike(list, longer, N)
    BY <1>1 DEF Alike
  <2> QED  BY <1>1, <1>2, <1>3, <2>1, KeptSame
<1>5. g[N + 1] = IF m.to = d THEN Append(g[N], m) ELSE g[N]
  <2>1. N + 1 \in 1..Len(longer) /\ (N + 1) - 1 = N
    BY <1>1
  <2> QED  BY <1>1, <1>3, <2>1 DEF IsKept
<1> QED  BY <1>2, <1>3, <1>4, <1>5 DEF longer

\* Nothing is kept for a device that no message is for.
LEMMA ForNobody ==
    ASSUME NEW d, NEW list \in Seq(Messages), NEW f, IsKept(f, d, list),
           NEW m \in 0..Len(list), NoneFor(d, list, m)
    PROVE  f[m] = <<>>
<1> USE DEF NoneFor
<1> DEFINE S == {n \in 0..m : f[n] = <<>>}
<1>1. Len(list) \in Nat
  BY LenProperties
<1>2. 0 \in S
  BY DEF IsKept
<1>3. ASSUME NEW n \in 0..(m - 1), n \in S PROVE n + 1 \in S
  <2>1. n + 1 \in 1..Len(list) /\ (n + 1) - 1 = n /\ n + 1 \in 1..m
    BY <1>1
  <2> QED  BY <1>3, <2>1 DEF IsKept
<1>4. Inductive(S, 0, m)
  BY <1>2, <1>3 DEF Inductive
<1> HIDE DEF S
<1>5. 0..m \subseteq S
  BY <1>4, UpTo
<1> QED  BY <1>5 DEF S

\* Taking the first message for d out of the list takes the first out of the mailbox of d,
\* and nothing out of any other.
LEMMA ForTaken ==
    ASSUME NEW d, NEW list \in Seq(Messages), NEW i \in 1..Len(list), list[i].to = d,
           NoneFor(d, list, i - 1)
    PROVE  /\ For(d, list) # <<>> /\ Head(For(d, list)) = list[i]
           /\ For(d, RemoveAt(list, i)) = Tail(For(d, list))
           /\ \A e : e # d => For(e, RemoveAt(list, i)) = For(e, list)
<1> DEFINE rest == RemoveAt(list, i)
           N == Len(rest)
<1>1. /\ rest \in Seq(Messages) /\ Len(list) = N + 1 /\ N \in Nat
      /\ \A n \in 1..N : rest[n] = IF n < i THEN list[n] ELSE list[n + 1]
      /\ \A n \in 1..(N + 1) : list[n] \in Messages
  BY RemoveAtProperties, LenProperties, ElementOfSeq
<1> HIDE DEF rest, N
<1>2. i - 1 \in Nat /\ i - 1 \in 0..N /\ i \in 1..(N + 1) /\ (i - 1) + 1 = i
      /\ i - 1 <= Len(list)
  BY <1>1
<1>3. Alike(list, rest, i - 1)
  BY <1>1, <1>2 DEF Alike
<1>4. /\ For(d, list) # <<>> /\ Head(For(d, list)) = list[i]
      /\ For(d, rest) = Tail(For(d, list))
  <2>1. PICK f : IsKept(f, d, list) /\ For(d, list) = f[N + 1]
    BY <1>1, ForKept
  <2>2. PICK g : IsKept(g, d, rest) /\ For(d, rest) = g[N]
    BY <1>1, ForKept DEF N
  <2> DEFINE Taken(n) == f[n + 1] # <<>> /\ Head(f[n + 1]) = list[i] /\ g[n] = Tail(f[n + 1])
             S == {n \in (i - 1)..N : Taken(n)}
  <2>3. f[i - 1] = <<>>
    <3>1. i - 1 \in 0..Len(list)
      BY <1>1, <1>2
    <3> QED  BY <2>1, <3>1, ForNobody
  <2>4. g[i - 1] = f[i - 1]
    <3>1. i - 1 <= Len(rest)
      BY <1>1, <1>2 DEF N
    <3> QED  BY <1>1, <1>2, <1>3, <2>1, <2>2, <3>1, KeptSame
  <2>5. f[i] = Append(<<>>, list[i])
    BY <1>1, <1>2, <2>1, <2>3 DEF IsKept
  <2>6. Taken(i - 1)
    <3>1. list[i] \in Messages /\ (i - 1) + 1 = i
      BY <1>1, <1>2
    <3>2. ASSUME NEW m \in Messages
          PROVE  Append(<<>>, m) # <<>> /\ Head(Append(<<>>, m)) = m
                   /\ Tail(Append(<<>>, m)) = <<>>
      OBVIOUS
    <3>3. f[(i - 1) + 1] = Append(<<>>, list[i]) /\ g[i - 1] = <<>>
      BY <2>3, <2>4, <2>5, <3>1
    <3> HIDE DEF Taken
    <3> QED  BY <3>1, <3>2, <3>3 DEF Taken
  <2>7. ASSUME NEW n \in (i - 1)..(N - 1), n \in S PROVE n + 1 \in S
    <3>1. /\ n + 1 \in 1..N /\ n + 2 \in 1..(N + 1) /\ (n + 2) - 1 = n + 1
          /\ (n + 1) - 1 = n /\ (n + 1) + 1 = n + 2 /\ ~(n + 1 < i) /\ n + 1 \in (i - 1)..N
          /\ n + 1 \in 0..(N + 1)
      BY <1>1, <1>2
    <3> DEFINE m == list[n + 2]
    <3>2. rest[n + 1] = m /\ m \in Messages
      BY <1>1, <3>1
    <3> HIDE DEF m
    <3>3. f[n + 2] = IF m.to = d THEN Append(f[n + 1], m) ELSE f[n + 1]
      BY <1>1, <2>1, <3>1 DEF IsKept, m
    <3>4. g[n + 1] = IF m.to = d THEN Append(g[n], m) ELSE g[n]
      BY <1>1, <2>2, <3>1, <3>2 DEF IsKept, N
    <3>5. f[n + 1] \in Seq(Messages)
      BY <1>1, <2>1, <3>1 DEF IsKept
    <3>6. Taken(n)
      BY <2>7
    <3>7. f[n + 2] # <<>> /\ Head(f[n + 2]) = list[i] /\ g[n + 1] = Tail(f[n + 2])
      <4> DEFINE w == f[n + 1]
      <4>1. w \in Seq(Messages) /\ w # <<>> /\ Head(w) = list[i] /\ g[n] = Tail(w)
        BY <3>5, <3>6
      <4> HIDE DEF w
      <4>2. /\ Append(w, m) # <<>> /\ Head(Append(w, m)) = Head(w)
            /\ Tail(Append(w, m)) = Append(Tail(w), m)
        BY <3>2, <4>1, AppendProperties, HeadTailAppend
      <4>3. f[n + 2] = IF m.to = d THEN Append(w, m) ELSE w
        BY <3>3 DEF w
      <4> QED  BY <3>4, <4>1, <4>2, <4>3
    <3> QED  BY <3>1, <3>7
  <2>8. Inductive(S, i - 1, N)
    BY <1>2, <2>6, <2>7 DEF Inductive
  <2> HIDE DEF S
  <2>9. N \in S
    BY <1>1, <1>2, <2>8, UpTo
  <2>10. Taken(N)
    BY <2>9 DEF S
  <2> QED  BY <2>1, <2>2, <2>10
<1>5. ASSUME NEW e, e # d PROVE For(e, rest) = For(e, list)
  <2>1. PICK f : IsKept(f, e, list) /\ For(e, list) = f[N + 1]
    BY <1>1, ForKept
  <2>2. PICK g : IsKept(g, e, rest) /\ For(e, rest) = g[N]
    BY <1>1, ForKept DEF N
  <2> DEFINE S == {n \in (i - 1)..N : g[n] = f[n + 1]}
  <2>3. g[i - 1] = f[i - 1]
    <3>1. i - 1 <= Len(rest)
      BY <1>1, <1>2 DEF N
    <3> QED  BY <1>1, <1>2, <1>3, <2>1, <2>2, <3>1, KeptSame
  <2>4. f[i] = f[i - 1]
    BY <1>1, <1>2, <1>5, <2>1 DEF IsKept
  <2>5. ASSUME NEW n \in (i - 1)..(N - 1), n \in S PROVE n + 1 \in S
    <3>1. /\ n + 1 \in 1..N /\ n + 2 \in 1..(N + 1) /\ (n + 2) - 1 = n + 1
          /\ (n + 1) - 1 = n /\ (n + 1) + 1 = n + 2 /\ ~(n + 1 < i) /\ n + 1 \in (i - 1)..N
      BY <1>1, <1>2
    <3>2. rest[n + 1] = list[n + 2]
      BY <1>1, <3>1
    <3>3. f[n + 2] = IF list[n + 2].to = e THEN Append(f[n + 1], list[n + 2]) ELSE f[n + 1]
      BY <1>1, <2>1, <3>1 DEF IsKept
    <3>4. g[n + 1] = IF list[n + 2].to = e THEN Append(g[n], list[n + 2]) ELSE g[n]
      BY <1>1, <2>2, <3>1, <3>2 DEF IsKept, N
    <3>5. g[n + 1] = f[n + 2]
      BY <2>5, <3>3, <3>4
    <3> QED  BY <3>1, <3>5
  <2>6. Inductive(S, i - 1, N)
    BY <1>2, <2>3, <2>4, <2>5 DEF Inductive
  <2> HIDE DEF S
  <2>7. N \in S
    BY <1>1, <1>2, <2>6, UpTo
  <2> QED  BY <2>1, <2>2, <2>7 DEF S
<1> QED  BY <1>4, <1>5 DEF rest

\* A device that waits has been registered, when none kept a pairing from before.
WaitingInv ==
    /\ \A k \in 1..Len(readyMACs) : readyMACs[k] \in peers
    /\ at \in {"ready", "store"} => cbFrame.from \in peers

LEMMA WaitingStep ==
    ASSUME Restored = {}, TypeInv, WaitingInv, [Next]_vars
    PROVE  WaitingInv'
<1> USE DEF WaitingInv, cbVars, sentVars
<1>1. CASE Receive
  <2>1. PICK d \in Devices, type \in {"DATA", "PAIRING"}, check \in BOOLEAN :
          /\ type = "DATA" => d \in peers
          /\ type = "PAIRING" => ~check
          /\ cbFrame' = [from |-> d, id |-> frames + 1, type |-> type, check |-> check]
          /\ at' = IF check THEN "ready" ELSE IF type = "DATA" THEN "store" ELSE "peer"
    BY <1>1 DEF Receive
  <2> QED  BY <1>1, <2>1 DEF Receive
<1>2. CASE QueueReady
  <2>1. readyMACs' = Append(readyMACs, cbFrame.from) /\ cbFrame.from \in peers
    BY <1>2 DEF QueueReady
  <2>2. readyMACs \in Seq(Devices)
    BY DEF TypeInv, TypeOK
  <2>3. \A k \in 1..Len(readyMACs') : readyMACs'[k] \in peers
    BY <2>1, <2>2
  <2> QED  BY <1>2, <2>3 DEF QueueReady
<1>3. CASE StoreData
  BY <1>3 DEF StoreData
<1>4. CASE AddPeer
  BY <1>4 DEF AddPeer
<1>5. CASE Serve
  <2>1. readyMACs' = readyMACs \/ (readyMACs # <<>> /\ readyMACs' = Tail(readyMACs))
    BY <1>5 DEF Serve, NotWaiting
  <2>2. readyMACs \in Seq(Devices)
    BY DEF TypeInv, TypeOK
  <2>3. \A k \in 1..Len(readyMACs') : readyMACs'[k] \in peers
    BY <2>1, <2>2
  <2> QED  BY <1>5, <2>3 DEF Serve
<1>6. CASE Connect \/ PollMqtt \/ ServePan \/ Notify \/ Publish \/ BrokerDown
  BY <1>6 DEF Connect, PollMqtt, ServePan, Notify, Publish, BrokerDown
<1>7. CASE UNCHANGED vars
  BY <1>7 DEF vars
<1> QED  BY <1>1, <1>2, <1>3, <1>4, <1>5, <1>6, <1>7 DEF Next, Callback, Loop

LEMMA WaitingInvariant ==
    ASSUME Restored = {}
    PROVE  Spec => []WaitingInv
<1>1. Init => WaitingInv
  BY DEF Init, WaitingInv
<1> QED  BY <1>1, WaitingStep, TypeInvariant, PTL DEF Spec

\* A step that leaves both lists alone is none of the mailboxes.
LEMMA MailboxStutters ==
    ASSUME UNCHANGED <<mensajesMQTT, out>>
    PROVE  UNCHANGED Box!vars
  BY DEF Box!vars

\* procesa_mensaje deposits the message it gets.
LEMMA PollDeposits ==
    ASSUME TypeInv, PollMqtt
    PROVE  [Box!Next]_(Box!vars)
<1> DEFINE box == [d \in Devices |-> For(d, mensajesMQTT)]
<1>1. CASE mensajesMQTT' = mensajesMQTT
  BY <1>1, MailboxStutters DEF PollMqtt, sentVars
<1>2. CASE mensajesMQTT' # mensajesMQTT
  <2>1. PICK d \in Devices : mensajesMQTT' = Append(mensajesMQTT, [to |-> d, id |-> deposits + 1])
    BY <1>2 DEF PollMqtt
  <2> DEFINE m == [to |-> d, id |-> deposits + 1]
  <2>2. m \in Messages /\ m.to = d /\ mensajesMQTT \in Seq(Messages)
    <3>1. deposits < MaxMessages /\ deposits \in 0..MaxMessages /\ MaxMessages \in Nat
      BY <1>2, GatewayAssumption DEF PollMqtt, TypeInv, TypeOK
    <3> QED  BY <3>1 DEF Messages, TypeInv, TypeOK
  <2> HIDE DEF m
  <2>3. mensajesMQTT' = Append(mensajesMQTT, m)
    BY <2>1 DEF m
  <2>4. box' = [box EXCEPT ![d] = Append(@, m)]
    <3>1. ASSUME NEW e \in Devices
          PROVE  For(e, mensajesMQTT') = IF e = d THEN Append(For(e, mensajesMQTT), m)
                                         ELSE For(e, mensajesMQTT)
      BY <2>2, <2>3, ForAppend
    <3> QED  BY <3>1
  <2>5. out' = out
    BY DEF PollMqtt, sentVars
  <2>6. Box!Deposit(d, m)
    BY <2>4, <2>5 DEF Box!Deposit
  <2> QED  BY <2>2, <2>6 DEF Box!Next
<1> QED  BY <1>1, <1>2

\* The part of loop() that serves a waiting device hands it the first message of its
\* mailbox, or tells it that there is none.
LEMMA ServeCollects ==
    ASSUME TypeInv, WaitingInv, Serve
    PROVE  [Box!Next]_(Box!vars)
<1> DEFINE box == [d \in Devices |-> For(d, mensajesMQTT)]
<1>1. CASE readyMACs = <<>>
  BY <1>1, MailboxStutters DEF Serve
<1>2. CASE readyMACs # <<>>
  <2> DEFINE d == Head(readyMACs)
             i == Encuentra(d)
  <2>1. mensajesMQTT \in Seq(Messages) /\ readyMACs \in Seq(Devices)
        /\ out \in [Devices -> Seq(Messages \cup {NoData})]
    BY DEF TypeInv, TypeOK
  <2>2. d \in Devices /\ d \in peers
    <3>1. d = readyMACs[1] /\ 1 \in 1..Len(readyMACs)
      BY <1>2, <2>1
    <3> QED  BY <2>1, <3>1 DEF WaitingInv
  <2>3. /\ i \in 0..Len(mensajesMQTT)
        /\ i = 0 => NoneFor(d, mensajesMQTT, Len(mensajesMQTT))
        /\ i # 0 => mensajesMQTT[i].to = d /\ NoneFor(d, mensajesMQTT, i - 1)
    BY <2>1, EncuentraFirst DEF NoneFor
  <2>4. \/ i = 0 /\ out' = Send(d, NoData, out) /\ mensajesMQTT' = mensajesMQTT
        \/ /\ i # 0 /\ mensajesMQTT' = RemoveAt(mensajesMQTT, i)
           /\ out' = Send(d, mensajesMQTT[i], out)
    BY <1>2 DEF Serve
  <2> HIDE DEF d, i
  <2>5. CASE i = 0
    <3>1. For(d, mensajesMQTT) = <<>>
      <4>1. PICK f : IsKept(f, d, mensajesMQTT) /\ For(d, mensajesMQTT) = f[Len(mensajesMQTT)]
        BY <2>1, ForKept
      <4>2. Len(mensajesMQTT) \in 0..Len(mensajesMQTT)
        BY <2>1, LenProperties
      <4> QED  BY <2>1, <2>3, <2>5, <4>1, <4>2, ForNobody
    <3>2. out' = [out EXCEPT ![d] = Append(@, NoData)] /\ mensajesMQTT' = mensajesMQTT
      BY <2>2, <2>4, <2>5 DEF Send
    <3>3. Box!TellEmpty(d)
      BY <2>2, <3>1, <3>2 DEF Box!TellEmpty
    <3> QED  BY <2>2, <3>3 DEF Box!Next
  <2>6. CASE i # 0
    <3>1. i \in 1..Len(mensajesMQTT) /\ mensajesMQTT' = RemoveAt(mensajesMQTT, i)
      BY <2>1, <2>3, <2>4, <2>6
    <3>2. /\ For(d, mensajesMQTT) # <<>> /\ Head(For(d, mensajesMQTT)) = mensajesMQTT[i]
          /\ For(d, mensajesMQTT') = Tail(For(d, mensajesMQTT))
          /\ \A e : e # d => For(e, mensajesMQTT') = For(e, mensajesMQTT)
      BY <2>1, <2>3, <2>6, <3>1, ForTaken
    <3>3. box[d] # <<>> /\ Head(box[d]) = mensajesMQTT[i]
      BY <2>2, <3>2
    <3>4. box' = [box EXCEPT ![d] = Tail(@)]
      BY <2>2, <3>2
    <3>5. out' = [out EXCEPT ![d] = Append(@, Head(box[d]))]
      BY <2>2, <2>4, <2>6, <3>3 DEF Send
    <3>6. Box!Collect(d)
      BY <3>3, <3>4, <3>5 DEF Box!Collect
    <3> QED  BY <2>2, <3>6 DEF Box!Next
  <2> QED  BY <2>5, <2>6
<1> QED  BY <1>1, <1>2

\* Every step of the gateway is one of the mailboxes, or none.
LEMMA MailboxStep ==
    ASSUME TypeInv, WaitingInv, [Next]_vars
    PROVE  [Box!Next]_(Box!vars)
<1>1. CASE PollMqtt
  BY <1>1, PollDeposits
<1>2. CASE Serve
  BY <1>2, ServeCollects
<1>3. CASE Receive \/ Callback \/ Connect \/ ServePan \/ Notify \/ Publish \/ BrokerDown
  BY <1>3, MailboxStutters
  DEF Receive, Callback, QueueReady, StoreData, AddPeer, Connect, ServePan, Notify, Publish,
      BrokerDown, sentVars
<1>4. CASE UNCHANGED vars
  BY <1>4, MailboxStutters DEF vars, sentVars
<1> QED  BY <1>1, <1>2, <1>3, <1>4 DEF Next, Loop

\* The gateway keeps what Mailbox promises each of its devices, however many they are and
\* in whatever order their frames and messages come, provided that no device asks before
\* this boot of the gateway has registered it.
THEOREM MailboxCorrect ==
    ASSUME Restored = {}
    PROVE  Spec => ImplementsMailbox
<1>1. Init => Box!Init
  <2> SUFFICES ASSUME Init PROVE Box!Init
    OBVIOUS
  <2>1. mensajesMQTT = <<>> /\ out = [d \in Devices |-> <<>>]
    BY DEF Init
  <2>2. [d \in Devices |-> For(d, mensajesMQTT)] = [d \in Devices |-> <<>>]
    BY <2>1, ForEmpty
  <2> QED  BY <2>1, <2>2 DEF Box!Init
<1>2. TypeInv /\ WaitingInv /\ [Next]_vars => [Box!Next]_(Box!vars)
  BY MailboxStep
<1> QED  BY <1>1, <1>2, TypeInvariant, WaitingInvariant, PTL DEF Spec, ImplementsMailbox, Box!Spec
=============================================================================
