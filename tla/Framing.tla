------------------------------ MODULE Framing -------------------------------
(***************************************************************************)
(* The bytes of a message: how send_task cuts "topic|payload" into frames, *)
(* what OnDataRecv reads of them and joins, and where a node looks for     *)
(* what the gateway writes.  Text is not spelt: a character is a position  *)
(* in "topic|payload", a text a sequence of intervals of positions.        *)
(*                                                                         *)
(* The containers of the gateway are those of module Gateway; here they    *)
(* keep what has been put into them since the gateway booted.              *)
(***************************************************************************)
EXTENDS Naturals, Sequences

CONSTANTS
    Nodes,      \* the nodes in range, registered by the gateway
    PanOf,      \* the PAN address each node puts in its frames
    Texts,      \* the messages that may be given to espnow_send
    Orders,     \* the messages that may be published for a node
    MaxSent,    \* bound: messages the nodes send
    MaxOrders,  \* bound: messages published for the nodes
    NoOrder     \* nothing applied so far

\* A text is known by the lengths of its topic and payload and by the value of the
\* payload's first character: 0 for '0' and for what is not a digit, as in JSON.
Text  == [topic : Nat, payload : Nat, lead : 0..9]
\* An order by its command, the characters its topic has before the command, and the
\* length of its payload, a JSON object.
Order == [pad : Nat, command : {"config", "update", "other"}, payload : Nat]

ASSUME FramingAssumption ==
    /\ PanOf \in [Nodes -> 0..15]
    /\ Texts \subseteq Text /\ Orders \subseteq Order
    /\ MaxSent \in Nat /\ MaxOrders \in Nat
    /\ NoOrder \notin [order : Order, whole : BOOLEAN]

VARIABLES
    sent,        \* history: the messages given to espnow_send
    outbox,      \* the frames of its message each node has still to send
    longPacket,  \* long_packet
    buff,        \* msgbuff
    buffLen,     \* msgbuff.length()
    cola,        \* what was pushed into cola_mensajes
    mensajesPAN, \* what was pushed into mensajes_PAN
    orders,      \* messages handed to the nodes so far
    applied,     \* the last command a node applied
    heard,       \* the last text given to on_pan_msg, and its first character
    peerCount    \* s_peer_count of the nodes, together

upVars   == <<sent, outbox>>
gwVars   == <<longPacket, buff, buffLen, cola, mensajesPAN>>
downVars == <<orders, applied, heard, peerCount>>
vars == <<upVars, gwVars, downVars>>

Least(a, b) == IF a < b THEN a ELSE b

\* Characters first..last of message number of; no piece stands for no characters.
Piece(of, first, last) ==
    IF first <= last THEN <<[of |-> of, first |-> first, last |-> last]>> ELSE <<>>
\* The digit of a part, which belongs to no message.
Digit(d) == <<[of |-> 0, first |-> d, last |-> d]>>
Size(first, last) == IF first <= last THEN last - first + 1 ELSE 0

-----------------------------------------------------------------------------
(* espnow_send and send_task *)

\* send_request_t has room for 127 and 239 characters; the rest is dropped.
TopicLen(id) == Least(sent[id].topic, 127)
FullLen(id)  == TopicLen(id) + 1 + Least(sent[id].payload, 239)

FrameSize  == 250
PayloadAt  == 7
MaxSingle  == FrameSize - PayloadAt - 1
Chunk      == MaxSingle - 2
NoIndex    == 10

\* Seeded fault: the parts are counted down to 1.
IndexFromOne(total, i) == total - i + 1

\* Part i of total carries how many follow it.
Index(total, i) == total - i

\* The frames of message id, of length full, from a node of that PAN: parts but the
\* last carry neither the PAN nor CHECK.
Frames(id, full, pan) ==
    IF full <= MaxSingle
    THEN <<[of |-> id, index |-> NoIndex, first |-> 1, last |-> full, pan |-> pan]>>
    ELSE LET total == (full + Chunk - 1) \div Chunk
         IN  [i \in 1..total |->
                [of |-> id, index |-> Index(total, i), first |-> (i - 1) * Chunk + 1,
                 last |-> Least(i * Chunk, full), pan |-> IF i = total THEN pan ELSE 0]]

\* send_task has finished the last message.
Submit(n, text) ==
    /\ Len(sent) < MaxSent /\ outbox[n] = <<>>
    /\ sent' = Append(sent, [from |-> n, topic |-> text.topic, payload |-> text.payload,
                             lead |-> text.lead])
    /\ LET id   == Len(sent) + 1
           full == Least(text.topic, 127) + 1 + Least(text.payload, 239)
       IN  outbox' = [outbox EXCEPT ![n] = Frames(id, full, PanOf[n])]
    /\ UNCHANGED <<gwVars, downVars>>

\* A frame that does not arrive; send_task goes on all the same.
Lose(n) ==
    /\ outbox[n] # <<>>
    /\ outbox' = [outbox EXCEPT ![n] = Tail(@)]
    /\ UNCHANGED <<sent, gwVars, downVars>>

-----------------------------------------------------------------------------
(* OnDataRecv *)

\* Seeded fault: one character less.
GatewayReadsLess == FrameSize - 12

\* The text starts at offset 7, but the buffer leaves 11 bytes for the header.
GatewayReads == FrameSize - 11

\* The last character of the frame that serialmsg holds.
LastRead(f) ==
    LET room == IF f.index = NoIndex THEN GatewayReads ELSE GatewayReads - 1
    IN  Least(f.last, f.first + room - 1)

\* The character after '|', or 0 when the frame holds none.
AfterBar(f) == IF f.first <= TopicLen(f.of) + 1 THEN TopicLen(f.of) + 2 ELSE 0

\* num_paq: the first character of what follows '|', or of the whole text.
NumPaq(f) ==
    IF AfterBar(f) = 0 THEN f.index
    ELSE IF AfterBar(f) <= LastRead(f) THEN sent[f.of].lead ELSE 0

\* message, without the digit that was taken for a part number.
Message(f) ==
    IF AfterBar(f) = 0
    THEN (IF NumPaq(f) = 0 THEN Digit(f.index) ELSE <<>>) \o Piece(f.of, f.first, LastRead(f))
    ELSE Piece(f.of, AfterBar(f) + (IF NumPaq(f) = 0 THEN 0 ELSE 1), LastRead(f))
MessageLen(f) ==
    IF AfterBar(f) = 0
    THEN (IF NumPaq(f) = 0 THEN 1 ELSE 0) + Size(f.first, LastRead(f))
    ELSE Size(AfterBar(f) + (IF NumPaq(f) = 0 THEN 0 ELSE 1), LastRead(f))

\* Seeded fault: no limit.
StoredAny(n) == n

\* TmensajeESP and TmensajePAN hold 500 bytes of the n they are given.
Stored(n) == Least(n, 500)

\* The text leaves with its final NUL, and is shared with the PAN of its last frame.
Push(from, pan, text, len) ==
    LET entry == [from |-> from, text |-> text, len |-> Stored(len + 1)] IN
        /\ cola' = Append(cola, entry)
        /\ mensajesPAN' = IF pan > 1 THEN Append(mensajesPAN, entry) ELSE mensajesPAN

\* Seeded fault: msgbuff is not emptied.
EmptyNot == UNCHANGED <<buff, buffLen>>

\* msgbuff = "".
EmptyBuff == buff' = <<>> /\ buffLen' = 0

\* A DATA frame: kept while its number is not 0, else joined with what was kept.
Receive(n) ==
    /\ outbox[n] # <<>>
    /\ outbox' = [outbox EXCEPT ![n] = Tail(@)]
    /\ LET f == Head(outbox[n]) IN
         \/ /\ NumPaq(f) > 0
            /\ longPacket' = TRUE
            /\ buff' = buff \o Message(f) /\ buffLen' = buffLen + MessageLen(f)
            /\ UNCHANGED <<cola, mensajesPAN>>
         \/ /\ NumPaq(f) = 0 /\ longPacket
            /\ Push(n, f.pan, buff \o Message(f), buffLen + MessageLen(f))
            /\ EmptyBuff /\ longPacket' = FALSE
         \/ /\ NumPaq(f) = 0 /\ ~longPacket
            /\ Push(n, f.pan, Message(f), MessageLen(f))
            /\ UNCHANGED <<longPacket, buff, buffLen>>
    /\ UNCHANGED <<sent, downVars>>

-----------------------------------------------------------------------------
(* loop() and recv_task: the way down *)

Byte == 256

\* esp_now_send takes 1 to 250 bytes.
Accepts(size) == size \in 1..FrameSize

\* struct_espnow has no room for a MAC: what the gateway writes starts at offset 1.
WrittenAt == 1

OrderLen(o) == Least(o.pad + 6 + 1 + o.payload, 500)

\* Seeded fault: the node's header without its control byte.
ReadAtEarly == PayloadAt - 1

\* espnow_frame_t has one: what the node reads starts at offset 7.
ReadAt == PayloadAt

\* The first and last character of an order that the node reads of size bytes.
FirstSeen == ReadAt - WrittenAt + 1
LastSeen(o, size) == Least(OrderLen(o), size - WrittenAt)

\* The topic handed to on_mqtt_msg is the command when it loses just what precedes it.
Recognised(o, size) ==
    /\ FirstSeen <= o.pad + 7 /\ o.pad + 7 <= LastSeen(o, size)
    /\ FirstSeen = o.pad + 1 /\ o.command # "other"

\* loop() hands a message to a node, which may not get it; what a frame lacks, the
\* node finds in its memory, which may complete an object that was cut.
HandOver(o) ==
    /\ orders < MaxOrders
    /\ orders' = orders + 1
    /\ LET size == (OrderLen(o) + 1) % Byte IN
         \/ /\ Accepts(size) /\ Recognised(o, size)
            /\ applied' = [order |-> o, whole |-> LastSeen(o, size) = OrderLen(o)]
         \/ UNCHANGED applied
    /\ UNCHANGED <<upVars, gwVars, heard, peerCount>>

\* More than 249 characters do not fit in struct_espnow: loop() may not survive it.
HandOverCrash(o) ==
    /\ orders < MaxOrders /\ OrderLen(o) > 249
    /\ orders' = orders + 1
    /\ longPacket' = FALSE /\ buff' = <<>> /\ buffLen' = 0
    /\ cola' = <<>> /\ mensajesPAN' = <<>>
    /\ UNCHANGED <<upVars, applied, heard, peerCount>>

PanHeader == 11

\* Seeded fault: the header is not counted from the node's payload.
PanReadAtHeader == PanHeader

\* The node skips the header of a PAN message from its own payload on.
PanReadAt == PayloadAt + PanHeader

\* on_pan_msg keeps the reading of a text that parses. Those of the nodes of this
\* repository are objects from their first character, and not from a later one.
SharePan(i) ==
    /\ LET size == (mensajesPAN[i].len + PanHeader) % Byte IN Accepts(size)
    /\ heard' = [text |-> mensajesPAN[i], from |-> PanReadAt - PanHeader + 1]
    /\ peerCount' = IF heard'.from = 1 THEN (peerCount + 1) % Byte ELSE peerCount
    /\ UNCHANGED <<upVars, gwVars, orders, applied>>

Init ==
    /\ sent = <<>> /\ outbox = [n \in Nodes |-> <<>>]
    /\ longPacket = FALSE /\ buff = <<>> /\ buffLen = 0
    /\ cola = <<>> /\ mensajesPAN = <<>>
    /\ orders = 0 /\ applied = NoOrder /\ heard = NoOrder /\ peerCount = 0

Next ==
    \/ \E n \in Nodes : (\E t \in Texts : Submit(n, t)) \/ Lose(n) \/ Receive(n)
    \/ \E o \in Orders : HandOver(o) \/ HandOverCrash(o)
    \/ \E i \in 1..Len(mensajesPAN) : SharePan(i)

Spec == Init /\ [][Next]_vars

-----------------------------------------------------------------------------
(* What must hold *)

Ids == 1..Len(sent)
PieceType == [of : 0..MaxSent, first : Nat, last : Nat]
FrameType == [of : 1..MaxSent, index : 0..10, first : 1..367, last : 1..367, pan : 0..15]
EntryType == [from : Nodes, text : Seq(PieceType), len : 1..500]

TypeOK ==
    /\ sent \in Seq([from : Nodes, topic : Nat, payload : Nat, lead : 0..9])
    /\ Len(sent) <= MaxSent
    /\ outbox \in [Nodes -> Seq(FrameType)]
    /\ longPacket \in BOOLEAN /\ buff \in Seq(PieceType) /\ buffLen \in Nat
    /\ cola \in Seq(EntryType) /\ mensajesPAN \in Seq(EntryType)
    /\ orders \in 0..MaxOrders /\ peerCount \in 0..(Byte - 1)
    /\ applied \in [order : Orders, whole : BOOLEAN] \cup {NoOrder}
    /\ heard \in [text : EntryType, from : Nat] \cup {NoOrder}

\* What data that is no number becomes, whatever frames are lost and however the nodes
\* interleave: its payload up to character 239 of the message; above 242 characters
\* two texts, of which each lacks the other and the first two characters as well.
NoNumbers == \A id \in Ids : sent[id].lead = 0
Becomes(id) ==
    LET payload == TopicLen(id) + 2 IN
    IF FullLen(id) <= 242 THEN {Piece(id, payload, Least(FullLen(id), 239))}
    ELSE {Piece(id, payload, 238), Digit(0) \o Piece(id, 241, FullLen(id))}
Published(e) == \E id \in Ids : sent[id].from = e.from /\ e.text \in Becomes(id)
JsonAsSent ==
    NoNumbers => ~longPacket /\ \A k \in 1..Len(cola) : Published(cola[k])

\* Data of one message is found in that of another device only if its payload starts
\* with a digit, and msgbuff holds nothing else.
Numeric(p) == p.of # 0 => sent[p.of].lead > 0
MixedOnlyNumbers ==
    /\ ~longPacket => buff = <<>>
    /\ \A a \in 1..Len(buff) : Numeric(buff[a])
    /\ \A k \in 1..Len(cola) : \A a \in 1..Len(cola[k].text) :
          LET p == cola[k].text[a] IN
              p.of # 0 => sent[p.of].from = cola[k].from \/ Numeric(p)

\* No character of a message is published twice, or before an earlier one of its node.
TextOf(k) == IF k <= Len(cola) THEN cola[k].text ELSE buff
Before(p, q) == p.of < q.of \/ (p.of = q.of /\ p.last < q.first)
PartsInOrder ==
    \A k, l \in 1..(Len(cola) + 1) :
        \A a \in 1..Len(TextOf(k)), b \in 1..Len(TextOf(l)) :
            LET p == TextOf(k)[a]
                q == TextOf(l)[b]
            IN  /\ k < l \/ (k = l /\ a < b)
                /\ p.of # 0 /\ q.of # 0 /\ sent[p.of].from = sent[q.of].from
                => Before(p, q)

\* JSON_serie has 500 bytes and mensaje_mqtt 512, of which 33 are loop()'s own: text
\* that is no number fits, with the byte loop() writes after it.
JsonFits ==
    NoNumbers => \A k \in 1..Len(cola) : cola[k].len < 500 /\ cola[k].len + 33 <= 512

\* A command is applied only if its topic has just six characters before it, which the
\* node does not see; and if it is cut, its length did not fit in a byte.
AppliedPadded ==
    applied # NoOrder =>
        /\ applied.order.pad = 6
        /\ ~applied.whole => OrderLen(applied.order) > 255

\* No reading of another node enters the ring, whatever PAN messages arrive.
RingUntouched == peerCount = 0
=============================================================================
