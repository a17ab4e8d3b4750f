--------------------------- MODULE FramingProofs ---------------------------
(* Theorems about Framing, for any nodes, messages and orders.              *)
EXTENDS Framing, SequenceTheorems, TLAPS

-----------------------------------------------------------------------------
(* The frames under way *)

\* The frames of a text of that length: all of it, its first 240 characters, or the rest.
Cut(f, full) ==
    \/ full <= 242 /\ f.index = 10 /\ f.first = 1 /\ f.last = full
    \/ full > 242 /\ f.index = 1 /\ f.first = 1 /\ f.last = 240
    \/ full > 242 /\ f.index = 0 /\ f.first = 241 /\ f.last = full

\* A frame of node n belongs to one of its messages: 367 characters are never cut in three.
Shape(n, f) ==
    /\ f \in FrameType /\ f.of \in 1..Len(sent) /\ sent[f.of].from = n
    /\ Cut(f, FullLen(f.of))

Outbox == \A n \in Nodes : \A a \in 1..Len(outbox[n]) : Shape(n, outbox[n][a])

SentType == Seq([from : Nodes, topic : Nat, payload : Nat, lead : 0..9])

\* The lengths of a message that was sent.
LEMMA Lengths ==
    ASSUME sent \in SentType, NEW id \in 1..Len(sent)
    PROVE  /\ TopicLen(id) \in Nat /\ TopicLen(id) <= 127
           /\ FullLen(id) \in Nat
           /\ TopicLen(id) + 1 <= FullLen(id) /\ FullLen(id) <= TopicLen(id) + 240
           /\ sent[id].lead \in 0..9
<1>1. sent[id] \in [from : Nodes, topic : Nat, payload : Nat, lead : 0..9]
  BY ElementOfSeq DEF SentType
<1> DEFINE x == sent[id].topic
           y == sent[id].payload
<1>2. x \in Nat /\ y \in Nat /\ sent[id].lead \in 0..9
  BY <1>1
<1>3. TopicLen(id) = Least(x, 127) /\ FullLen(id) = Least(x, 127) + 1 + Least(y, 239)
  BY DEF TopicLen, FullLen
<1> HIDE DEF x, y
<1>4. Least(x, 127) \in Nat /\ Least(x, 127) <= 127
  BY <1>2 DEF Least
<1>5. Least(y, 239) \in Nat /\ Least(y, 239) <= 239
  BY <1>2 DEF Least
<1> QED  BY <1>2, <1>3, <1>4, <1>5

\* What send_task makes of a message.
LEMMA FrameShapes ==
    ASSUME NEW id \in 1..MaxSent, NEW full \in 1..367, NEW pan \in 0..15
    PROVE  /\ Frames(id, full, pan) \in Seq(FrameType)
           /\ \A a \in 1..Len(Frames(id, full, pan)) :
                /\ Frames(id, full, pan)[a].of = id
                /\ Cut(Frames(id, full, pan)[a], full)
           /\ \A a, b \in 1..Len(Frames(id, full, pan)) :
                a < b => Frames(id, full, pan)[a].last < Frames(id, full, pan)[b].first
<1>1. MaxSingle = 242 /\ Chunk = 240
  BY DEF MaxSingle, Chunk, FrameSize, PayloadAt
<1>2. CASE full <= 242
  <2> DEFINE f == [of |-> id, index |-> NoIndex, first |-> 1, last |-> full, pan |-> pan]
  <2>1. Frames(id, full, pan) = <<f>>
    BY <1>1, <1>2 DEF Frames
  <2>2. f \in FrameType
    BY FramingAssumption DEF FrameType, NoIndex
  <2> QED  BY <1>2, <2>1, <2>2 DEF NoIndex, Cut
<1>3. CASE full > 242
  <2> DEFINE total == (full + Chunk - 1) \div Chunk
             g == [a \in 1..total |->
                     [of |-> id, index |-> Index(total, a), first |-> (a - 1) * Chunk + 1,
                      last |-> Least(a * Chunk, full), pan |-> IF a = total THEN pan ELSE 0]]
  <2>1. total = 2
    BY <1>1, <1>3
  <2>2. Frames(id, full, pan) = g
    <3>1. ~(full <= MaxSingle)
      BY <1>1, <1>3
    <3> QED  BY <3>1 DEF Frames
  <2>3. /\ g[1] = [of |-> id, index |-> 1, first |-> 1, last |-> 240, pan |-> 0]
        /\ g[2] = [of |-> id, index |-> 0, first |-> 241, last |-> full, pan |-> pan]
    <3>1. /\ (1 - 1) * Chunk + 1 = 1 /\ (2 - 1) * Chunk + 1 = 241
          /\ Least(1 * Chunk, full) = 240 /\ Least(2 * Chunk, full) = full
      BY <1>1, <1>3 DEF Least
    <3>2. Index(total, 1) = 1 /\ Index(total, 2) = 0
      BY <2>1 DEF Index
    <3> HIDE DEF total
    <3>3. g[1] = [of |-> id, index |-> 1, first |-> 1, last |-> 240, pan |-> 0]
      BY <2>1, <3>1, <3>2
    <3>4. g[2] = [of |-> id, index |-> 0, first |-> 241, last |-> full, pan |-> pan]
      BY <2>1, <3>1, <3>2
    <3> QED  BY <3>3, <3>4
  <2>4. /\ [of |-> id, index |-> 1, first |-> 1, last |-> 240, pan |-> 0] \in FrameType
        /\ [of |-> id, index |-> 0, first |-> 241, last |-> full, pan |-> pan] \in FrameType
    <3>1. full \in Nat /\ full > 242 /\ full <= 367 /\ id \in 1..MaxSent /\ pan \in 0..15
      BY <1>3
    <3> QED  BY <3>1 DEF FrameType
  <2>5. g = [a \in 1..2 |-> g[a]]
    BY <2>1
  <2> HIDE DEF g
  <2>6. g \in Seq(FrameType) /\ Len(g) = 2
    BY <2>3, <2>4, <2>5
  <2> QED  BY <1>3, <2>2, <2>3, <2>6 DEF Cut
<1> QED  BY <1>2, <1>3

-----------------------------------------------------------------------------
(* What OnDataRecv reads of a frame *)

LEMMA PieceTypes ==
    ASSUME NEW id \in 1..MaxSent, NEW first \in Nat, NEW last \in Nat
    PROVE  /\ Piece(id, first, last) \in Seq(PieceType)
           /\ \A a \in 1..Len(Piece(id, first, last)) : Piece(id, first, last)[a].of = id
           /\ Size(first, last) \in Nat
<1>1. CASE first <= last
  <2>1. Piece(id, first, last) = <<[of |-> id, first |-> first, last |-> last]>>
    BY <1>1 DEF Piece
  <2>2. [of |-> id, first |-> first, last |-> last] \in PieceType
    BY FramingAssumption DEF PieceType
  <2> QED  BY <1>1, <2>1, <2>2 DEF Size
<1>2. CASE ~(first <= last)
  BY <1>2 DEF Piece, Size
<1> QED  BY <1>1, <1>2

\* A frame is taken for a part to be kept only if its message is a number; the rest of a
\* number, and all other data, is published at once.
LEMMA Read ==
    ASSUME sent \in SentType, Len(sent) <= MaxSent, NEW n \in Nodes, NEW f, Shape(n, f)
    PROVE  /\ NumPaq(f) \in 0..9 /\ MessageLen(f) \in Nat
           /\ Message(f) \in Seq(PieceType)
           /\ \A a \in 1..Len(Message(f)) : Message(f)[a].of \in {0, f.of}
           /\ NumPaq(f) > 0 => /\ sent[f.of].lead > 0
                               /\ \A a \in 1..Len(Message(f)) : Message(f)[a].of = f.of
           /\ sent[f.of].lead = 0 => /\ NumPaq(f) = 0 /\ MessageLen(f) <= 240
                                     /\ Message(f) \in Becomes(f.of)
<1> DEFINE T == TopicLen(f.of)
           L == FullLen(f.of)
<1>1. sent[f.of].lead \in 0..9 /\ f.of \in 1..MaxSent
  BY Lengths, FramingAssumption DEF Shape, FrameType
<1>4. T \in Nat /\ T <= 127 /\ L \in Nat /\ T + 1 <= L /\ L <= 367
  <2>1. f.of \in 1..Len(sent)
    BY DEF Shape
  <2>2. /\ TopicLen(f.of) \in Nat /\ TopicLen(f.of) <= 127 /\ FullLen(f.of) \in Nat
        /\ TopicLen(f.of) + 1 <= FullLen(f.of) /\ FullLen(f.of) <= TopicLen(f.of) + 240
    BY <2>1, Lengths
  <2> QED  BY <2>2
<1> HIDE DEF T, L
<1>2. CASE f.first = 1
  <2> DEFINE R == IF f.index = 10 THEN Least(L, 239) ELSE 238
  <2>1. \/ f.index = 10 /\ L <= 242 /\ f.last = L
        \/ f.index = 1 /\ L > 242 /\ f.last = 240
    BY <1>2 DEF Shape, Cut, L
  <2>2. LastRead(f) = R /\ R \in Nat /\ R <= 239
    BY <1>4, <1>2, <2>1 DEF LastRead, GatewayReads, FrameSize, NoIndex, Least
  <2>3. AfterBar(f) = T + 2
    BY <1>2, <1>4 DEF AfterBar, T
  <2>4. NumPaq(f) = IF T + 2 <= R THEN sent[f.of].lead ELSE 0
    BY <1>4, <2>2, <2>3 DEF NumPaq
  <2> DEFINE from == T + 2 + (IF NumPaq(f) = 0 THEN 0 ELSE 1)
  <2>5. Message(f) = Piece(f.of, from, R) /\ MessageLen(f) = Size(from, R)
    BY <1>4, <2>2, <2>3 DEF Message, MessageLen
  <2>6. from \in Nat /\ from >= 2
    BY <1>4
  <2>7. ASSUME sent[f.of].lead = 0 PROVE Message(f) \in Becomes(f.of)
    <3>0. Message(f) = Piece(f.of, T + 2, R)
      <4>1. NumPaq(f) = 0
        BY ONLY <2>4, <2>7
      <4>2. from = T + 2
        BY <1>4, <4>1
      <4> QED  BY ONLY <2>5, <4>2
    <3>1. CASE L <= 242
      <4>1. R = Least(L, 239)
        BY <1>4, <2>1, <3>1
      <4>2. Becomes(f.of) = {Piece(f.of, T + 2, Least(L, 239))}
        BY <3>1 DEF Becomes, T, L
      <4> QED  BY <3>0, <4>1, <4>2
    <3>2. CASE L > 242
      <4>1. R = 238
        BY <1>4, <2>1, <3>2
      <4>2. ~(L <= 242)
        BY <1>4, <3>2
      <4>3. Piece(f.of, T + 2, 238) \in Becomes(f.of)
        BY <4>2 DEF Becomes, T, L
      <4> QED  BY <3>0, <4>1, <4>3
    <3> QED  BY <1>4, <3>1, <3>2
  <2> HIDE DEF from, R
  <2>8. /\ Piece(f.of, from, R) \in Seq(PieceType)
        /\ \A a \in 1..Len(Piece(f.of, from, R)) : Piece(f.of, from, R)[a].of = f.of
    BY <1>1, <2>2, <2>6, PieceTypes
  <2>9. Size(from, R) \in Nat /\ Size(from, R) <= 240
    BY <2>2, <2>6 DEF Size
  <2>10. NumPaq(f) \in 0..9 /\ (NumPaq(f) > 0 => sent[f.of].lead > 0)
         /\ (sent[f.of].lead = 0 => NumPaq(f) = 0)
    BY <1>1, <2>4
  <2>11. MessageLen(f) \in Nat /\ MessageLen(f) <= 240
    BY <2>5, <2>9
  <2>12. Message(f) \in Seq(PieceType) /\ \A a \in 1..Len(Message(f)) : Message(f)[a].of = f.of
    BY <2>5, <2>8
  <2> QED  BY <2>7, <2>10, <2>11, <2>12
<1>3. CASE f.first = 241
  <2>1. f.index = 0 /\ L > 242 /\ f.last = L
    BY <1>3 DEF Shape, Cut, L
  <2>2. LastRead(f) = L
    BY <1>4, <1>3, <2>1 DEF LastRead, GatewayReads, FrameSize, NoIndex, Least
  <2>3. AfterBar(f) = 0
    BY <1>3, <1>4 DEF AfterBar, T
  <2>4. NumPaq(f) = 0
    BY <2>1, <2>3 DEF NumPaq
  <2>5. Message(f) = Digit(0) \o Piece(f.of, 241, L) /\ MessageLen(f) = 1 + Size(241, L)
    BY <1>3, <2>1, <2>2, <2>3, <2>4 DEF Message, MessageLen
  <2>6. Message(f) \in Becomes(f.of)
    <3>1. ~(L <= 242)
      BY <1>4, <2>1
    <3>2. Digit(0) \o Piece(f.of, 241, L) \in Becomes(f.of)
      BY <3>1 DEF Becomes, L
    <3> QED  BY <2>5, <3>2
  <2>7. Size(241, L) \in Nat /\ Size(241, L) <= 127
    BY <1>4 DEF Size
  <2> DEFINE z == [of |-> 0, first |-> 0, last |-> 0]
             w == [of |-> f.of, first |-> 241, last |-> L]
  <2>8. z \in PieceType /\ w \in PieceType /\ z.of = 0 /\ w.of = f.of
    BY <1>1, <1>4, FramingAssumption DEF PieceType
  <2>9. Message(f) = <<z>> \o <<w>>
    <3>1. Piece(f.of, 241, L) = <<w>>
      BY <1>4, <2>1 DEF Piece
    <3> QED  BY <2>5, <3>1 DEF Digit
  <2> HIDE DEF z, w
  <2>10. Message(f) \in Seq(PieceType) /\ \A a \in 1..Len(Message(f)) : Message(f)[a].of \in {0, f.of}
    BY <2>8, <2>9
  <2>11. NumPaq(f) \in 0..9 /\ ~(NumPaq(f) > 0)
    BY <2>4
  <2>12. MessageLen(f) \in Nat /\ MessageLen(f) <= 240
    BY <2>5, <2>7
  <2> QED  BY <2>4, <2>6, <2>10, <2>11, <2>12
<1> QED  BY <1>2, <1>3 DEF Shape, Cut

-----------------------------------------------------------------------------
(* The inductive invariant *)

\* While no part is awaited nothing is kept, and what is kept belongs to numbers.
BuffInv ==
    /\ ~longPacket => buff = <<>>
    /\ \A a \in 1..Len(buff) : /\ buff[a].of \in 0..Len(sent)
                               /\ buff[a].of # 0 => sent[buff[a].of].lead > 0

\* What is published is of messages that were sent: of its node, or numbers.
ColaInv ==
    \A k \in 1..Len(cola) : \A a \in 1..Len(cola[k].text) :
        /\ cola[k].text[a].of \in 0..Len(sent)
        /\ cola[k].text[a].of # 0 =>
              \/ sent[cola[k].text[a].of].from = cola[k].from
              \/ sent[cola[k].text[a].of].lead > 0

\* Without numbers nothing is kept, and every text is one of the readings of its message.
JsonInv ==
    NoNumbers =>
        /\ ~longPacket
        /\ \A k \in 1..Len(cola) :
              /\ cola[k].len <= 241
              /\ \E id \in Ids : sent[id].from = cola[k].from /\ cola[k].text \in Becomes(id)

FramingInv == TypeOK /\ Outbox /\ BuffInv /\ ColaInv /\ JsonInv

LEMMA InvInit == Init => FramingInv
<1> SUFFICES ASSUME Init PROVE FramingInv
  OBVIOUS
<1>1. /\ sent = <<>> /\ outbox = [n \in Nodes |-> <<>>] /\ cola = <<>> /\ mensajesPAN = <<>>
      /\ buff = <<>> /\ buffLen = 0 /\ orders = 0 /\ peerCount = 0
      /\ applied = NoOrder /\ heard = NoOrder
  BY DEF Init
<1>2. longPacket = FALSE
  BY DEF Init
<1>3. TypeOK
  <2>1. /\ sent \in Seq([from : Nodes, topic : Nat, payload : Nat, lead : 0..9])
        /\ outbox \in [Nodes -> Seq(FrameType)] /\ buff \in Seq(PieceType)
        /\ cola \in Seq(EntryType) /\ mensajesPAN \in Seq(EntryType)
    BY <1>1
  <2>2. Len(sent) <= MaxSent /\ buffLen \in Nat /\ orders \in 0..MaxOrders /\ peerCount \in 0..(Byte - 1)
    BY <1>1, FramingAssumption DEF Byte
  <2>3. /\ applied \in [order : Orders, whole : BOOLEAN] \cup {NoOrder}
        /\ heard \in [text : EntryType, from : Nat] \cup {NoOrder}
        /\ longPacket \in BOOLEAN
    BY <1>1, <1>2
  <2> QED  BY <2>1, <2>2, <2>3 DEF TypeOK
<1>4. Outbox /\ BuffInv /\ ColaInv
  BY <1>1 DEF Outbox, BuffInv, ColaInv
<1>5. JsonInv
  BY <1>1, <1>2 DEF JsonInv
<1> QED  BY <1>3, <1>4, <1>5 DEF FramingInv

\* A new message changes nothing about those before it.
LEMMA SubmitKeeps ==
    ASSUME FramingInv, NEW n \in Nodes, NEW t \in Texts, Submit(n, t)
    PROVE  FramingInv'
<1> DEFINE m  == [from |-> n, topic |-> t.topic, payload |-> t.payload, lead |-> t.lead]
           id == Len(sent) + 1
           full == Least(t.topic, 127) + 1 + Least(t.payload, 239)
           pan == PanOf[n]
<1>1. TypeOK /\ Outbox /\ BuffInv /\ ColaInv /\ JsonInv
  BY DEF FramingInv
<1>2. t.topic \in Nat /\ t.payload \in Nat /\ t.lead \in 0..9
  BY FramingAssumption DEF Text
<1>3. m \in [from : Nodes, topic : Nat, payload : Nat, lead : 0..9] /\ m.from = n
  BY <1>2
<1>4. /\ sent \in SentType /\ Len(sent) \in Nat /\ Len(sent) < MaxSent /\ MaxSent \in Nat
      /\ sent' = Append(sent, m)
  BY <1>1, FramingAssumption DEF Submit, TypeOK, SentType
<1>15. id \in 1..MaxSent /\ id = Len(sent) + 1
  BY <1>4
<1> HIDE DEF m
<1>5. /\ sent' \in SentType /\ Len(sent') = id /\ sent'[id] = m
      /\ \A i \in 1..Len(sent) : sent'[i] = sent[i]
  BY <1>3, <1>4 DEF SentType
<1>6. \A i \in 1..Len(sent) : i \in 1..Len(sent')
  BY <1>4, <1>5
<1>7. /\ outbox' = [outbox EXCEPT ![n] = Frames(id, full, pan)]
      /\ longPacket' = longPacket /\ buff' = buff /\ buffLen' = buffLen
      /\ cola' = cola /\ mensajesPAN' = mensajesPAN /\ orders' = orders
      /\ applied' = applied /\ heard' = heard /\ peerCount' = peerCount
  BY DEF Submit, gwVars, downVars
<1>8. full \in 1..367 /\ pan \in 0..15
  <2>1. /\ Least(t.topic, 127) \in Nat /\ Least(t.topic, 127) <= 127
        /\ Least(t.payload, 239) \in Nat /\ Least(t.payload, 239) <= 239
    BY <1>2 DEF Least
  <2>2. pan \in 0..15
    BY FramingAssumption
  <2> QED  BY <2>1, <2>2
<1>9. ASSUME NEW i, i = id PROVE FullLen(i)' = full
  <2>1. sent'[i].topic = t.topic /\ sent'[i].payload = t.payload
    BY <1>5, <1>9 DEF m
  <2> QED  BY <2>1 DEF FullLen, TopicLen
<1> HIDE DEF full, id, pan
<1> DEFINE F == Frames(id, full, pan)
<1>16. /\ F \in Seq(FrameType)
       /\ \A a \in 1..Len(F) :
            /\ F[a].of = id
            /\ Cut(F[a], full)
  <2>1. id \in 1..MaxSent
    BY <1>15
  <2>2. F \in Seq(FrameType)
    BY <1>8, <2>1, FrameShapes
  <2>3. ASSUME NEW a \in 1..Len(F)
        PROVE  /\ F[a].of = id
               /\ Cut(F[a], full)
    BY <1>8, <2>1, FrameShapes
  <2> QED  BY <2>2, <2>3
<1> HIDE DEF F
<1>10. TypeOK'
  <2>2. outbox' \in [Nodes -> Seq(FrameType)]
    BY <1>1, <1>7, <1>16 DEF TypeOK, F
  <2>3. sent' \in Seq([from : Nodes, topic : Nat, payload : Nat, lead : 0..9]) /\ Len(sent') <= MaxSent
    BY <1>4, <1>5 DEF SentType
  <2> QED  BY <1>1, <1>7, <2>2, <2>3 DEF TypeOK, Byte
<1>11. Outbox'
  <2> SUFFICES ASSUME NEW o \in Nodes, NEW a \in 1..Len(outbox'[o])
               PROVE  Shape(o, outbox[o][a])'
    BY DEF Outbox
  <2>1. outbox \in [Nodes -> Seq(FrameType)]
    BY <1>1 DEF TypeOK
  <2>2. CASE o = n
    <3>1. outbox'[o] = F
      BY <1>7, <2>1, <2>2 DEF F
    <3> DEFINE f == outbox'[o][a]
    <3>2. f.of = id /\ Cut(f, full)
      BY <1>16, <3>1
    <3>3. f \in FrameType
      BY <1>16, <3>1, ElementOfSeq
    <3>4. f.of \in 1..Len(sent') /\ sent'[f.of].from = n
      BY <1>3, <1>5, <1>15, <3>2
    <3>5. FullLen(outbox[o][a].of)' = full
      BY <1>9, <3>2
    <3> QED  BY <2>2, <3>2, <3>3, <3>4, <3>5 DEF Shape, Cut
  <2>3. CASE o # n
    <3>1. outbox'[o] = outbox[o]
      BY <1>7, <2>1, <2>3
    <3> DEFINE f == outbox[o][a]
    <3>2. Shape(o, f)
      BY <1>1, <3>1 DEF Outbox
    <3>3. f.of \in 1..Len(sent) /\ f.of \in 1..Len(sent') /\ sent'[f.of] = sent[f.of]
      BY <1>5, <1>6, <3>2 DEF Shape
    <3>4. FullLen(f.of)' = FullLen(f.of)
      BY <3>1, <3>3 DEF FullLen, TopicLen
    <3> QED  BY <3>1, <3>2, <3>3, <3>4 DEF Shape, Cut
  <2> QED  BY <2>2, <2>3
<1>17. \A i \in 0..Len(sent) : i \in 0..Len(sent') /\ (i # 0 => sent'[i] = sent[i])
  BY <1>4, <1>5, <1>15
<1>12. BuffInv'
  <2>1. ~longPacket' => buff' = <<>>
    BY <1>1, <1>7 DEF BuffInv
  <2>2. \A a \in 1..Len(buff') : /\ buff'[a].of \in 0..Len(sent')
                                 /\ buff'[a].of # 0 => sent'[buff'[a].of].lead > 0
    BY <1>1, <1>7, <1>17 DEF BuffInv
  <2> QED  BY <2>1, <2>2 DEF BuffInv
<1>13. ColaInv'
  <2> SUFFICES ASSUME NEW k \in 1..Len(cola'), NEW a \in 1..Len(cola'[k].text)
               PROVE  /\ cola'[k].text[a].of \in 0..Len(sent')
                      /\ cola'[k].text[a].of # 0 =>
                            \/ sent'[cola'[k].text[a].of].from = cola'[k].from
                            \/ sent'[cola'[k].text[a].of].lead > 0
    BY DEF ColaInv
  <2> DEFINE p == cola[k].text[a].of
  <2>1. cola' = cola
    BY <1>7
  <2>2. p \in 0..Len(sent) /\ (p # 0 => sent[p].from = cola[k].from \/ sent[p].lead > 0)
    BY <1>1, <2>1 DEF ColaInv
  <2>3. p \in 0..Len(sent') /\ (p # 0 => sent'[p] = sent[p])
    BY <1>17, <2>2
  <2> QED  BY <2>1, <2>2, <2>3
<1>14. JsonInv'
  <2> SUFFICES ASSUME NoNumbers'
               PROVE  /\ ~longPacket'
                      /\ \A k \in 1..Len(cola') :
                            /\ cola'[k].len <= 241
                            /\ \E i \in Ids' : sent'[i].from = cola'[k].from /\ cola'[k].text \in Becomes(i)'
    BY DEF JsonInv
  <2>1. NoNumbers
    BY <1>5, <1>6 DEF NoNumbers, Ids
  <2>2. \A i \in Ids : i \in Ids' /\ sent'[i].from = sent[i].from /\ Becomes(i)' = Becomes(i)
    BY <1>5, <1>6 DEF Ids, Becomes, FullLen, TopicLen
  <2> QED  BY <1>1, <1>7, <2>1, <2>2 DEF JsonInv
<1> QED  BY <1>10, <1>11, <1>12, <1>13, <1>14 DEF FramingInv

\* A frame less under way.
LEMMA OneLess ==
    ASSUME FramingInv, NEW n \in Nodes, outbox[n] # <<>>, sent' = sent,
           outbox' = [outbox EXCEPT ![n] = Tail(@)]
    PROVE  /\ outbox' \in [Nodes -> Seq(FrameType)] /\ Outbox'
           /\ Shape(n, Head(outbox[n]))
<1>1. outbox \in [Nodes -> Seq(FrameType)] /\ Outbox
  BY DEF FramingInv, TypeOK
<1>2. outbox[n] \in Seq(FrameType) /\ outbox[n] # <<>>
  BY <1>1
<1>3. outbox' \in [Nodes -> Seq(FrameType)]
  BY <1>1, <1>2
<1>4. Shape(n, Head(outbox[n]))
  BY <1>1, <1>2 DEF Outbox
<1>5. Outbox'
  <2> SUFFICES ASSUME NEW o \in Nodes, NEW a \in 1..Len(outbox'[o])
               PROVE  Shape(o, outbox[o][a])'
    BY DEF Outbox
  <2>1. \E b \in 1..Len(outbox[o]) : outbox'[o][a] = outbox[o][b]
    <3>1. CASE o = n
      <4>1. outbox'[o] = Tail(outbox[n])
        BY <1>1, <3>1
      <4> DEFINE q == outbox[n]
      <4>2. q \in Seq(FrameType) /\ q # <<>> /\ a \in 1..Len(Tail(q)) /\ outbox'[o][a] = Tail(q)[a]
        BY <1>2, <4>1
      <4> HIDE DEF q
      <4>3. Len(q) \in Nat /\ Len(Tail(q)) = Len(q) - 1 /\ Tail(q)[a] = q[a + 1]
        BY <4>2
      <4>4. a + 1 \in 1..Len(q)
        BY <4>2, <4>3
      <4>5. q = outbox[o]
        BY <3>1 DEF q
      <4> QED  BY <4>2, <4>3, <4>4, <4>5
    <3>2. CASE o # n
      BY <1>1, <3>2
    <3> QED  BY <3>1, <3>2
  <2>2. PICK b \in 1..Len(outbox[o]) : outbox'[o][a] = outbox[o][b]
    BY <2>1
  <2>3. Shape(o, outbox[o][b])
    BY <1>1 DEF Outbox
  <2> QED  BY <2>2, <2>3 DEF Shape, FullLen, TopicLen
<1> QED  BY <1>3, <1>4, <1>5

LEMMA EntryLen == \A e \in EntryType : e.len \in Nat
<1> SUFFICES ASSUME NEW e \in EntryType PROVE e.len \in Nat
  OBVIOUS
<1> DEFINE S == Seq(PieceType)
<1>1. e \in [from : Nodes, text : S, len : 1..500]
  BY DEF EntryType
<1> HIDE DEF S
<1>2. e.len \in 1..500
  BY <1>1
<1> QED  BY <1>2

\* What Push does to the queues.
LEMMA Pushed ==
    ASSUME TypeOK, NEW n \in Nodes, NEW text \in Seq(PieceType), NEW len \in Nat, NEW pan,
           Push(n, pan, text, len)
    PROVE  /\ cola' \in Seq(EntryType) /\ mensajesPAN' \in Seq(EntryType)
           /\ Len(cola') = Len(cola) + 1
           /\ \A k \in 1..Len(cola) : cola'[k] = cola[k]
           /\ cola'[Len(cola) + 1].from = n /\ cola'[Len(cola) + 1].text = text
           /\ cola'[Len(cola) + 1].len <= len + 1
<1> DEFINE e == [from |-> n, text |-> text, len |-> Stored(len + 1)]
<1>1. Stored(len + 1) \in 1..500 /\ Stored(len + 1) <= len + 1
  BY DEF Stored, Least
<1>2. e \in EntryType /\ e.from = n /\ e.text = text /\ e.len <= len + 1
  BY <1>1 DEF EntryType
<1>3. cola' = Append(cola, e) /\ (mensajesPAN' = Append(mensajesPAN, e) \/ mensajesPAN' = mensajesPAN)
  BY DEF Push
<1> HIDE DEF e
<1>4. cola \in Seq(EntryType) /\ mensajesPAN \in Seq(EntryType)
  BY DEF TypeOK
<1>5. cola' \in Seq(EntryType) /\ mensajesPAN' \in Seq(EntryType)
  <2>1. \A s \in Seq(EntryType) : Append(s, e) \in Seq(EntryType)
    BY <1>2, AppendProperties
  <2> QED  BY <1>3, <1>4, <2>1
<1>6. Len(cola') = Len(cola) + 1 /\ cola'[Len(cola) + 1] = e
  BY <1>2, <1>3, <1>4
<1>7. \A k \in 1..Len(cola) : cola'[k] = cola[k]
  BY <1>2, <1>3, <1>4
<1> QED  BY <1>2, <1>5, <1>6, <1>7

LEMMA LoseKeeps ==
    ASSUME FramingInv, NEW n \in Nodes, Lose(n)
    PROVE  FramingInv'
<1>1. TypeOK /\ BuffInv /\ ColaInv /\ JsonInv
  BY DEF FramingInv
<1>2. /\ sent' = sent /\ longPacket' = longPacket /\ buff' = buff /\ buffLen' = buffLen
      /\ cola' = cola /\ mensajesPAN' = mensajesPAN /\ orders' = orders
      /\ applied' = applied /\ heard' = heard /\ peerCount' = peerCount
      /\ outbox[n] # <<>> /\ outbox' = [outbox EXCEPT ![n] = Tail(@)]
  BY DEF Lose, gwVars, downVars
<1>3. outbox' \in [Nodes -> Seq(FrameType)] /\ Outbox'
  BY <1>2, OneLess
<1>4. TypeOK'
  BY <1>1, <1>2, <1>3 DEF TypeOK, Byte
<1>5. BuffInv' /\ ColaInv'
  <2>1. BuffInv'
    BY <1>1, <1>2 DEF BuffInv
  <2>2. ColaInv'
    BY <1>1, <1>2 DEF ColaInv
  <2> QED  BY <2>1, <2>2
<1>6. JsonInv'
  <2>1. \A i \in Ids : i \in Ids' /\ Becomes(i)' = Becomes(i)
    BY <1>2 DEF Ids, Becomes, FullLen, TopicLen
  <2>2. NoNumbers' = NoNumbers
    BY <1>2 DEF NoNumbers, Ids
  <2> QED  BY <1>1, <1>2, <2>1, <2>2 DEF JsonInv
<1> QED  BY <1>3, <1>4, <1>5, <1>6 DEF FramingInv

\* A frame taken keeps its message's number, joins it, or is published at once.
LEMMA ReceiveKeeps ==
    ASSUME FramingInv, NEW n \in Nodes, Receive(n)
    PROVE  FramingInv'
<1> DEFINE f == Head(outbox[n])
           M == Message(f)
           size == MessageLen(f)
           last == Len(cola) + 1
<1>1. TypeOK /\ BuffInv /\ ColaInv /\ JsonInv
  BY DEF FramingInv
<1>2. /\ sent' = sent /\ orders' = orders
      /\ applied' = applied /\ heard' = heard /\ peerCount' = peerCount
      /\ outbox[n] # <<>> /\ outbox' = [outbox EXCEPT ![n] = Tail(@)]
  BY DEF Receive, downVars
<1>3. outbox' \in [Nodes -> Seq(FrameType)] /\ Outbox' /\ Shape(n, f)
  BY <1>2, OneLess
<1>4. sent \in SentType /\ Len(sent) <= MaxSent
  BY <1>1 DEF TypeOK, SentType
<1>5. f.of \in 1..Len(sent) /\ f.of \in 0..Len(sent) /\ sent[f.of].from = n /\ f.of # 0
  BY <1>3, <1>4 DEF Shape
<1>6. /\ NumPaq(f) \in 0..9 /\ size \in Nat /\ M \in Seq(PieceType)
      /\ \A a \in 1..Len(M) : M[a].of \in {0, f.of}
      /\ NumPaq(f) > 0 => sent[f.of].lead > 0 /\ \A a \in 1..Len(M) : M[a].of = f.of
      /\ sent[f.of].lead = 0 => NumPaq(f) = 0 /\ size <= 240 /\ M \in Becomes(f.of)
  BY <1>3, <1>4, Read
<1>7. \/ /\ NumPaq(f) > 0 /\ longPacket' = TRUE
         /\ buff' = buff \o M /\ buffLen' = buffLen + size
         /\ cola' = cola /\ mensajesPAN' = mensajesPAN
      \/ /\ NumPaq(f) = 0 /\ longPacket
         /\ Push(n, f.pan, buff \o M, buffLen + size)
         /\ buff' = <<>> /\ buffLen' = 0 /\ longPacket' = FALSE
      \/ /\ NumPaq(f) = 0 /\ ~longPacket
         /\ Push(n, f.pan, M, size)
         /\ longPacket' = longPacket /\ buff' = buff /\ buffLen' = buffLen
  BY DEF Receive, EmptyBuff
<1> HIDE DEF f, M, size
<1>8. buff \in Seq(PieceType) /\ buffLen \in Nat /\ longPacket \in BOOLEAN
  BY <1>1 DEF TypeOK
<1>9. /\ buff \o M \in Seq(PieceType) /\ Len(buff \o M) = Len(buff) + Len(M)
      /\ \A a \in 1..Len(buff \o M) :
            \/ a \in 1..Len(buff) /\ (buff \o M)[a] = buff[a]
            \/ a - Len(buff) \in 1..Len(M) /\ (buff \o M)[a] = M[a - Len(buff)]
  BY <1>6, <1>8
<1>10. \A i \in Ids : i \in Ids' /\ Becomes(i)' = Becomes(i)
  BY <1>2 DEF Ids, Becomes, FullLen, TopicLen
<1>11. NoNumbers' = NoNumbers /\ (NoNumbers => sent[f.of].lead = 0)
  BY <1>2, <1>5 DEF NoNumbers, Ids
<1>12. CASE NumPaq(f) > 0 /\ longPacket' = TRUE /\ buff' = buff \o M /\ buffLen' = buffLen + size
            /\ cola' = cola /\ mensajesPAN' = mensajesPAN
  <2>1. TypeOK'
    <3>1. buff' \in Seq(PieceType) /\ buffLen' \in Nat
      BY <1>6, <1>8, <1>9, <1>12
    <3>2. longPacket' \in BOOLEAN
      BY <1>12
    <3> QED  BY <1>1, <1>2, <1>3, <1>12, <3>1, <3>2 DEF TypeOK, Byte
  <2>2. BuffInv'
    <3>1. ASSUME NEW a \in 1..Len(buff')
          PROVE  /\ buff'[a].of \in 0..Len(sent')
                 /\ buff'[a].of # 0 => sent'[buff'[a].of].lead > 0
      <4>1. CASE a \in 1..Len(buff) /\ buff'[a] = buff[a]
        BY <1>1, <1>2, <4>1 DEF BuffInv
      <4>2. CASE a - Len(buff) \in 1..Len(M) /\ buff'[a] = M[a - Len(buff)]
        <5>1. buff'[a].of = f.of
          BY <1>6, <1>12, <4>2
        <5> QED  BY <1>2, <1>5, <1>6, <1>12, <5>1
      <4> QED  BY <1>9, <1>12, <4>1, <4>2
    <3> QED  BY <1>12, <3>1 DEF BuffInv
  <2>3. ColaInv'
    BY <1>1, <1>2, <1>12 DEF ColaInv
  <2>4. JsonInv'
    <3>1. ~NoNumbers
      BY <1>6, <1>11, <1>12
    <3> QED  BY <1>11, <3>1 DEF JsonInv
  <2> QED  BY <1>3, <2>1, <2>2, <2>3, <2>4 DEF FramingInv
<1>13. CASE NumPaq(f) = 0 /\ longPacket /\ Push(n, f.pan, buff \o M, buffLen + size)
            /\ buff' = <<>> /\ buffLen' = 0 /\ longPacket' = FALSE
  <2>1. /\ cola' \in Seq(EntryType) /\ mensajesPAN' \in Seq(EntryType)
        /\ Len(cola') = last /\ \A k \in 1..Len(cola) : cola'[k] = cola[k]
        /\ cola'[last].from = n /\ cola'[last].text = buff \o M
    <3>1. buffLen + size \in Nat
      BY <1>6, <1>8
    <3> QED  BY <1>1, <1>9, <1>13, <3>1, Pushed
  <2>2. TypeOK'
    <3>1. buff' \in Seq(PieceType) /\ buffLen' \in Nat
      BY <1>13
    <3>2. longPacket' \in BOOLEAN
      BY <1>13
    <3> QED  BY <1>1, <1>2, <1>3, <2>1, <3>1, <3>2 DEF TypeOK, Byte
  <2>3. BuffInv'
    BY <1>13 DEF BuffInv
  <2>4. ColaInv'
    <3> SUFFICES ASSUME NEW k \in 1..Len(cola'), NEW a \in 1..Len(cola'[k].text)
                 PROVE  /\ cola'[k].text[a].of \in 0..Len(sent')
                        /\ cola'[k].text[a].of # 0 =>
                              \/ sent'[cola'[k].text[a].of].from = cola'[k].from
                              \/ sent'[cola'[k].text[a].of].lead > 0
      BY DEF ColaInv
    <3>1. CASE k \in 1..Len(cola) /\ cola'[k] = cola[k]
      BY <1>1, <1>2, <3>1 DEF ColaInv
    <3>2. CASE k = last
      <4>1. \/ a \in 1..Len(buff) /\ cola'[k].text[a] = buff[a]
            \/ a - Len(buff) \in 1..Len(M) /\ cola'[k].text[a] = M[a - Len(buff)]
        BY <1>9, <2>1, <3>2
      <4>2. CASE a \in 1..Len(buff) /\ cola'[k].text[a] = buff[a]
        BY <1>1, <1>2, <4>2 DEF BuffInv
      <4>3. CASE a - Len(buff) \in 1..Len(M) /\ cola'[k].text[a] = M[a - Len(buff)]
        <5>1. cola'[k].text[a].of \in {0, f.of}
          BY <1>6, <4>3
        <5>2. 0 \in 0..Len(sent)
          BY <1>4 DEF SentType
        <5> QED  BY <1>2, <1>5, <2>1, <3>2, <5>1, <5>2
      <4> QED  BY <4>1, <4>2, <4>3
    <3>3. k \in 1..Len(cola) \/ k = last
      BY <1>1, <2>1 DEF TypeOK
    <3> QED  BY <2>1, <3>1, <3>2, <3>3
  <2>5. JsonInv'
    <3>1. ~NoNumbers
      BY <1>1, <1>13 DEF JsonInv
    <3> QED  BY <1>11, <3>1 DEF JsonInv
  <2> QED  BY <1>3, <2>2, <2>3, <2>4, <2>5 DEF FramingInv
<1>14. CASE NumPaq(f) = 0 /\ ~longPacket /\ Push(n, f.pan, M, size)
            /\ longPacket' = longPacket /\ buff' = buff /\ buffLen' = buffLen
  <2>1. /\ cola' \in Seq(EntryType) /\ mensajesPAN' \in Seq(EntryType)
        /\ Len(cola') = last /\ \A k \in 1..Len(cola) : cola'[k] = cola[k]
        /\ cola'[last].from = n /\ cola'[last].text = M /\ cola'[last].len <= size + 1
    BY <1>1, <1>6, <1>14, Pushed
  <2>2. TypeOK'
    BY <1>1, <1>2, <1>3, <1>14, <2>1 DEF TypeOK, Byte
  <2>3. BuffInv'
    BY <1>1, <1>2, <1>14 DEF BuffInv
  <2>6. \A k \in 1..Len(cola') : (k \in 1..Len(cola) /\ cola'[k] = cola[k]) \/ k = last
    BY <1>1, <2>1 DEF TypeOK
  <2>4. ColaInv'
    <3> SUFFICES ASSUME NEW k \in 1..Len(cola'), NEW a \in 1..Len(cola'[k].text)
                 PROVE  /\ cola'[k].text[a].of \in 0..Len(sent')
                        /\ cola'[k].text[a].of # 0 =>
                              \/ sent'[cola'[k].text[a].of].from = cola'[k].from
                              \/ sent'[cola'[k].text[a].of].lead > 0
      BY DEF ColaInv
    <3>1. CASE k \in 1..Len(cola) /\ cola'[k] = cola[k]
      BY <1>1, <1>2, <3>1 DEF ColaInv
    <3>2. CASE k = last
      <4>1. cola'[k].text[a].of \in {0, f.of}
        BY <1>6, <2>1, <3>2
      <4>2. 0 \in 0..Len(sent)
        BY <1>4 DEF SentType
      <4> QED  BY <1>2, <1>5, <2>1, <3>2, <4>1, <4>2
    <3> QED  BY <2>6, <3>1, <3>2
  <2>5. JsonInv'
    <3> SUFFICES ASSUME NoNumbers
                 PROVE  /\ ~longPacket'
                        /\ \A k \in 1..Len(cola') :
                              /\ cola'[k].len <= 241
                              /\ \E i \in Ids' : sent'[i].from = cola'[k].from /\ cola'[k].text \in Becomes(i)'
      BY <1>11 DEF JsonInv
    <3>1. ~longPacket'
      BY <1>14
    <3>2. ASSUME NEW k \in 1..Len(cola')
          PROVE  /\ cola'[k].len <= 241
                 /\ \E i \in Ids' : sent'[i].from = cola'[k].from /\ cola'[k].text \in Becomes(i)'
      <4>1. CASE k \in 1..Len(cola) /\ cola'[k] = cola[k]
        <5>1. cola[k].len <= 241 /\ \E i \in Ids : sent[i].from = cola[k].from /\ cola[k].text \in Becomes(i)
          BY <1>1, <4>1 DEF JsonInv
        <5> QED  BY <1>2, <1>10, <4>1, <5>1
      <4>2. CASE k = last
        <5>1. size <= 240 /\ M \in Becomes(f.of)
          BY <1>6, <1>11
        <5>2. cola'[k] \in EntryType
          BY <2>1, ElementOfSeq
        <5>3. cola'[k].len \in Nat
          BY <5>2, EntryLen
        <5>4. cola'[k].len <= 241
          BY <1>6, <2>1, <4>2, <5>1, <5>3
        <5>5. f.of \in Ids
          BY <1>5 DEF Ids
        <5> QED  BY <1>2, <1>5, <1>10, <2>1, <4>2, <5>1, <5>4, <5>5
      <4> QED  BY <2>6, <4>1, <4>2
    <3> QED  BY <3>1, <3>2
  <2> QED  BY <1>3, <2>2, <2>3, <2>4, <2>5 DEF FramingInv
<1> QED  BY <1>7, <1>12, <1>13, <1>14

\* What the way down and the PAN leave alone is what these parts are about.
LEMMA OthersKeep ==
    ASSUME FramingInv, sent' = sent, outbox' = outbox,
           \/ longPacket' = longPacket /\ buff' = buff /\ cola' = cola
           \/ longPacket' = FALSE /\ buff' = <<>> /\ cola' = <<>>
    PROVE  Outbox' /\ BuffInv' /\ ColaInv' /\ JsonInv'
<1>1. Outbox /\ BuffInv /\ ColaInv /\ JsonInv
  BY DEF FramingInv
<1>2. Outbox'
  BY <1>1 DEF Outbox, Shape, FullLen, TopicLen
<1>3. \A i \in Ids : i \in Ids' /\ Becomes(i)' = Becomes(i)
  BY DEF Ids, Becomes, FullLen, TopicLen
<1>4. NoNumbers' = NoNumbers
  BY DEF NoNumbers, Ids
<1>5. CASE longPacket' = longPacket /\ buff' = buff /\ cola' = cola
  <2>1. BuffInv'
    BY <1>1, <1>5 DEF BuffInv
  <2>2. ColaInv'
    BY <1>1, <1>5 DEF ColaInv
  <2>3. JsonInv'
    BY <1>1, <1>3, <1>4, <1>5 DEF JsonInv
  <2> QED  BY <1>2, <2>1, <2>2, <2>3
<1>6. CASE longPacket' = FALSE /\ buff' = <<>> /\ cola' = <<>>
  <2>1. BuffInv' /\ ColaInv' /\ JsonInv'
    BY <1>6 DEF BuffInv, ColaInv, JsonInv
  <2> QED  BY <1>2, <2>1
<1> QED  BY <1>5, <1>6

LEMMA HandOverKeeps ==
    ASSUME FramingInv, NEW o \in Orders, HandOver(o) \/ HandOverCrash(o)
    PROVE  FramingInv'
<1>1. TypeOK
  BY DEF FramingInv
<1>2. /\ sent' = sent /\ outbox' = outbox /\ heard' = heard /\ peerCount' = peerCount
      /\ orders < MaxOrders /\ orders' = orders + 1
  BY DEF HandOver, HandOverCrash, upVars
<1>3. \/ /\ longPacket' = longPacket /\ buff' = buff /\ buffLen' = buffLen
         /\ cola' = cola /\ mensajesPAN' = mensajesPAN
      \/ /\ longPacket' = FALSE /\ buff' = <<>> /\ buffLen' = 0
         /\ cola' = <<>> /\ mensajesPAN' = <<>>
  BY DEF HandOver, HandOverCrash, gwVars
<1>4. Outbox' /\ BuffInv' /\ ColaInv' /\ JsonInv'
  BY <1>2, <1>3, OthersKeep
<1>5. TypeOK'
  <2>1. sent' \in Seq([from : Nodes, topic : Nat, payload : Nat, lead : 0..9]) /\ Len(sent') <= MaxSent
    BY <1>1, <1>2 DEF TypeOK
  <2>2. outbox' \in [Nodes -> Seq(FrameType)]
    BY <1>1, <1>2 DEF TypeOK
  <2>9. /\ buff \in Seq(PieceType) /\ buffLen \in Nat
        /\ cola \in Seq(EntryType) /\ mensajesPAN \in Seq(EntryType)
    BY <1>1 DEF TypeOK
  <2>10. \A S : <<>> \in Seq(S)
    OBVIOUS
  <2>3. buff' \in Seq(PieceType) /\ buffLen' \in Nat
    <3>1. CASE buff' = buff /\ buffLen' = buffLen
      BY <2>9, <3>1
    <3>2. CASE buff' = <<>> /\ buffLen' = 0
      BY <3>2
    <3> QED  BY <1>3, <3>1, <3>2
  <2>4. longPacket' \in BOOLEAN
    BY <1>1, <1>3 DEF TypeOK
  <2>5. cola' \in Seq(EntryType) /\ mensajesPAN' \in Seq(EntryType)
    BY <1>3, <2>9, <2>10
  <2>6. orders' \in 0..MaxOrders /\ peerCount' \in 0..(Byte - 1)
    BY <1>1, <1>2, FramingAssumption DEF TypeOK, Byte
  <2>7. applied' \in [order : Orders, whole : BOOLEAN] \cup {NoOrder}
    <3>1. ASSUME NEW w \in BOOLEAN PROVE [order |-> o, whole |-> w] \in [order : Orders, whole : BOOLEAN]
      OBVIOUS
    <3>2. \/ applied' = applied
          \/ \E w \in BOOLEAN : applied' = [order |-> o, whole |-> w]
      <4>1. CASE HandOver(o)
        <5> DEFINE size == (OrderLen(o) + 1) % Byte
                   w == LastSeen(o, size) = OrderLen(o)
        <5>1. applied' = [order |-> o, whole |-> w] \/ applied' = applied
          BY <4>1 DEF HandOver
        <5>2. w \in BOOLEAN
          OBVIOUS
        <5> QED  BY <5>1, <5>2
      <4>2. CASE HandOverCrash(o)
        BY <4>2 DEF HandOverCrash
      <4> QED  BY <4>1, <4>2
    <3> QED  BY <1>1, <3>1, <3>2 DEF TypeOK
  <2>8. heard' \in [text : EntryType, from : Nat] \cup {NoOrder}
    BY <1>1, <1>2 DEF TypeOK
  <2> QED  BY <2>1, <2>2, <2>3, <2>4, <2>5, <2>6, <2>7, <2>8 DEF TypeOK
<1> QED  BY <1>4, <1>5 DEF FramingInv

LEMMA ShareKeeps ==
    ASSUME FramingInv, NEW i \in 1..Len(mensajesPAN), SharePan(i)
    PROVE  FramingInv'
<1>1. TypeOK
  BY DEF FramingInv
<1>2. /\ sent' = sent /\ outbox' = outbox /\ orders' = orders /\ applied' = applied
      /\ longPacket' = longPacket /\ buff' = buff /\ buffLen' = buffLen
      /\ cola' = cola /\ mensajesPAN' = mensajesPAN
      /\ heard' = [text |-> mensajesPAN[i], from |-> PanReadAt - PanHeader + 1]
      /\ peerCount' = peerCount \/ peerCount' = (peerCount + 1) % Byte
  BY DEF SharePan, upVars, gwVars
<1>3. Outbox' /\ BuffInv' /\ ColaInv' /\ JsonInv'
  BY <1>2, OthersKeep
<1>4. TypeOK'
  <2>1. peerCount' \in 0..(Byte - 1)
    <3>1. peerCount \in 0..255
      BY <1>1 DEF TypeOK, Byte
    <3>2. (peerCount + 1) % 256 \in 0..255
      BY <3>1
    <3>3. Byte = 256
      BY DEF Byte
    <3>4. peerCount' = peerCount \/ peerCount' = (peerCount + 1) % 256
      BY <1>2, <3>3
    <3>5. peerCount' \in 0..255
      BY ONLY <3>1, <3>2, <3>4
    <3> QED  BY <3>3, <3>5
  <2>2. heard' \in [text : EntryType, from : Nat] \cup {NoOrder}
    <3>1. mensajesPAN[i] \in EntryType
      BY <1>1, ElementOfSeq DEF TypeOK
    <3>2. PanReadAt - PanHeader + 1 \in Nat
      BY DEF PanReadAt, PanHeader, PayloadAt
    <3> QED  BY <1>2, <3>1, <3>2
  <2> QED  BY <1>1, <1>2, <2>1, <2>2 DEF TypeOK
<1> QED  BY <1>3, <1>4 DEF FramingInv

LEMMA InvNext == FramingInv /\ [Next]_vars => FramingInv'
<1> SUFFICES ASSUME FramingInv, [Next]_vars PROVE FramingInv'
  OBVIOUS
<1>1. ASSUME NEW n \in Nodes, NEW t \in Texts, Submit(n, t) PROVE FramingInv'
  BY <1>1, SubmitKeeps
<1>2. ASSUME NEW n \in Nodes, Lose(n) PROVE FramingInv'
  BY <1>2, LoseKeeps
<1>3. ASSUME NEW n \in Nodes, Receive(n) PROVE FramingInv'
  BY <1>3, ReceiveKeeps
<1>4. ASSUME NEW o \in Orders, HandOver(o) \/ HandOverCrash(o) PROVE FramingInv'
  BY <1>4, HandOverKeeps
<1>5. ASSUME NEW i \in 1..Len(mensajesPAN), SharePan(i) PROVE FramingInv'
  BY <1>5, ShareKeeps
<1>6. CASE UNCHANGED vars
  <2>1. /\ sent' = sent /\ outbox' = outbox /\ orders' = orders /\ applied' = applied
        /\ longPacket' = longPacket /\ buff' = buff /\ buffLen' = buffLen
        /\ cola' = cola /\ mensajesPAN' = mensajesPAN
        /\ heard' = heard /\ peerCount' = peerCount
    BY <1>6 DEF vars, upVars, gwVars, downVars
  <2>2. Outbox' /\ BuffInv' /\ ColaInv' /\ JsonInv'
    BY <2>1, OthersKeep
  <2>3. TypeOK'
    BY <2>1 DEF FramingInv, TypeOK, Byte
  <2> QED  BY <2>2, <2>3 DEF FramingInv
<1> QED  BY <1>1, <1>2, <1>3, <1>4, <1>5, <1>6 DEF Next

LEMMA InvAlways == Spec => []FramingInv
<1> QED  BY InvInit, InvNext, PTL DEF Spec

-----------------------------------------------------------------------------
(* What is published is in order *)

\* The texts published and, last, the one kept.
All == [k \in 1..(Len(cola) + 1) |-> TextOf(k)]

\* PartsInOrder, of All.
InOrderInv ==
    \A k, l \in DOMAIN All : \A a \in 1..Len(All[k]), b \in 1..Len(All[l]) :
        (/\ k < l \/ (k = l /\ a < b)
         /\ All[k][a].of # 0 /\ All[l][b].of # 0
         /\ sent[All[k][a].of].from = sent[All[l][b].of].from)
        => Before(All[k][a], All[l][b])

\* What has arrived of a node comes before what is under way.
AheadInv ==
    \A k \in DOMAIN All, n \in Nodes : \A a \in 1..Len(All[k]), b \in 1..Len(outbox[n]) :
        (All[k][a].of # 0 /\ sent[All[k][a].of].from = n) => Before(All[k][a], outbox[n][b])

\* What is under way is in order.
OutboxOrder ==
    \A n \in Nodes : \A a, b \in 1..Len(outbox[n]) :
        a < b => Before(outbox[n][a], outbox[n][b])

OrderInv == InOrderInv /\ AheadInv /\ OutboxOrder

\* The texts are lists of pieces of messages that were sent.
AllFacts ==
    /\ Len(cola) \in Nat /\ DOMAIN All = 1..(Len(cola) + 1)
    /\ \A k \in 1..Len(cola) : All[k] = cola[k].text
    /\ All[Len(cola) + 1] = buff
    /\ \A k \in DOMAIN All : /\ All[k] \in Seq(PieceType)
                              /\ \A a \in 1..Len(All[k]) : All[k][a].of \in 0..Len(sent)

LEMMA AllTypes == FramingInv => AllFacts
<1> SUFFICES ASSUME FramingInv PROVE AllFacts
  OBVIOUS
<1>1. cola \in Seq(EntryType) /\ buff \in Seq(PieceType)
  BY DEF FramingInv, TypeOK
<1>2. Len(cola) \in Nat /\ DOMAIN All = 1..(Len(cola) + 1)
  BY <1>1 DEF All
<1>3. /\ \A k \in 1..Len(cola) : All[k] = cola[k].text
      /\ All[Len(cola) + 1] = buff
  BY <1>2 DEF All, TextOf
<1>4. \A k \in 1..Len(cola) : cola[k].text \in Seq(PieceType)
  <2>1. \A k \in 1..Len(cola) : cola[k] \in EntryType
    BY <1>1, ElementOfSeq
  <2>2. \A e \in EntryType : e.text \in Seq(PieceType)
    BY DEF EntryType
  <2> QED  BY <2>1, <2>2
<1>5. \A k \in DOMAIN All : k \in 1..Len(cola) \/ k = Len(cola) + 1
  BY <1>2
<1>6. \A k \in DOMAIN All : All[k] \in Seq(PieceType)
  BY <1>1, <1>3, <1>4, <1>5
<1>7. ASSUME NEW k \in DOMAIN All, NEW a \in 1..Len(All[k]) PROVE All[k][a].of \in 0..Len(sent)
  <2>1. CASE k \in 1..Len(cola)
    BY <1>3, <2>1 DEF FramingInv, ColaInv
  <2>2. CASE k = Len(cola) + 1
    BY <1>3, <2>2 DEF FramingInv, BuffInv
  <2> QED  BY <1>5, <2>1, <2>2
<1> QED  BY <1>2, <1>3, <1>6, <1>7 DEF AllFacts

LEMMA FieldTypes ==
    /\ \A g \in FrameType :
          g.of \in Nat /\ g.first \in Nat /\ g.last \in Nat /\ g.index \in Nat
    /\ \A p \in PieceType : p.of \in Nat /\ p.first \in Nat /\ p.last \in Nat
<1>1. \A g \in FrameType :
         g.of \in 1..MaxSent /\ g.first \in 1..367 /\ g.last \in 1..367 /\ g.index \in 0..10
  BY DEF FrameType
<1>2. \A p \in PieceType : p.of \in 0..MaxSent /\ p.first \in Nat /\ p.last \in Nat
  BY DEF PieceType
<1> QED  BY <1>1, <1>2, FramingAssumption

\* OnDataRecv reads characters of the frame, in one interval.
LEMMA ReadInside ==
    ASSUME sent \in SentType, Len(sent) <= MaxSent, NEW n \in Nodes, NEW f, Shape(n, f)
    PROVE  /\ \A a \in 1..Len(Message(f)) :
                Message(f)[a].of # 0 => f.first <= Message(f)[a].first /\ Message(f)[a].last <= f.last
           /\ \A a, b \in 1..Len(Message(f)) :
                Message(f)[a].of # 0 /\ Message(f)[b].of # 0 => a = b
<1>1. f \in FrameType /\ f.of \in 1..Len(sent)
  BY DEF Shape
<1>2. f.first \in Nat /\ f.last \in Nat /\ f.index \in Nat
  BY <1>1, FieldTypes
<1>3. LastRead(f) \in Nat /\ LastRead(f) <= f.last
  <2> DEFINE room == IF f.index = NoIndex THEN GatewayReads ELSE GatewayReads - 1
  <2>1. room \in Nat /\ room >= 1
    BY DEF GatewayReads, FrameSize
  <2>2. LastRead(f) = Least(f.last, f.first + room - 1)
    BY DEF LastRead
  <2> HIDE DEF room
  <2> QED  BY <1>2, <2>1, <2>2 DEF Least
<1>4. TopicLen(f.of) \in Nat
  BY <1>1, Lengths
<1> DEFINE r == LastRead(f)
           from == AfterBar(f) + (IF NumPaq(f) = 0 THEN 0 ELSE 1)
<1> HIDE DEF r
<1>5. ASSUME NEW x \in Nat, NEW y \in Nat
      PROVE  \/ Piece(f.of, x, y) = <<>>
             \/ Piece(f.of, x, y) = <<[of |-> f.of, first |-> x, last |-> y]>>
  BY DEF Piece
<1>6. CASE AfterBar(f) # 0
  <2>1. f.first <= TopicLen(f.of) + 1 /\ AfterBar(f) = TopicLen(f.of) + 2
    BY <1>6 DEF AfterBar
  <2>2. from \in Nat /\ f.first <= from
    BY <1>2, <1>4, <2>1
  <2>3. Message(f) = Piece(f.of, from, r)
    BY <1>6 DEF Message, r
  <2> HIDE DEF from
  <2> DEFINE w == [of |-> f.of, first |-> from, last |-> r]
  <2>4. r \in Nat /\ r <= f.last
    BY <1>3 DEF r
  <2>5. Message(f) = <<>> \/ Message(f) = <<w>>
    BY <1>5, <2>2, <2>3, <2>4
  <2>6. w.of = f.of /\ w.first = from /\ w.last = r
    OBVIOUS
  <2> HIDE DEF w
  <2> QED  BY <2>2, <2>4, <2>5, <2>6
<1>7. CASE AfterBar(f) = 0
  <2>1. Message(f) = (IF NumPaq(f) = 0 THEN Digit(f.index) ELSE <<>>) \o Piece(f.of, f.first, r)
    BY <1>7 DEF Message, r
  <2>2. Digit(f.index) = <<[of |-> 0, first |-> f.index, last |-> f.index]>>
    BY DEF Digit
  <2> DEFINE z == [of |-> 0, first |-> f.index, last |-> f.index]
             w == [of |-> f.of, first |-> f.first, last |-> r]
  <2> DEFINE u == IF NumPaq(f) = 0 THEN Digit(f.index) ELSE <<>>
             v == Piece(f.of, f.first, r)
  <2>3. u = <<>> \/ u = <<z>>
    BY <2>2
  <2>4. v = <<>> \/ v = <<w>>
    BY <1>2, <1>3, <1>5 DEF r
  <2>5. Message(f) = u \o v
    BY <2>1
  <2>6. z.of = 0 /\ w.of = f.of /\ w.first = f.first /\ w.last = r
    OBVIOUS
  <2> HIDE DEF z, w, u, v
  <2>7. u \in Seq({z, w}) /\ v \in Seq({z, w}) /\ Len(u) \in 0..1 /\ Len(v) \in 0..1
    <3>1. \A x : x = <<>> => x \in Seq({z, w}) /\ Len(x) \in 0..1
      OBVIOUS
    <3>2. <<z>> \in Seq({z, w}) /\ <<w>> \in Seq({z, w}) /\ Len(<<z>>) \in 0..1 /\ Len(<<w>>) \in 0..1
      OBVIOUS
    <3> QED  BY <2>3, <2>4, <3>1, <3>2
  <2>8. ASSUME NEW a \in 1..Len(Message(f))
        PROVE  Message(f)[a] = z \/ (Message(f)[a] = w /\ a = Len(u) + 1)
    <3>1. CASE a \in 1..Len(u)
      <4>1. Message(f)[a] = u[a] /\ a = 1 /\ u = <<z>>
        BY <2>3, <2>5, <2>7, <3>1
      <4> QED  BY <4>1
    <3>2. CASE ~(a \in 1..Len(u))
      <4>1. a - Len(u) \in 1..Len(v) /\ Message(f)[a] = v[a - Len(u)]
        BY <2>5, <2>7, <3>2
      <4>2. a - Len(u) = 1 /\ v = <<w>>
        BY <2>4, <2>7, <4>1
      <4>3. Message(f)[a] = w
        BY <4>1, <4>2
      <4>4. a = Len(u) + 1
        BY <2>5, <2>7, <4>2
      <4> QED  BY <4>3, <4>4
    <3> QED  BY <3>1, <3>2
  <2>9. r <= f.last /\ f.first <= f.first
    BY <1>2, <1>3 DEF r
  <2> QED  BY <2>6, <2>8, <2>9
<1> QED  BY <1>6, <1>7

\* Texts that stay, and frames that are all in order: of messages that were sent before,
\* nothing changes.
LEMMA OrderSubmit ==
    ASSUME FramingInv, OrderInv, NEW n \in Nodes, NEW t \in Texts, Submit(n, t)
    PROVE  OrderInv'
<1> DEFINE m  == [from |-> n, topic |-> t.topic, payload |-> t.payload, lead |-> t.lead]
           id == Len(sent) + 1
           full == Least(t.topic, 127) + 1 + Least(t.payload, 239)
           pan == PanOf[n]
           F == Frames(id, full, pan)
<1>1. TypeOK /\ InOrderInv /\ AheadInv /\ OutboxOrder
  BY DEF FramingInv, OrderInv
<1>2. /\ sent' = Append(sent, m) /\ outbox' = [outbox EXCEPT ![n] = F]
      /\ cola' = cola /\ buff' = buff /\ Len(sent) < MaxSent
  BY DEF Submit, gwVars
<1>3. /\ Len(sent) \in Nat /\ id \in 1..MaxSent
      /\ \A i \in 1..Len(sent) : sent'[i] = sent[i]
  BY <1>1, <1>2, FramingAssumption DEF TypeOK
<1>4. full \in 1..367 /\ pan \in 0..15
  <2>1. t.topic \in Nat /\ t.payload \in Nat
    BY FramingAssumption DEF Text
  <2>2. /\ Least(t.topic, 127) \in Nat /\ Least(t.topic, 127) <= 127
        /\ Least(t.payload, 239) \in Nat /\ Least(t.payload, 239) <= 239
    BY <2>1 DEF Least
  <2>3. pan \in 0..15
    BY FramingAssumption
  <2> QED  BY <2>2, <2>3
<1>5. /\ \A a \in 1..Len(F) : F[a].of = id
      /\ \A a, b \in 1..Len(F) : a < b => F[a].last < F[b].first
  <2> HIDE DEF id, full, pan
  <2>1. id \in 1..MaxSent /\ full \in 1..367 /\ pan \in 0..15
    BY <1>3, <1>4
  <2>2. ASSUME NEW a \in 1..Len(F) PROVE F[a].of = id
    <3>1. F[a].of = id /\ Cut(F[a], full)
      BY <2>1, FrameShapes
    <3> QED  BY <3>1
  <2>3. ASSUME NEW a \in 1..Len(F), NEW b \in 1..Len(F), a < b PROVE F[a].last < F[b].first
    BY <2>1, <2>3, FrameShapes
  <2> QED  BY <2>2, <2>3
<1>6. /\ \A o \in Nodes : o # n => outbox'[o] = outbox[o]
      /\ outbox'[n] = F
  BY <1>1, <1>2 DEF TypeOK
<1>7. All' = All
  BY <1>2 DEF All, TextOf
<1>8. \A k \in DOMAIN All : \A a \in 1..Len(All[k]) :
         /\ All[k][a].of \in Nat /\ All[k][a].of < id
         /\ All[k][a].of # 0 => sent'[All[k][a].of] = sent[All[k][a].of]
  <2> SUFFICES ASSUME NEW k \in DOMAIN All, NEW a \in 1..Len(All[k])
               PROVE  /\ All[k][a].of \in Nat /\ All[k][a].of < id
                      /\ All[k][a].of # 0 => sent'[All[k][a].of] = sent[All[k][a].of]
    OBVIOUS
  <2>1. All[k][a].of \in 0..Len(sent)
    BY AllTypes DEF AllFacts
  <2> QED  BY <1>3, <2>1
<1> HIDE DEF F, id
<1>9. InOrderInv'
  BY <1>1, <1>7, <1>8 DEF InOrderInv
<1>10. AheadInv'
  <2> SUFFICES ASSUME NEW k \in DOMAIN All, NEW o \in Nodes,
                      NEW a \in 1..Len(All[k]), NEW b \in 1..Len(outbox'[o]),
                      All[k][a].of # 0, sent'[All[k][a].of].from = o
               PROVE  Before(All[k][a], outbox'[o][b])
    BY <1>7 DEF AheadInv
  <2>1. CASE o = n
    BY <1>5, <1>6, <1>8, <2>1 DEF Before
  <2>2. CASE o # n
    BY <1>1, <1>6, <1>8, <2>2 DEF AheadInv
  <2> QED  BY <2>1, <2>2
<1>11. OutboxOrder'
  <2> SUFFICES ASSUME NEW o \in Nodes, NEW a \in 1..Len(outbox'[o]),
                      NEW b \in 1..Len(outbox'[o]), a < b
               PROVE  Before(outbox'[o][a], outbox'[o][b])
    BY DEF OutboxOrder
  <2>1. CASE o = n
    BY <1>5, <1>6, <2>1 DEF Before
  <2>2. CASE o # n
    BY <1>1, <1>6, <2>2 DEF OutboxOrder
  <2> QED  BY <2>1, <2>2
<1> QED  BY <1>9, <1>10, <1>11 DEF OrderInv

\* The frames left are those after the first, of each node in their order.
LEMMA Shifted ==
    ASSUME TypeOK, OutboxOrder, NEW n \in Nodes, outbox[n] # <<>>,
           outbox' = [outbox EXCEPT ![n] = Tail(@)]
    PROVE  /\ 1 \in 1..Len(outbox[n]) /\ Head(outbox[n]) = outbox[n][1]
           /\ \A o \in Nodes : o # n => outbox'[o] = outbox[o]
           /\ \A a \in 1..Len(outbox'[n]) :
                 /\ a + 1 \in 1..Len(outbox[n]) /\ 1 < a + 1
                 /\ outbox'[n][a] = outbox[n][a + 1]
           /\ OutboxOrder'
<1> DEFINE q == outbox[n]
<1>1. q \in Seq(FrameType) /\ q # <<>> /\ outbox'[n] = Tail(q)
  BY DEF TypeOK
<1>2. \A o \in Nodes : o # n => outbox'[o] = outbox[o]
  BY DEF TypeOK
<1> HIDE DEF q
<1>3. 1 \in 1..Len(q) /\ Head(q) = q[1]
  BY <1>1
<1>4. /\ Len(q) \in Nat /\ Len(Tail(q)) = Len(q) - 1
      /\ \A a \in 1..Len(Tail(q)) : Tail(q)[a] = q[a + 1]
  BY <1>1, HeadTailProperties
<1>5. \A a \in 1..Len(outbox'[n]) :
         a + 1 \in 1..Len(q) /\ 1 < a + 1 /\ outbox'[n][a] = q[a + 1]
  <2> SUFFICES ASSUME NEW a \in 1..Len(Tail(q))
               PROVE  a + 1 \in 1..Len(q) /\ 1 < a + 1 /\ Tail(q)[a] = q[a + 1]
    BY <1>1
  <2>1. a + 1 \in 1..Len(q) /\ 1 < a + 1
    BY <1>4
  <2> QED  BY <1>4, <2>1
<1>6. OutboxOrder'
  <2> SUFFICES ASSUME NEW o \in Nodes, NEW a \in 1..Len(outbox'[o]),
                      NEW b \in 1..Len(outbox'[o]), a < b
               PROVE  Before(outbox'[o][a], outbox'[o][b])
    BY DEF OutboxOrder
  <2>1. CASE o = n
    <3>1. /\ a + 1 \in 1..Len(q) /\ b + 1 \in 1..Len(q) /\ a + 1 < b + 1
          /\ outbox'[o][a] = q[a + 1] /\ outbox'[o][b] = q[b + 1]
      <4>1. a \in 1..Len(outbox'[n]) /\ b \in 1..Len(outbox'[n])
        BY <2>1
      <4>2. /\ a + 1 \in 1..Len(q) /\ outbox'[n][a] = q[a + 1]
            /\ b + 1 \in 1..Len(q) /\ outbox'[n][b] = q[b + 1]
        BY <1>5, <4>1
      <4>3. a + 1 < b + 1
        OBVIOUS
      <4> QED  BY <2>1, <4>2, <4>3
    <3> QED  BY <3>1 DEF OutboxOrder, q
  <2>2. CASE o # n
    BY <1>2, <2>2 DEF OutboxOrder
  <2> QED  BY <2>1, <2>2
<1> QED  BY <1>2, <1>3, <1>5, <1>6 DEF q

LEMMA OrderLose ==
    ASSUME FramingInv, OrderInv, NEW n \in Nodes, Lose(n)
    PROVE  OrderInv'
<1>1. TypeOK /\ InOrderInv /\ AheadInv /\ OutboxOrder
  BY DEF FramingInv, OrderInv
<1>2. /\ sent' = sent /\ cola' = cola /\ buff' = buff
      /\ outbox[n] # <<>> /\ outbox' = [outbox EXCEPT ![n] = Tail(@)]
  BY DEF Lose, gwVars
<1>3. All' = All
  BY <1>2 DEF All, TextOf
<1>4. InOrderInv'
  BY <1>1, <1>2, <1>3 DEF InOrderInv
<1>5. AheadInv'
  <2> SUFFICES ASSUME NEW k \in DOMAIN All, NEW o \in Nodes,
                      NEW a \in 1..Len(All[k]), NEW b \in 1..Len(outbox'[o]),
                      All[k][a].of # 0, sent[All[k][a].of].from = o
               PROVE  Before(All[k][a], outbox'[o][b])
    BY <1>2, <1>3 DEF AheadInv
  <2>1. \E c \in 1..Len(outbox[o]) : outbox'[o][b] = outbox[o][c]
    BY <1>1, <1>2, Shifted
  <2> QED  BY <1>1, <2>1 DEF AheadInv
<1> QED  BY <1>1, <1>2, <1>4, <1>5, Shifted DEF OrderInv

\* Whatever becomes of a frame, its reading is put after what was kept, where All has it.
LEMMA OrderReceive ==
    ASSUME FramingInv, OrderInv, NEW n \in Nodes, Receive(n)
    PROVE  OrderInv'
<1> DEFINE f == Head(outbox[n])
           M == Message(f)
           last == Len(cola) + 1
<1>1. TypeOK /\ InOrderInv /\ AheadInv /\ OutboxOrder
  BY DEF FramingInv, OrderInv
<1>2. /\ sent' = sent /\ outbox[n] # <<>> /\ outbox' = [outbox EXCEPT ![n] = Tail(@)]
  BY DEF Receive
<1>3. /\ 1 \in 1..Len(outbox[n]) /\ f = outbox[n][1]
      /\ \A o \in Nodes : o # n => outbox'[o] = outbox[o]
      /\ \A a \in 1..Len(outbox'[n]) :
            a + 1 \in 1..Len(outbox[n]) /\ 1 < a + 1 /\ outbox'[n][a] = outbox[n][a + 1]
      /\ OutboxOrder'
  BY <1>1, <1>2, Shifted
<1>4. Shape(n, f) /\ sent \in SentType /\ Len(sent) <= MaxSent
  BY <1>1, <1>2, OneLess DEF TypeOK, SentType
<1>5. /\ M \in Seq(PieceType) /\ MessageLen(f) \in Nat
      /\ \A a \in 1..Len(M) : M[a].of \in {0, f.of}
      /\ \A a \in 1..Len(M) : M[a].of # 0 => f.first <= M[a].first /\ M[a].last <= f.last
      /\ \A a, b \in 1..Len(M) : M[a].of # 0 /\ M[b].of # 0 => a = b
  BY <1>4, Read, ReadInside
<1>6. f \in FrameType /\ sent[f.of].from = n
  BY <1>4 DEF Shape
<1>7. /\ last \in Nat /\ last - 1 = Len(cola) /\ DOMAIN All = 1..last /\ All[last] = buff
      /\ \A k \in 1..Len(cola) : All[k] = cola[k].text
      /\ \A k \in DOMAIN All : All[k] \in Seq(PieceType)
  BY AllTypes DEF AllFacts
<1>8. /\ DOMAIN All' = 1..(Len(cola') + 1) /\ All'[Len(cola') + 1] = buff'
      /\ \A k \in 1..Len(cola') : All'[k] = cola'[k].text
  <2>1. FramingInv'
    BY ReceiveKeeps
  <2>2. AllFacts'
    BY <2>1, AllTypes, PTL
  <2> QED  BY <2>2 DEF AllFacts
<1>9. /\ \A k \in DOMAIN All' : k \in 1..Len(cola) \/ k = last \/ (k = last + 1 /\ All'[k] = <<>>)
      /\ \A k \in 1..Len(cola) : All'[k] = All[k]
      /\ All'[last] = buff \o M
  <2>1. buff \in Seq(PieceType) /\ buffLen \in Nat
    BY <1>1 DEF TypeOK
  <2>2. CASE /\ buff' = buff \o M /\ cola' = cola
    BY <1>7, <1>8, <2>2
  <2>3. ASSUME Len(cola') = last, \A k \in 1..Len(cola) : cola'[k] = cola[k],
               cola'[last].text = buff \o M, buff' = <<>>
        PROVE  /\ \A k \in DOMAIN All' : k \in 1..Len(cola) \/ k = last \/ (k = last + 1 /\ All'[k] = <<>>)
               /\ \A k \in 1..Len(cola) : All'[k] = All[k]
               /\ All'[last] = buff \o M
    <3>1. DOMAIN All' = 1..(last + 1) /\ All'[last + 1] = <<>>
      BY <1>8, <2>3
    <3>2. All'[last] = buff \o M
      BY <1>7, <1>8, <2>3
    <3>3. \A k \in 1..Len(cola) : All'[k] = All[k]
      BY <1>7, <1>8, <2>3
    <3>4. \A k \in 1..(last + 1) : k \in 1..Len(cola) \/ k = last \/ k = last + 1
      BY <1>7
    <3> QED  BY <3>1, <3>2, <3>3, <3>4
  <2>4. CASE /\ longPacket /\ Push(n, f.pan, buff \o M, buffLen + MessageLen(f)) /\ buff' = <<>>
    <3>1. buff \o M \in Seq(PieceType) /\ buffLen + MessageLen(f) \in Nat
      BY <1>5, <2>1
    <3>2. /\ Len(cola') = last /\ \A k \in 1..Len(cola) : cola'[k] = cola[k]
          /\ cola'[last].text = buff \o M
      BY <1>1, <2>4, <3>1, Pushed
    <3> QED  BY <2>3, <2>4, <3>2
  <2>5. CASE /\ ~longPacket /\ Push(n, f.pan, M, MessageLen(f)) /\ buff' = buff
    <3>1. buff = <<>>
      BY <2>5 DEF FramingInv, BuffInv
    <3>2. buff \o M = M
      BY <1>5, <3>1
    <3>3. /\ Len(cola') = last /\ \A k \in 1..Len(cola) : cola'[k] = cola[k]
          /\ cola'[last].text = M
      BY <1>1, <1>5, <2>5, Pushed
    <3> QED  BY <2>3, <2>5, <3>1, <3>2, <3>3
  <2>6. \/ buff' = buff \o M /\ cola' = cola
        \/ longPacket /\ Push(n, f.pan, buff \o M, buffLen + MessageLen(f)) /\ buff' = <<>>
        \/ ~longPacket /\ Push(n, f.pan, M, MessageLen(f)) /\ buff' = buff
    BY DEF Receive, EmptyBuff
  <2> QED  BY <2>2, <2>4, <2>5, <2>6
<1> HIDE DEF f, M, last
<1> DEFINE Old(k, a) == k \in DOMAIN All /\ a \in 1..Len(All[k]) /\ All'[k][a] = All[k][a]
           New(k, a) == /\ k = last /\ a - Len(buff) \in 1..Len(M)
                        /\ All'[k][a] = M[a - Len(buff)]
<1>10. /\ Len(buff) \in Nat /\ Len(M) \in Nat /\ buff \in Seq(PieceType)
  BY <1>1, <1>5 DEF TypeOK
<1>11. ASSUME NEW k \in DOMAIN All', NEW a \in 1..Len(All'[k]) PROVE Old(k, a) \/ New(k, a)
  <2>1. CASE k \in 1..Len(cola)
    BY <1>7, <1>9, <2>1
  <2>2. CASE k = last
    <3>1. a \in 1..(Len(buff) + Len(M)) /\ All'[k][a] = (buff \o M)[a]
      BY <1>5, <1>9, <1>10, <2>2
    <3>2. CASE a <= Len(buff)
      BY <1>5, <1>7, <1>10, <2>2, <3>1, <3>2
    <3>3. CASE ~(a <= Len(buff))
      BY <1>5, <1>10, <2>2, <3>1, <3>3
    <3> QED  BY <3>2, <3>3
  <2>3. CASE k = last + 1 /\ All'[k] = <<>>
    BY <2>3
  <2> QED  BY <1>9, <2>1, <2>2, <2>3
<1>12. ASSUME NEW k, NEW a, New(k, a), All'[k][a].of # 0
       PROVE  /\ All'[k][a].of = f.of /\ f.first <= All'[k][a].first /\ All'[k][a].last <= f.last
              /\ All'[k][a].first \in Nat /\ All'[k][a].last \in Nat
  <2>1. M[a - Len(buff)] \in PieceType
    BY <1>5, <1>12, ElementOfSeq
  <2> QED  BY <1>5, <1>12, <2>1, FieldTypes
<1>13. InOrderInv'
  <2> SUFFICES ASSUME NEW k \in DOMAIN All', NEW l \in DOMAIN All',
                      NEW a \in 1..Len(All'[k]), NEW b \in 1..Len(All'[l]),
                      k < l \/ (k = l /\ a < b), All'[k][a].of # 0, All'[l][b].of # 0,
                      sent[All'[k][a].of].from = sent[All'[l][b].of].from
               PROVE  Before(All'[k][a], All'[l][b])
    BY <1>2 DEF InOrderInv
  <2>1. CASE Old(k, a) /\ Old(l, b)
    BY <1>1, <2>1 DEF InOrderInv
  <2>2. CASE Old(k, a) /\ New(l, b)
    <3>1. All'[l][b].of = f.of /\ f.first <= All'[l][b].first /\ All'[l][b].first \in Nat
      BY <1>12, <2>2
    <3>2. Before(All[k][a], f)
      BY <1>1, <1>3, <1>6, <2>2, <3>1 DEF AheadInv
    <3>3. All[k][a].last \in Nat
      BY <1>7, <2>2, ElementOfSeq, FieldTypes
    <3>4. f.first \in Nat
      BY <1>6, FieldTypes
    <3> QED  BY <2>2, <3>1, <3>2, <3>3, <3>4 DEF Before
  <2>3. CASE New(k, a) /\ Old(l, b)
    <3>1. k = l /\ a < b /\ b \in 1..Len(buff)
      BY <1>7, <2>3
    <3> QED  BY <1>10, <2>3, <3>1
  <2>4. CASE New(k, a) /\ New(l, b)
    <3>1. a < b
      BY <1>7, <2>4
    <3> QED  BY <1>5, <1>10, <2>4, <3>1
  <2> QED  BY <1>11, <2>1, <2>2, <2>3, <2>4
<1>14. AheadInv'
  <2> SUFFICES ASSUME NEW k \in DOMAIN All', NEW o \in Nodes,
                      NEW a \in 1..Len(All'[k]), NEW b \in 1..Len(outbox'[o]),
                      All'[k][a].of # 0, sent[All'[k][a].of].from = o
               PROVE  Before(All'[k][a], outbox'[o][b])
    BY <1>2 DEF AheadInv
  <2>1. CASE Old(k, a)
    <3>1. \E c \in 1..Len(outbox[o]) : outbox'[o][b] = outbox[o][c]
      BY <1>3
    <3> QED  BY <1>1, <2>1, <3>1 DEF AheadInv
  <2>2. CASE New(k, a)
    <3>1. All'[k][a].of = f.of /\ All'[k][a].last <= f.last /\ All'[k][a].last \in Nat
      BY <1>12, <2>2
    <3>2. o = n
      BY <1>6, <3>1
    <3>3. b + 1 \in 1..Len(outbox[n]) /\ 1 < b + 1 /\ outbox'[o][b] = outbox[n][b + 1]
      BY <1>3, <3>2
    <3>4. Before(f, outbox[n][b + 1])
      BY <1>1, <1>3, <3>3 DEF OutboxOrder
    <3>5. outbox[n][b + 1].first \in Nat /\ f.last \in Nat
      <4>1. outbox[n] \in Seq(FrameType)
        BY <1>1 DEF TypeOK
      <4> QED  BY <1>6, <3>3, <4>1, ElementOfSeq, FieldTypes
    <3> QED  BY <3>1, <3>3, <3>4, <3>5 DEF Before
  <2> QED  BY <1>11, <2>1, <2>2
<1> QED  BY <1>3, <1>13, <1>14 DEF OrderInv

\* The rest leaves everything in its place, or empties the gateway.
LEMMA OrderOthers ==
    ASSUME FramingInv, OrderInv, sent' = sent, outbox' = outbox,
           \/ buff' = buff /\ cola' = cola
           \/ buff' = <<>> /\ cola' = <<>>
    PROVE  OrderInv'
<1>1. InOrderInv /\ AheadInv /\ OutboxOrder
  BY DEF OrderInv
<1>2. CASE buff' = buff /\ cola' = cola
  <2>1. All' = All
    BY <1>2 DEF All, TextOf
  <2> QED  BY <1>1, <2>1 DEF OrderInv, InOrderInv, AheadInv, OutboxOrder
<1>3. CASE buff' = <<>> /\ cola' = <<>>
  <2>1. All' = [k \in 1..1 |-> <<>>]
    BY <1>3 DEF All, TextOf
  <2>2. \A k \in DOMAIN All' : All'[k] = <<>>
    BY <2>1
  <2>3. InOrderInv' /\ AheadInv'
    BY <2>2 DEF InOrderInv, AheadInv
  <2> QED  BY <1>1, <2>3 DEF OrderInv, OutboxOrder
<1> QED  BY <1>2, <1>3

LEMMA OrderAlways == Spec => []OrderInv
<1>1. Init => OrderInv
  <2> SUFFICES ASSUME Init PROVE OrderInv
    OBVIOUS
  <2>1. cola = <<>> /\ buff = <<>> /\ outbox = [n \in Nodes |-> <<>>]
    BY DEF Init
  <2>2. \A k \in DOMAIN All : All[k] = <<>>
    BY <2>1 DEF All, TextOf
  <2> QED  BY <2>1, <2>2 DEF OrderInv, InOrderInv, AheadInv, OutboxOrder
<1>2. FramingInv /\ OrderInv /\ [Next]_vars => OrderInv'
  <2> SUFFICES ASSUME FramingInv, OrderInv, [Next]_vars PROVE OrderInv'
    OBVIOUS
  <2>1. ASSUME NEW n \in Nodes, NEW t \in Texts, Submit(n, t) PROVE OrderInv'
    BY <2>1, OrderSubmit
  <2>2. ASSUME NEW n \in Nodes, Lose(n) PROVE OrderInv'
    BY <2>2, OrderLose
  <2>3. ASSUME NEW n \in Nodes, Receive(n) PROVE OrderInv'
    BY <2>3, OrderReceive
  <2>4. ASSUME NEW o \in Orders, HandOver(o) PROVE OrderInv'
    BY <2>4, OrderOthers DEF HandOver, upVars, gwVars
  <2>5. ASSUME NEW o \in Orders, HandOverCrash(o) PROVE OrderInv'
    BY <2>5, OrderOthers DEF HandOverCrash, upVars
  <2>6. ASSUME NEW i \in 1..Len(mensajesPAN), SharePan(i) PROVE OrderInv'
    BY <2>6, OrderOthers DEF SharePan, upVars, gwVars
  <2>7. CASE UNCHANGED vars
    BY <2>7, OrderOthers DEF vars, upVars, gwVars
  <2> QED  BY <2>1, <2>2, <2>3, <2>4, <2>5, <2>6, <2>7 DEF Next
<1> QED  BY <1>1, <1>2, InvAlways, PTL DEF Spec

-----------------------------------------------------------------------------
(* The theorems *)

\* The variables keep their types: no list of pieces or entries is ever ill-formed.
THEOREM TypeCorrect == Spec => []TypeOK
<1>1. FramingInv => TypeOK
  BY DEF FramingInv
<1> QED  BY <1>1, InvAlways, PTL

\* JSON of any length, of any number of nodes, with any loss: each text published is the
\* reading of one message of its device that send_task and OnDataRecv together define.
THEOREM JsonCorrect == Spec => []JsonAsSent
<1>1. FramingInv => JsonAsSent
  BY DEF FramingInv, JsonInv, JsonAsSent, Published
<1> QED  BY <1>1, InvAlways, PTL

\* No loop() writes past JSON_serie or mensaje_mqtt while the nodes send JSON.
THEOREM FitCorrect == Spec => []JsonFits
<1>1. ASSUME FramingInv PROVE JsonFits
  <2> SUFFICES ASSUME NoNumbers, NEW k \in 1..Len(cola)
               PROVE  cola[k].len < 500 /\ cola[k].len + 33 <= 512
    BY DEF JsonFits
  <2>1. cola[k].len <= 241
    BY <1>1 DEF FramingInv, JsonInv
  <2>2. cola[k] \in EntryType
    BY <1>1, ElementOfSeq DEF FramingInv, TypeOK
  <2>3. cola[k].len \in Nat
    BY <2>2, EntryLen
  <2> QED  BY <2>1, <2>3
<1> QED  BY <1>1, InvAlways, PTL

\* Parts and messages of two devices are joined only where a payload starts with a digit.
THEOREM MixedCorrect == Spec => []MixedOnlyNumbers
<1>1. ASSUME FramingInv PROVE MixedOnlyNumbers
  <2>1. ~longPacket => buff = <<>>
    BY <1>1 DEF FramingInv, BuffInv
  <2>2. \A a \in 1..Len(buff) : Numeric(buff[a])
    BY <1>1 DEF FramingInv, BuffInv, Numeric
  <2>3. \A k \in 1..Len(cola) : \A a \in 1..Len(cola[k].text) :
          cola[k].text[a].of # 0 =>
            sent[cola[k].text[a].of].from = cola[k].from \/ Numeric(cola[k].text[a])
    BY <1>1 DEF FramingInv, ColaInv, Numeric
  <2> QED  BY <2>1, <2>2, <2>3 DEF MixedOnlyNumbers
<1> QED  BY <1>1, InvAlways, PTL

\* No character of a node is published twice or before an earlier one of its own, however
\* long the messages and whatever their digits are taken for.
THEOREM OrderCorrect == Spec => []PartsInOrder
<1>1. ASSUME FramingInv, InOrderInv PROVE PartsInOrder
  <2>1. DOMAIN All = 1..(Len(cola) + 1) /\ \A k \in 1..(Len(cola) + 1) : All[k] = TextOf(k)
    BY <1>1, AllTypes DEF All, AllFacts
  <2> QED  BY <1>1, <2>1 DEF InOrderInv, PartsInOrder
<1> QED  BY <1>1, InvAlways, OrderAlways, PTL DEF OrderInv

-----------------------------------------------------------------------------
(* The way down *)

\* A length that fits in a byte arrives whole; 255 becomes 0 and is refused.
LEMMA CutOnlyLong ==
    ASSUME NEW o \in Orders, Accepts((OrderLen(o) + 1) % Byte), OrderLen(o) <= 255
    PROVE  LastSeen(o, (OrderLen(o) + 1) % Byte) = OrderLen(o)
<1> DEFINE len == OrderLen(o)
<1>1. len \in Nat
  <2>1. o.pad \in Nat /\ o.payload \in Nat
    BY FramingAssumption DEF Order
  <2> QED  BY <2>1 DEF OrderLen, Least
<1> HIDE DEF len
<1>2. len <= 255 /\ (len + 1) % 256 \in 1..250
  BY DEF len, Accepts, Byte, FrameSize
<1>3. (len + 1) % 256 = len + 1
  BY <1>1, <1>2
<1> QED  BY <1>1, <1>3 DEF LastSeen, WrittenAt, Least, Byte, len

\* The node drops seven characters of what the gateway writes and calls the rest the topic:
\* only six before the command make it one.
THEOREM AppliedCorrect == Spec => []AppliedPadded
<1>1. Init => AppliedPadded
  BY DEF Init, AppliedPadded
<1>2. ASSUME FramingInv, AppliedPadded, [Next]_vars PROVE AppliedPadded'
  <2>1. ASSUME NEW o \in Orders, HandOver(o) PROVE AppliedPadded'
    <3> DEFINE size == (OrderLen(o) + 1) % Byte
               w == LastSeen(o, size) = OrderLen(o)
    <3>1. \/ Accepts(size) /\ Recognised(o, size) /\ applied' = [order |-> o, whole |-> w]
          \/ applied' = applied
      BY <2>1 DEF HandOver
    <3>2. CASE applied' = applied
      BY <1>2, <3>2 DEF AppliedPadded
    <3>3. CASE Accepts(size) /\ Recognised(o, size) /\ applied' = [order |-> o, whole |-> w]
      <4>1. o.pad \in Nat /\ o.payload \in Nat
        BY FramingAssumption DEF Order
      <4>2. o.pad = 6
        BY <3>3, <4>1 DEF Recognised, FirstSeen, ReadAt, PayloadAt, WrittenAt
      <4>3. OrderLen(o) \in Nat
        BY <4>1 DEF OrderLen, Least
      <4>4. ASSUME ~w PROVE OrderLen(o) > 255
        BY <3>3, <4>3, <4>4, CutOnlyLong
      <4>5. applied'.order = o /\ (applied'.whole <=> w)
        BY <3>3
      <4> HIDE DEF w
      <4> QED  BY <4>2, <4>4, <4>5 DEF AppliedPadded
    <3> QED  BY <3>1, <3>2, <3>3
  <2>2. CASE applied' = applied
    BY <1>2, <2>2 DEF AppliedPadded
  <2>3. \/ \E o \in Orders : HandOver(o)
        \/ applied' = applied
    BY <1>2 DEF Next, Submit, Lose, Receive, HandOverCrash, SharePan, vars, downVars
  <2> QED  BY <2>1, <2>2, <2>3
<1> QED  BY <1>1, <1>2, InvAlways, PTL DEF Spec

\* What on_pan_msg is given starts at the eighth character of the sender's text, whatever
\* the text and whatever the length of the frame: no object starts there.
THEOREM RingCorrect == Spec => []RingUntouched
<1>1. Init => RingUntouched
  BY DEF Init, RingUntouched
<1>2. ASSUME RingUntouched, [Next]_vars PROVE RingUntouched'
  <2>1. ASSUME NEW k \in 1..Len(mensajesPAN), SharePan(k) PROVE RingUntouched'
    <3>1. heard'.from = 8
      BY <2>1 DEF SharePan, PanReadAt, PanHeader, PayloadAt
    <3>2. peerCount' = peerCount
      BY <2>1, <3>1 DEF SharePan
    <3> QED  BY <1>2, <3>2 DEF RingUntouched
  <2>2. CASE peerCount' = peerCount
    BY <1>2, <2>2 DEF RingUntouched
  <2>3. \/ \E k \in 1..Len(mensajesPAN) : SharePan(k)
        \/ peerCount' = peerCount
    BY <1>2 DEF Next, Submit, Lose, Receive, HandOver, HandOverCrash, vars, upVars, gwVars, downVars
  <2> QED  BY <2>1, <2>2, <2>3
<1> QED  BY <1>1, <1>2, PTL DEF Spec
=============================================================================
