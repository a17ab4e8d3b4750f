------------------------- MODULE NodePairingProofs -------------------------
(* Theorems about NodePairing, for every value of its constants.           *)
EXTENDS NodePairing, TLAPS

-----------------------------------------------------------------------------
(* Type correctness *)

\* What recv_task takes from its queue is a frame, and the rest still a queue.
LEMMA QueueTake ==
    ASSUME NEW F, NEW q \in Seq(F), q # <<>>
    PROVE  Head(q) \in F /\ Tail(q) \in Seq(F) /\ Len(Tail(q)) = Len(q) - 1
  OBVIOUS

\* A delivered frame is appended when the queue has room, else dropped.
LEMMA DeliverType ==
    ASSUME TypeOK, NEW f \in Frames \ {NoFrame}, NEW chan, Deliver(f, chan)
    PROVE  queue' \in Seq(Frames \ {NoFrame}) /\ Len(queue') <= QueueSize
  BY BoundAssumption DEF TypeOK, Deliver

\* Reading the blob back yields a store.
LEMMA LoadType ==
    ASSUME TypeOK, Load
    PROVE  flash' \in Store /\ store' \in Store
  <1>1. BlankStore \in Store
    BY ChannelAssumption DEF BlankStore, Store, NoPacket, Packet, Macs
  <1>2. Sane(flash) \in Store
    BY DEF TypeOK, Sane, Store
  <1> QED
    BY <1>1, <1>2 DEF Load, TypeOK

\* A delay keeps the elapsed time a number.
LEMMA PassType ==
    ASSUME TypeOK, NEW ms \in Nat, Pass(ms)
    PROVE  elapsed' \in Nat
  BY DEF TypeOK, Pass

\* The initial states are well typed.
LEMMA InitType == Init => TypeOK
  <1> SUFFICES ASSUME Init PROVE TypeOK
    OBVIOUS
  <1>1. BlankStore \in Store /\ NoPacket \in Packet
    BY ChannelAssumption DEF BlankStore, Store, NoPacket, Packet, Macs
  <1>2. queue \in Seq(Frames \ {NoFrame}) /\ Len(queue) <= QueueSize
    BY BoundAssumption DEF Init
  <1>3. frame \in Frames /\ recvTask = "idle"
    BY DEF Init, Frames
  <1>4. gwChan \in [Gateways -> Channels] /\ channel \in Channels /\ radio \in 0..MaxChannel
    BY ChannelAssumption DEF Init, Channels
  <1>5. timeout \in Nat /\ sleepSec \in Nat /\ moves \in 0..MaxMoves /\ elapsed \in Nat
    BY SettingAssumption, BoundAssumption DEF Init
  <1> QED
    BY <1>1, <1>2, <1>3, <1>4, <1>5 DEF Init, TypeOK

\* Every step of app_main keeps the types.
LEMMA MainType ==
    ASSUME TypeOK, Boot \/ MainWakes
    PROVE  TypeOK'
  <1>1. CASE Boot
    <2>1. flash' \in Store /\ store' \in Store
      BY <1>1, LoadType DEF Boot
    <2>2. timeout' \in Nat /\ sleepSec' \in Nat
      BY <1>1, <2>1, SettingAssumption DEF Boot, SetDuration, PairingInit, Store, Setting
    <2>3. queue' \in Seq(Frames \ {NoFrame}) /\ Len(queue') <= QueueSize
      BY <1>1, BoundAssumption DEF Boot, CommInit
    <2>4. frame' \in Frames /\ pairPkt' \in Packet
      BY <1>1, ChannelAssumption DEF Boot, Frames, NoPacket, Packet, Macs
    <2>5. channel' \in Channels /\ radio' \in 0..MaxChannel
      BY <1>1, ChannelAssumption DEF Boot, PairingInit, Channels
    <2>6. callbacks' \in BOOLEAN /\ main' \in {"wait", "aborted"}
      <3>1. CommInit
        BY <1>1 DEF Boot
      <3> QED
        BY <3>1 DEF CommInit
    <2> QED
      BY <1>1, <2>1, <2>2, <2>3, <2>4, <2>5, <2>6
      DEF Boot, CommInit, PairingInit, TypeOK, airVars
  <1>2. CASE MainWakes
    BY <1>2 DEF MainWakes, TypeOK, settingVars, pktVars, recvVars, radioVars, airVars
  <1> QED
    BY <1>1, <1>2

\* Every step of pairing_task keeps the types.
LEMMA PairingTaskType ==
    ASSUME TypeOK, PairingTask
    PROVE  TypeOK'
  <1> USE DEF TypeOK, settingVars, taskVars, pktVars, recvVars, radioVars, airVars
  <1>1. CASE RestorePairing
    BY <1>1 DEF RestorePairing, Finish, Store, Packet
  <1>2. CASE NoSavedPairing
    BY <1>2 DEF NoSavedPairing
  <1>3. CASE PairingTimeout
    BY <1>3 DEF PairingTimeout, Finish
  <1>4. CASE SendRequest
    <2>1. elapsed' \in Nat
      BY <1>4, PassType DEF SendRequest
    <2>2. asked' \subseteq Gateways
      BY <1>4 DEF SendRequest
    <2>3. tried' \subseteq Channels
      BY <1>4 DEF SendRequest
    <2>4. radio' \in 0..MaxChannel
      BY <1>4, ChannelAssumption DEF SendRequest, SwitchChannel, Channels
    <2> QED
      BY <1>4, <2>1, <2>2, <2>3, <2>4 DEF SendRequest, SwitchChannel
  <1>5. CASE TakeResponse
    BY <1>5 DEF TakeResponse, PeerOfResponse, Packet
  <1>6. CASE AcceptPairing
    <2>1. store' \in Store
      BY <1>6 DEF AcceptPairing, Store
    <2> QED
      BY <1>6, <2>1 DEF AcceptPairing
  <1>7. CASE SavePairing
    <2>1. flash' \in Store /\ drift' \in {"none", "unsaved", "unread"}
      BY <1>7 DEF SavePairing, Save
    <2> QED
      BY <1>7, <2>1 DEF SavePairing
  <1>8. CASE AnnouncePaired
    BY <1>8 DEF AnnouncePaired, Finish
  <1>9. CASE NextChannel
    <2>1. elapsed' \in Nat
      BY <1>9, PassType DEF NextChannel
    <2>2. channel' \in Channels
      BY <1>9, ChannelAssumption DEF NextChannel, Following, Channels
    <2> QED
      BY <1>9, <2>1, <2>2 DEF NextChannel
  <1> QED
    BY <1>1, <1>2, <1>3, <1>4, <1>5, <1>6, <1>7, <1>8, <1>9 DEF PairingTask

\* Every step of recv_task keeps the types.
LEMMA RecvTaskType ==
    ASSUME TypeOK, RecvTask
    PROVE  TypeOK'
  <1> USE DEF TypeOK, settingVars, taskVars, pktVars, recvVars, radioVars, airVars
  <1>1. CASE RecvPairing
    <2>1. frame' \in Frames /\ frame'.type = "pairing" /\ frame'.pkt \in Packet
      BY <1>1, QueueTake DEF RecvPairing, Frames, ConfigFrame, NoFrame
    <2>2. queue' \in Seq(Frames \ {NoFrame}) /\ Len(queue') <= QueueSize
      BY <1>1, QueueTake, BoundAssumption DEF RecvPairing
    <2>3. pairPkt' \in Packet
      BY <1>1 DEF RecvPairing, Packet, Macs
    <2> QED
      BY <1>1, <2>1, <2>2, <2>3 DEF RecvPairing
  <1>2. CASE FlagPairing
    <2>1. frame.pkt \in Packet
      BY <1>2 DEF FlagPairing, Frames, NoFrame
    <2> QED
      BY <1>2, <2>1 DEF FlagPairing, Frames
  <1>3. CASE RecvConfig
    <2>1. queue' \in Seq(Frames \ {NoFrame}) /\ Len(queue') <= QueueSize
      BY <1>3, QueueTake, BoundAssumption DEF RecvConfig
    <2>2. Head(queue).msg \in ConfigMsgs
      BY <1>3, QueueTake DEF RecvConfig, Frames, NoFrame
    <2>3. sleepSec' \in Nat
      BY <1>3, <2>2, SettingAssumption DEF RecvConfig, SetDuration
    <2>4. \A s \in DOMAIN Head(queue).msg : Head(queue).msg[s] % Word \in Nat
      BY <2>2, SettingAssumption
    <2>5. store' \in Store
      BY <1>3, <2>4 DEF RecvConfig, Configured, Store
    <2> QED
      BY <1>3, <2>1, <2>3, <2>5 DEF RecvConfig
  <1>4. CASE SaveConfig
    BY <1>4 DEF SaveConfig, Save
  <1> QED
    BY <1>1, <1>2, <1>3, <1>4 DEF RecvTask

\* Every event on the air keeps the types.
LEMMA AirType ==
    ASSUME TypeOK, Air
    PROVE  TypeOK'
  <1> USE DEF settingVars, taskVars, pktVars, recvVars, radioVars, airVars
  <1>1. ASSUME NEW g \in Gateways, GatewayAnswer(g) PROVE TypeOK'
    <2>1. PairingFrame(g, myChannel[g]) \in Frames \ {NoFrame}
      BY DEF TypeOK, PairingFrame, Frames, Packet, Macs, Channels, NoFrame
    <2>2. queue' \in Seq(Frames \ {NoFrame}) /\ Len(queue') <= QueueSize
      BY <1>1, <2>1, DeliverType DEF GatewayAnswer
    <2> QED
      BY <1>1, <2>2 DEF GatewayAnswer, TypeOK
  <1>2. ASSUME NEW g \in Gateways, NEW m \in ConfigMsgs, HearConfig(g, m) PROVE TypeOK'
    <2>1. ConfigFrame(m) \in Frames \ {NoFrame}
      BY DEF ConfigFrame, Frames, NoFrame
    <2>2. queue' \in Seq(Frames \ {NoFrame}) /\ Len(queue') <= QueueSize
      BY <1>2, <2>1, BoundAssumption DEF HearConfig, TypeOK
    <2> QED
      BY <1>2, <2>2 DEF HearConfig, TypeOK
  <1>3. CASE HearRival
    <2>1. PairingFrame(NoMac, 0) \in Frames \ {NoFrame}
      BY ChannelAssumption DEF PairingFrame, Frames, Packet, Macs, NoFrame
    <2>2. queue' \in Seq(Frames \ {NoFrame}) /\ Len(queue') <= QueueSize
      BY <1>3, <2>1, BoundAssumption DEF HearRival, TypeOK
    <2> QED
      BY <1>3, <2>2 DEF HearRival, TypeOK
  <1>4. ASSUME NEW g \in Gateways, NEW chan \in Channels, GatewayMove(g, chan)
        PROVE  TypeOK'
    BY <1>4, BoundAssumption DEF GatewayMove, TypeOK
  <1>5. ASSUME NEW g \in Gateways, GatewayRestart(g) PROVE TypeOK'
    BY <1>5 DEF GatewayRestart, TypeOK
  <1> QED
    BY <1>1, <1>2, <1>3, <1>4, <1>5 DEF Air

\* The types of every variable, in every state of every behaviour of the node.
THEOREM TypeCorrect == Spec => []TypeOK
  <1>1. TypeOK /\ [Next]_vars => TypeOK'
    <2> SUFFICES ASSUME TypeOK, [Next]_vars PROVE TypeOK'
      OBVIOUS
    <2>1. CASE Boot \/ MainWakes
      BY <2>1, MainType
    <2>2. CASE PairingTask
      BY <2>2, PairingTaskType
    <2>3. CASE RecvTask
      BY <2>3, RecvTaskType
    <2>4. CASE Air
      BY <2>4, AirType
    <2>5. CASE UNCHANGED vars
      BY <2>5 DEF vars, TypeOK, settingVars, taskVars, pktVars, recvVars, radioVars, airVars
    <2> QED
      BY <2>1, <2>2, <2>3, <2>4, <2>5 DEF Next
  <1> QED
    BY InitType, <1>1, PTL DEF Spec

-----------------------------------------------------------------------------
(* A node never sleeps while it knows a gateway *)

\* The semaphore is given by the task's last step only, and the branch without a
\* pairing is left before anything sets code1.
SleepInv ==
    /\ sendReady => task = "done"
    /\ task = "loop" => ~store.code1
    /\ (task = "done" /\ state # "PAIRED") => ~store.code1
    /\ NeverSleepsPaired

\* SleepInv is inductive.
LEMMA SleepStep ==
    ASSUME TypeOK, SleepInv, [Next]_vars
    PROVE  SleepInv'
  <1> USE DEF SleepInv, NeverSleepsPaired, settingVars, taskVars, pktVars, recvVars,
              radioVars, airVars
  <1>1. CASE Boot
    BY <1>1 DEF Boot, CommInit, PairingInit
  <1>2. CASE MainWakes
    BY <1>2 DEF MainWakes
  <1>3. CASE PairingTask
    <2>1. CASE RestorePairing
      BY <2>1 DEF RestorePairing, Alive, Finish
    <2>2. CASE NoSavedPairing
      BY <2>2 DEF NoSavedPairing, Alive
    <2>3. CASE PairingTimeout
      BY <2>3 DEF PairingTimeout, Finish
    <2>4. CASE SendRequest
      BY <2>4 DEF SendRequest, InLoop
    <2>5. CASE TakeResponse
      BY <2>5 DEF TakeResponse, InLoop
    <2>6. CASE AcceptPairing
      BY <2>6 DEF AcceptPairing, Alive
    <2>7. CASE SavePairing
      BY <2>7 DEF SavePairing
    <2>8. CASE AnnouncePaired
      BY <2>8 DEF AnnouncePaired, Alive, Finish
    <2>9. CASE NextChannel
      BY <2>9 DEF NextChannel, InLoop
    <2> QED
      BY <1>3, <2>1, <2>2, <2>3, <2>4, <2>5, <2>6, <2>7, <2>8, <2>9 DEF PairingTask
  <1>4. CASE RecvTask
    <2>1. CASE RecvConfig
      <3>1. store'.code1 = store.code1
        BY <2>1 DEF RecvConfig, Configured, TypeOK, Store
      <3> QED
        BY <2>1, <3>1 DEF RecvConfig, Alive
    <2> QED
      BY <1>4, <2>1 DEF RecvTask, RecvPairing, FlagPairing, SaveConfig
  <1>5. CASE Air
    BY <1>5 DEF Air, GatewayAnswer, HearConfig, HearRival, GatewayMove,
       GatewayRestart
  <1>6. CASE UNCHANGED vars
    BY <1>6 DEF vars
  <1> QED
    BY <1>1, <1>2, <1>3, <1>4, <1>5, <1>6 DEF Next

\* Whatever is lost, late, torn or interrupted, app_main goes to deep sleep only
\* when no pairing was restored or accepted.
THEOREM SleepCorrect == Spec => []NeverSleepsPaired
  <1>1. Init => SleepInv
    BY DEF Init, SleepInv, NeverSleepsPaired
  <1>2. TypeOK /\ SleepInv /\ [Next]_vars => SleepInv'
    BY SleepStep
  <1>3. SleepInv => NeverSleepsPaired
    BY DEF SleepInv
  <1> QED
    BY <1>1, <1>2, <1>3, TypeCorrect, PTL DEF Spec

-----------------------------------------------------------------------------
(* The pairing a node uses and keeps is that of its gateway *)

\* The deployment the repository describes: one gateway, and no other node's
\* request on the air while this one scans.
OneGateway == \A g, h \in Gateways : g = h
NoRival    == ~May("rival")

Genuine(pkt) == pkt.mac \in Gateways /\ pkt.chan \in Channels

\* Every answer under way is genuine.
FramesGenuine ==
    /\ \A i \in 1..Len(queue) : queue[i].type = "pairing" => Genuine(queue[i].pkt)
    /\ recvTask = "copy" => Genuine(frame.pkt)

\* So is the packet, from the moment the flag is up until it has been read twice:
\* a second answer being copied over it changes nothing.
PacketGenuine == (pairRecv \/ task = "accept") => Genuine(pairPkt)

StoresGenuine ==
    /\ store.code1 => Genuine(store.pairing)
    /\ flash.code1 => Genuine(flash.pairing)

\* What pairing_task has done by the time it says PAIRED.
Progress ==
    /\ task = "accept" => pairPkt.mac \in peers
    /\ (task \in {"save", "announce"} \/ state = "PAIRED") =>
          store.code1 /\ store.pairing.mac \in peers
    /\ state = "PAIRED" => task = "done"

PairInv == FramesGenuine /\ PacketGenuine /\ StoresGenuine /\ Progress

\* recv_task takes a genuine frame and leaves genuine ones.
LEMMA TakeGenuine ==
    ASSUME TypeOK, FramesGenuine, queue # <<>>, queue' = Tail(queue)
    PROVE  /\ Head(queue).type = "pairing" => Genuine(Head(queue).pkt)
           /\ \A i \in 1..Len(queue') :
                 queue'[i].type = "pairing" => Genuine(queue'[i].pkt)
  <1>1. Head(queue) = queue[1] /\ Len(queue') = Len(queue) - 1 /\ Len(queue) \in Nat \ {0}
    BY DEF TypeOK
  <1>2. \A i \in 1..Len(queue') : queue'[i] = queue[i + 1] /\ i + 1 \in 1..Len(queue)
    BY <1>1 DEF TypeOK
  <1> QED
    BY <1>1, <1>2 DEF FramesGenuine

\* A genuine frame put at the end of the queue leaves it genuine.
LEMMA PutGenuine ==
    ASSUME TypeOK, FramesGenuine, NEW f \in Frames \ {NoFrame}, queue' = Append(queue, f),
           f.type = "pairing" => Genuine(f.pkt)
    PROVE  \A i \in 1..Len(queue') :
              queue'[i].type = "pairing" => Genuine(queue'[i].pkt)
  <1>1. Len(queue') = Len(queue) + 1 /\ queue'[Len(queue) + 1] = f /\ Len(queue) \in Nat
    BY DEF TypeOK
  <1>2. \A i \in 1..Len(queue) : queue'[i] = queue[i]
    BY DEF TypeOK
  <1> QED
    BY <1>1, <1>2 DEF FramesGenuine

\* The steps of app_main keep the invariant: a reset reads back what was saved.
LEMMA MainPair ==
    ASSUME TypeOK, PairInv, Boot \/ MainWakes
    PROVE  PairInv'
  <1> USE DEF PairInv, FramesGenuine, PacketGenuine, StoresGenuine, Progress, Genuine
  <1>1. CASE Boot
    <2>1. Sane(flash).code1 => flash.code1 /\ Sane(flash).pairing = flash.pairing
      BY DEF Sane, TypeOK, Store
    <2>2. StoresGenuine'
      BY <1>1, <2>1 DEF Boot, Load, BlankStore
    <2> QED
      BY <1>1, <2>2 DEF Boot, CommInit, PairingInit
  <1>2. CASE MainWakes
    BY <1>2 DEF MainWakes, pktVars, recvVars, radioVars
  <1> QED
    BY <1>1, <1>2

\* The steps of pairing_task keep the invariant.
LEMMA PairingTaskPair ==
    ASSUME TypeOK, PairInv, PairingTask
    PROVE  PairInv'
  <1> USE DEF PairInv, FramesGenuine, PacketGenuine, StoresGenuine, Progress, Genuine,
              pktVars, recvVars, radioVars
  <1>1. CASE RestorePairing
    BY <1>1 DEF RestorePairing, Finish
  <1>2. CASE NoSavedPairing
    BY <1>2 DEF NoSavedPairing
  <1>3. CASE PairingTimeout
    BY <1>3 DEF PairingTimeout, Finish
  <1>4. CASE SendRequest
    BY <1>4 DEF SendRequest, InLoop
  <1>5. CASE TakeResponse
    BY <1>5 DEF TakeResponse, InLoop, Answered, PeerOfResponse
  <1>6. CASE AcceptPairing
    <2>1. store'.code1 /\ store'.pairing = pairPkt
      BY <1>6 DEF AcceptPairing, TypeOK, Store
    <2> QED
      BY <1>6, <2>1 DEF AcceptPairing
  <1>7. CASE SavePairing
    BY <1>7 DEF SavePairing, Save
  <1>8. CASE AnnouncePaired
    BY <1>8 DEF AnnouncePaired, Finish
  <1>9. CASE NextChannel
    BY <1>9 DEF NextChannel, InLoop
  <1> QED
    BY <1>1, <1>2, <1>3, <1>4, <1>5, <1>6, <1>7, <1>8, <1>9 DEF PairingTask

\* The steps of recv_task keep the invariant: with one gateway a half copied
\* packet differs from the one before in its channel only.
LEMMA RecvTaskPair ==
    ASSUME OneGateway, TypeOK, PairInv, RecvTask
    PROVE  PairInv'
  <1> USE DEF PairInv, PacketGenuine, StoresGenuine, Progress, Genuine, settingVars,
              taskVars, pktVars, recvVars, radioVars
  <1>1. CASE RecvPairing
    <2>1. Genuine(Head(queue).pkt) /\ FramesGenuine'
      BY <1>1, TakeGenuine DEF RecvPairing, FramesGenuine
    <2>2. (pairRecv \/ task = "accept") => pairPkt' = pairPkt
      BY <1>1, <2>1 DEF RecvPairing, OneGateway, TypeOK, Packet
    <2>3. UNCHANGED <<flash, store, taskVars, pairRecv, radioVars>>
      BY <1>1 DEF RecvPairing
    <2> QED
      BY <2>1, <2>2, <2>3
  <1>2. CASE FlagPairing
    BY <1>2 DEF FlagPairing, FramesGenuine, OneGateway
  <1>3. CASE RecvConfig
    <2>1. FramesGenuine'
      BY <1>3, TakeGenuine DEF RecvConfig, FramesGenuine
    <2>2. store'.code1 = store.code1 /\ store'.pairing = store.pairing
      BY <1>3 DEF RecvConfig, Configured, TypeOK, Store
    <2> QED
      BY <1>3, <2>1, <2>2 DEF RecvConfig
  <1>4. CASE SaveConfig
    BY <1>4 DEF SaveConfig, Save, FramesGenuine
  <1> QED
    BY <1>1, <1>2, <1>3, <1>4 DEF RecvTask

\* The events on the air keep the invariant: only gateways answer.
LEMMA AirPair ==
    ASSUME NoRival, TypeOK, PairInv, Air
    PROVE  PairInv'
  <1> USE DEF PairInv, PacketGenuine, StoresGenuine, Progress, settingVars, taskVars,
              pktVars, recvVars, radioVars, airVars
  <1>1. ASSUME NEW g \in Gateways, GatewayAnswer(g) PROVE PairInv'
    <2> DEFINE f == PairingFrame(g, myChannel[g])
    <2>1. f \in Frames \ {NoFrame} /\ Genuine(f.pkt)
      BY DEF TypeOK, PairingFrame, Frames, Packet, Macs, Channels, NoFrame, Genuine
    <2>2. FramesGenuine'
      <3>1. CASE queue' = queue
        BY <1>1, <3>1 DEF GatewayAnswer, FramesGenuine
      <3>2. CASE queue' = Append(queue, f)
        <4> HIDE DEF f
        <4>1. \A i \in 1..Len(queue') : queue'[i].type = "pairing" => Genuine(queue'[i].pkt)
          BY <3>2, <2>1, PutGenuine
        <4> QED
          BY <1>1, <4>1 DEF GatewayAnswer, FramesGenuine, Genuine
      <3> QED
        BY <1>1, <3>1, <3>2 DEF GatewayAnswer, Deliver
    <2> QED
      BY <1>1, <2>2 DEF GatewayAnswer, Genuine
  <1>2. ASSUME NEW g \in Gateways, NEW m \in ConfigMsgs, HearConfig(g, m) PROVE PairInv'
    <2>1. ConfigFrame(m) \in Frames \ {NoFrame} /\ ConfigFrame(m).type # "pairing"
      BY DEF ConfigFrame, Frames, NoFrame
    <2>2. \A i \in 1..Len(queue') : queue'[i].type = "pairing" => Genuine(queue'[i].pkt)
      BY <1>2, <2>1, PutGenuine DEF HearConfig
    <2> QED
      BY <1>2, <2>2 DEF HearConfig, Genuine, FramesGenuine
  <1>3. ASSUME NEW g \in Gateways, NEW chan \in Channels, GatewayMove(g, chan)
        PROVE  PairInv'
    BY <1>3 DEF GatewayMove, FramesGenuine, Genuine
  <1>4. ASSUME NEW g \in Gateways, GatewayRestart(g) PROVE PairInv'
    BY <1>4 DEF GatewayRestart, FramesGenuine, Genuine
  <1>5. ~HearRival
    BY DEF HearRival, NoRival
  <1> QED
    BY <1>1, <1>2, <1>3, <1>4, <1>5 DEF Air

\* PairInv holds in every state.
LEMMA PairInvariant ==
    ASSUME OneGateway, NoRival
    PROVE  Spec => []PairInv
  <1>1. Init => PairInv
    BY DEF Init, PairInv, FramesGenuine, PacketGenuine, StoresGenuine, Progress, BlankStore
  <1>2. TypeOK /\ PairInv /\ [Next]_vars => PairInv'
    <2> SUFFICES ASSUME TypeOK, PairInv, [Next]_vars PROVE PairInv'
      OBVIOUS
    <2>1. CASE UNCHANGED vars
      BY <2>1 DEF vars, PairInv, FramesGenuine, PacketGenuine, StoresGenuine, Progress,
         Genuine, taskVars, pktVars, recvVars, radioVars
    <2> QED
      BY <2>1, MainPair, PairingTaskPair, RecvTaskPair, AirPair DEF Next
  <1> QED
    BY <1>1, <1>2, TypeCorrect, PTL DEF Spec

\* With one gateway and no rival, the MAC and channel a paired node uses are the
\* gateway's, across crashes, failed saves and moves of the access point.
THEOREM PairedCorrect ==
    ASSUME OneGateway, NoRival
    PROVE  Spec => []PairedWithGateway
  <1>1. PairInv => PairedWithGateway
    BY DEF PairInv, Progress, StoresGenuine, Genuine, PairedWithGateway
  <1> QED
    BY <1>1, PairInvariant, PTL

\* Under the same assumptions the packet, read twice, is the same packet.
THEOREM PeerCorrect ==
    ASSUME OneGateway, NoRival
    PROVE  Spec => []PeerMatchesStore
  <1>1. PairInv => PeerMatchesStore
    BY DEF PairInv, Progress, PeerMatchesStore
  <1> QED
    BY <1>1, PairInvariant, PTL

-----------------------------------------------------------------------------
(* A paired node is on its gateway's channel, unless an answer came late *)

\* An answer names the channel it was sent on, which is the radio's.
Here(pkt) == pkt.chan = radio

\* So it does as long as the radio stays: in the queue, half copied, flagged, and stored.
AnswersHere ==
    /\ \A i \in 1..Len(queue) : queue[i].type = "pairing" => Here(queue[i].pkt)
    /\ recvTask = "copy" => Here(frame.pkt)
    /\ (pairRecv \/ task = "accept") => Here(pairPkt)
    /\ (task \in {"save", "announce"} \/ state = "PAIRED") => Here(store.pairing)

ChannelInv ==
    /\ task = "start" => radio = 0 /\ ~AnswerInside
    /\ state = "PAIRED" => task = "done"
    /\ ~late => AnswersHere

\* A queue that loses its first frame, or gets an answer sent here or a message that is
\* no answer, holds the answers it did; none appears in one that had none.
AllHere == \A i \in 1..Len(queue) : queue[i].type = "pairing" => Here(queue[i].pkt)
NoneQueued == \A i \in 1..Len(queue) : queue[i].type # "pairing"

LEMMA TakeHere ==
    ASSUME TypeOK, queue # <<>>, queue' = Tail(queue), radio' = radio
    PROVE  /\ AllHere => AllHere' /\ (Head(queue).type = "pairing" => Here(Head(queue).pkt))
           /\ NoneQueued => NoneQueued' /\ Head(queue).type # "pairing"
  <1>1. Head(queue) = queue[1] /\ Len(queue') = Len(queue) - 1 /\ Len(queue) \in Nat \ {0}
    BY DEF TypeOK
  <1>2. \A i \in 1..Len(queue') : queue'[i] = queue[i + 1] /\ i + 1 \in 1..Len(queue)
    BY <1>1 DEF TypeOK
  <1> QED
    BY <1>1, <1>2 DEF AllHere, NoneQueued, Here

LEMMA PutHere ==
    ASSUME TypeOK, NEW f \in Frames \ {NoFrame}, queue' = Append(queue, f), radio' = radio
    PROVE  /\ AllHere /\ (f.type = "pairing" => Here(f.pkt)) => AllHere'
           /\ NoneQueued /\ f.type # "pairing" => NoneQueued'
  <1>1. Len(queue') = Len(queue) + 1 /\ queue'[Len(queue) + 1] = f /\ Len(queue) \in Nat
    BY DEF TypeOK
  <1>2. \A i \in 1..Len(queue) : queue'[i] = queue[i]
    BY DEF TypeOK
  <1> QED
    BY <1>1, <1>2 DEF AllHere, NoneQueued, Here

\* The steps of app_main: a reset empties the queue and turns the radio off.
LEMMA MainChannel ==
    ASSUME TypeOK, ChannelInv, Boot \/ MainWakes
    PROVE  ChannelInv'
  <1> USE DEF ChannelInv, AnswersHere, AnswerInside, Here
  <1>1. CASE Boot
    <2>1. queue' = <<>> /\ pairRecv' = FALSE /\ state' = "REQUEST" /\ task' = "start"
          /\ recvTask' = "idle" /\ radio' = 0
      BY <1>1 DEF Boot, CommInit, PairingInit
    <2>2. \A i \in 1..Len(queue') : FALSE
      BY <2>1
    <2> QED
      BY <2>1, <2>2
  <1>2. CASE MainWakes
    BY <1>2 DEF MainWakes, pktVars, recvVars, radioVars
  <1> QED
    BY <1>1, <1>2

\* The steps of pairing_task: the radio leaves a channel with no answer inside, or late.
LEMMA PairingTaskChannel ==
    ASSUME TypeOK, ChannelInv, PairingTask
    PROVE  ChannelInv'
  <1> USE DEF ChannelInv, AnswersHere, AnswerInside, Here, pktVars, recvVars, radioVars
  <1>1. CASE RestorePairing
    BY <1>1 DEF RestorePairing, Finish
  <1>2. CASE NoSavedPairing
    BY <1>2 DEF NoSavedPairing
  <1>3. CASE PairingTimeout
    BY <1>3 DEF PairingTimeout, Finish
  <1>4. CASE SendRequest
    <2>1. /\ radio' = channel /\ late' = (late \/ (channel # radio /\ AnswerInside))
          /\ task = "loop" /\ task' = "loop" /\ state = "REQUEST" /\ state' = "REQUESTED"
          /\ UNCHANGED <<queue, recvTask, frame, pairRecv, pairPkt, store>>
      BY <1>4 DEF SendRequest, InLoop, SwitchChannel
    <2> QED
      BY <2>1
  <1>5. CASE TakeResponse
    BY <1>5 DEF TakeResponse, InLoop, Answered
  <1>6. CASE AcceptPairing
    <2>1. store'.pairing = pairPkt
      BY <1>6 DEF AcceptPairing, TypeOK, Store
    <2> QED
      BY <1>6, <2>1 DEF AcceptPairing
  <1>7. CASE SavePairing
    BY <1>7 DEF SavePairing
  <1>8. CASE AnnouncePaired
    BY <1>8 DEF AnnouncePaired, Finish
  <1>9. CASE NextChannel
    BY <1>9 DEF NextChannel, InLoop
  <1> QED
    BY <1>1, <1>2, <1>3, <1>4, <1>5, <1>6, <1>7, <1>8, <1>9 DEF PairingTask

\* The steps of recv_task: the channel of an answer is copied in one piece.
LEMMA RecvTaskChannel ==
    ASSUME TypeOK, ChannelInv, RecvTask
    PROVE  ChannelInv'
  <1> USE DEF ChannelInv, AnswersHere, AnswerInside, settingVars, taskVars, pktVars,
              recvVars, radioVars
  <1>1. CASE RecvPairing
    <2>1. /\ queue # <<>> /\ queue' = Tail(queue) /\ frame' = Head(queue)
          /\ Head(queue).type = "pairing" /\ pairPkt'.chan = pairPkt.chan
          /\ UNCHANGED <<task, state, store, pairRecv, radio, late>>
      BY <1>1 DEF RecvPairing, TypeOK, Packet
    <2>2. AllHere => AllHere' /\ Here(frame'.pkt)
      BY <2>1, TakeHere
    <2>3. task # "start"
      BY <2>1, TakeHere DEF NoneQueued
    <2> QED
      BY <2>1, <2>2, <2>3 DEF AllHere, Here
  <1>2. CASE FlagPairing
    BY <1>2 DEF FlagPairing, Here
  <1>3. CASE RecvConfig
    <2>1. /\ queue # <<>> /\ queue' = Tail(queue) /\ recvTask' = "save"
          /\ UNCHANGED <<task, state, pairRecv, pairPkt, frame, radio, late>>
      BY <1>3 DEF RecvConfig
    <2>2. store'.pairing = store.pairing
      BY <1>3 DEF RecvConfig, Configured, TypeOK, Store
    <2>3. (AllHere => AllHere') /\ (NoneQueued => NoneQueued')
      BY <2>1, TakeHere
    <2> QED
      BY <2>1, <2>2, <2>3 DEF AllHere, NoneQueued, Here
  <1>4. CASE SaveConfig
    BY <1>4 DEF SaveConfig, Here
  <1> QED
    BY <1>1, <1>2, <1>3, <1>4 DEF RecvTask

\* The events on the air: a gateway that can send names the channel it is heard on.
LEMMA AirChannel ==
    ASSUME NoRival, TypeOK, ChannelInv, Air
    PROVE  ChannelInv'
  <1> USE DEF ChannelInv, AnswersHere, AnswerInside, settingVars, taskVars, pktVars,
              recvVars, radioVars, airVars
  <1>1. ASSUME NEW g \in Gateways, GatewayAnswer(g) PROVE ChannelInv'
    <2> DEFINE f == PairingFrame(g, myChannel[g])
    <2>1. f \in Frames \ {NoFrame} /\ f.pkt.chan = gwChan[g] /\ gwChan[g] # 0
      BY <1>1 DEF TypeOK, PairingFrame, Frames, Packet, Macs, Channels, NoFrame,
                  GatewayAnswer, CanSend
    <2>2. UNCHANGED <<task, state, store, pairRecv, pairPkt, recvTask, frame, radio, late>>
      BY <1>1 DEF GatewayAnswer
    <2>3. CASE queue' = queue
      BY <2>2, <2>3 DEF Here
    <2>4. CASE queue' = Append(queue, f) /\ radio = gwChan[g]
      <3>1. AllHere => AllHere'
        <4> HIDE DEF f
        <4> QED
          BY <2>1, <2>2, <2>4, PutHere DEF Here
      <3>2. task # "start"
        BY <2>1, <2>4
      <3> QED
        BY <2>2, <3>1, <3>2 DEF AllHere, Here
    <2> QED
      BY <1>1, <2>3, <2>4 DEF GatewayAnswer, Deliver
  <1>2. ASSUME NEW g \in Gateways, NEW m \in ConfigMsgs, HearConfig(g, m) PROVE ChannelInv'
    <2>1. ConfigFrame(m) \in Frames \ {NoFrame} /\ ConfigFrame(m).type # "pairing"
      BY DEF ConfigFrame, Frames, NoFrame
    <2>2. UNCHANGED <<task, state, store, pairRecv, pairPkt, recvTask, frame, radio, late>>
      BY <1>2 DEF HearConfig
    <2>3. (AllHere => AllHere') /\ (NoneQueued => NoneQueued')
      BY <1>2, <2>1, <2>2, PutHere DEF HearConfig
    <2> QED
      BY <2>2, <2>3 DEF AllHere, NoneQueued, Here
  <1>3. ASSUME NEW g \in Gateways, NEW chan \in Channels, GatewayMove(g, chan)
        PROVE  ChannelInv'
    BY <1>3 DEF GatewayMove, Here
  <1>4. ASSUME NEW g \in Gateways, GatewayRestart(g) PROVE ChannelInv'
    BY <1>4 DEF GatewayRestart, Here
  <1>5. ~HearRival
    BY DEF HearRival, NoRival
  <1> QED
    BY <1>1, <1>2, <1>3, <1>4, <1>5 DEF Air

\* With no rival, and however many gateways, a paired node is on the channel of its
\* pairing unless an answer was inside it when its radio changed channel: the late answer
\* is the only way to the state that the run pairing_late finds.
THEOREM ChannelCorrect ==
    ASSUME NoRival
    PROVE  Spec => []OnChannelUnlessLate
  <1>1. Init => ChannelInv
    BY DEF Init, ChannelInv, AnswersHere, AnswerInside
  <1>2. TypeOK /\ ChannelInv /\ [Next]_vars => ChannelInv'
    <2> SUFFICES ASSUME TypeOK, ChannelInv, [Next]_vars PROVE ChannelInv'
      OBVIOUS
    <2>1. CASE UNCHANGED vars
      BY <2>1 DEF vars, ChannelInv, AnswersHere, AnswerInside, Here, taskVars, pktVars,
         recvVars, radioVars
    <2> QED
      BY <2>1, MainChannel, PairingTaskChannel, RecvTaskChannel, AirChannel DEF Next
  <1>3. ChannelInv => OnChannelUnlessLate
    BY DEF ChannelInv, AnswersHere, Here, OnChannelUnlessLate, PairedOnItsChannel
  <1> QED
    BY <1>1, <1>2, <1>3, TypeCorrect, PTL DEF Spec

-----------------------------------------------------------------------------
(* What was saved stays saved *)

\* The store in RAM holds every code that flash holds.
StoreKeeps ==
    /\ flash.code1 => store.code1
    /\ flash.code2 => store.code2

\* It does since a boot that read all of flash, also when saves have failed.
KeepInv == drift # "unread" => StoreKeeps

\* KeepInv is inductive.
LEMMA KeepStep ==
    ASSUME TypeOK, KeepInv, [Next]_vars
    PROVE  KeepInv'
  <1> USE DEF KeepInv, StoreKeeps, settingVars, taskVars, pktVars, recvVars, radioVars, airVars
  <1>1. CASE Boot
    BY <1>1 DEF Boot
  <1>2. CASE MainWakes
    BY <1>2 DEF MainWakes
  <1>3. CASE PairingTask
    <2>1. CASE AcceptPairing
      <3>1. store'.code1 /\ store'.code2 = store.code2 /\ flash' = flash /\ drift' = drift
        BY <2>1 DEF AcceptPairing, TypeOK, Store
      <3> QED
        BY <3>1
    <2>2. CASE SavePairing
      BY <2>2 DEF SavePairing, Save, TypeOK
    <2> QED
      BY <1>3, <2>1, <2>2 DEF PairingTask, RestorePairing, NoSavedPairing, PairingTimeout,
         SendRequest, TakeResponse, AnnouncePaired, NextChannel
  <1>4. CASE RecvTask
    <2>1. CASE RecvConfig
      <3>1. store'.code2 /\ store'.code1 = store.code1 /\ flash' = flash /\ drift' = drift
        BY <2>1 DEF RecvConfig, Configured, TypeOK, Store
      <3> QED
        BY <3>1
    <2>2. CASE SaveConfig
      BY <2>2 DEF SaveConfig, Save, TypeOK
    <2> QED
      BY <1>4, <2>1, <2>2 DEF RecvTask, RecvPairing, FlagPairing
  <1>5. CASE Air
    BY <1>5 DEF Air, GatewayAnswer, HearConfig, HearRival, GatewayMove,
       GatewayRestart
  <1>6. CASE UNCHANGED vars
    BY <1>6 DEF vars
  <1> QED
    BY <1>1, <1>2, <1>3, <1>4, <1>5, <1>6 DEF Next

\* Whatever fails, no save of either task takes a saved pairing or configuration away,
\* unless the boot before it did not read all that flash holds.
THEOREM SavedCorrect == Spec => SavedKept
  <1>1. Init => KeepInv
    BY DEF Init, KeepInv, StoreKeeps
  <1>2. TypeOK /\ KeepInv /\ [Next]_vars => KeepInv'
    BY KeepStep
  <1>3. KeepInv => [(SavePairing \/ SaveConfig) /\ drift # "unread" => SavedStep]_vars
    BY DEF KeepInv, StoreKeeps, SavePairing, SaveConfig, Save, SavedStep
  <1> QED
    BY <1>1, <1>2, <1>3, TypeCorrect, PTL DEF Spec, SavedKept

-----------------------------------------------------------------------------
(* Flash holds what the tasks wrote *)

\* Nothing is unsaved unless one of the two tasks is about to save, or drift says why.
SavedInv == (Alive /\ task # "save" /\ recvTask # "save") => flash = store \/ drift # "none"

\* SavedInv is inductive.
LEMMA SavedInvStep ==
    ASSUME TypeOK, SavedInv, [Next]_vars
    PROVE  SavedInv'
  <1> USE DEF SavedInv, Alive, settingVars, taskVars, pktVars, recvVars, radioVars, airVars
  <1>1. CASE Boot
    BY <1>1 DEF Boot
  <1>2. CASE MainWakes
    BY <1>2 DEF MainWakes
  <1>3. CASE PairingTask
    <2>1. CASE AcceptPairing
      BY <2>1 DEF AcceptPairing
    <2>2. CASE SavePairing
      BY <2>2 DEF SavePairing, Save
    <2>3. CASE RestorePairing \/ NoSavedPairing \/ PairingTimeout \/ AnnouncePaired
      BY <2>3 DEF RestorePairing, NoSavedPairing, PairingTimeout, AnnouncePaired, Finish
    <2>4. CASE SendRequest \/ TakeResponse \/ NextChannel
      BY <2>4 DEF SendRequest, TakeResponse, NextChannel, InLoop
    <2> QED
      BY <1>3, <2>1, <2>2, <2>3, <2>4 DEF PairingTask
  <1>4. CASE RecvTask
    <2>1. CASE RecvPairing \/ FlagPairing
      BY <2>1 DEF RecvPairing, FlagPairing
    <2>2. CASE RecvConfig
      BY <2>2 DEF RecvConfig
    <2>3. CASE SaveConfig
      BY <2>3 DEF SaveConfig, Save
    <2> QED
      BY <1>4, <2>1, <2>2, <2>3 DEF RecvTask
  <1>5. CASE Air
    BY <1>5 DEF Air, GatewayAnswer, HearConfig, HearRival, GatewayMove,
       GatewayRestart
  <1>6. CASE UNCHANGED vars
    BY <1>6 DEF vars
  <1> QED
    BY <1>1, <1>2, <1>3, <1>4, <1>5, <1>6 DEF Next

\* Whatever fails, the two tasks that save the shared store, in any order and across
\* crashes, leave nothing of it behind but what drift says: a save that failed, or no save
\* yet after a boot that did not read all of flash.
THEOREM NoSaveLostCorrect == Spec => []NoSaveLost
  <1>1. Init => SavedInv
    BY DEF Init, SavedInv, Alive
  <1>2. TypeOK /\ SavedInv /\ [Next]_vars => SavedInv'
    BY SavedInvStep
  <1>3. SavedInv => NoSaveLost
    BY DEF SavedInv, NoSaveLost, Quiet
  <1> QED
    BY <1>1, <1>2, <1>3, TypeCorrect, PTL DEF Spec

-----------------------------------------------------------------------------
(* A node that gives up has asked on every channel there was time for *)

\* While a channel is left, the scan has asked on those before its position and on no
\* other, and has not taken longer for it than its delays.
ScanProgress ==
    LET asking == IF state = "REQUESTED" THEN 1 ELSE 0 IN
    /\ tried = {ch \in Channels : Position(ch) < Position(channel) + asking}
    /\ elapsed <= 120 * Position(channel) + 10 * asking

AskedInTime == \A ch \in Channels : 120 * Position(ch) <= timeout => ch \in tried

ScanInv ==
    /\ task \in {"start", "loop"} /\ tried # Channels => ScanProgress
    /\ task = "start" => state = "REQUEST"
    /\ task = "done" /\ state # "PAIRED" => AskedInTime
    /\ sendReady => task = "done"
    /\ TriedInTime

\* Positions are those of a circle.
LEMMA Positions ==
    /\ \A ch \in Channels : Position(ch) \in 0..(MaxChannel - 1)
    /\ Position(StartChannel) = 0
    /\ \A ch, other \in Channels : Position(ch) = Position(other) => ch = other
    /\ \A ch \in Channels : Position(ch) < MaxChannel - 1 =>
          Following(ch) \in Channels /\ Position(Following(ch)) = Position(ch) + 1
  BY ChannelAssumption DEF Position, Channels, Following

\* A delay adds at most its length when no iteration is slow.
LEMMA PassOnTime ==
    ASSUME TypeOK, ~May("slow"), NEW ms \in Nat, Pass(ms)
    PROVE  elapsed' <= elapsed + ms
  BY DEF TypeOK, Pass

\* When the scan times out, the channels that are left were further than the timeout.
LEMMA TimeoutAfterAll ==
    ASSUME TypeOK, ScanInv, task = "loop", TimedOut
    PROVE  AskedInTime
  <1> SUFFICES ASSUME NEW ch \in Channels, 120 * Position(ch) <= timeout PROVE ch \in tried
    BY DEF AskedInTime
  <1>1. CASE tried = Channels
    BY <1>1
  <1>2. CASE tried # Channels
    <2> DEFINE asking == IF state = "REQUESTED" THEN 1 ELSE 0
               pos == Position(channel)
               at == Position(ch)
    <2>1. /\ tried = {c \in Channels : Position(c) < pos + asking}
          /\ elapsed <= 120 * pos + 10 * asking
      BY <1>2 DEF ScanInv, ScanProgress
    <2>2. pos \in Nat /\ at \in Nat /\ asking \in 0..1 /\ elapsed \in Nat /\ timeout \in Nat
      BY Positions, ChannelAssumption DEF TypeOK
    <2>3. elapsed > timeout /\ 120 * at <= timeout
      BY DEF TimedOut
    <2> HIDE DEF asking, pos, at
    <2>4. at < pos + asking
      BY <2>1, <2>2, <2>3
    <2> QED
      BY <2>1, <2>4 DEF at
  <1> QED
    BY <1>1, <1>2

\* ScanInv is inductive when no iteration is slow.
LEMMA ScanStep ==
    ASSUME ~May("slow"), TypeOK, ScanInv, [Next]_vars
    PROVE  ScanInv'
  <1> USE DEF ScanInv, TriedInTime, AskedInTime, ScanProgress, settingVars, taskVars,
              pktVars, recvVars, radioVars, airVars
  <1>1. CASE Boot
    <2>1. ScanProgress'
      <3>1. tried' = {} /\ channel' = StartChannel /\ elapsed' = 0 /\ state' = "REQUEST"
        BY <1>1 DEF Boot, PairingInit
      <3>2. \A ch \in Channels : ~(Position(ch) < 0)
        BY Positions
      <3> QED
        BY <3>1, <3>2, Positions
    <2> QED
      BY <1>1, <2>1 DEF Boot, CommInit, PairingInit
  <1>2. CASE MainWakes
    BY <1>2 DEF MainWakes
  <1>3. CASE PairingTask
    <2>1. CASE RestorePairing
      BY <2>1 DEF RestorePairing, Alive, Finish
    <2>2. CASE NoSavedPairing
      BY <2>2 DEF NoSavedPairing, Alive
    <2>3. CASE PairingTimeout
      BY <2>3, TimeoutAfterAll DEF PairingTimeout, Finish, Alive
    <2>4. CASE SendRequest
      <3>1. elapsed' <= elapsed + 10
        BY <2>4, PassOnTime DEF SendRequest
      <3>2. tried' # Channels => ScanProgress'
        <4> SUFFICES ASSUME tried' # Channels PROVE ScanProgress'
          OBVIOUS
        <4>1. tried # Channels /\ tried' = tried \cup {channel} /\ channel \in Channels
              /\ channel' = channel /\ state = "REQUEST" /\ state' = "REQUESTED"
          BY <2>4 DEF SendRequest, TypeOK
        <4>2. /\ tried = {ch \in Channels : Position(ch) < Position(channel)}
              /\ elapsed <= 120 * Position(channel)
          BY <2>4, <4>1, Positions DEF SendRequest, InLoop
        <4>3. \A ch \in Channels :
                 Position(ch) < Position(channel) + 1 <=> Position(ch) < Position(channel) \/ ch = channel
          BY <4>1, Positions
        <4>4. elapsed' <= 120 * Position(channel) + 10
          BY <3>1, <4>1, <4>2, Positions, PassType, <2>4 DEF SendRequest, TypeOK
        <4> QED
          BY <4>1, <4>2, <4>3, <4>4
      <3> QED
        BY <2>4, <3>2 DEF SendRequest, InLoop, Alive
    <2>5. CASE TakeResponse
      BY <2>5 DEF TakeResponse, InLoop, Alive
    <2>6. CASE AcceptPairing
      <3>1. store'.config = store.config
        BY <2>6 DEF AcceptPairing, TypeOK, Store
      <3> QED
        BY <2>6, <3>1 DEF AcceptPairing, Alive
    <2>7. CASE SavePairing
      BY <2>7 DEF SavePairing, Save, Alive
    <2>8. CASE AnnouncePaired
      BY <2>8 DEF AnnouncePaired, Alive, Finish
    <2>9. CASE NextChannel
      <3>1. elapsed' <= elapsed + 110
        BY <2>9, PassOnTime DEF NextChannel
      <3>2. tried' # Channels => ScanProgress'
        <4> SUFFICES ASSUME tried' # Channels PROVE ScanProgress'
          OBVIOUS
        <4>1. tried # Channels /\ tried' = tried /\ channel \in Channels
              /\ channel' = Following(channel) /\ state = "REQUESTED" /\ state' = "REQUEST"
          BY <2>9 DEF NextChannel, TypeOK
        <4>2. /\ tried = {ch \in Channels : Position(ch) < Position(channel) + 1}
              /\ elapsed <= 120 * Position(channel) + 10
          BY <2>9, <4>1, Positions DEF NextChannel, InLoop
        <4>3. Position(channel) < MaxChannel - 1
          <5> SUFFICES ASSUME Position(channel) >= MaxChannel - 1 PROVE FALSE
            BY <4>1, Positions, ChannelAssumption
          <5>1. \A ch \in Channels : Position(ch) < Position(channel) + 1
            BY <4>1, Positions, ChannelAssumption
          <5> QED
            BY <4>1, <4>2, <5>1
        <4>4. Position(channel') = Position(channel) + 1
          BY <4>1, <4>3, Positions
        <4>5. elapsed' <= 120 * Position(channel')
          BY <3>1, <4>1, <4>2, <4>4, Positions, PassType, <2>9 DEF NextChannel, TypeOK
        <4>6. {ch \in Channels : Position(ch) < Position(channel') + 0}
                = {ch \in Channels : Position(ch) < Position(channel) + 1}
          BY <4>1, <4>4, Positions
        <4> QED
          BY <4>1, <4>2, <4>4, <4>5, <4>6, Positions, ChannelAssumption
      <3> QED
        BY <2>9, <3>2 DEF NextChannel, InLoop, Alive
    <2> QED
      BY <1>3, <2>1, <2>2, <2>3, <2>4, <2>5, <2>6, <2>7, <2>8, <2>9 DEF PairingTask
  <1>4. CASE RecvTask
    BY <1>4 DEF RecvTask, RecvPairing, FlagPairing, RecvConfig, SetDuration, SaveConfig, Alive
  <1>5. CASE Air
    BY <1>5 DEF Air, GatewayAnswer, HearConfig, HearRival, GatewayMove, GatewayRestart
  <1>6. CASE UNCHANGED vars
    BY <1>6 DEF vars
  <1> QED
    BY <1>1, <1>2, <1>3, <1>4, <1>5, <1>6 DEF Next

\* A node that goes to sleep unpaired has asked on every channel its timeout left time
\* for, whatever the timeout, wherever the scan starts and whatever is lost, crashes or is
\* configured, if no iteration takes longer than its delays.
THEOREM TriedCorrect ==
    ASSUME ~May("slow")
    PROVE  Spec => []TriedInTime
  <1>1. Init => ScanInv
    <2> SUFFICES ASSUME Init PROVE ScanInv
      OBVIOUS
    <2>1. ScanProgress
      BY Positions DEF Init, ScanProgress
    <2> QED
      BY <2>1 DEF Init, ScanInv, TriedInTime
  <1>2. TypeOK /\ ScanInv /\ [Next]_vars => ScanInv'
    BY ScanStep
  <1>3. ScanInv => TriedInTime
    BY DEF ScanInv
  <1> QED
    BY <1>1, <1>2, <1>3, TypeCorrect, PTL DEF Spec

=============================================================================
