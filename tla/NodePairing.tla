---------------------------- MODULE NodePairing ----------------------------
(***************************************************************************)
(* How a sensor node finds its gateway, remembers it and gives up.         *)
(*                                                                         *)
(* app_main boots from flash and waits on s_send_ready; pairing_task walks *)
(* the Wi-Fi channels, broadcasts a request on each and keeps the first    *)
(* answer; recv_task hands it the answers over a packet and a flag that no *)
(* lock protects, and applies the configuration messages.  Both tasks save *)
(* the one nvs_store_t they share.                                         *)
(*                                                                         *)
(* The grain is that of the scheduler.  The three run on one core, with    *)
(* priorities 5, 4 and 1: pairing_task can interrupt recv_task anywhere,   *)
(* recv_task runs only where pairing_task blocks (a delay, the ESP-NOW and *)
(* flash drivers).  An action is the code between two such points.         *)
(***************************************************************************)
EXTENDS Naturals, FiniteSets, Sequences

CONSTANTS
    Gateways,            \* the gateways in range of the node
    NoMac,               \* the all-zero MAC of a request or of a blank store
    MixedMac,            \* a MAC with bytes of two different ones
    MaxChannel,          \* the Wi-Fi channels are 1..MaxChannel (13)
    StartChannel,        \* ESPNOW_START_CHANNEL
    DefaultTimeout,      \* pairing timeout without a saved one, in ms (3000)
    DefaultSleep,        \* deep sleep without a saved one, in s (30)
    ConfigMsgs,          \* the configuration messages the gateway may send
    Word,                \* the range of a uint16_t (2^16)
    QueueSize,           \* ESPNOW_QUEUE_SIZE
    MaxMoves,            \* bound: channel moves of the gateways' access point
    Disturbances         \* what may go wrong, a subset of Disturbance

Setting == {"timeout", "sleep"}

\* "crash": power loss; "save": a flash write fails; "unreadable", "erased":
\* what nvs_flash_init and nvs_get_blob report at boot; "slow": a loop
\* iteration takes longer than its delays; "rival": another node pairs nearby;
\* "refused": ESP-NOW takes no callbacks before esp_now_init; "deaf": it forgets
\* them at esp_now_deinit.
Disturbance == {"crash", "save", "unreadable", "erased", "slow", "rival", "refused",
                "deaf"}

ASSUME GatewaysAssumption ==
    /\ IsFiniteSet(Gateways)
    /\ NoMac \notin Gateways /\ MixedMac \notin Gateways /\ NoMac # MixedMac
ASSUME ChannelAssumption ==
    /\ MaxChannel \in Nat \ {0}
    /\ StartChannel \in 1..MaxChannel
ASSUME SettingAssumption ==
    /\ DefaultTimeout \in Nat /\ DefaultSleep \in Nat /\ Word \in Nat \ {0}
    /\ \A m \in ConfigMsgs :
          DOMAIN m \subseteq Setting /\ \A s \in DOMAIN m : m[s] \in Nat
ASSUME BoundAssumption ==
    /\ QueueSize \in Nat \ {0} /\ MaxMoves \in Nat
    /\ Disturbances \subseteq Disturbance

VARIABLES
    flash,      \* the nvs_store_t blob in flash
    store,      \* s_nvs_store
    drift,      \* history: why flash may differ from s_nvs_store with no save under way
    timeout,    \* s_timeout_ms
    sleepSec,   \* s_sleep_sec
    main,       \* app_main
    task,       \* where pairing_task stands
    state,      \* s_state
    channel,    \* s_channel
    elapsed,    \* ms since s_start_us, up to one past the timeout
    pairRecv,   \* s_pair_recv
    pairPkt,    \* s_pair_pkt
    sendReady,  \* s_send_ready
    recvTask,   \* where recv_task stands
    frame,      \* the frame recv_task holds
    queue,      \* s_q_recv
    radio,      \* the channel ESP-NOW listens on, 0 before esp_now_init
    peers,      \* the driver's peer table
    callbacks,  \* the driver calls on_recv_cb
    late,       \* history: an answer was in the node when the radio changed channel
    gwChan,     \* the channel of each gateway's access point
    myChannel,  \* the channel each gateway read when it booted
    asked,      \* the gateways that owe the node an answer
    moves,      \* channel moves so far
    tried       \* history: the channels requested since boot

settingVars == <<timeout, sleepSec>>
taskVars    == <<task, state, channel, elapsed, sendReady, tried>>
pktVars     == <<pairRecv, pairPkt>>
recvVars    == <<recvTask, frame>>
radioVars   == <<radio, peers, callbacks, late>>
airVars     == <<gwChan, myChannel, asked, moves>>
vars == <<flash, store, drift, settingVars, main, taskVars, pktVars, recvVars, queue,
          radioVars, airVars>>

Broadcast == "broadcast"
Channels  == 1..MaxChannel
Macs      == Gateways \cup {NoMac, MixedMac}
Packet    == [mac : Macs, chan : 0..MaxChannel]
NoPacket  == [mac |-> NoMac, chan |-> 0]
Store     == [code1 : BOOLEAN, code2 : BOOLEAN, pairing : Packet,
              config : [Setting -> Nat]]
BlankStore == [code1 |-> FALSE, code2 |-> FALSE, pairing |-> NoPacket,
               config |-> [s \in Setting |-> 0]]

PairingFrame(mac, chan) == [type |-> "pairing", pkt |-> [mac |-> mac, chan |-> chan]]
ConfigFrame(m)          == [type |-> "config", msg |-> m]
NoFrame                 == [type |-> "none"]
Frames == [type : {"pairing"}, pkt : Packet]
          \cup [type : {"config"}, msg : ConfigMsgs] \cup {NoFrame}

Alive  == main \in {"wait", "running"}
May(d) == d \in Disturbances

TypeOK ==
    /\ flash \in Store /\ store \in Store /\ drift \in {"none", "unsaved", "unread"}
    /\ timeout \in Nat /\ sleepSec \in Nat
    /\ main \in {"off", "wait", "running", "asleep", "aborted"}
    /\ task \in {"start", "loop", "accept", "save", "announce", "done"}
    /\ state \in {"REQUEST", "REQUESTED", "PAIRED"}
    /\ channel \in Channels /\ elapsed \in Nat
    /\ pairRecv \in BOOLEAN /\ pairPkt \in Packet /\ sendReady \in BOOLEAN
    /\ recvTask \in {"idle", "copy", "save"} /\ frame \in Frames
    /\ recvTask = "copy" => frame.type = "pairing"
    /\ queue \in Seq(Frames \ {NoFrame}) /\ Len(queue) <= QueueSize
    /\ radio \in 0..MaxChannel
    /\ peers \subseteq Macs \cup {Broadcast} /\ callbacks \in BOOLEAN /\ late \in BOOLEAN
    /\ gwChan \in [Gateways -> Channels] /\ myChannel \in [Gateways -> Channels]
    /\ asked \subseteq Gateways
    /\ moves \in 0..MaxMoves /\ tried \subseteq Channels

Init ==
    /\ flash = BlankStore /\ store = BlankStore /\ drift = "none"
    /\ timeout = DefaultTimeout /\ sleepSec = DefaultSleep
    /\ main = "off" /\ task = "start" /\ state = "REQUEST"
    /\ channel = StartChannel /\ elapsed = 0 /\ sendReady = FALSE /\ tried = {}
    /\ pairRecv = FALSE /\ pairPkt = NoPacket
    /\ recvTask = "idle" /\ frame = NoFrame /\ queue = <<>>
    /\ radio = 0 /\ peers = {} /\ callbacks = FALSE /\ late = FALSE
    /\ gwChan \in [Gateways -> Channels] /\ myChannel = gwChan
    /\ asked = {} /\ moves = 0

-----------------------------------------------------------------------------
(* app_main *)

\* espnow_nvs_load: a blob whose pairing is on channel 0 loses its code1.
Sane(s) == [s EXCEPT !.code1 = s.code1 /\ s.pairing.chan # 0]

\* The outcomes of nvs_flash_init and nvs_get_blob.
Load ==
    \/ store' = Sane(flash) /\ UNCHANGED flash
    \/ May("unreadable") /\ store' = BlankStore /\ UNCHANGED flash
    \/ May("erased") /\ store' = BlankStore /\ flash' = BlankStore

\* espnow_sleep_set_duration.
SetDuration(sec) == sleepSec' = sec

\* espnow_comm_init: the queues, and the callbacks under ESP_ERROR_CHECK.
CommInit ==
    /\ queue' = <<>>
    /\ \/ callbacks' = TRUE /\ main' = "wait"
       \/ May("refused") /\ callbacks' = FALSE /\ main' = "aborted"

\* espnow_pairing_init.
PairingInit(ms) ==
    /\ timeout' = ms
    /\ state' = "REQUEST" /\ channel' = StartChannel /\ elapsed' = 0
    /\ pairRecv' = FALSE

\* Reset, espnow_nvs_load, and app_main up to the wait for s_send_ready.
Boot ==
    /\ ~Alive \/ May("crash")
    /\ Load /\ drift' = IF store' = flash' THEN "none" ELSE "unread"
    /\ SetDuration(IF store'.code2 THEN store'.config["sleep"] ELSE DefaultSleep)
    /\ CommInit
    /\ PairingInit(IF store'.code2 THEN store'.config["timeout"] ELSE DefaultTimeout)
    /\ sendReady' = FALSE /\ task' = "start" /\ tried' = {}
    /\ recvTask' = "idle" /\ frame' = NoFrame /\ pairPkt' = NoPacket
    /\ radio' = 0 /\ peers' = {} /\ late' = FALSE
    /\ UNCHANGED airVars

\* app_main takes s_send_ready: it returns when paired, else deep sleep.
MainWakes ==
    /\ main = "wait" /\ sendReady
    /\ sendReady' = FALSE
    /\ main' = IF state = "PAIRED" THEN "running" ELSE "asleep"
    /\ UNCHANGED <<flash, drift, store, settingVars, task, state, channel, elapsed, tried,
                   pktVars, recvVars, queue, radioVars, airVars>>

-----------------------------------------------------------------------------
(* pairing_task *)

\* xSemaphoreGive(s_send_ready) and vTaskDelete.
Finish == sendReady' = TRUE /\ task' = "done"

\* The pairing found in flash is used as it is.
RestorePairing ==
    /\ Alive /\ task = "start" /\ store.code1
    /\ radio' = store.pairing.chan
    /\ peers' = {store.pairing.mac}
    /\ state' = "PAIRED" /\ Finish
    /\ UNCHANGED <<flash, drift, store, settingVars, main, channel, elapsed, tried, pktVars,
                   recvVars, queue, callbacks, late, airVars>>

NoSavedPairing ==
    /\ Alive /\ task = "start" /\ ~store.code1
    /\ task' = "loop"
    /\ UNCHANGED <<flash, drift, store, settingVars, main, state, channel, elapsed, sendReady,
                   tried, pktVars, recvVars, queue, radioVars, airVars>>

\* Seeded fault: equality, which a slow iteration jumps over.
TimedOutExactly == timeout > 0 /\ elapsed = timeout

\* The check at the top of the loop; a timeout of 0 means there is none.
TimedOut == timeout > 0 /\ elapsed > timeout

PairingTimeout ==
    /\ Alive /\ task = "loop" /\ TimedOut
    /\ Finish
    /\ UNCHANGED <<flash, drift, store, settingVars, main, state, channel, elapsed, tried,
                   pktVars, recvVars, queue, radioVars, airVars>>

InLoop == Alive /\ task = "loop" /\ ~TimedOut

\* A delay of ms passes; a slow iteration reaches the timeout at once.
Pass(ms) ==
    LET capped(n) == IF timeout = 0 THEN 0 ELSE IF n > timeout THEN timeout + 1 ELSE n
    IN  \/ elapsed' = capped(elapsed + ms)
        \/ May("slow") /\ elapsed' = capped(timeout + 1)

\* An answer is queued, being copied, or copied and flagged.
AnswerInside ==
    \/ pairRecv \/ recvTask = "copy"
    \/ \E n \in 1..Len(queue) : queue[n].type = "pairing"

\* ESP-NOW is restarted on another channel, with an empty peer table.
SwitchChannel(ch) ==
    /\ radio' = ch
    /\ late' = (late \/ (ch # radio /\ AnswerInside))
    /\ UNCHANGED callbacks \/ (May("deaf") /\ callbacks' = FALSE)

\* The request goes to every gateway that hears it on the channel.
SendRequest ==
    /\ InLoop /\ state = "REQUEST"
    /\ SwitchChannel(channel)
    /\ peers' = {Broadcast}
    /\ \E heard \in SUBSET {g \in Gateways : gwChan[g] = channel} :
          asked' = asked \cup heard
    /\ state' = "REQUESTED"
    /\ tried' = tried \cup {channel}
    /\ Pass(10)
    /\ UNCHANGED <<flash, drift, store, settingVars, main, task, channel, sendReady, pktVars,
                   recvVars, queue, gwChan, myChannel, moves>>

\* Seeded faults: the packet itself is tested; a flag that is never read again.
AnsweredByPacket == pairPkt # NoPacket
AnsweredCached   == FALSE

\* s_pair_recv is what tells the task that the packet is complete.
Answered == pairRecv

\* Seeded fault: the MAC is taken from the store, which has yet to receive it.
PeerOfStore == store.pairing.mac

\* The peer registered is the MAC of the packet.
PeerOfResponse == pairPkt.mac

\* The flag is up: clear it and register the packet's MAC as a peer.
TakeResponse ==
    /\ InLoop /\ state = "REQUESTED" /\ Answered
    /\ pairRecv' = FALSE
    /\ peers' = peers \cup {PeerOfResponse}
    /\ task' = "accept"
    /\ UNCHANGED <<flash, drift, store, settingVars, main, state, channel, elapsed, sendReady,
                   tried, pairPkt, recvVars, queue, radio, callbacks, late, airVars>>

\* Back from esp_now_add_peer: the packet is read a second time.
AcceptPairing ==
    /\ Alive /\ task = "accept"
    /\ store' = [store EXCEPT !.code1 = TRUE, !.pairing = pairPkt]
    /\ task' = "save"
    /\ UNCHANGED <<flash, drift, settingVars, main, state, channel, elapsed, sendReady, tried,
                   pktVars, recvVars, queue, radioVars, airVars>>

\* Seeded fault: the save leaves the settings out.
SaveAllButConfig == flash' = [store EXCEPT !.config = flash.config] /\ drift' = "none"

\* espnow_nvs_save: an error is logged and the caller goes on.
Save ==
    \/ flash' = store /\ drift' = "none"
    \/ /\ May("save") /\ UNCHANGED flash
       /\ drift' = IF drift = "none" THEN "unsaved" ELSE drift

\* Seeded fault: s_send_ready is given before s_state is set.
SavePairingGivesEarly ==
    /\ Alive /\ task = "save"
    /\ Save
    /\ task' = "announce" /\ sendReady' = TRUE
    /\ UNCHANGED <<store, settingVars, main, state, channel, elapsed, tried, pktVars,
                   recvVars, queue, radioVars, airVars>>

\* The save of the accepted pairing.
SavePairing ==
    /\ Alive /\ task = "save"
    /\ Save
    /\ task' = "announce"
    /\ UNCHANGED <<store, settingVars, main, state, channel, elapsed, sendReady, tried,
                   pktVars, recvVars, queue, radioVars, airVars>>

AnnouncePaired ==
    /\ Alive /\ task = "announce"
    /\ state' = "PAIRED" /\ Finish
    /\ UNCHANGED <<flash, drift, store, settingVars, main, channel, elapsed, tried, pktVars,
                   recvVars, queue, radioVars, airVars>>

\* Seeded faults: no wrap after the last channel; a wrap one channel early.
FollowingNoWrap(ch)    == ch + 1
FollowingWrapEarly(ch) == IF ch >= MaxChannel - 1 THEN 1 ELSE ch + 1

\* Channels are walked in a circle.
Following(ch) == IF ch >= MaxChannel THEN 1 ELSE ch + 1

\* No answer after the delay of the request: the next channel, 110 ms later.
NextChannel ==
    /\ InLoop /\ state = "REQUESTED" /\ ~Answered
    /\ channel' = Following(channel)
    /\ state' = "REQUEST"
    /\ Pass(110)
    /\ UNCHANGED <<flash, drift, store, settingVars, main, task, sendReady, tried, pktVars,
                   recvVars, queue, radioVars, airVars>>

PairingTask ==
    \/ RestorePairing \/ NoSavedPairing \/ PairingTimeout \/ SendRequest
    \/ TakeResponse \/ AcceptPairing \/ SavePairing \/ AnnouncePaired \/ NextChannel

-----------------------------------------------------------------------------
(* recv_task, for the frames that touch the pairing or the store *)

\* espnow_pairing_on_recv, interrupted in the middle of the MAC.
RecvPairing ==
    /\ Alive /\ recvTask = "idle" /\ queue # <<>> /\ Head(queue).type = "pairing"
    /\ frame' = Head(queue) /\ queue' = Tail(queue)
    /\ pairPkt' = [pairPkt EXCEPT
                     !.mac = IF @ = Head(queue).pkt.mac THEN @ ELSE MixedMac]
    /\ recvTask' = "copy"
    /\ UNCHANGED <<flash, drift, store, settingVars, main, taskVars, pairRecv, radioVars,
                   airVars>>

\* The rest of the packet, then the flag.
FlagPairing ==
    /\ Alive /\ recvTask = "copy"
    /\ pairPkt' = frame.pkt
    /\ pairRecv' = TRUE
    /\ recvTask' = "idle" /\ frame' = NoFrame
    /\ UNCHANGED <<flash, drift, store, settingVars, main, taskVars, queue, radioVars,
                   airVars>>

\* Seeded fault: the message replaces the whole store.
ConfiguredFromBlank(m) ==
    [BlankStore EXCEPT
       !.code2 = TRUE,
       !.config = [s \in Setting |-> IF s \in DOMAIN m THEN m[s] % Word ELSE @[s]]]

\* The store with the settings of a message, as uint16_t.
Configured(m) ==
    [store EXCEPT
       !.code2 = TRUE,
       !.config = [s \in Setting |-> IF s \in DOMAIN m THEN m[s] % Word ELSE @[s]]]

\* on_mqtt_msg, topic "config".
RecvConfig ==
    /\ Alive /\ recvTask = "idle" /\ queue # <<>> /\ Head(queue).type = "config"
    /\ queue' = Tail(queue)
    /\ LET m == Head(queue).msg IN
         /\ SetDuration(IF "sleep" \in DOMAIN m THEN m["sleep"] ELSE sleepSec)
         /\ store' = Configured(m)
    /\ recvTask' = "save"
    /\ UNCHANGED <<flash, drift, timeout, main, taskVars, pktVars, frame, radioVars, airVars>>

SaveConfig ==
    /\ Alive /\ recvTask = "save"
    /\ Save
    /\ recvTask' = "idle"
    /\ UNCHANGED <<store, settingVars, main, taskVars, pktVars, frame, queue, radioVars,
                   airVars>>

RecvTask == RecvPairing \/ FlagPairing \/ RecvConfig \/ SaveConfig

-----------------------------------------------------------------------------
(* The air: gateways, other nodes, and on_recv_cb *)

\* A frame sent on chan reaches on_recv_cb, which drops it when s_q_recv is full.
Deliver(f, chan) ==
    queue' = IF /\ Alive /\ callbacks /\ radio = chan
                /\ Len(queue) < QueueSize
             THEN Append(queue, f) ELSE queue

\* A gateway registers its peers on the channel it read at boot, so that ESP-NOW
\* refuses what it sends once its access point is on another one.
CanSend(g) == myChannel[g] = gwChan[g]

\* The gateway answers a request at any later moment.
GatewayAnswer(g) ==
    /\ g \in asked /\ CanSend(g)
    /\ asked' = asked \ {g}
    /\ Deliver(PairingFrame(g, myChannel[g]), gwChan[g])
    /\ UNCHANGED <<flash, drift, store, settingVars, main, taskVars, pktVars, recvVars,
                   radioVars, gwChan, myChannel, moves>>

\* A configuration message held for this node; nothing happens when it is lost. Its topic
\* has six characters before "config", or the node would not know it (module Framing).
HearConfig(g, m) ==
    /\ CanSend(g)
    /\ Alive /\ callbacks /\ radio = gwChan[g] /\ Len(queue) < QueueSize
    /\ queue' = Append(queue, ConfigFrame(m))
    /\ UNCHANGED <<flash, drift, store, settingVars, main, taskVars, pktVars, recvVars,
                   radioVars, airVars>>

\* The broadcast request of another node: the same message, with no MAC and channel.
HearRival ==
    /\ May("rival")
    /\ Alive /\ callbacks /\ radio # 0 /\ Len(queue) < QueueSize
    /\ queue' = Append(queue, PairingFrame(NoMac, 0))
    /\ UNCHANGED <<flash, drift, store, settingVars, main, taskVars, pktVars, recvVars,
                   radioVars, airVars>>

\* The router moves, and the gateway's access point follows its station; the
\* answers the gateway had not sent stay unsent.
GatewayMove(g, chan) ==
    /\ moves < MaxMoves /\ chan # gwChan[g]
    /\ moves' = moves + 1
    /\ gwChan' = [gwChan EXCEPT ![g] = chan]
    /\ asked' = asked \ {g}
    /\ UNCHANGED <<flash, drift, store, settingVars, main, taskVars, pktVars, recvVars, queue,
                   radioVars, myChannel>>

\* setup() reads the channel again.
GatewayRestart(g) ==
    /\ ~CanSend(g)
    /\ myChannel' = [myChannel EXCEPT ![g] = gwChan[g]]
    /\ UNCHANGED <<flash, drift, store, settingVars, main, taskVars, pktVars, recvVars, queue,
                   radioVars, gwChan, asked, moves>>

Air ==
    \/ \E g \in Gateways : GatewayAnswer(g)
    \/ \E g \in Gateways, m \in ConfigMsgs : HearConfig(g, m)
    \/ HearRival
    \/ \E g \in Gateways : GatewayRestart(g)
    \/ \E g \in Gateways, chan \in Channels : GatewayMove(g, chan)

Next == Boot \/ MainWakes \/ PairingTask \/ RecvTask \/ Air

Spec == Init /\ [][Next]_vars

\* The scheduler runs a ready task: pairing_task has the highest priority, its
\* delays let the others run, and app_main runs when they block.
FairSpec == Spec /\ WF_vars(PairingTask) /\ WF_vars(RecvTask) /\ WF_vars(MainWakes)

-----------------------------------------------------------------------------
(* What must hold *)

\* A paired node holds the MAC and channel of a gateway: send_task reads both
\* from the store as soon as espnow_pairing_is_paired says so.
PairedWithGateway ==
    state = "PAIRED" =>
        store.code1 /\ store.pairing.mac \in Gateways /\ store.pairing.chan \in Channels

\* The MAC send_task addresses is a registered peer, although pairing_task reads
\* the received packet twice, once to register it and once to store it.
PeerMatchesStore == state = "PAIRED" => store.pairing.mac \in peers

\* The node goes to deep sleep only while it knows no gateway: the semaphore that
\* wakes app_main says neither which branch gave it nor when.
NeverSleepsPaired == main = "asleep" => ~store.code1

\* A save never takes away what flash holds: the pairing survives the saves of
\* recv_task, the configuration those of pairing_task, across crashes and saves that
\* failed. It may only after a boot that did not get from flash what flash holds.
SavedStep == /\ flash.code1 => flash'.code1
             /\ flash.code2 => flash'.code2
SavedKept == [][(SavePairing \/ SaveConfig) /\ drift # "unread" => SavedStep]_vars

\* While no save is under way flash holds what the tasks wrote to the shared store,
\* whichever of the two saved last, unless the last save failed, or none has followed
\* a boot that could not read flash.
Quiet == Alive /\ task \in {"start", "loop", "done"} /\ recvTask # "save"
NoSaveLost == Quiet => flash = store \/ drift # "none"

\* How many channels a scan comes by before it comes to ch.
Position(ch) == IF ch >= StartChannel THEN ch - StartChannel
                ELSE ch + MaxChannel - StartChannel

\* A node that gives up has asked on every channel that its timeout leaves time for, at
\* 120 ms for each one before: on all of them with the default, on nine with the 1000 ms
\* that a configuration message may set.
TriedInTime ==
    main = "asleep" => \A ch \in Channels : 120 * Position(ch) <= timeout => ch \in tried

\* With a timeout, app_main is woken: the node pairs or goes to sleep.
Decided == (main = "wait" /\ timeout > 0) ~> main # "wait"

\* Without a timeout ("0 = sin limite") an answer that raised the flag while the
\* scan goes on ends it, whatever iteration the flag meets.
AnswerEndsScan == (Alive /\ pairRecv /\ task = "loop" /\ timeout = 0) ~> state = "PAIRED"

\* espnow_pairing.h: PAIRED means "emparejado y listo para enviar": ESP-NOW refuses
\* a peer that is not on the radio's channel.
PairedOnItsChannel == state = "PAIRED" => radio = store.pairing.chan

\* That fails only for a node whose radio changed channel with an answer inside: neither
\* an answer in time, nor a crash, nor a pairing from flash leaves it on another one.
OnChannelUnlessLate == PairedOnItsChannel \/ late

=============================================================================
