# ESP-NOW sensor network: models, checks and proofs

TLA+ modules for the two programs of this repository: the ESP-IDF firmware of a
battery-powered sensor **node** (`src/espnow_project_class/core`) and the Arduino
**gateway** between ESP-NOW and MQTT (`src/ESP32_auto_pairing`). Node paths below are
relative to `src/espnow_project_class/core/src`, `.ino` is the gateway's only program file.
`PROJECT.json` maps every definition to the lines it models.

Parse with `tlasany M.tla`, check with `tlc -config X.cfg MCM`, prove with
`tlapm MProofs.tla`.

## 1. The system

A node boots, loads its store from flash and starts its tasks. Without a stored pairing it
broadcasts a request on one Wi-Fi channel after the other until a gateway answers with its
MAC and channel, or a timeout sends it to deep sleep, from which it boots again. Once paired
it sends readings; each may ask (CHECK) for the messages the gateway keeps for it: topic
`config` changes its settings, `update` starts an update of the firmware. The gateway
registers each device it hears, publishes data on MQTT, keeps MQTT messages until the
device asks, and shares data between the devices of one PAN.

| Component | State | Operations | Interacts with | What is hard | What makes it correct |
|---|---|---|---|---|---|
| Pairing (`espnow_pairing.cpp`) | `s_state`, `s_channel`, start time, `s_pair_pkt` / `s_pair_recv`, the driver's radio and peers | `pairing_task`: restore, request, accept, next channel, timeout; `on_recv` | store, recv_task, app_main by `s_send_ready`, ESP-NOW | packet and flag shared without a lock; late answers; channel moves | pairs only with a gateway; every channel is tried; it decides |
| Persistence (`espnow_nvs.cpp`) | `nvs_store_t` in RAM and flash | load, save | pairing_task and recv_task both save the whole of it | crashes, failed writes, unreadable flash | nothing saved is lost; RAM and flash agree |
| Boot and sleep (`main.cpp`, `espnow_sleep.cpp`) | `s_sleep_sec`, app_main's wait | boot, deep sleep | all | woken by a semaphore that does not say why | never sleeps on a pairing |
| Configuration (`on_mqtt_msg`) | the store's settings | topic `config` | recv_task, store | 16-bit truncation, partial messages | applied and kept |
| Communication (`espnow_comm.cpp`) | request, result and frame queues, token `s_send_sem` | `espnow_send`, send_task, recv_task, two driver callbacks | sensor_task, pairing_task, driver | one token given by two tasks; results without identity; full queues | one frame at a time; token never lost; order |
| Sensor (`espnow_sensor.cpp`) | none | wait, read, send | communication | does not wait for the pairing | gets past its wait |
| PAN callback (`on_pan_msg`) | ring of readings, `s_peer_count` | append | recv_task | 8-bit counter over 150 places; the text is looked for past its beginning | the ring holds readings of others only |
| Wi-Fi, OTA (`espnow_wifi.cpp`, `espnow_ota.cpp`) | event group, retry counter, station, partitions | connect, event handler, download, restart | recv_task starts the task; access point; bootloader | two updates at once; group deleted under a waiter or a handler; power loss | every update ends; only accepted images boot |
| Gateway reception (`OnDataRecv`) | containers, driver's peers, `long_packet`, `msgbuff` | CHECK, DATA, PAIRING; parts of long messages | loop() on the other core | steps interleave with loop(); one buffer for all devices; offsets and lengths of 8 bits | registered before served; data goes up as it was sent |
| Gateway mailbox (`loop`, `procesa_mensaje`) | `mensajes_MQTT`, `readyMACs` | deposit, hand over, NODATA | MQTT, driver | one list and one queue for all devices | order, once, NODATA last, everybody served |
| Gateway PAN | `mensajes_PAN`, `readyMACsPAN`, `pairedMACs` | share, erase | as above | erasure by comparing ranges of different lengths | at most once, never to the sender |
| Gateway publication | `cola_mensajes`, `pairMACs`, connection | publish, reconnect | broker | popped before published | order, no duplicate |
| Anomaly detection (`AnomalyDetection.h`) | the cost matrix it keeps | `pearson_based_LISA`, `DTW_based_LISA` | nothing calls it | 8-bit counters, ties, constant windows | each score is its sample's; the warping is a cheapest one |
| ADC, legacy OTA, build files | | | | hardware or unused | not modelled, see 7 |

## 2. Modules

| Module | Models |
|---|---|
| `NodePairing`, `MCNodePairing`, `NodePairingProofs` | boot, store and flash, pairing_task, recv_task for pairing and configuration messages, deep sleep, gateways and other nodes in the air |
| `NodeComm`, `MCNodeComm`, `NodeCommProofs` | clients of `espnow_send`, the token, send_task, driver results, recv_task's answers |
| `Ota`, `MCOta`, `OtaProofs` | update message, station connection, event handler, download, partitions, reset |
| `Mailbox` | abstract: what a device may expect of the messages kept for it |
| `Gateway`, `MCGateway`, `GatewayProofs` | OnDataRecv and loop() of the gateway; it implements `Mailbox` |
| `Framing`, `MCFraming`, `FramingProofs` | the bytes of a message between both programs: cutting, reading, joining, what goes down to a node and what the node sees of it |
| `AnomalyDetection`, `MCAnomalyDetection`, `AnomalyDetectionProofs` | the two outlier scores and the time warping |
| `Induction` | lemmas only: induction over the naturals and functions defined by it, in a form the provers can use |

### How state and steps correspond to the code

**Grain.** The node's chip has one core and FreeRTOS priorities: pairing 5, send and recv 4,
sensor 3, ota 2, app_main 1. A task runs until it blocks or a higher one wakes. An action is
the code between two points where another task that touches the same state can run. In
`NodePairing` recv_task (4) runs only while pairing_task (5) blocks, but pairing_task may
interrupt it *inside* the `memcpy` of the packet: `RecvPairing` / `FlagPairing` are its two
halves, `MixedMac` a MAC half overwritten, and `TakeResponse` / `AcceptPairing` the two reads
of the packet on either side of a driver call. A save blocks on flash, so `AcceptPairing`,
`SavePairing` and `AnnouncePaired` are three steps, and `RecvConfig`, `SaveConfig` two.
In `Ota` the tasks are equals sliced by the tick; Wi-Fi events run above them as one step.
`vEventGroupDelete` and the assignment of NULL after it are one step too: in between, a
handler would use a freed group, which has no defined outcome. In `Gateway` callback and loop() run
on two cores; a step goes up to the next access the other could notice. A container
operation is indivisible there, although the code has no lock: a data race on `std::queue`
has no outcome a model could list.

**NodePairing.** Variables carry the names of the statics (`s_` dropped). `elapsed` counts up
to one past the timeout, in the 10 and 110 ms of a channel; a `slow` iteration jumps past
it. `radio`, `peers`, `callbacks` are what the driver holds. Histories: `tried`, the channels asked; `late`,
a change of channel with an answer inside the node (queued, half copied or flagged); `drift`, why flash may
differ from RAM though no task is saving: the last save failed, or no save has succeeded since a boot that
did not get from flash what it holds. `Boot` is the whole of reset,
load and app_main up to its wait. `Load` offers each outcome of the flash driver: the blob,
unreadable, erased; a blob whose channel is 0 loses its `code1`. `Disturbances` says what may
go wrong; two of them are doubts about the driver, which is not in the repository:
`refused` (callbacks are not taken before `esp_now_init`, so `ESP_ERROR_CHECK` aborts) and
`deaf` (callbacks are forgotten by `esp_now_deinit`). Gateways answer whenever they like,
on the channel they read at their own boot; `HearRival` is the request of another node, which
the same handler takes for an answer. A configuration message is one the node recognises: its
topic has six characters before `config`, as `Framing` shows (`AppliedPadded`).

**NodeComm.** `sem` is the token; `inFlight` what the driver has accepted, `results` what it
has reported and nobody taken; `stray` records that a result nobody waits for exists or will. `Probe`/`Release` are `espnow_comm_send_available`, `Submit`
is `espnow_send`. `TokenTimeout` and `ResultTimeout` are the 5 s and 500 ms; the first may
happen whenever the token is missing (untimed), the second only when no result is there and,
unless `LateResults`, none is under way.

**Ota.** `group` is the static handle, named after the task that created the group; a wait
keeps the group it started on. `handlers` counts registrations, since every update registers
the handler again. `boot` is the partition the bootloader tries, `spare` what the other one
holds; `Reset` is every way to restart. `validate_image_header` compares versions only when the description
of the running image can be read; it may fail at any check, and the history `uncompared` keeps the images
that passed such a check since the reset.

**Gateway.** Variables carry the names of the containers. `at` is the place of the callback
between its blocks, `loop` the next part of loop(). `out`, `panOut`, `published` are
histories. `Send` fails for a device that is not a peer: the driver's answer, ignored by the
code. The refinement maps the shared list to one box per device (`For`) and `out` to itself.

**Framing.** Text is not spelt. A character is a position in `topic|payload`, a text a
sequence of intervals of positions, so that losing, doubling, joining or mixing characters is
visible and what they say is not; of the payload's first character it matters whether it is a
digit, since `OnDataRecv` takes it for the number of a part. `outbox` is what send_task has
still to send of a message, `Frames` its cutting, `LastRead`, `NumPaq`, `Message` what the
callback makes of a frame. `cola` and `mensajesPAN` keep what was pushed. `HandOver` is one
message from loop() to on_mqtt_msg, with the layouts of both programs: `struct_espnow` has no
room for a MAC, so that text is written at offset 1, and `espnow_frame_t` has it at 7.
`HandOverCrash` is the other outcome of writing past `struct_espnow`: the gateway boots again.
`SharePan` is the same for data of the PAN. The containers' interleaving is `Gateway`'s and is
not repeated: there a message is a value, here it is one step from queue to node.

**AnomalyDetection.** One point, one other row and one cell of the path are a step each.
`i`, `start`, `itLvpi`, `q` are the counters with their width; `WindowIndex` and `WarpedIndex` the index
arithmetic of the code; `dtw_vector` and `my_path` the members of the object. Distances are
differences of readings and exact; of the scores, which are floating point, `finite` says only
whether a divisor was 0.

## 3. Runs

| Run | Instance | Shows |
|---|---|---|
| `pairing_faults` | 1 gateway, 3 channels, timeout 240 ms, one channel move, two configuration messages, every disturbance but other nodes: crashes, failed saves, flash unreadable or erased, slow iterations, both driver doubts | `TypeOK`, `PairedWithGateway`, `PeerMatchesStore`, `OnChannelUnlessLate`, `NoSaveLost`, `SavedKept` |
| `pairing_scan` | the real 13 channels and 3000 ms, a message that sets 1000 ms; crashes, failed saves, flash erased, other nodes' requests, deaf driver | `TriedInTime`, `NeverSleepsPaired` |
| `pairing_live` | 2 channels, slow iterations, other nodes' requests, deaf driver, timeout 240 or 0; fair | `Decided`, `AnswerEndsScan` |
| `comm_send` | 3 clients, messages of 1 and 2 frames, queues of 2, 2 requests of pairing, an answer, late results; fair | `TypeOK`, `TokenHeld`, `FramesInOrder`, `SingleUnlessStray`, `OwnResult`, `SendEnds`, `ClientsEnd` |
| `ota_update` | 2 tasks, 3 update messages, 3 images, the running one readable or not at each check, 5 retries; fair | `TypeOK`, `OnlyAccepted`, `GivesUpLast`, `UpdateEnds` |
| `gateway_mailbox` | 2 devices of one PAN, peer table of 2, 4 frames, 2 messages, a broker that fails | `TypeOK`, `UpstreamOrdered`, `PanOnce`, `ImplementsMailbox` |
| `gateway_live` | 2 devices, peer table of 1, 3 frames, 2 messages, a broker that fails; fair | `CheckServed`, `EventuallyPublished` |
| `framing` | 2 interchangeable nodes of one PAN, 3 messages up out of 8 at the limits of a frame, 1 order down out of 8, lost frames | `TypeOK`, `JsonAsSent`, `JsonFits`, `MixedOnlyNumbers`, `PartsInOrder`, `AppliedPadded`, `RingUntouched` |
| `anomaly_scores` | 3 series of 8 points, windows of 3, readings 0 to 2, a byte of 8 values, both functions | `TypeOK`, `ScoredInPlace`, `PathCheapest`, `WarpedAligned`, `FiniteUnlessConstant` |
| `pairing_late` | nothing goes wrong | **violates** `PairedOnItsChannel` |
| `comm_after_scan` | one pairing request | **violates** `SingleInFlight` |
| `gateway_first_contact` | a device paired before the gateway rebooted | **violates** `ImplementsMailbox` |

**Why the bounds are enough.** Three channels are the least with a first, a middle and a
wrap; 240 ms let each be asked once before the timeout. With `Word = 128` (2^16 in the code) a
timeout of 248 ms is saved as 120, which ends the walk before the third channel; a message
without one saves 0, no limit. In `pairing_scan` a timeout of 1000 ms, the least the Kconfig allows, ends
the walk after nine channels; its queue of frames has one place and flash that loads as erased stands for
both failing loads, as neither matters to when the scan ends. Queues of two
(`ESPNOW_QUEUE_SIZE` is 10) are full in a few steps and still hold two frames in order.
Three clients contend for a token that passes between two; four frames fill and empty the
gateway's containers and let a device ask twice. A peer table of one makes the driver refuse
the second device, which 20 would need 21 devices for. Two updates at once are needed for
every race on the group; the third message starts an update after a reset.
In `framing` the lengths are the real ones: messages of 7, 239, 242, 243 and 367 characters are
the last of one case or the first of the next; orders of 27 to 33, 249, 255, 270 and 613 bytes are on both sides of
what fits in a frame, in a byte and in 500 bytes; padding of 0, 5 and 6. Three messages let two parts of one
node enclose one of the other, and a stale part wait for a third message. In `anomaly_scores` a byte has 8
values, so that the counters reach their end with the last point (`Points <= Byte` and
`2 * Window <= Byte` are assumed: with the code's 256, series of 256 points and windows of 128); three
values in windows of three give every order of `up`, `left` and `match`, with their ties. What bounds
hide: behaviours that need more moves of the access point, messages or devices.

**Deadlock** is checked in `pairing_faults`, `pairing_scan` and in all gateway runs. It is not in the runs
where the model runs out of bounded inputs (`framing` and `anomaly_scores` among them), or the node has nothing left to do: paired
without crashes, asleep with the wake-up left to an unfair step, or a finished update.

**Fairness.** `NodePairing`: weak fairness of pairing_task, recv_task and app_main: FreeRTOS
runs a ready task when those above it block, and pairing_task delays in every iteration.
The air promises nothing, and no power loss is needed or excluded. `NodeComm`: send_task,
recv_task, each client, and the driver's report: ESP-NOW calls the send callback for every
frame it accepts. `SendEnds` and `ClientsEnd` need no answer from the gateway. `Ota`: each
task, the start event, and that an attempt of the station ends in an address or a
disconnection (one fairness condition on both, so either may be the one). An access point
that associates and never answers DHCP is outside: the code waits with `portMAX_DELAY` and
no timer of its own would end the update. `Gateway`: callbacks finish and loop() is called
for ever. The broker may go away at any moment and any number of times; conecta_mqtt, whose loop has
no other exit, is assumed to return each time, with the connection up. Publication is promised only while the
connection lasts, for the code pops its data before it looks.

## 4. Properties

- `PairedWithGateway`, `PeerMatchesStore`: the packet is shared without a lock and read twice.
  With one gateway in range and no other node asking, what the task reads twice is one
  gateway's MAC, because copying the same MAC over itself changes no byte. The assumptions
  are needed: a rival's request pairs the node with MAC 0, and answers of two gateways can
  come between the two reads, which registers one gateway and stores the other.
- `OnChannelUnlessLate`: ESP-NOW refuses a peer that is not on the radio's channel. A paired node's radio is on
  the gateway's, after a crash and a pairing from flash too, but for the case of section 5: a change of
  channel with an answer inside.
- `NeverSleepsPaired`: the order of `s_state`, save and semaphore.
- `SavedKept`, `NoSaveLost`: two tasks save one blob, in which a failed save leaves what was there. Both
  would fail after a boot that could not read flash (`drift = "unread"`): the next configuration message saves the
  empty store over the pairing. `NoSaveLost` leaves out the time after a failed save too, which the code only logs.
- `TriedInTime`: a channel is asked 120 ms after the one before, the last check of the timeout being
  up to 110 ms old. 3000 ms leave time for all of the 13 channels, 1000 ms for nine. It does not hold for slow iterations.
- `AnswerEndsScan`: stated for timeout 0 only. With a timeout it can fire first.
- `TokenHeld`: answers give the token although a send holds it; it is never lost, but a
  second giving can let a client in. `SingleInFlight` is about send_task alone and fails after a
  pairing scan; `SingleUnlessStray` and `OwnResult` say how far it goes: until a result that nobody
  takes is left in the queue, by a pairing request or a report after the 500 ms, there is one frame in
  flight and each send takes its own result. From then on every result is one send late.
- `OnlyAccepted`: stated of what a reset *now* would boot, in every state: also half way
  through a second download into the partition that is already the one to boot. An image of the running
  version is accepted when the description of the running one cannot be read; the property allows it then only.
- `CheckServed`, `EventuallyPublished`: with a broker that goes away between any two steps. Devices are served
  also then, since a message for them is in memory; data is published if the connection lasts.
- `UpdateEnds`: the second update takes the group the first waits on, or finds none and
  asserts; each of these ends in a reset.
- `GivesUpLast` is for one registration of the handler; with two, each disconnection takes two
  retries.
- `ImplementsMailbox`: oldest first, once, NODATA only when nothing is left.
- `PanOnce`: the erasure of a PAN message may come too early or too late, whatever
  `is_permutation` reads; what keeps it from being sent twice is the list of devices served.
- `JsonAsSent`: what data that is no number becomes on its way up, for every length, loss and
  interleaving of nodes: one text up to 242 characters, two above. It says what the code does, which above 239
  characters is not what was sent (see 5). `JsonFits` is its consequence for the fixed buffers of
  the gateway.
- `MixedOnlyNumbers`: `long_packet` and `msgbuff` are shared by all devices, but only a payload that
  starts with a digit from 1 to 9 gets into them. `PartsInOrder`: the gateway may lose characters
  but never repeats or swaps those of one node.
- `AppliedPadded`, `RingUntouched`: what the two layouts make of the way down. Neither is the
  intention of the code; both are what a change of either layout has to break.
- `ScoredInPlace`: the window of a score is found with a `uint8_t` that starts at the window's size, a
  start of its own and a place in the result counted by a third; they agree up to the last point a byte can count.
- `PathCheapest`, `WarpedAligned`: the path found backwards with its ties is a cheapest way, against the
  set of all ways. The rows are read with its two indexes exchanged: what comes out is still a
  way, but in general not the cheapest one (stating that it costs the least fails).
- `FiniteUnlessConstant`: which inputs make a score NaN, and that warping adds none.

Each property has a seeded fault next to the definition it changes ("Seeded fault" in the
comments): an operator nothing uses, which makes the property fail when it takes the place of
the one after it.

## 5. Where the code departs from what it says

1. **Paired on another channel than its radio's** (`pairing_late`). The flag is tested in
   state REQUESTED only: an answer that lands in the 110 ms before the next request is taken
   when the radio is on the next channel already, and nothing moves it back.
   `espnow_pairing.h:25` calls PAIRED "Emparejado y listo para enviar".
2. **A message erased and not sent** (`gateway_first_contact`). CHECK queues the device before
   DATA registers it as a peer; loop() serves it in between.
3. **Two frames in flight** (`comm_after_scan`). Results of pairing requests stay in the
   queue; the first sends end on them. `espnow_comm.cpp:128` says one send at a time.

Met while reading, without a run of their own; the models leave them out, or a property
assumes them away:

- any `MSG_PAIRING` is taken for an answer, including other nodes' requests;
- a `config` message without `timeout` saves 0, no limit, for the next boot;
- when the description of the running partition cannot be read, the header check logs nothing and accepts an
  image of the version that runs (`uncompared`);
- an unreadable store followed by a configuration message overwrites the pairing in flash;
- `sensor_task` waits for the token, not the pairing: on a first boot its reading is refused;
- callbacks are registered before `esp_now_init`, and not again after `esp_now_deinit`;
- a PAN message is erased by a three-argument `is_permutation`, which compares with the first
  paired devices only and may read past the end of `pairedMACs` (both outcomes modelled);
- gateway and node disagree on the layout of a frame: text is written at offset 1 and read at 7. A
  topic loses six characters, so `config` and `update` are obeyed only with six others before
  them; data of the PAN is looked for seven characters after its beginning, where no JSON object starts, so
  that the ring of readings never moves (`AppliedPadded`, `RingUntouched`);
- the gateway leaves 11 bytes for a header of 7: a message of 240 to 242 characters loses its end, a
  longer one is never joined, as the number of its part is looked for behind `|`, and is
  published as two texts, the second with a `0` before it (`JsonAsSent`);
- lengths on the way down are taken modulo 256, and more than 249 bytes are copied past
  the end of `struct_espnow`: nothing is sent, an order is cut, or the gateway crashes;
- `DTW_based_LISA` reads the two rows with the indexes of the path exchanged:
  `AnomalyDetection.h:323-326` documents its points as (a, b);
- `v_p_i`, the sample that is scored, is kept in a `uint8_t` although readings have 16 bits; a
  window that does not change gives a score that is not a number;
- `set_adc_channel` allocates one byte for each `int` of its list of channels, and nothing ever converts:
  `espnow_sensor.cpp` does not call `adc_init`, and names fields the structure does not have;
- the tree does not build as it stands: `CMakeLists.txt` names `main.cpp` only, and a
  task is pinned to core 1 although the sdkconfig has one core.

## 6. What is proved

Every safety property of the passing runs, the action properties and the refinement of `Mailbox` included,
for every value of the constants that satisfies the named assumptions of the modules. The inductive
invariants hold on the instances of section 3 too: TLC checks them there in a module that extends both the
MC module and the proofs.

| Theorem | Assumes besides | Argument |
|---|---|---|
| `TypeCorrect` (NodePairing) | - | one lemma per group of actions, a lemma on the tail of the queue |
| `SleepCorrect` | - | `SleepInv`: the semaphore is given only by a task that is done, and the store has no pairing while the task loops or when it is done and not paired. Sleeping alone is not inductive: that the waker is done is what rules out a fresh pairing |
| `PairedCorrect`, `PeerCorrect` | `OneGateway`, `NoRival` | `PairInv`: every frame under way, the packet while flag or second read depend on it, both stores, and what the task has done so far are genuine. The packet may be torn only while nobody reads it, or torn from equal MACs |
| `SavedCorrect` | - | `KeepInv`: RAM holds every code flash holds, unless the boot did not get it from there |
| `NoSaveLostCorrect` | - | `SavedInv`: flash equals RAM unless a task is about to save, a save failed, or none has followed such a boot |
| `TriedCorrect` | no slow iteration | `ScanInv`: the channels tried are those before the present one in the circle that begins at `StartChannel`, or all, and the time passed is no more than their delays; `AskedInTime` keeps what that means once the task is done. Neither sleeping nor the set of channels tells how long the scan took |
| `ChannelCorrect` | `NoRival` | `ChannelInv`: unless `late`, each answer in the queue, in the packet while it counts, and in the store once accepted names the radio's channel; and there is none when the task starts, so that restoring a pairing strands nobody. Any number of gateways |
| `TokenCorrect` (NodeComm) | - | the token is missing only in states that give it back |
| `SingleCorrect`, `OwnResultCorrect` | - | `AwaitInv`: until a stray result, outside `await` nothing is in flight or reported, inside at most the task's own frame, in one of the two places. Answers that give the token do not matter |
| `TypeCorrect` (NodeComm) | - | `FlagTypes` and `TypeInv`: the part being sent is one of its request's, so no queue grows past its places |
| `OrderCorrect` | - | `QueueInv` ties the requests still queued, with the one being sent, to the tail of what was accepted; `SentInv` says how far the frames sent have come. `FramesInOrder` alone does not know what is queued |
| `AcceptedCorrect` (Ota) | - | `AcceptedInv`: a task past its header holds an accepted image, and so does the spare partition from the first write of a task until all have ended, and when it is whole and the one to boot. Else it may hold an *old* image, which the check would not accept, or one that was let through before the last reset |
| `TypeCorrect`, `GivesUpCorrect` (Ota) | - | `CountInv`: `handlers` is the number of tasks past the registration, and a task that waits, waits on a group. `GiveUpInv`: with one registration there are as many drops as retries or more, and a failure bit is there only when the station is given up, which `GivesUpLast` alone does not know |
| `TypeCorrect`, `UpstreamCorrect` (Gateway) | - | `TypeInv`: each peer of the driver is registered once. `UpstreamInv`: what is published, then what is queued, is one growing sequence, all of it older than a frame the callback still holds |
| `PanCorrect` | - | `PanInv`: a message that is kept counts as had by its sender and by every device it was sent to; one that is erased never comes again. When `is_permutation` says so, or what it reads, does not matter |
| `MailboxCorrect` | `Restored = {}`: no device kept a pairing from before the gateway booted, which `gateway_first_contact` shows to be needed | `WaitingInv`: a device that waits is a peer, so that what is erased is sent. Then each step is a step of `Mailbox` or stutters: `ForAppend` for a message put into the list, `ForTaken` and `ForNobody` for the first one of a device taken out and for NODATA |
| `TypeCorrect`, `MixedCorrect`, `JsonCorrect`, `FitCorrect` (Framing) | - | `Outbox`: a frame on its way is all of a message, its first 240 characters or the rest. Lemma `Read` says what the callback makes of each; `BuffInv`, `ColaInv` and `JsonInv` that what is kept belongs to numbers, and what is published to its device or to a number |
| `OrderCorrect` (Framing) | - | `OrderInv`: the texts published and the one kept, the frames of each node under way, and the former before the latter. Whatever becomes of a frame, its reading is appended to the kept text, so that the places of all other pieces stay; lemma `ReadInside` keeps it within its frame |
| `AppliedCorrect` (Framing) | - | arithmetic of the two offsets and of the byte, with `TypeOK` for nothing but the step |
| `RingCorrect` | - | one case per step; `SharePan` alone could move the ring, and reads where no text begins |
| `TypeCorrect`, `PlaceCorrect`, `FiniteCorrect` (AnomalyDetection) | - | `Counting` ties the counters of 8 bits to the sample, `Judging` the score so far to the series seen so far, with `Warping` since a warped row has the values of its window, no fewer |
| `PathCorrect`, `WarpCorrect` | - | `Walking`: the walk goes back by the cheapest cell, from the last cell, and each step brings it nearer to the first, so that it ends within `2 * Window - 1`. The accumulated cost of a cell is at most the cost of any way to it (induction along the way) and equal to the walk's (induction along the walk); swapping the two indexes of a way gives a way |

What the library does not have is proved where it is needed: that erasing one element of a list keeps
the order of the others, that the least place found is one and the first, how long a text can be. Messages and frames are of any length and
number in these theorems; the runs show the same properties on the lengths of section 3.

**Induction over data.** The library's induction theorems take an operator, which no installed prover
instantiates. `Induction` has what is needed without one: that `<` on the naturals is well founded is a fact about
a relation, from which `LeastNatural` finds the least element of a set, `UpTo` shows that a set closed
under successor has a whole interval, and `Iterates` that a function defined by recursion exists. With
them `ForKept` (the boxes of `Mailbox`), `WayCost` and `AccumulatedCost`, which are recursive functions,
are equal to what their recursion says, for lists and windows of any length.

**Only model-checked:** liveness (`Decided`, `AnswerEndsScan`, `SendEnds`, `ClientsEnd`, `UpdateEnds`,
`CheckServed`, `EventuallyPublished`), since weak fairness is about ENABLED, which the prover does not
reach. The three violations of section 5 are behaviours TLC found and no theorems.

## 7. Not modelled

JSON, the wording of topics, and logs; a `|` inside a topic, or in a part of a payload after the first, which `OnDataRecv`
would take for the end of the topic; failed allocations; the values of Pearson correlation and
z-scores (floating point); what the ring of PAN readings holds (nothing reads it);
`espnow_nvs_invalidate_pairing` (no caller); the clock that only feeds a log line; the abort of a
download's handle and the end of ESP-NOW in the middle of a send. `ADConeshot.h` drives hardware, and
its moving average is reached only through `adc_init`, which nothing calls. `OTAupdate.h` and the node's
`AUTOpairing_common.h` are previous versions that nothing builds. `sdkconfig` and the build files are read
for the values of constants. The drivers, FreeRTOS, the broker, the access point and the bootloader are
external: modelled by the outcomes the code meets. A data race on the gateway's containers, or
on a freed event group, has no outcome a model could list.

## 8. Plan

Done, in this order: `NodePairing` (the core: everything else needs a pairing) and its proofs,
`Mailbox` and `Gateway`, `NodeComm` and its proofs, `Ota` and its proofs, `Framing`, `AnomalyDetection`,
`GatewayProofs`, `FramingProofs`, `Induction` with the refinement of `Mailbox`, `AnomalyDetectionProofs`.

What is left:

1. A driver model behind `Gateway` and `NodeComm` together: a node that sleeps while the gateway's answer
   is on its way.
