----------------------------- MODULE NodeComm ------------------------------
(***************************************************************************)
(* How a node sends: the tasks that call espnow_send, the queue of         *)
(* requests, send_task with its token s_send_sem, the driver that reports  *)
(* the result of each frame to on_send_cb, and recv_task, which gives the  *)
(* same token when the gateway answers.  The requests pairing_task         *)
(* broadcasts go through the same driver and the same result queue.        *)
(***************************************************************************)
EXTENDS Naturals, Sequences, FiniteSets, SequencesExt

CONSTANTS
    Clients,        \* the tasks that send one message each, like sensor_task
    PartsOf,        \* the frames each of those messages needs
    QueueSize,      \* ESPNOW_QUEUE_SIZE
    MaxBroadcasts,  \* bound: pairing requests before the node is paired
    MaxReplies,     \* bound: frames from the gateway
    LateResults     \* a result may take longer than the 500 ms send_task waits

\* topic (127) '|' payload (239) is cut in pieces of 240 bytes.
ASSUME CommAssumption ==
    /\ IsFiniteSet(Clients) /\ PartsOf \in [Clients -> 1..2]
    /\ QueueSize \in Nat \ {0} /\ MaxBroadcasts \in Nat /\ MaxReplies \in Nat
    /\ LateResults \in BOOLEAN

VARIABLES
    client,      \* where each client stands
    sem,         \* s_send_sem
    paired,      \* espnow_pairing_is_paired
    requests,    \* s_q_send_req
    sendTask,    \* where send_task stands
    req,         \* its request
    part,        \* the frame of it being sent
    inFlight,    \* frames the driver has accepted and not reported
    results,     \* s_q_send_res
    stray,       \* history: there is, or will be, a result that nobody waits for
    frames,      \* s_q_recv
    accepted,    \* history: the clients whose message was accepted, in order
    sent,        \* history: the data frames given to esp_now_send, in order
    broadcasts,  \* pairing requests so far
    replies      \* frames from the gateway so far

clientVars == <<client, requests, accepted>>
taskVars   == <<sendTask, req, part>>
driverVars == <<inFlight, results, sent, stray>>
vars == <<clientVars, sem, paired, taskVars, driverVars, frames, broadcasts, replies>>

Request   == [from : Clients, parts : 1..2]
NoRequest == [parts |-> 0]
Data      == [from : Clients, part : 1..2]
Broadcast == [part |-> 0]
\* What recv_task tells apart: MSG_DATA has a '|' or is dropped.
ReplyType == {"NODATA", "DATA", "NO_SEPARATOR", "PAN_DATA"}

TypeOK ==
    /\ client \in [Clients -> {"probe", "took", "ready", "ok", "not_paired", "full"}]
    /\ sem \in BOOLEAN /\ paired \in BOOLEAN
    /\ requests \in Seq(Request) /\ Len(requests) <= QueueSize
    /\ sendTask \in {"idle", "take", "send", "await", "give"}
    /\ req \in Request \cup {NoRequest} /\ part \in 0..2
    /\ inFlight \in Seq(Data \cup {Broadcast})
    /\ results \in Seq(Data \cup {Broadcast}) /\ Len(results) <= QueueSize
    /\ stray \in BOOLEAN
    /\ frames \in Seq(ReplyType) /\ Len(frames) <= QueueSize
    /\ accepted \in Seq(Clients) /\ sent \in Seq(Data)
    /\ broadcasts \in 0..MaxBroadcasts /\ replies \in 0..MaxReplies

Init ==
    /\ client = [c \in Clients |-> "probe"]
    /\ sem = TRUE /\ paired = FALSE
    /\ requests = <<>> /\ sendTask = "idle" /\ req = NoRequest /\ part = 0
    /\ inFlight = <<>> /\ results = <<>> /\ stray = FALSE /\ frames = <<>>
    /\ accepted = <<>> /\ sent = <<>> /\ broadcasts = 0 /\ replies = 0

-----------------------------------------------------------------------------
(* The tasks that send *)

\* espnow_comm_send_available takes the token; its caller retries for ever.
Probe(c) ==
    /\ client[c] = "probe" /\ sem
    /\ sem' = FALSE
    /\ client' = [client EXCEPT ![c] = "took"]
    /\ UNCHANGED <<requests, accepted, paired, taskVars, driverVars, frames, broadcasts,
                   replies>>

\* and gives it back.
Release(c) ==
    /\ client[c] = "took"
    /\ sem' = TRUE
    /\ client' = [client EXCEPT ![c] = "ready"]
    /\ UNCHANGED <<requests, accepted, paired, taskVars, driverVars, frames, broadcasts,
                   replies>>

\* espnow_send: refused before the pairing, or when the queue stays full 500 ms.
Submit(c) ==
    /\ client[c] = "ready"
    /\ \/ /\ ~paired
          /\ client' = [client EXCEPT ![c] = "not_paired"]
          /\ UNCHANGED <<requests, accepted>>
       \/ /\ paired /\ Len(requests) < QueueSize
          /\ client' = [client EXCEPT ![c] = "ok"]
          /\ requests' = Append(requests, [from |-> c, parts |-> PartsOf[c]])
          /\ accepted' = Append(accepted, c)
       \/ /\ paired /\ Len(requests) = QueueSize
          /\ client' = [client EXCEPT ![c] = "full"]
          /\ UNCHANGED <<requests, accepted>>
    /\ UNCHANGED <<sem, paired, taskVars, driverVars, frames, broadcasts, replies>>

ClientStep == \E c \in Clients : Probe(c) \/ Release(c) \/ Submit(c)

-----------------------------------------------------------------------------
(* send_task *)

\* Seeded fault: the newest request is taken.
NextRequestNewest ==
    /\ sendTask = "idle" /\ requests # <<>>
    /\ req' = Last(requests) /\ requests' = Front(requests)
    /\ sendTask' = "take"
    /\ UNCHANGED <<client, accepted, sem, paired, part, driverVars, frames, broadcasts,
                   replies>>

\* The request is copied out of the queue.
NextRequest ==
    /\ sendTask = "idle" /\ requests # <<>>
    /\ req' = Head(requests) /\ requests' = Tail(requests)
    /\ sendTask' = "take"
    /\ UNCHANGED <<client, accepted, sem, paired, part, driverVars, frames, broadcasts,
                   replies>>

TakeToken ==
    /\ sendTask = "take" /\ sem
    /\ sem' = FALSE
    /\ part' = 1 /\ sendTask' = "send"
    /\ UNCHANGED <<clientVars, paired, req, driverVars, frames, broadcasts, replies>>

\* After 5 s without the token the request is dropped.
TokenTimeout ==
    /\ sendTask = "take" /\ ~sem
    /\ sendTask' = "idle" /\ req' = NoRequest
    /\ UNCHANGED <<clientVars, sem, paired, part, driverVars, frames, broadcasts, replies>>

\* Seeded fault: only the last frame of a request is waited for.
SendFrameAwaitLast ==
    /\ sendTask = "send"
    /\ LET frame == [from |-> req.from, part |-> part] IN
         /\ inFlight' \in {inFlight, Append(inFlight, frame)}
         /\ sent' = Append(sent, frame)
    /\ IF part < req.parts THEN part' = part + 1 /\ UNCHANGED sendTask
       ELSE sendTask' = "await" /\ UNCHANGED part
    /\ UNCHANGED <<clientVars, sem, paired, req, results, stray, frames, broadcasts,
                   replies>>

\* esp_now_send, whose return value is ignored; a refused frame has no result.
SendFrame ==
    /\ sendTask = "send"
    /\ LET frame == [from |-> req.from, part |-> part] IN
         /\ inFlight' \in {inFlight, Append(inFlight, frame)}
         /\ sent' = Append(sent, frame)
    /\ sendTask' = "await"
    /\ UNCHANGED <<clientVars, sem, paired, req, part, results, stray, frames,
                   broadcasts, replies>>

\* Seeded faults: one frame too many; the token is kept.
ContinueOneMore ==
    IF part <= req.parts
    THEN part' = part + 1 /\ sendTask' = "send"
    ELSE part' = 0 /\ sendTask' = "give"
ContinueKeepingToken ==
    IF part < req.parts
    THEN part' = part + 1 /\ sendTask' = "send"
    ELSE part' = 0 /\ sendTask' = "idle"

\* The next frame of the request, or the end of it.
Continue ==
    IF part < req.parts
    THEN part' = part + 1 /\ sendTask' = "send"
    ELSE part' = 0 /\ sendTask' = "give"

\* The oldest result is taken for that of the frame just sent.
GotResult ==
    /\ sendTask = "await" /\ results # <<>>
    /\ results' = Tail(results)
    /\ Continue
    /\ UNCHANGED <<clientVars, sem, paired, req, inFlight, sent, stray, frames,
                   broadcasts, replies>>

\* Seeded fault: the wait has no limit.
ResultTimeoutNever == FALSE

\* 500 ms without any: the frame was refused, or its result is late.
ResultTimeout ==
    /\ sendTask = "await" /\ results = <<>>
    /\ LateResults \/ inFlight = <<>>
    /\ stray' = (stray \/ inFlight # <<>>)
    /\ Continue
    /\ UNCHANGED <<clientVars, sem, paired, req, inFlight, results, sent, frames,
                   broadcasts, replies>>

GiveToken ==
    /\ sendTask = "give"
    /\ sem' = TRUE
    /\ sendTask' = "idle" /\ req' = NoRequest
    /\ UNCHANGED <<clientVars, paired, part, driverVars, frames, broadcasts, replies>>

SendTask ==
    \/ NextRequest \/ TakeToken \/ TokenTimeout \/ SendFrame
    \/ GotResult \/ ResultTimeout \/ GiveToken

-----------------------------------------------------------------------------
(* The driver, pairing_task and recv_task *)

\* on_send_cb: the result of the oldest frame, dropped when the queue is full.
ReportResult ==
    /\ inFlight # <<>>
    /\ inFlight' = Tail(inFlight)
    /\ results' = IF Len(results) < QueueSize THEN Append(results, Head(inFlight))
                  ELSE results
    /\ UNCHANGED <<clientVars, sem, paired, taskVars, sent, stray, frames, broadcasts,
                   replies>>

\* PAIR_STATE_REQUEST: nobody waits for the result of a request.
PairingRequest ==
    /\ ~paired /\ broadcasts < MaxBroadcasts
    /\ broadcasts' = broadcasts + 1
    /\ inFlight' = Append(inFlight, Broadcast)
    /\ stray' = TRUE
    /\ UNCHANGED <<clientVars, sem, paired, taskVars, results, sent, frames, replies>>

\* The pairing is restored from flash or accepted.
Pair ==
    /\ ~paired
    /\ paired' = TRUE
    /\ UNCHANGED <<clientVars, sem, taskVars, driverVars, frames, broadcasts, replies>>

\* on_recv_cb: a frame of the gateway, dropped when the queue is full.
HearReply(type) ==
    /\ replies < MaxReplies
    /\ replies' = replies + 1
    /\ frames' = IF Len(frames) < QueueSize THEN Append(frames, type) ELSE frames
    /\ UNCHANGED <<clientVars, sem, paired, taskVars, driverVars, broadcasts>>

\* recv_task gives the token for every answer it can read.
RecvReply ==
    /\ frames # <<>>
    /\ frames' = Tail(frames)
    /\ sem' = (sem \/ Head(frames) # "NO_SEPARATOR")
    /\ UNCHANGED <<clientVars, paired, taskVars, driverVars, broadcasts, replies>>

Next ==
    \/ ClientStep \/ SendTask \/ ReportResult \/ PairingRequest \/ Pair
    \/ (\E type \in ReplyType : HearReply(type)) \/ RecvReply

Spec == Init /\ [][Next]_vars

\* The scheduler runs every ready task, and the driver reports every frame.
FairSpec ==
    /\ Spec
    /\ WF_vars(SendTask) /\ WF_vars(RecvReply) /\ WF_vars(ReportResult)
    /\ \A c \in Clients : WF_vars(Probe(c) \/ Release(c) \/ Submit(c))

-----------------------------------------------------------------------------
(* What must hold *)

\* The token is missing only while somebody will give it back: the answers that
\* recv_task turns into extra tokens never leave send_task waiting for one.
Sending == sendTask \in {"send", "await", "give"}
TokenHeld == ~sem => Sending \/ \E c \in Clients : client[c] = "took"

\* send_task transmits the accepted messages in the order they were accepted, the
\* frames of one in order and together, whatever it drops for want of a token.
Place(f) == 2 * (CHOOSE k \in 1..Len(accepted) : accepted[k] = f.from) + f.part
FramesInOrder ==
    /\ \A i, j \in 1..Len(sent) : i < j => Place(sent[i]) < Place(sent[j])
    /\ \A i \in 1..Len(sent) : sent[i].part = 2 =>
          i > 1 /\ sent[i - 1] = [sent[i] EXCEPT !.part = 1]

\* A send always ends, with a result, without one, or with somebody else's.
SendEnds == sendTask # "idle" ~> sendTask = "idle"

\* Every client gets past the token that answers and other sends keep moving.
ClientsEnd ==
    \A c \in Clients : <>(client[c] \in {"ok", "not_paired", "full"})

\* "garantiza un solo envio en curso": the driver holds one data frame at a time.
SingleInFlight ==
    \A i, j \in 1..Len(inFlight) :
        inFlight[i] # Broadcast /\ inFlight[j] # Broadcast => i = j

\* That holds until a pairing request or a late result leaves one that nobody takes,
\* although answers give the token while a send holds it and frames are refused.
SingleUnlessStray == ~stray => SingleInFlight

\* Until then the result send_task takes is that of the frame it has just sent.
OwnResult ==
    [][GotResult /\ ~stray => Head(results) = [from |-> req.from, part |-> part]]_vars
=============================================================================
