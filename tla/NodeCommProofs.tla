--------------------------- MODULE NodeCommProofs --------------------------
(* Theorems about NodeComm, for every value of its constants.              *)
EXTENDS NodeComm, SequenceTheorems, TLAPS

-----------------------------------------------------------------------------
(* The token is never lost *)

ClientType == client \in [Clients -> {"probe", "took", "ready", "ok", "not_paired", "full"}]
TokenInv   == ClientType /\ TokenHeld

\* TokenInv is inductive: whoever takes the token is in a state it leaves by
\* giving it, and nobody else's step takes it out of that state.
LEMMA TokenStep ==
    ASSUME TokenInv, [Next]_vars
    PROVE  TokenInv'
  <1> USE DEF TokenInv, ClientType, TokenHeld, Sending, clientVars, taskVars, driverVars
  <1>1. ASSUME NEW c \in Clients, Probe(c) PROVE TokenInv'
    BY <1>1 DEF Probe
  <1>2. ASSUME NEW c \in Clients, Release(c) PROVE TokenInv'
    BY <1>2 DEF Release
  <1>3. ASSUME NEW c \in Clients, Submit(c) PROVE TokenInv'
    <2>1. client' \in [Clients -> {"probe", "took", "ready", "ok", "not_paired", "full"}]
      BY <1>3 DEF Submit
    <2>2. \A b \in Clients : client[b] = "took" => client'[b] = "took"
      BY <1>3 DEF Submit
    <2> QED
      BY <1>3, <2>1, <2>2 DEF Submit
  <1>4. CASE SendTask
    <2>1. CASE NextRequest
      BY <2>1 DEF NextRequest
    <2>2. CASE TakeToken
      BY <2>2 DEF TakeToken
    <2>3. CASE TokenTimeout
      BY <2>3 DEF TokenTimeout
    <2>4. CASE SendFrame
      BY <2>4 DEF SendFrame
    <2>5. CASE GotResult
      BY <2>5 DEF GotResult, Continue
    <2>6. CASE ResultTimeout
      BY <2>6 DEF ResultTimeout, Continue
    <2>7. CASE GiveToken
      BY <2>7 DEF GiveToken
    <2> QED
      BY <1>4, <2>1, <2>2, <2>3, <2>4, <2>5, <2>6, <2>7 DEF SendTask
  <1>5. CASE ReportResult \/ PairingRequest \/ Pair
    BY <1>5 DEF ReportResult, PairingRequest, Pair
  <1>6. ASSUME NEW type \in ReplyType, HearReply(type) PROVE TokenInv'
    BY <1>6 DEF HearReply
  <1>7. CASE RecvReply
    BY <1>7 DEF RecvReply
  <1>8. CASE UNCHANGED vars
    BY <1>8 DEF vars
  <1> QED
    BY <1>1, <1>2, <1>3, <1>4, <1>5, <1>6, <1>7, <1>8 DEF Next, ClientStep

\* Whoever waits for s_send_sem, somebody is about to give it: the 5 s branch of
\* send_task can only be entered while another task is between take and give.
THEOREM TokenCorrect == Spec => []TokenHeld
  <1>1. Init => TokenInv
    BY DEF Init, TokenInv, ClientType, TokenHeld
  <1>2. TokenInv /\ [Next]_vars => TokenInv'
    BY TokenStep
  <1>3. TokenInv => TokenHeld
    BY DEF TokenInv
  <1> QED
    BY <1>1, <1>2, <1>3, PTL DEF Spec

-----------------------------------------------------------------------------
(* One send at a time, until a result comes that nobody waits for *)

Mine == [from |-> req.from, part |-> part]

\* Outside the wait the driver and its result queue are empty; in the wait they
\* hold at most the frame just sent, or its result.
Own ==
    /\ sendTask # "await" => inFlight = <<>> /\ results = <<>>
    /\ sendTask = "await" =>
          \/ inFlight = <<>> /\ results = <<>>
          \/ inFlight = <<Mine>> /\ results = <<>>
          \/ inFlight = <<>> /\ results = <<Mine>>

AwaitInv == ~stray => Own

\* AwaitInv is inductive: what could break it marks the stray result it leaves.
LEMMA AwaitStep ==
    ASSUME AwaitInv, [Next]_vars
    PROVE  AwaitInv' /\ (GotResult /\ ~stray => Head(results) = Mine)
  <1> USE DEF AwaitInv, Own, Mine, clientVars, taskVars, driverVars
  <1>0. CASE stray
    <2>1. stray'
      BY <1>0 DEF Next, ClientStep, SendTask, Probe, Release, Submit, NextRequest, TakeToken,
            TokenTimeout, SendFrame, GotResult, ResultTimeout, GiveToken, ReportResult,
            PairingRequest, Pair, HearReply, RecvReply, vars
    <2> QED
      BY <1>0, <2>1
  <1>1. CASE ~stray /\ ClientStep
    BY <1>1 DEF ClientStep, Probe, Release, Submit, GotResult
  <1>2. CASE ~stray /\ (NextRequest \/ TakeToken \/ TokenTimeout \/ GiveToken)
    BY <1>2 DEF NextRequest, TakeToken, TokenTimeout, GiveToken, GotResult
  <1>3. CASE ~stray /\ SendFrame
    <2>1. inFlight = <<>> /\ results = <<>> /\ req' = req /\ part' = part /\ results' = results
      BY <1>3 DEF SendFrame
    <2>2. inFlight' = <<>> \/ inFlight' = <<Mine>>
      BY <1>3, <2>1 DEF SendFrame
    <2> QED
      BY <1>3, <2>1, <2>2 DEF SendFrame, GotResult
  <1>4. CASE ~stray /\ GotResult
    <2>1. results = <<Mine>> /\ inFlight = <<>>
      BY <1>4 DEF GotResult
    <2>2. Head(results) = Mine /\ Tail(results) = <<>>
      BY <2>1
    <2>3. sendTask' # "await"
      BY <1>4 DEF GotResult, Continue
    <2> QED
      BY <1>4, <2>1, <2>2, <2>3 DEF GotResult
  <1>5. CASE ~stray /\ ResultTimeout
    <2>1. sendTask' # "await" /\ inFlight' = inFlight /\ results' = results /\ results = <<>>
      BY <1>5 DEF ResultTimeout, Continue
    <2>2. inFlight = <<>> \/ stray'
      BY <1>5 DEF ResultTimeout
    <2> QED
      BY <1>5, <2>1, <2>2 DEF ResultTimeout, GotResult
  <1>6. CASE ~stray /\ ReportResult
    <2>1. sendTask = "await" /\ inFlight = <<Mine>> /\ results = <<>>
      BY <1>6 DEF ReportResult
    <2>2. inFlight' = <<>> /\ results' = <<Mine>>
      BY <1>6, <2>1, CommAssumption DEF ReportResult
    <2> QED
      BY <1>6, <2>1, <2>2 DEF ReportResult, GotResult
  <1>7. CASE ~stray /\ PairingRequest
    BY <1>7 DEF PairingRequest, GotResult
  <1>8. CASE ~stray /\ (Pair \/ RecvReply \/ \E type \in ReplyType : HearReply(type))
    BY <1>8 DEF Pair, RecvReply, HearReply, GotResult
  <1>9. CASE ~stray /\ UNCHANGED vars
    BY <1>9 DEF vars, GotResult
  <1> QED
    BY <1>0, <1>1, <1>2, <1>3, <1>4, <1>5, <1>6, <1>7, <1>8, <1>9 DEF Next, SendTask

\* AwaitInv holds in every state.
LEMMA AwaitInvariant == Spec => []AwaitInv
  <1>1. Init => AwaitInv
    BY DEF Init, AwaitInv, Own
  <1>2. AwaitInv /\ [Next]_vars => AwaitInv'
    BY AwaitStep
  <1> QED
    BY <1>1, <1>2, PTL DEF Spec

\* What the comment on the token claims holds until a pairing request or a late result
\* leaves a result nobody takes: no second data frame before the first is reported.
THEOREM SingleCorrect == Spec => []SingleUnlessStray
  <1>1. AwaitInv => SingleUnlessStray
    <2> SUFFICES ASSUME AwaitInv, ~stray PROVE SingleInFlight
      BY DEF SingleUnlessStray
    <2>1. inFlight = <<>> \/ inFlight = <<Mine>>
      BY DEF AwaitInv, Own
    <2>2. CASE inFlight = <<>>
      BY <2>2 DEF SingleInFlight
    <2>3. CASE inFlight = <<Mine>>
      <3>1. 1..Len(inFlight) = {1}
        BY <2>3
      <3> QED
        BY <3>1 DEF SingleInFlight
    <2> QED
      BY <2>1, <2>2, <2>3
  <1> QED
    BY <1>1, AwaitInvariant, PTL

\* Until then the result read is that of the frame just sent.
THEOREM OwnResultCorrect == Spec => OwnResult
  <1>1. AwaitInv /\ [Next]_vars
          => [GotResult /\ ~stray => Head(results) = [from |-> req.from, part |-> part]]_vars
    BY AwaitStep DEF Mine
  <1> QED
    BY <1>1, AwaitInvariant, PTL DEF Spec, OwnResult

-----------------------------------------------------------------------------
(* Types *)

FlagTypes == sem \in BOOLEAN /\ paired \in BOOLEAN /\ stray \in BOOLEAN

\* TypeOK but for the flags; send_task has a request while it is busy, and a frame of it
\* while it sends.
TypeInv ==
    /\ client \in [Clients -> {"probe", "took", "ready", "ok", "not_paired", "full"}]
    /\ requests \in Seq(Request) /\ Len(requests) <= QueueSize
    /\ sendTask \in {"idle", "take", "send", "await", "give"}
    /\ req \in Request \cup {NoRequest} /\ part \in 0..2
    /\ inFlight \in Seq(Data \cup {Broadcast})
    /\ results \in Seq(Data \cup {Broadcast}) /\ Len(results) <= QueueSize
    /\ frames \in Seq(ReplyType) /\ Len(frames) <= QueueSize
    /\ accepted \in Seq(Clients) /\ sent \in Seq(Data)
    /\ broadcasts \in 0..MaxBroadcasts /\ replies \in 0..MaxReplies
    /\ sendTask # "idle" => req \in Request
    /\ sendTask \in {"send", "await"} => part \in 1..req.parts

\* The flags stay flags.
LEMMA FlagStep == FlagTypes /\ [Next]_vars => FlagTypes'
  <1> USE DEF FlagTypes, clientVars, taskVars, driverVars
  <1>1. FlagTypes /\ ClientStep => FlagTypes'
    BY DEF ClientStep, Probe, Release, Submit
  <1>2. FlagTypes /\ SendTask => FlagTypes'
    BY DEF SendTask, NextRequest, TakeToken, TokenTimeout, SendFrame, GotResult, ResultTimeout,
           GiveToken
  <1>3. FlagTypes /\ (ReportResult \/ PairingRequest \/ Pair \/ RecvReply \/ UNCHANGED vars)
          => FlagTypes'
    BY DEF ReportResult, PairingRequest, Pair, RecvReply, vars
  <1>4. ASSUME FlagTypes, NEW type \in ReplyType, HearReply(type) PROVE FlagTypes'
    BY <1>4 DEF HearReply
  <1> QED
    BY <1>1, <1>2, <1>3, <1>4 DEF Next

\* Sequences that lose their first element, or get one more.
LEMMA QueueTypes ==
    ASSUME NEW S, NEW q \in Seq(S)
    PROVE  /\ \A e \in S : Append(q, e) \in Seq(S) /\ Len(Append(q, e)) = Len(q) + 1
           /\ q # <<>> => Head(q) \in S /\ Tail(q) \in Seq(S) /\ Len(Tail(q)) = Len(q) - 1
           /\ Len(q) \in Nat
  OBVIOUS

LEMMA BoundedQueue ==
    ASSUME NEW S, NEW n \in Nat, NEW q \in Seq(S), Len(q) <= n
    PROVE  /\ \A e \in S : Len(q) < n => Append(q, e) \in Seq(S) /\ Len(Append(q, e)) <= n
           /\ q # <<>> => Tail(q) \in Seq(S) /\ Len(Tail(q)) <= n
  OBVIOUS

\* The clients.
LEMMA ClientTypes ==
    ASSUME TypeInv, ClientStep
    PROVE  TypeInv'
  <1> USE DEF TypeInv, clientVars, taskVars, driverVars
  <1>1. PICK c \in Clients : Probe(c) \/ Release(c) \/ Submit(c)
    BY DEF ClientStep
  <1>2. client' \in [Clients -> {"probe", "took", "ready", "ok", "not_paired", "full"}]
    BY <1>1 DEF Probe, Release, Submit
  <1>3. accepted' \in Seq(Clients) /\ requests' \in Seq(Request) /\ Len(requests') <= QueueSize
    <2> DEFINE new == [from |-> c, parts |-> PartsOf[c]]
    <2>1. new \in Request
      BY CommAssumption DEF Request
    <2>2. \/ UNCHANGED <<accepted, requests>>
          \/ accepted' = Append(accepted, c) /\ requests' = Append(requests, new) /\ Len(requests) < QueueSize
      BY <1>1 DEF Probe, Release, Submit
    <2> HIDE DEF new
    <2>3. /\ accepted \in Seq(Clients) /\ requests \in Seq(Request)
          /\ QueueSize \in Nat /\ Len(requests) <= QueueSize
      BY CommAssumption
    <2> HIDE DEF TypeInv
    <2>4. Len(requests) < QueueSize
            => Append(requests, new) \in Seq(Request) /\ Len(Append(requests, new)) <= QueueSize
      BY <2>1, <2>3, BoundedQueue
    <2>5. Append(accepted, c) \in Seq(Clients)
      BY <2>3
    <2> QED
      BY <2>2, <2>3, <2>4, <2>5
  <1>4. UNCHANGED <<taskVars, inFlight, results, sent, frames, broadcasts, replies>>
    BY <1>1 DEF Probe, Release, Submit
  <1> QED
    BY <1>2, <1>3, <1>4

\* send_task.
LEMMA SendTypes ==
    ASSUME TypeInv, SendTask
    PROVE  TypeInv'
  <1> USE DEF TypeInv, clientVars, taskVars, driverVars
  <1>1. CASE NextRequest
    <2>1. Head(requests) \in Request /\ Tail(requests) \in Seq(Request) /\ Len(Tail(requests)) <= QueueSize
      BY <1>1, CommAssumption, QueueTypes DEF NextRequest
    <2> QED
      BY <1>1, <2>1 DEF NextRequest
  <1>2. CASE TakeToken
    <2>1. req \in Request /\ part' = 1 /\ sendTask' = "send"
      BY <1>2 DEF TakeToken
    <2>2. part' \in 1..req.parts
      BY <2>1 DEF Request
    <2> QED
      BY <1>2, <2>1, <2>2 DEF TakeToken
  <1>3. CASE TokenTimeout \/ GiveToken
    BY <1>3 DEF TokenTimeout, GiveToken
  <1>4. CASE SendFrame
    <2> DEFINE f == [from |-> req.from, part |-> part]
    <2>1. f \in Data
      BY <1>4 DEF SendFrame, Request, Data
    <2>2. /\ sent' = Append(sent, f) /\ inFlight' \in {inFlight, Append(inFlight, f)}
          /\ sendTask' = "await" /\ sendTask = "send"
          /\ UNCHANGED <<clientVars, req, part, results, frames, broadcasts, replies>>
      BY <1>4 DEF SendFrame
    <2> HIDE DEF f
    <2>3. f \in Data \cup {Broadcast} /\ inFlight \in Seq(Data \cup {Broadcast}) /\ sent \in Seq(Data)
      BY <2>1
    <2>4. Append(sent, f) \in Seq(Data)
      BY <2>1, <2>3
    <2>5. Append(inFlight, f) \in Seq(Data \cup {Broadcast})
      BY <2>3
    <2> QED
      BY <2>2, <2>4, <2>5
  <1>5. CASE GotResult \/ ResultTimeout
    <2>1. Continue /\ sendTask = "await"
      BY <1>5 DEF GotResult, ResultTimeout
    <2>2. /\ part' \in 0..2 /\ sendTask' \in {"send", "give"}
          /\ sendTask' = "send" => part' \in 1..req.parts
      BY <2>1 DEF Continue, Request
    <2>3. results' = results \/ (results # <<>> /\ results' = Tail(results))
      BY <1>5 DEF GotResult, ResultTimeout
    <2>4. results' \in Seq(Data \cup {Broadcast}) /\ Len(results') <= QueueSize
      <3> DEFINE D == Data \cup {Broadcast}
      <3>1. results \in Seq(D) /\ Len(results) <= QueueSize /\ QueueSize \in Nat
        BY CommAssumption
      <3> HIDE DEF D, TypeInv
      <3>2. results' \in Seq(D) /\ Len(results') <= QueueSize
        BY <2>3, <3>1, BoundedQueue
      <3> QED
        BY <3>2 DEF D
    <2>6. UNCHANGED <<clientVars, req, inFlight, sent, frames, broadcasts, replies>>
      BY <1>5 DEF GotResult, ResultTimeout
    <2> QED
      BY <2>1, <2>2, <2>4, <2>6
  <1> QED
    BY <1>1, <1>2, <1>3, <1>4, <1>5 DEF SendTask

\* The driver, pairing_task and recv_task.
LEMMA OtherTypes ==
    ASSUME TypeInv,
           \/ ReportResult \/ PairingRequest \/ Pair \/ RecvReply
           \/ \E type \in ReplyType : HearReply(type)
    PROVE  TypeInv'
  <1> USE DEF TypeInv, clientVars, taskVars, driverVars
  <1>1. CASE ReportResult
    <2> DEFINE D == Data \cup {Broadcast}
    <2>1. inFlight' \in Seq(D)
      BY <1>1, QueueTypes DEF ReportResult
    <2>2. results' \in Seq(D) /\ Len(results') <= QueueSize
      <3>1. Head(inFlight) \in D
        BY <1>1, QueueTypes DEF ReportResult
      <3>2. \/ results' = results
            \/ Len(results) < QueueSize /\ results' = Append(results, Head(inFlight))
        BY <1>1 DEF ReportResult
      <3>3. results \in Seq(D) /\ Len(results) <= QueueSize /\ QueueSize \in Nat
        BY CommAssumption
      <3> HIDE DEF D, TypeInv
      <3> QED
        BY <3>1, <3>2, <3>3, BoundedQueue
    <2> QED
      BY <1>1, <2>1, <2>2 DEF ReportResult
  <1>2. CASE PairingRequest
    <2>1. inFlight' \in Seq(Data \cup {Broadcast})
      BY <1>2, QueueTypes DEF PairingRequest
    <2>2. broadcasts' \in 0..MaxBroadcasts
      BY <1>2, CommAssumption DEF PairingRequest
    <2> QED
      BY <1>2, <2>1, <2>2 DEF PairingRequest
  <1>3. CASE Pair
    BY <1>3 DEF Pair
  <1>4. CASE RecvReply
    <2>1. frames' \in Seq(ReplyType) /\ Len(frames') <= QueueSize
      BY <1>4, CommAssumption, QueueTypes DEF RecvReply
    <2> QED
      BY <1>4, <2>1 DEF RecvReply
  <1>5. ASSUME NEW type \in ReplyType, HearReply(type) PROVE TypeInv'
    <2>1. frames' \in Seq(ReplyType) /\ Len(frames') <= QueueSize
      BY <1>5, CommAssumption, QueueTypes DEF HearReply
    <2>2. replies' \in 0..MaxReplies
      BY <1>5, CommAssumption DEF HearReply
    <2> QED
      BY <1>5, <2>1, <2>2 DEF HearReply
  <1> QED
    BY <1>1, <1>2, <1>3, <1>4, <1>5

\* TypeInv holds in every state.
LEMMA TypeInvariant == Spec => []TypeInv
  <1>1. Init => TypeInv
    <2> SUFFICES ASSUME Init PROVE TypeInv
      OBVIOUS
    <2>1. \A S : <<>> \in Seq(S) /\ Len(<<>>) = 0
      OBVIOUS
    <2>2. 0 \in 0..MaxBroadcasts /\ 0 \in 0..MaxReplies /\ 0 <= QueueSize
      BY CommAssumption
    <2> QED
      BY <2>1, <2>2 DEF Init, TypeInv
  <1>2. TypeInv /\ [Next]_vars => TypeInv'
    <2>1. TypeInv /\ UNCHANGED vars => TypeInv'
      BY DEF vars, TypeInv, clientVars, taskVars, driverVars
    <2> QED
      BY <2>1, ClientTypes, SendTypes, OtherTypes DEF Next
  <1> QED
    BY <1>1, <1>2, PTL DEF Spec

\* TypeOK, for all constants.
THEOREM TypeCorrect == Spec => []TypeOK
  <1>1. Init => FlagTypes
    BY DEF Init, FlagTypes
  <1>2. TypeInv /\ FlagTypes => TypeOK
    BY DEF TypeInv, FlagTypes, TypeOK
  <1> QED
    BY <1>1, <1>2, FlagStep, TypeInvariant, PTL DEF Spec

-----------------------------------------------------------------------------
(* Frames leave in order *)

\* How many accepted messages send_task has taken out of the queue.
Taken == Len(accepted) - Len(requests)

\* The message at each place of the order of acceptance is another client's; those not
\* taken yet are the queue, and the one taken last is send_task's.
QueueInv ==
    /\ Taken \in Nat
    /\ \A k, l \in 1..Len(accepted) : accepted[k] = accepted[l] => k = l
    /\ \A c \in Clients, k \in 1..Len(accepted) :
          client[c] \in {"probe", "took", "ready"} => accepted[k] # c
    /\ \A i \in 1..Len(requests) : requests[i].from = accepted[Taken + i]
    /\ sendTask # "idle" => Taken >= 1 /\ req.from = accepted[Taken]

\* Frame f comes before frame g.
Behind(f, g) ==
    \A k, l \in 1..Len(accepted) :
        accepted[k] = f.from /\ accepted[l] = g.from
          => k < l \/ (k = l /\ f.part < g.part)

InOrder == \A i, j \in 1..Len(sent) : i < j => Behind(sent[i], sent[j])

\* Nothing of a request has been sent before its turn, and of the one send_task is
\* sending the frames before this one, the last of them just now.
SentInv ==
    /\ \A i \in 1..Len(sent) : \E k \in 1..Taken : accepted[k] = sent[i].from
    /\ sendTask = "take" => \A i \in 1..Len(sent) : sent[i].from # req.from
    /\ sendTask = "send" =>
          /\ \A i \in 1..Len(sent) : sent[i].from = req.from => sent[i].part < part
          /\ part = 2 => sent # <<>> /\ sent[Len(sent)] = [from |-> req.from, part |-> 1]
    /\ sendTask = "await" =>
          /\ \A i \in 1..Len(sent) : sent[i].from = req.from => sent[i].part <= part
          /\ sent # <<>> /\ sent[Len(sent)] = [from |-> req.from, part |-> part]
    /\ InOrder
    /\ \A i \in 1..Len(sent) : sent[i].part = 2 =>
          i > 1 /\ sent[i - 1] = [sent[i] EXCEPT !.part = 1]

\* The elements of a sequence that loses its first element, or gets one more.
LEMMA Elements ==
    ASSUME NEW S, NEW q \in Seq(S)
    PROVE  /\ \A e \in S : /\ Len(Append(q, e)) = Len(q) + 1
                           /\ \A i \in 1..Len(q) : Append(q, e)[i] = q[i]
                           /\ Append(q, e)[Len(q) + 1] = e
           /\ q # <<>> => /\ Len(Tail(q)) = Len(q) - 1 /\ Len(q) >= 1 /\ Head(q) = q[1]
                          /\ \A i \in 1..Len(Tail(q)) : Tail(q)[i] = q[i + 1]
           /\ Len(q) \in Nat /\ \A i \in 1..Len(q) : q[i] \in S
  OBVIOUS

\* A message is accepted behind all that were.
LEMMA ClientOrder ==
    ASSUME TypeInv, QueueInv, SentInv, ClientStep
    PROVE  QueueInv' /\ SentInv'
  <1>1. PICK c \in Clients : Probe(c) \/ Release(c) \/ Submit(c)
    BY DEF ClientStep
  <1>2. UNCHANGED <<sendTask, req, part, sent>>
    BY <1>1 DEF Probe, Release, Submit, taskVars, driverVars
  <1>3. /\ client \in [Clients -> {"probe", "took", "ready", "ok", "not_paired", "full"}]
        /\ accepted \in Seq(Clients) /\ requests \in Seq(Request) /\ sent \in Seq(Data)
    BY DEF TypeInv
  <1>4. CASE UNCHANGED <<accepted, requests>>
    <2>1. \A b \in Clients : client'[b] \in {"probe", "took", "ready"}
                               => client[b] \in {"probe", "took", "ready"}
      BY <1>1, <1>3 DEF Probe, Release, Submit
    <2>2. Taken' = Taken
      BY <1>4 DEF Taken
    <2>3. QueueInv'
      BY <1>2, <1>4, <2>1, <2>2 DEF QueueInv
    <2> QED
      BY <1>2, <1>4, <2>2, <2>3 DEF SentInv, InOrder, Behind
  <1>5. CASE ~UNCHANGED <<accepted, requests>>
    <2> DEFINE new == [from |-> c, parts |-> PartsOf[c]]
    <2>1. /\ accepted' = Append(accepted, c) /\ requests' = Append(requests, new)
          /\ client' = [client EXCEPT ![c] = "ok"] /\ client[c] = "ready"
      BY <1>1, <1>5 DEF Probe, Release, Submit
    <2>2. new \in Request /\ new.from = c
      BY CommAssumption DEF Request
    <2> HIDE DEF new
    <2>3. /\ Len(accepted') = Len(accepted) + 1 /\ accepted'[Len(accepted) + 1] = c
          /\ \A k \in 1..Len(accepted) : accepted'[k] = accepted[k]
          /\ Len(accepted) \in Nat
      BY <1>3, <2>1, Elements
    <2>4. /\ Len(requests') = Len(requests) + 1 /\ requests'[Len(requests) + 1].from = c
          /\ \A k \in 1..Len(requests) : requests'[k] = requests[k]
          /\ Len(requests) \in Nat
      BY <1>3, <2>1, <2>2, Elements
    <2>5. Taken' = Taken /\ Taken \in Nat /\ Len(accepted) = Taken + Len(requests)
      BY <2>3, <2>4 DEF Taken, QueueInv
    <2>6. \A k \in 1..Len(accepted) : accepted[k] # c
      BY <2>1 DEF QueueInv
    <2>7. \A b \in Clients : client'[b] \in {"probe", "took", "ready"}
                               => b # c /\ client[b] \in {"probe", "took", "ready"}
      BY <1>3, <2>1
    <2>8. \A k, l \in 1..Len(accepted') : accepted'[k] = accepted'[l] => k = l
      BY <2>3, <2>6 DEF QueueInv
    <2>9. \A b \in Clients, k \in 1..Len(accepted') :
             client'[b] \in {"probe", "took", "ready"} => accepted'[k] # b
      BY <2>3, <2>7 DEF QueueInv
    <2>10. \A i \in 1..Len(requests') : requests'[i].from = accepted'[Taken' + i]
      <3> SUFFICES ASSUME NEW i \in 1..Len(requests')
                   PROVE  requests'[i].from = accepted'[Taken + i]
        BY <2>5
      <3>1. CASE i \in 1..Len(requests)
        <4>1. Taken + i \in 1..Len(accepted)
          BY <2>3, <2>4, <2>5, <3>1
        <4> QED
          BY <2>3, <2>4, <3>1, <4>1 DEF QueueInv
      <3>2. CASE i = Len(requests) + 1
        <4>1. Taken + i = Len(accepted) + 1
          BY <2>3, <2>4, <2>5, <3>2
        <4> QED
          BY <2>3, <2>4, <3>2, <4>1
      <3> QED
        BY <2>4, <3>1, <3>2
    <2>11. sendTask' # "idle" => Taken' >= 1 /\ req'.from = accepted'[Taken']
      BY <1>2, <2>3, <2>4, <2>5 DEF QueueInv
    <2>12. QueueInv'
      BY <2>5, <2>8, <2>9, <2>10, <2>11 DEF QueueInv
    <2>13. \A i \in 1..Len(sent') : \E k \in 1..Taken' : accepted'[k] = sent'[i].from
      <3> SUFFICES ASSUME NEW i \in 1..Len(sent)
                   PROVE  \E k \in 1..Taken : accepted'[k] = sent[i].from
        BY <1>2, <2>5
      <3>1. PICK k \in 1..Taken : accepted[k] = sent[i].from
        BY DEF SentInv
      <3>2. k \in 1..Len(accepted)
        BY <2>4, <2>5
      <3> QED
        BY <2>3, <3>1, <3>2
    <2>14. InOrder'
      <3> SUFFICES ASSUME NEW i \in 1..Len(sent), NEW j \in 1..Len(sent), i < j,
                          NEW k \in 1..Len(accepted'), NEW l \in 1..Len(accepted'),
                          accepted'[k] = sent[i].from, accepted'[l] = sent[j].from
                   PROVE  k < l \/ (k = l /\ sent[i].part < sent[j].part)
        BY <1>2 DEF InOrder, Behind
      <3>1. sent[i].from # c /\ sent[j].from # c
        BY <2>4, <2>5, <2>6 DEF SentInv
      <3>2. k \in 1..Len(accepted) /\ l \in 1..Len(accepted)
        BY <2>3, <3>1
      <3> QED
        BY <2>3, <3>2 DEF SentInv, InOrder, Behind
    <2>15. SentInv'
      BY <1>2, <2>13, <2>14 DEF SentInv
    <2> QED
      BY <2>12, <2>15
  <1> QED
    BY <1>4, <1>5

\* send_task takes the next message, and sends what is next of it.
LEMMA SendOrder ==
    ASSUME TypeInv, QueueInv, SentInv, SendTask
    PROVE  QueueInv' /\ SentInv'
  <1>0. /\ accepted \in Seq(Clients) /\ requests \in Seq(Request) /\ sent \in Seq(Data)
        /\ sendTask # "idle" => req \in Request
        /\ sendTask \in {"send", "await"} => part \in 1..req.parts
    BY DEF TypeInv
  <1>1. UNCHANGED <<client, accepted>>
    BY DEF SendTask, NextRequest, TakeToken, TokenTimeout, SendFrame, GotResult, ResultTimeout,
           GiveToken, clientVars
  <1>2. CASE NextRequest
    <2>1. /\ requests # <<>> /\ req' = Head(requests) /\ requests' = Tail(requests)
          /\ sendTask = "idle" /\ sendTask' = "take" /\ sent' = sent
      BY <1>2 DEF NextRequest, driverVars
    <2>2. /\ Len(requests') = Len(requests) - 1 /\ Len(requests) >= 1 /\ req' = requests[1]
          /\ \A i \in 1..Len(requests') : requests'[i] = requests[i + 1]
          /\ Len(requests) \in Nat
      BY <1>0, <2>1, Elements
    <2>3. Taken' = Taken + 1 /\ Taken \in Nat /\ Taken + 1 \in 1..Len(accepted)
      BY <1>0, <1>1, <2>2 DEF Taken, QueueInv
    <2>4. req'.from = accepted[Taken + 1]
      BY <2>2 DEF QueueInv
    <2>5. \A i \in 1..Len(requests') : requests'[i].from = accepted'[Taken' + i]
      BY <1>1, <2>2, <2>3 DEF QueueInv
    <2>6. QueueInv'
      BY <1>1, <2>1, <2>3, <2>4, <2>5 DEF QueueInv
    <2>7. \A i \in 1..Len(sent) : sent[i].from # req'.from
      BY <2>3, <2>4 DEF SentInv, QueueInv
    <2>8. \A i \in 1..Len(sent) : \E k \in 1..Taken' : accepted'[k] = sent[i].from
      BY <1>1, <2>3 DEF SentInv
    <2>9. SentInv'
      BY <1>1, <2>1, <2>7, <2>8 DEF SentInv, InOrder, Behind
    <2> QED
      BY <2>6, <2>9
  <1>3. CASE ~NextRequest /\ ~SendFrame
    <2>1. /\ UNCHANGED <<requests, sent>> /\ sendTask # "idle"
          /\ sendTask' # "idle" => req' = req
      BY <1>3 DEF SendTask, TakeToken, TokenTimeout, GotResult, ResultTimeout, GiveToken,
                  Continue, clientVars, driverVars, taskVars
    <2>2. Taken' = Taken
      BY <1>1, <2>1 DEF Taken
    <2>3. QueueInv'
      BY <1>1, <2>1, <2>2 DEF QueueInv
    <2>4. \/ sendTask' \in {"idle", "give"}
          \/ sendTask = "take" /\ sendTask' = "send" /\ part' = 1
          \/ sendTask = "await" /\ sendTask' = "send" /\ part' = part + 1
      BY <1>3 DEF SendTask, TakeToken, TokenTimeout, GotResult, ResultTimeout, GiveToken, Continue
    <2>5. \A i \in 1..Len(sent) : sent[i] \in Data
      BY <1>0, Elements
    <2>6. sendTask' = "send" =>
             /\ \A i \in 1..Len(sent) : sent[i].from = req.from => sent[i].part < part'
             /\ part' = 2 => sent # <<>> /\ sent[Len(sent)] = [from |-> req.from, part |-> 1]
      <3>1. CASE sendTask = "take" /\ part' = 1
        BY <3>1 DEF SentInv
      <3>2. CASE sendTask = "await" /\ part' = part + 1
        <4>1. part \in 1..2
          BY <1>0, <3>2 DEF Request
        <4> QED
          BY <2>5, <3>2, <4>1 DEF SentInv, Data
      <3> QED
        BY <2>4, <3>1, <3>2
    <2>7. SentInv'
      BY <1>1, <2>1, <2>2, <2>4, <2>6 DEF SentInv, InOrder, Behind
    <2> QED
      BY <2>3, <2>7
  <1>4. CASE SendFrame
    <2> DEFINE f == [from |-> req.from, part |-> part]
    <2>1. /\ sent' = Append(sent, f) /\ sendTask = "send" /\ sendTask' = "await"
          /\ UNCHANGED <<requests, req, part>>
      BY <1>4 DEF SendFrame, clientVars
    <2>2. f \in Data /\ f.from = req.from /\ f.part = part /\ part \in 1..2 /\ req.from \in Clients
      BY <1>0, <2>1 DEF Request, Data
    <2>3. f = [from |-> req.from, part |-> part]
      OBVIOUS
    <2> HIDE DEF f
    <2>4. /\ Len(sent') = Len(sent) + 1 /\ sent'[Len(sent) + 1] = f /\ Len(sent) \in Nat
          /\ \A i \in 1..Len(sent) : sent'[i] = sent[i] /\ sent[i] \in Data
      BY <1>0, <2>1, <2>2, Elements
    <2>5. Taken' = Taken /\ Taken \in 1..Len(accepted) /\ req.from = accepted[Taken]
      BY <1>0, <1>1, <2>1, Elements DEF Taken, QueueInv
    <2>6. QueueInv'
      BY <1>1, <2>1, <2>5 DEF QueueInv
    <2>7. \A i \in 1..Len(sent') : \E k \in 1..Taken' : accepted'[k] = sent'[i].from
      BY <1>1, <2>2, <2>4, <2>5 DEF SentInv
    <2>8. \A i \in 1..Len(sent') : sent'[i].from = req'.from => sent'[i].part <= part'
      BY <2>1, <2>2, <2>4 DEF SentInv, Data
    <2>9. sent' # <<>> /\ sent'[Len(sent')] = [from |-> req'.from, part |-> part']
      BY <2>1, <2>3, <2>4
    <2>10. InOrder'
      <3> SUFFICES ASSUME NEW i \in 1..Len(sent'), NEW j \in 1..Len(sent'), i < j,
                          NEW k \in 1..Len(accepted), NEW l \in 1..Len(accepted),
                          accepted[k] = sent'[i].from, accepted[l] = sent'[j].from
                   PROVE  k < l \/ (k = l /\ sent'[i].part < sent'[j].part)
        BY <1>1 DEF InOrder, Behind
      <3>1. i \in 1..Len(sent) /\ sent'[i] = sent[i]
        BY <2>4
      <3>2. CASE j \in 1..Len(sent)
        BY <2>4, <3>1, <3>2 DEF SentInv, InOrder, Behind
      <3>3. CASE j = Len(sent) + 1
        <4>1. sent'[j] = f
          BY <2>4, <3>3
        <4>2. l = Taken
          BY <2>2, <2>5, <4>1 DEF QueueInv
        <4>3. PICK m \in 1..Taken : accepted[m] = sent[i].from
          BY <3>1 DEF SentInv
        <4>4. k = m
          BY <2>5, <3>1, <4>3 DEF QueueInv
        <4>5. k = l => sent[i].part < part
          BY <2>1, <2>5, <3>1, <4>2 DEF SentInv
        <4> QED
          BY <2>2, <2>5, <3>1, <4>1, <4>2, <4>4, <4>5
      <3> QED
        BY <2>4, <3>2, <3>3
    <2>11. \A i \in 1..Len(sent') : sent'[i].part = 2 =>
              i > 1 /\ sent'[i - 1] = [sent'[i] EXCEPT !.part = 1]
      <3> SUFFICES ASSUME NEW i \in 1..Len(sent'), sent'[i].part = 2
                   PROVE  i > 1 /\ sent'[i - 1] = [sent'[i] EXCEPT !.part = 1]
        OBVIOUS
      <3>1. CASE i \in 1..Len(sent)
        <4>1. sent[i].part = 2
          BY <2>4, <3>1
        <4>2. i > 1 /\ sent[i - 1] = [sent[i] EXCEPT !.part = 1]
          BY <3>1, <4>1 DEF SentInv
        <4>3. sent'[i - 1] = sent[i - 1] /\ sent'[i] = sent[i]
          BY <2>4, <3>1, <4>2
        <4> QED
          BY <4>2, <4>3
      <3>2. CASE i = Len(sent) + 1
        <4>1. sent'[i] = f /\ part = 2
          BY <2>2, <2>4, <3>2
        <4>2. sent # <<>> /\ sent[Len(sent)] = [from |-> req.from, part |-> 1]
          BY <2>1, <4>1 DEF SentInv
        <4>3. Len(sent) >= 1
          BY <1>0, <4>2, Elements
        <4>4. [f EXCEPT !.part = 1] = [from |-> req.from, part |-> 1]
          BY DEF f
        <4> QED
          BY <2>4, <3>2, <4>1, <4>2, <4>3, <4>4
      <3> QED
        BY <2>4, <3>1, <3>2
    <2>12. SentInv'
      BY <2>1, <2>7, <2>8, <2>9, <2>10, <2>11 DEF SentInv
    <2> QED
      BY <2>6, <2>12
  <1> QED
    BY <1>2, <1>3, <1>4

\* FramesInOrder, for all constants: whatever is dropped, refused or late, send_task sends
\* the messages in the order espnow_send accepted them, and their frames together.
THEOREM OrderCorrect == Spec => []FramesInOrder
  <1>1. Init => QueueInv /\ SentInv
    <2> SUFFICES ASSUME Init PROVE QueueInv /\ SentInv
      OBVIOUS
    <2>1. accepted = <<>> /\ requests = <<>> /\ sent = <<>> /\ sendTask = "idle"
      BY DEF Init
    <2>2. Len(<<>>) = 0 /\ 1..0 = {}
      OBVIOUS
    <2> QED
      BY <2>1, <2>2 DEF QueueInv, SentInv, InOrder, Taken
  <1>2. TypeInv /\ QueueInv /\ SentInv /\ [Next]_vars => QueueInv' /\ SentInv'
    <2> SUFFICES ASSUME TypeInv, QueueInv, SentInv, [Next]_vars
                 PROVE  QueueInv' /\ SentInv'
      OBVIOUS
    <2>1. CASE UNCHANGED <<client, requests, accepted, sendTask, req, part, sent>>
      <3>1. Taken' = Taken
        BY <2>1 DEF Taken
      <3> QED
        BY <2>1, <3>1 DEF QueueInv, SentInv, InOrder, Behind
    <2>2. \/ ClientStep \/ SendTask
          \/ UNCHANGED <<client, requests, accepted, sendTask, req, part, sent>>
      BY DEF Next, ReportResult, PairingRequest, Pair, RecvReply, HearReply, vars, clientVars,
             taskVars, driverVars
    <2> QED
      BY <2>1, <2>2, ClientOrder, SendOrder
  <1>3. TypeInv /\ QueueInv /\ SentInv => FramesInOrder
    <2> SUFFICES ASSUME TypeInv, QueueInv, SentInv,
                        NEW i \in 1..Len(sent), NEW j \in 1..Len(sent), i < j
                 PROVE  Place(sent[i]) < Place(sent[j])
      BY DEF FramesInOrder, SentInv
    <2> DEFINE k == CHOOSE n \in 1..Len(accepted) : accepted[n] = sent[i].from
               l == CHOOSE n \in 1..Len(accepted) : accepted[n] = sent[j].from
    <2>1. /\ accepted \in Seq(Clients) /\ requests \in Seq(Request)
          /\ sent[i] \in Data /\ sent[j] \in Data
      BY Elements DEF TypeInv
    <2>2. Taken <= Len(accepted) /\ Taken \in Nat /\ Len(accepted) \in Nat
      BY <2>1 DEF Taken, QueueInv
    <2>3. /\ \E n \in 1..Len(accepted) : accepted[n] = sent[i].from
          /\ \E n \in 1..Len(accepted) : accepted[n] = sent[j].from
      <3>1. 1..Taken \subseteq 1..Len(accepted)
        BY <2>2
      <3> QED
        BY <3>1 DEF SentInv
    <2>4. /\ k \in 1..Len(accepted) /\ accepted[k] = sent[i].from
          /\ l \in 1..Len(accepted) /\ accepted[l] = sent[j].from
      BY <2>3
    <2>5. Place(sent[i]) = 2 * k + sent[i].part /\ Place(sent[j]) = 2 * l + sent[j].part
      BY DEF Place
    <2>6. sent[i].part \in 1..2 /\ sent[j].part \in 1..2
      BY <2>1 DEF Data
    <2> HIDE DEF k, l
    <2>7. k < l \/ (k = l /\ sent[i].part < sent[j].part)
      BY <2>4 DEF SentInv, InOrder, Behind
    <2> QED
      BY <2>2, <2>4, <2>5, <2>6, <2>7
  <1> QED
    BY <1>1, <1>2, <1>3, TypeInvariant, PTL DEF Spec
=============================================================================
