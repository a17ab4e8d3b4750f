----------------------------- MODULE OtaProofs -----------------------------
(***************************************************************************)
(* Theorems about Ota, for any number of ota tasks and images: the types,  *)
(* which images the node boots, and when a connection is given up.         *)
(***************************************************************************)
EXTENDS Ota, FiniteSetTheorems, TLAPS

-----------------------------------------------------------------------------
(* Only accepted images: two tasks write the same partition, so that the   *)
(* check must cover what either of them puts there.                        *)

\* The part of the types the argument needs.
FlashTypes ==
    /\ ota \in [Tasks -> Place] /\ offered \in [Tasks -> Images \cup {None}]
    /\ spare \in [image : Images \cup {None}, whole : BOOLEAN]

\* What the header check has made sure of.
Accepted(i) == i.secure >= HwSecure /\ (i.version # running.version \/ i \in uncompared)

\* A task past the header holds an image that was accepted. So does the spare
\* partition while a task writes to it, and when it is the one to boot and whole;
\* else it may hold any older image.
AcceptedInv ==
    /\ FlashTypes
    /\ \A t \in Tasks : ota[t] \in {"download", "writing", "finish"}
                          => offered[t] \in Images /\ Accepted(offered[t])
    /\ \A t \in Tasks : ota[t] = "header" => offered[t] \in Images
    /\ (boot = "spare" /\ spare.whole) \/ (\E t \in Tasks : ota[t] \in {"writing", "finish"})
         => spare.image = None \/ Accepted(spare.image)
    /\ spare.whole => spare.image # None
    /\ running \in Images /\ uncompared \subseteq Images

\* Initially nothing has been downloaded.
LEMMA AcceptedInit == Init => AcceptedInv
  BY OtaAssumption DEF Init, AcceptedInv, FlashTypes, Erased, Place

\* A reset leaves no task. If it changes the image, the old one is in the spare
\* partition and not the one to boot.
LEMMA ResetAccepted == AcceptedInv /\ Reset => AcceptedInv'
<1> SUFFICES ASSUME AcceptedInv, Reset
             PROVE  AcceptedInv'
  OBVIOUS
<1>1. /\ ota' = [t \in Tasks |-> "none"]
      /\ offered' = [t \in Tasks |-> None] /\ uncompared' = {}
  BY DEF Reset
<1>2. CASE Updated
  <2>1. /\ spare' = [image |-> running, whole |-> TRUE] /\ boot' = "running"
        /\ running' = spare.image
    BY <1>2 DEF Reset, NextImage
  <2>2. running \in Images /\ spare.image \in Images /\ None \notin Images
    BY <1>2, OtaAssumption DEF Updated, AcceptedInv, FlashTypes
  <2> QED  BY <1>1, <2>1, <2>2 DEF AcceptedInv, FlashTypes, Place
<1>3. CASE ~Updated
  <2>1. UNCHANGED <<spare, boot, running>> /\ ~(boot = "spare" /\ spare.whole)
    BY <1>3 DEF Reset, NextImage, Updated
  <2> QED  BY <1>1, <2>1 DEF AcceptedInv, FlashTypes, Accepted, Place
<1> QED  BY <1>2, <1>3

\* A step that moves a task outside the download and leaves flash and the
\* connections alone keeps the invariant.
LEMMA ElsewhereAccepted ==
    ASSUME AcceptedInv, flashVars' = flashVars, NEW t \in Tasks, NEW place \in Place,
           place \notin {"download", "writing", "finish", "header"}, Goto(t, place)
    PROVE  AcceptedInv'
  BY DEF AcceptedInv, FlashTypes, Goto, flashVars, Accepted

\* The connection's steps and those of the event handlers touch nothing of it.
LEMMA ConnectionAccepted ==
    ASSUME AcceptedInv,
           \/ \E t \in Tasks : Update(t) \/ ConnectSta(t)
           \/ Handlers
    PROVE  AcceptedInv'
<1>1. CASE \E t \in Tasks : Update(t)
  BY <1>1, ElsewhereAccepted DEF Place, Update
<1>2. CASE \E t \in Tasks : ConnectSta(t)
  <2> PICK t \in Tasks : ConnectSta(t)
    BY <1>2
  <2>1. CASE CreateGroup(t)
    BY <2>1, ElsewhereAccepted DEF Place, CreateGroup
  <2>2. CASE Configure(t)
    BY <2>2, ElsewhereAccepted, ResetAccepted DEF Place, Configure
  <2>3. CASE WaitBits(t)
    BY <2>3, ElsewhereAccepted, ResetAccepted DEF Place, WaitBits
  <2>4. CASE Wake(t)
    BY <2>4, ElsewhereAccepted DEF Place, Wake
  <2>5. CASE DeleteGroup(t)
    <3>1. CASE "connected" \in result[t] /\ ~Reset
      BY <2>5, <3>1, ElsewhereAccepted DEF Place, DeleteGroup
    <3>2. CASE "connected" \notin result[t] /\ ~Reset
      BY <2>5, <3>2, ElsewhereAccepted DEF Place, DeleteGroup
    <3> QED  BY <3>1, <3>2, ResetAccepted
  <2> QED  BY <2>1, <2>2, <2>3, <2>4, <2>5 DEF ConnectSta
<1>3. CASE Handlers
  <2>1. CASE Reset
    BY <2>1, ResetAccepted
  <2>2. CASE UNCHANGED <<ota, flashVars>>
    BY <2>2 DEF AcceptedInv, FlashTypes, flashVars, Accepted
  <2> QED  BY <1>3, <2>1, <2>2 DEF Handlers, StaStart, StaDisconnected, FailureAsserts,
                                   GotIp, IpAsserts
<1> QED  BY <1>1, <1>2, <1>3

\* The download puts into flash what the header check let through.
LEMMA DownloadAccepted ==
    ASSUME AcceptedInv, NEW t \in Tasks, Download(t)
    PROVE  AcceptedInv'
<1>1. CASE Fail(t) \/ Restart(t)
  BY <1>1, ResetAccepted DEF Fail, Restart
<1>2. CASE Begin(t)
  BY <1>2, OtaAssumption DEF Begin, Goto, Place, AcceptedInv, FlashTypes, Accepted
<1>3. CASE ValidateHeader(t)
  <2>1. offered[t] \in Images /\ UNCHANGED <<offered, spare, boot, running>>
    BY <1>3 DEF ValidateHeader, AcceptedInv
  <2>2. /\ uncompared \subseteq uncompared' /\ uncompared' \subseteq Images
        /\ \A i : Accepted(i) => Accepted(i)'
    BY <1>3, <2>1 DEF ValidateHeader, AcceptedInv, Accepted
  <2>3. CASE Goto(t, "restart")
    BY <2>1, <2>2, <2>3 DEF Goto, Place, AcceptedInv, FlashTypes
  <2>4. CASE Goto(t, "download") /\ Accepted(offered[t])'
    BY <2>1, <2>2, <2>4 DEF Goto, Place, AcceptedInv, FlashTypes
  <2>5. ASSUME ~Goto(t, "restart")
        PROVE  Goto(t, "download") /\ Accepted(offered[t])'
    BY <1>3, <2>1, <2>5 DEF ValidateHeader, Acceptable, Accepted
  <2> QED  BY <2>3, <2>4, <2>5
<1>4. CASE Perform(t)
  BY <1>4, OtaAssumption DEF Perform, Goto, Place, AcceptedInv, FlashTypes, Accepted
<1>5. CASE Complete(t)
  BY <1>5, OtaAssumption DEF Complete, Goto, Place, AcceptedInv, FlashTypes, Accepted, Erased
<1>6. CASE Incomplete(t)
  BY <1>6, ElsewhereAccepted DEF Place, Incomplete
<1>7. CASE Finish(t)
  BY <1>7 DEF Finish, Goto, Place, AcceptedInv, FlashTypes, Accepted
<1> QED  BY <1>1, <1>2, <1>3, <1>4, <1>5, <1>6, <1>7 DEF Download

\* AcceptedInv holds in every state.
LEMMA AcceptedInvariant == Spec => []AcceptedInv
<1>1. AcceptedInv /\ [Next]_vars => AcceptedInv'
  <2> SUFFICES ASSUME AcceptedInv, [Next]_vars
               PROVE  AcceptedInv'
    OBVIOUS
  <2>1. CASE UNCHANGED vars
    BY <2>1 DEF vars, flashVars, AcceptedInv, FlashTypes, Accepted
  <2>2. CASE PowerLoss
    BY <2>2, ResetAccepted DEF PowerLoss
  <2>3. CASE \E t \in Tasks : Download(t)
    BY <2>3, DownloadAccepted
  <2> QED  BY <2>1, <2>2, <2>3, ConnectionAccepted DEF Next
<1> QED  BY AcceptedInit, <1>1, PTL DEF Spec

\* OnlyAccepted, for all constants: espnow_ota_start never makes the node boot an
\* image below the secure version of the fuses, nor one of the version it runs unless
\* validate_image_header let it through without reading that version.
THEOREM AcceptedCorrect == Spec => []OnlyAccepted
<1>1. AcceptedInv => OnlyAccepted
  BY DEF AcceptedInv, FlashTypes, OnlyAccepted, Accepted, Updated, NextImage
<1> QED  BY AcceptedInvariant, <1>1, PTL

-----------------------------------------------------------------------------
(* Types, and a connection is given up after all its retries *)

\* The tasks that have registered the handler: nothing but a reset undoes it.
Past == {t \in Tasks : ota[t] \notin {"none", "create", "configure"}}

\* The places a task reaches by deleting a group.
AfterDelete == {"begin", "header", "download", "writing", "finish", "failed", "restart"}

\* A task whose wait ended without a connection.
Lost(t) == ota[t] = "failed" \/ (ota[t] = "delete" /\ "connected" \notin result[t])

\* The station has failed once more than it retries, and stays down.
Given == sta = "given_up" /\ drops = MaxRetry + 1

\* A waiting task waits on a group, and the registrations are counted.
CountInv ==
    /\ TypeOK
    /\ handlers = Cardinality(Past)
    /\ \A t \in Tasks : ota[t] = "waiting" => waitsOn[t] \in Tasks

\* Without a handler nothing has happened; with one, a retry is a disconnection, and the
\* failure bit is set only when the station is given up. A group is deleted only by a
\* task that is past it, so that the one task there is has not lost its own.
GiveUpInv ==
    /\ handlers = 0 => sta = "espnow" /\ retries = 0 /\ \A g \in Tasks : "fail" \notin bits[g]
    /\ handlers = 1 =>
          /\ drops >= retries
          /\ \A g \in Tasks : "fail" \in bits[g] => Given
          /\ \A t \in Tasks : Lost(t) => Given
    /\ deleted # {} => \E u \in Tasks : ota[u] \in AfterDelete

OtaInv == CountInv /\ GiveUpInv

\* As many registrations as tasks past theirs.
LEMMA PastCounted ==
    ASSUME NEW S \in SUBSET Tasks
    PROVE  /\ IsFiniteSet(S) /\ Cardinality(S) \in 0..Cardinality(Tasks)
           /\ Cardinality(S) = 0 => S = {}
           /\ \A t, u \in S : Cardinality(S) = 1 => t = u
<1>1. IsFiniteSet(Tasks)
  BY OtaAssumption
<1>2. IsFiniteSet(S) /\ Cardinality(S) <= Cardinality(Tasks)
  BY <1>1, FS_Subset
<1>3. Cardinality(S) \in Nat /\ Cardinality(Tasks) \in Nat
  BY <1>1, <1>2, FS_CardinalityType
<1>4. Cardinality(S) = 0 => S = {}
  BY <1>2, FS_EmptySet
<1>5. Cardinality(S) = 1 => \E x : S = {x}
  BY <1>2, FS_Singleton
<1> QED  BY <1>2, <1>3, <1>4, <1>5

\* Nothing is registered and nothing has been tried.
LEMMA NoTask ==
    ASSUME TypeOK', ota' = [t \in Tasks |-> "none"], bits' = [t \in Tasks |-> {}],
           deleted' = {}, retries' = 0, handlers' = 0, sta' = "espnow"
    PROVE  OtaInv'
<1>1. Past' = {}
  BY DEF Past
<1>2. Cardinality(Past') = 0
  BY <1>1, FS_EmptySet
<1> QED  BY <1>2 DEF OtaInv, CountInv, GiveUpInv

\* After a reset as well.
LEMMA ResetInv ==
    ASSUME OtaInv, AcceptedInv', Reset
    PROVE  OtaInv'
<1>1. TypeOK
  BY DEF OtaInv, CountInv
<1>2. boot' \in {"running", "spare"}
  BY <1>1 DEF Reset, TypeOK
<1>3. /\ 0 \in 0..MaxRetry /\ 0 \in 0..(MaxRetry + 1) /\ 0 \in 0..Cardinality(Tasks)
      /\ None \in Tasks \cup {None}
  BY OtaAssumption, FS_CardinalityType
<1>4. TypeOK'
  BY <1>1, <1>2, <1>3 DEF Reset, TypeOK, AcceptedInv, FlashTypes
<1> QED  BY <1>4, NoTask DEF Reset

\* A task that registers nothing leaves the number of registrations.
LEMMA PastKept ==
    ASSUME TypeOK, NEW t \in Tasks, NEW place \in Place, Goto(t, place),
           ota[t] \in {"none", "create", "configure"}
             <=> place \in {"none", "create", "configure"}
    PROVE  Past' = Past
  BY DEF Past, TypeOK, Goto

\* Steps of the download, which touch neither the groups nor the station.
LEMMA DownloadInv ==
    ASSUME OtaInv, AcceptedInv', NEW t \in Tasks, Download(t)
    PROVE  OtaInv'
<1> USE DEF OtaInv, CountInv
<1>1. CASE Reset
  BY <1>1, ResetInv
<1>2. CASE ~Reset
  <2>1. PICK place \in AfterDelete \ {"failed"} :
             ota[t] \in AfterDelete /\ ota' = [ota EXCEPT ![t] = place]
    BY <1>2 DEF Download, Fail, Begin, ValidateHeader, Perform, Complete, Incomplete, Finish,
                Restart, Goto, AfterDelete
  <2>2. UNCHANGED <<groupVars, wifiVars, requests>> /\ boot' \in {boot, "spare"}
    BY <1>2 DEF Download, Fail, Begin, ValidateHeader, Perform, Complete, Incomplete, Finish,
                Restart, flashVars
  <2>3. TypeOK'
    BY <2>2 DEF TypeOK, AcceptedInv, FlashTypes, groupVars, wifiVars
  <2>4. Past' = Past
    BY <2>1, PastKept DEF AfterDelete, Place, Goto
  <2>5. \A u \in Tasks : ota'[u] = "waiting" => ota[u] = "waiting"
    BY <2>1 DEF AfterDelete, TypeOK
  <2>6. \A u \in Tasks : Lost(u)' => Lost(u)
    BY <2>1, <2>2 DEF AfterDelete, TypeOK, Lost, groupVars
  <2>7. ota'[t] \in AfterDelete
    BY <2>1 DEF TypeOK
  <2>8. CountInv'
    BY <2>2, <2>3, <2>4, <2>5 DEF groupVars, wifiVars
  <2> QED  BY <2>2, <2>6, <2>7, <2>8 DEF GiveUpInv, Given, groupVars, wifiVars
<1> QED  BY <1>1, <1>2

\* The handlers, however many are registered.
LEMMA HandlersInv ==
    ASSUME OtaInv, AcceptedInv', Handlers
    PROVE  OtaInv'
<1> USE DEF OtaInv, CountInv
<1>0. handlers \in Nat /\ retries \in 0..MaxRetry /\ MaxRetry \in Nat /\ drops \in 0..(MaxRetry + 1)
  BY OtaAssumption, FS_CardinalityType DEF TypeOK
<1>1. CASE Reset
  BY <1>1, ResetInv
<1>2. CASE StaStart
  <2>1. TypeOK'
    BY <1>2 DEF StaStart, TypeOK, groupVars, flashVars
  <2>2. Past' = Past
    BY <1>2 DEF StaStart, Past
  <2> QED  BY <1>2, <2>1, <2>2 DEF StaStart, GiveUpInv, Given, Lost, groupVars
<1>3. CASE StaDisconnected /\ ~Reset
  <2>0. Past' = Past
    BY <1>3 DEF StaDisconnected, Past
  <2>1. drops' \in 0..(MaxRetry + 1) /\ (drops >= retries => drops' >= retries)
    BY <1>0, <1>3 DEF StaDisconnected
  <2>2. handlers # 0 /\ sta # "given_up"
    BY <1>3 DEF StaDisconnected, GiveUpInv
  <2>3. CASE Retry(handlers) /\ retries' = retries + handlers /\ sta' = "connecting"
             /\ UNCHANGED <<ota, groupVars, handlers, flashVars, requests>>
    <3>1. retries' \in 0..MaxRetry
      BY <1>0, <2>3 DEF Retry
    <3>2. TypeOK'
      BY <2>1, <2>3, <3>1 DEF TypeOK, groupVars, flashVars
    <3>3. handlers = 1 /\ drops >= retries => drops' >= retries'
      BY <1>0, <1>3, <2>3, <3>1 DEF StaDisconnected
    <3> QED  BY <2>0, <2>2, <2>3, <3>2, <3>3 DEF GiveUpInv, Given, Lost, groupVars
  <2>4. CASE /\ ~Retry(handlers) /\ SetBits("fail")
             /\ retries' = MaxRetry
             /\ sta' = IF retries < MaxRetry THEN "connecting" ELSE "given_up"
             /\ UNCHANGED <<ota, group, deleted, waitsOn, result, handlers, flashVars, requests>>
    <3>1. bits' \in [Tasks -> SUBSET Bit] /\ group \in Tasks
      BY <2>4 DEF SetBits, TypeOK, Bit
    <3>2. TypeOK'
      BY <1>0, <2>1, <2>4, <3>1 DEF TypeOK, flashVars
    <3>3. CASE handlers = 1
      <4>1. drops >= retries
        BY <3>3 DEF GiveUpInv
      <4>2. retries = MaxRetry
        BY <1>0, <2>4, <3>3 DEF Retry
      <4>3. drops' = MaxRetry + 1
        BY <1>0, <1>3, <4>1, <4>2 DEF StaDisconnected
      <4>4. Given' /\ drops' >= retries'
        BY <1>0, <2>4, <4>2, <4>3 DEF Given
      <4> QED  BY <2>0, <2>4, <3>2, <3>3, <4>4 DEF GiveUpInv
    <3>4. CASE handlers # 1
      BY <2>0, <2>2, <2>4, <3>2, <3>4 DEF GiveUpInv
    <3> QED  BY <3>3, <3>4
  <2> QED  BY <1>3, <2>3, <2>4 DEF StaDisconnected
<1>4. CASE GotIp
  <2>0. Past' = Past
    BY <1>4 DEF GotIp, Past
  <2>1. bits' \in [Tasks -> SUBSET Bit] /\ group \in Tasks
    BY <1>4 DEF GotIp, SetBits, TypeOK, Bit
  <2>2. TypeOK'
    BY <1>0, <1>4, <2>1 DEF TypeOK, GotIp, flashVars
  <2>3. \A g \in Tasks : "fail" \in bits'[g] => "fail" \in bits[g]
    BY <1>4, <2>1 DEF GotIp, SetBits, TypeOK
  <2>4. handlers # 0 /\ sta # "given_up"
    BY <1>4 DEF GotIp, GiveUpInv
  <2>5. drops' >= retries'
    BY <1>4 DEF GotIp
  <2> QED  BY <1>4, <2>0, <2>2, <2>3, <2>4, <2>5 DEF GotIp, GiveUpInv, Given, Lost
<1> QED  BY <1>1, <1>2, <1>3, <1>4 DEF Handlers, FailureAsserts, IpAsserts

\* The steps towards a connection.
LEMMA ConnectInv ==
    ASSUME OtaInv, AcceptedInv', NEW t \in Tasks, Update(t) \/ ConnectSta(t)
    PROVE  OtaInv'
<1> USE DEF OtaInv, CountInv
<1>0. /\ handlers \in Nat /\ 0 \in 0..MaxRetry /\ 0 \in 0..(MaxRetry + 1)
      /\ MaxRetry \in Nat /\ retries \in 0..MaxRetry
  BY OtaAssumption, FS_CardinalityType DEF TypeOK
<1>9. ota \in [Tasks -> Place]
  BY DEF TypeOK
<1>1. CASE Reset
  BY <1>1, ResetInv
<1>2. CASE Update(t)
  <2>1. TypeOK'
    BY <1>2, OtaAssumption DEF Update, TypeOK, groupVars, wifiVars, flashVars, AcceptedInv, FlashTypes
  <2>2. Past' = Past
    BY <1>2, PastKept DEF Update, Place
  <2>3. \A u \in Tasks : ota'[u] = ota[u] \/ (ota'[u] = "create" /\ ota[u] = "none")
    BY <1>2, <1>9 DEF Update, Goto
  <2>4. CountInv'
    BY <1>2, <2>1, <2>2, <2>3 DEF Update, groupVars, wifiVars
  <2> QED  BY <1>2, <2>3, <2>4 DEF Update, GiveUpInv, Given, Lost, groupVars, wifiVars, AfterDelete
<1>3. CASE CreateGroup(t)
  <2>1. TypeOK'
    BY <1>0, <1>3 DEF CreateGroup, TypeOK, flashVars, AcceptedInv, FlashTypes
  <2>2. Past' = Past
    BY <1>3, PastKept DEF CreateGroup, Place
  <2>3. \A u \in Tasks : ota'[u] = ota[u] \/ (ota'[u] = "configure" /\ ota[u] = "create")
    BY <1>3, <1>9 DEF CreateGroup, Goto
  <2>4. \A g \in Tasks : "fail" \in bits'[g] => "fail" \in bits[g]
    BY <1>3 DEF CreateGroup, TypeOK
  <2>5. drops \in Nat
    BY <1>0 DEF TypeOK
  <2>6. CountInv'
    BY <1>3, <2>1, <2>2, <2>3 DEF CreateGroup
  <2> QED  BY <1>3, <2>3, <2>4, <2>5, <2>6 DEF CreateGroup, GiveUpInv, Given, Lost, AfterDelete
<1>4. CASE Configure(t) /\ ~Reset
  <2>1. /\ ota[t] = "configure" /\ ota' = [ota EXCEPT ![t] = "wait"]
        /\ handlers' = handlers + 1 /\ sta' = "started" /\ drops' = 0
        /\ UNCHANGED <<groupVars, retries, flashVars, requests>>
    BY <1>4 DEF Configure, Goto
  <2>2. Past' = Past \cup {t} /\ t \notin Past
    BY <2>1 DEF Past, TypeOK
  <2>3. handlers' = Cardinality(Past')
    <3>1. IsFiniteSet(Past)
      BY PastCounted DEF Past
    <3> QED  BY <2>1, <2>2, <3>1, FS_AddElement
  <2>4. handlers' \in 0..Cardinality(Tasks)
    BY <2>3, PastCounted DEF Past
  <2>5. TypeOK'
    BY <1>0, <2>1, <2>4 DEF TypeOK, groupVars, flashVars, AcceptedInv, FlashTypes
  <2>6. \A u \in Tasks : ota'[u] = ota[u] \/ (u = t /\ ota'[u] = "wait")
    BY <2>1, <1>9
  <2>7. CountInv'
    BY <2>1, <2>3, <2>5, <2>6 DEF groupVars
  <2>8. deleted' # {} => \E u \in Tasks : ota'[u] \in AfterDelete
    BY <2>1, <2>6 DEF GiveUpInv, groupVars, AfterDelete
  <2>9. CASE handlers = 0
    <3>1. Past = {}
      BY <2>9, PastCounted DEF Past
    <3>2. \A u \in Tasks : ~Lost(u)'
      BY <2>1, <2>6, <3>1 DEF Past, Lost
    <3>3. retries = 0 /\ \A g \in Tasks : "fail" \notin bits'[g]
      BY <2>1, <2>9 DEF GiveUpInv, groupVars
    <3>4. handlers' = 1 /\ drops' >= retries'
      BY <2>1, <2>9, <3>3
    <3> QED  BY <2>7, <2>8, <3>2, <3>3, <3>4 DEF GiveUpInv
  <2>10. CASE handlers # 0
    BY <1>0, <2>1, <2>7, <2>8, <2>10 DEF GiveUpInv
  <2> QED  BY <2>9, <2>10
<1>5. CASE WaitBits(t) /\ ~Reset
  <2>1. /\ ota[t] = "wait" /\ ota' = [ota EXCEPT ![t] = "waiting"] /\ group # None
        /\ waitsOn' = [waitsOn EXCEPT ![t] = group]
        /\ UNCHANGED <<group, bits, deleted, result, wifiVars, flashVars, requests>>
    BY <1>5 DEF WaitBits, Goto
  <2>2. TypeOK'
    BY <2>1 DEF TypeOK, wifiVars, flashVars, AcceptedInv, FlashTypes
  <2>3. Past' = Past
    BY <2>1, PastKept DEF Goto, Place
  <2>4. \A u \in Tasks : ota'[u] = ota[u] \/ (u = t /\ ota'[u] = "waiting" /\ ota[u] = "wait")
    BY <2>1, <1>9
  <2>5. waitsOn'[t] \in Tasks /\ \A u \in Tasks : u # t => waitsOn'[u] = waitsOn[u]
    BY <2>1 DEF TypeOK
  <2>6. CountInv'
    BY <2>1, <2>2, <2>3, <2>4, <2>5 DEF wifiVars
  <2> QED  BY <2>1, <2>4, <2>6 DEF GiveUpInv, Given, Lost, AfterDelete, wifiVars
<1>6. CASE Wake(t)
  <2> DEFINE g == waitsOn[t]
  <2>1. /\ ota[t] = "waiting" /\ ota' = [ota EXCEPT ![t] = "delete"]
        /\ g \in Tasks /\ (g \in deleted \/ bits[g] # {})
        /\ result' = [result EXCEPT ![t] = IF g \in deleted THEN {} ELSE bits[g]]
        /\ UNCHANGED <<group, bits, deleted, waitsOn, wifiVars, flashVars, requests>>
    BY <1>6 DEF Wake, Goto
  <2>2. TypeOK'
    BY <2>1 DEF TypeOK, wifiVars, flashVars, AcceptedInv, FlashTypes
  <2>3. Past' = Past /\ t \in Past
    BY <2>1, PastKept DEF Goto, Place, Past
  <2>4. \A u \in Tasks : ota'[u] = ota[u] \/ (u = t /\ ota'[u] = "delete" /\ ota[u] = "waiting")
    BY <2>1, <1>9
  <2>5. CountInv'
    BY <2>1, <2>2, <2>3, <2>4 DEF wifiVars
  <2>6. CASE handlers = 1
    <3>1. deleted = {}
      <4> SUFFICES ASSUME deleted # {} PROVE FALSE
        OBVIOUS
      <4>1. PICK u \in Tasks : ota[u] \in AfterDelete
        BY DEF GiveUpInv
      <4>2. u \in Past /\ u # t
        BY <2>1, <4>1 DEF Past, AfterDelete
      <4> QED  BY <2>3, <2>6, <4>2, PastCounted DEF Past
    <3>2. bits[g] \in SUBSET Bit /\ result'[t] = bits[g] /\ bits[g] # {}
      BY <2>1, <3>1 DEF TypeOK
    <3>3. "connected" \notin result'[t] => Given
      BY <2>1, <2>6, <3>2 DEF GiveUpInv, Bit
    <3>4. \A u \in Tasks : Lost(u)' => Given
      BY <2>1, <2>4, <2>6, <3>3 DEF GiveUpInv, Lost, TypeOK
    <3> QED  BY <2>1, <2>4, <2>5, <2>6, <3>1, <3>4 DEF GiveUpInv, Given, wifiVars
  <2>7. CASE handlers # 1
    BY <2>1, <2>4, <2>5, <2>7 DEF GiveUpInv, AfterDelete, wifiVars
  <2> QED  BY <2>6, <2>7
<1>7. CASE DeleteGroup(t) /\ ~Reset
  <2> DEFINE place == IF "connected" \in result[t] THEN "begin" ELSE "failed"
  <2>1. /\ ota[t] = "delete" /\ ota' = [ota EXCEPT ![t] = place]
        /\ deleted' = deleted \cup {group} /\ group # None /\ group' = None
        /\ UNCHANGED <<bits, waitsOn, result, wifiVars, flashVars, requests>>
    BY <1>7 DEF DeleteGroup, Goto
  <2>2. TypeOK'
    BY <2>1 DEF TypeOK, wifiVars, flashVars, AcceptedInv, FlashTypes
  <2>3. Past' = Past
    <3>1. place \in Place \ {"none", "create", "configure"}
      BY DEF Place
    <3> HIDE DEF place
    <3> QED  BY <2>1, <3>1, PastKept DEF Goto
  <2>4. \A u \in Tasks : ota'[u] = ota[u] \/ (u = t /\ ota'[u] = place /\ ota[u] = "delete")
    BY <2>1, <1>9
  <2>5. CountInv'
    BY <2>1, <2>2, <2>3, <2>4 DEF wifiVars
  <2>6. ota'[t] \in AfterDelete
    BY <2>1 DEF TypeOK, AfterDelete
  <2>7. \A u \in Tasks : Lost(u)' => Lost(u)
    BY <2>1, <2>4 DEF Lost
  <2> QED  BY <2>1, <2>5, <2>6, <2>7 DEF GiveUpInv, Given, wifiVars
<1> QED  BY <1>1, <1>2, <1>3, <1>4, <1>5, <1>6, <1>7 DEF ConnectSta

\* OtaInv holds in every state.
LEMMA OtaInvariant == Spec => []OtaInv
<1>1. Init => OtaInv
  <2> SUFFICES ASSUME Init PROVE OtaInv
    OBVIOUS
  <2>1. TypeOK
    BY OtaAssumption, FS_CardinalityType DEF Init, TypeOK, Erased, Place
  <2>2. Past = {} /\ Cardinality({}) = 0
    BY FS_EmptySet DEF Init, Past
  <2> QED  BY <2>1, <2>2 DEF Init, OtaInv, CountInv, GiveUpInv
<1>2. OtaInv /\ AcceptedInv' /\ [Next]_vars => OtaInv'
  <2> SUFFICES ASSUME OtaInv, AcceptedInv', [Next]_vars
               PROVE  OtaInv'
    OBVIOUS
  <2>1. CASE UNCHANGED vars
    BY <2>1 DEF vars, groupVars, wifiVars, flashVars, OtaInv, CountInv, TypeOK, Past, GiveUpInv,
                Given, Lost
  <2>2. CASE PowerLoss
    BY <2>2, ResetInv DEF PowerLoss
  <2> QED  BY <2>1, <2>2, ConnectInv, DownloadInv, HandlersInv DEF Next
<1> QED  BY <1>1, <1>2, AcceptedInvariant, PTL DEF Spec

\* TypeOK, for all constants.
THEOREM TypeCorrect == Spec => []TypeOK
<1>1. OtaInv => TypeOK
  BY DEF OtaInv, CountInv
<1> QED  BY <1>1, OtaInvariant, PTL

\* GivesUpLast, for all constants: espnow_wifi_connect_sta gives up after all its retries,
\* also when a second task has put a group of its own in the place of the first's.
THEOREM GivesUpCorrect == Spec => []GivesUpLast
<1>1. OtaInv => GivesUpLast
  BY DEF OtaInv, GiveUpInv, GivesUpLast, Lost, Given
<1> QED  BY <1>1, OtaInvariant, PTL
=============================================================================
