-------------------------------- MODULE Ota --------------------------------
(***************************************************************************)
(* Firmware updates of a node.  Every "update" message starts an ota_task; *)
(* the task leaves ESP-NOW, joins an access point and waits on an event    *)
(* group that the handler of Wi-Fi events sets, then downloads an image    *)
(* into the spare partition and restarts.  Group and retry counter are     *)
(* static: two tasks share them, the spare partition and the radio.        *)
(*                                                                         *)
(* The tasks have the same priority and are sliced by the tick.  The event *)
(* task has a higher one, so that an event and its handlers are one step;  *)
(* so are vEventGroupDelete and the assignment of NULL that follows it.    *)
(***************************************************************************)
EXTENDS Naturals, FiniteSets

CONSTANTS
    Tasks,        \* the ota tasks that may exist at once
    Images,       \* firmware images, with their version and secure version
    FirstImage,   \* the image the node runs at first
    HwSecure,     \* esp_efuse_read_secure_version
    MaxRetry,     \* WIFI_MAX_RETRY
    MaxRequests,  \* bound: update messages
    None          \* no task, group or image

ASSUME OtaAssumption ==
    /\ IsFiniteSet(Tasks) /\ None \notin Tasks /\ None \notin Images
    /\ Images \subseteq [version : Nat, secure : Nat] /\ FirstImage \in Images
    /\ HwSecure \in Nat /\ MaxRetry \in Nat /\ MaxRequests \in Nat

VARIABLES
    ota,       \* where each ota_task stands
    group,     \* s_sta_event_group, named after the task that created it
    bits,      \* the bits of each group
    deleted,   \* the groups that have been deleted
    waitsOn,   \* the group each task waits on
    result,    \* the bits each task woke up with
    retries,   \* s_retry_count
    handlers,  \* registrations of sta_event_handler
    sta,       \* the Wi-Fi station
    offered,   \* the image on each task's connection
    spare,     \* what the spare partition holds
    boot,      \* the partition the bootloader tries first
    running,   \* the image the node runs
    requests,  \* update messages so far
    drops,     \* history: disconnections since the station was started or got its IP
    uncompared \* history: images let through since the reset without a look at their version

groupVars == <<group, bits, deleted, waitsOn, result>>
wifiVars  == <<retries, handlers, sta, drops>>
flashVars == <<offered, spare, boot, running, uncompared>>
vars == <<ota, groupVars, wifiVars, flashVars, requests>>

Place  == {"none", "create", "configure", "wait", "waiting", "delete", "begin", "header",
           "download", "writing", "finish", "failed", "restart"}
Bit    == {"connected", "fail"}
Erased == [image |-> None, whole |-> FALSE]

TypeOK ==
    /\ ota \in [Tasks -> Place]
    /\ group \in Tasks \cup {None} /\ bits \in [Tasks -> SUBSET Bit]
    /\ deleted \subseteq Tasks /\ waitsOn \in [Tasks -> Tasks \cup {None}]
    /\ result \in [Tasks -> SUBSET Bit]
    /\ retries \in 0..MaxRetry /\ handlers \in 0..Cardinality(Tasks)
    /\ sta \in {"espnow", "started", "connecting", "up", "given_up"}
    /\ offered \in [Tasks -> Images \cup {None}]
    /\ spare \in [image : Images \cup {None}, whole : BOOLEAN]
    /\ boot \in {"running", "spare"} /\ running \in Images /\ uncompared \subseteq Images
    /\ requests \in 0..MaxRequests /\ drops \in 0..(MaxRetry + 1)

Init ==
    /\ ota = [t \in Tasks |-> "none"]
    /\ group = None /\ bits = [t \in Tasks |-> {}] /\ deleted = {}
    /\ waitsOn = [t \in Tasks |-> None] /\ result = [t \in Tasks |-> {}]
    /\ retries = 0 /\ handlers = 0 /\ sta = "espnow" /\ drops = 0
    /\ offered = [t \in Tasks |-> None] /\ spare = Erased
    /\ boot = "running" /\ running = FirstImage /\ uncompared = {} /\ requests = 0

\* The task goes on at the given place.
Goto(t, place) == ota' = [ota EXCEPT ![t] = place]

\* The bootloader passes over an image that is not whole.
Updated   == boot = "spare" /\ spare.whole
NextImage == IF Updated THEN spare.image ELSE running

\* A reset, by esp_restart, a failed assertion or the power: the tasks, the group and
\* the Wi-Fi state go; when the image has changed the partitions have changed places.
Reset ==
    /\ ota' = [t \in Tasks |-> "none"]
    /\ group' = None /\ bits' = [t \in Tasks |-> {}] /\ deleted' = {}
    /\ waitsOn' = [t \in Tasks |-> None] /\ result' = [t \in Tasks |-> {}]
    /\ retries' = 0 /\ handlers' = 0 /\ sta' = "espnow" /\ drops' = 0
    /\ offered' = [t \in Tasks |-> None]
    /\ running' = NextImage /\ uncompared' = {}
    /\ IF Updated THEN spare' = [image |-> running, whole |-> TRUE] /\ boot' = "running"
                  ELSE UNCHANGED <<spare, boot>>
    /\ UNCHANGED requests

-----------------------------------------------------------------------------
(* recv_task *)

\* on_mqtt_msg, topic "update".
Update(t) ==
    /\ ota[t] = "none" /\ requests < MaxRequests
    /\ requests' = requests + 1
    /\ Goto(t, "create")
    /\ UNCHANGED <<groupVars, wifiVars, flashVars>>

-----------------------------------------------------------------------------
(* espnow_wifi_connect_sta *)

\* A new group takes the place of the one there was.
CreateGroup(t) ==
    /\ ota[t] = "create"
    /\ group' = t /\ bits' = [bits EXCEPT ![t] = {}] /\ deleted' = deleted \ {t}
    /\ retries' = 0
    /\ Goto(t, "configure")
    /\ UNCHANGED <<waitsOn, result, handlers, sta, drops, flashVars, requests>>

\* ESP-NOW and Wi-Fi stop, the handlers are registered once more, Wi-Fi starts. The
\* second time the driver may assert that the station's interface exists already.
Configure(t) ==
    /\ ota[t] = "configure"
    /\ \/ /\ handlers' = handlers + 1
          /\ sta' = "started" /\ drops' = 0
          /\ Goto(t, "wait")
          /\ UNCHANGED <<groupVars, retries, flashVars, requests>>
       \/ handlers > 0 /\ Reset

\* xEventGroupWaitBits on whatever group is there; it asserts that one is.
WaitBits(t) ==
    /\ ota[t] = "wait"
    /\ \/ group = None /\ Reset
       \/ /\ group # None
          /\ waitsOn' = [waitsOn EXCEPT ![t] = group]
          /\ Goto(t, "waiting")
          /\ UNCHANGED <<group, bits, deleted, result, wifiVars, flashVars, requests>>

\* Seeded fault: the task waits for the connection alone.
WakeConnected(t) ==
    /\ ota[t] = "waiting"
    /\ LET g == waitsOn[t] IN
         /\ g \in deleted \/ "connected" \in bits[g]
         /\ result' = [result EXCEPT ![t] = IF g \in deleted THEN {} ELSE bits[g]]
    /\ Goto(t, "delete")
    /\ UNCHANGED <<group, bits, deleted, waitsOn, wifiVars, flashVars, requests>>

\* A bit is set, or the group is deleted under the task.
Wake(t) ==
    /\ ota[t] = "waiting"
    /\ LET g == waitsOn[t] IN
         /\ g \in deleted \/ bits[g] # {}
         /\ result' = [result EXCEPT ![t] = IF g \in deleted THEN {} ELSE bits[g]]
    /\ Goto(t, "delete")
    /\ UNCHANGED <<group, bits, deleted, waitsOn, wifiVars, flashVars, requests>>

\* vEventGroupDelete, of whatever group is there.
DeleteGroup(t) ==
    /\ ota[t] = "delete"
    /\ \/ group = None /\ Reset
       \/ /\ group # None
          /\ deleted' = deleted \cup {group} /\ group' = None
          /\ Goto(t, IF "connected" \in result[t] THEN "begin" ELSE "failed")
          /\ UNCHANGED <<bits, waitsOn, result, wifiVars, flashVars, requests>>

ConnectSta(t) ==
    CreateGroup(t) \/ Configure(t) \/ WaitBits(t) \/ Wake(t) \/ DeleteGroup(t)

-----------------------------------------------------------------------------
(* sta_event_handler, as often as it has been registered *)

\* xEventGroupSetBits, which asserts that there is a group.
SetBits(b) ==
    /\ group # None
    /\ bits' = [bits EXCEPT ![group] = @ \cup {b}]

\* WIFI_EVENT_STA_START.
StaStart ==
    /\ sta = "started"
    /\ sta' = "connecting"
    /\ UNCHANGED <<ota, groupVars, retries, handlers, drops, flashVars, requests>>

\* Seeded faults: one retry too few; one too many.
RetryFewer(n) == retries + n < MaxRetry
RetryOneMore(n) == retries + n <= MaxRetry + 1

\* All the handlers find a retry left.
Retry(n) == retries + n <= MaxRetry

\* WIFI_EVENT_STA_DISCONNECTED. Each handler takes a retry, or sets the failure bit.
StaDisconnected ==
    /\ sta \in {"connecting", "up"}
    /\ drops' = IF drops > MaxRetry THEN drops ELSE drops + 1
    /\ \/ /\ Retry(handlers)
          /\ retries' = retries + handlers
          /\ sta' = "connecting"
          /\ UNCHANGED <<ota, groupVars, handlers, flashVars, requests>>
       \/ /\ ~Retry(handlers) /\ SetBits("fail")
          /\ retries' = MaxRetry
          /\ sta' = IF retries < MaxRetry THEN "connecting" ELSE "given_up"
          /\ UNCHANGED <<ota, group, deleted, waitsOn, result, handlers, flashVars,
                         requests>>

\* The failure finds no group.
FailureAsserts == sta \in {"connecting", "up"} /\ ~Retry(handlers) /\ group = None /\ Reset

\* IP_EVENT_STA_GOT_IP.
GotIp ==
    /\ sta = "connecting"
    /\ SetBits("connected")
    /\ sta' = "up" /\ retries' = 0 /\ drops' = 0
    /\ UNCHANGED <<ota, group, deleted, waitsOn, result, handlers, flashVars, requests>>

\* The address finds no group.
IpAsserts == sta = "connecting" /\ group = None /\ Reset

Handlers == StaStart \/ StaDisconnected \/ FailureAsserts \/ GotIp \/ IpAsserts

-----------------------------------------------------------------------------
(* espnow_ota_start *)

\* The connection failed: esp_restart.
Fail(t) == ota[t] = "failed" /\ Reset

\* esp_https_ota_begin, and the description of the image the server has.
Begin(t) ==
    /\ ota[t] = "begin"
    /\ \/ /\ sta = "up"
          /\ \E i \in Images : offered' = [offered EXCEPT ![t] = i]
          /\ Goto(t, "header")
       \/ Goto(t, "restart") /\ UNCHANGED offered
    /\ UNCHANGED <<groupVars, wifiVars, spare, boot, running, uncompared, requests>>

\* Seeded fault: the secure version is not looked at.
AcceptableAnySecure(i, readable) == readable => i.version # running.version

\* validate_image_header: another version than the running one, whose description may
\* be unreadable, when none is asked for; not below the secure version in the fuses.
Acceptable(i, readable) ==
    /\ readable => i.version # running.version
    /\ i.secure >= HwSecure

ValidateHeader(t) ==
    /\ ota[t] = "header"
    /\ \E readable \in BOOLEAN :
         \/ /\ Acceptable(offered[t], readable)
            /\ uncompared' = IF readable THEN uncompared ELSE uncompared \cup {offered[t]}
            /\ Goto(t, "download")
         \/ ~Acceptable(offered[t], readable) /\ Goto(t, "restart") /\ UNCHANGED uncompared
    /\ UNCHANGED <<groupVars, wifiVars, offered, spare, boot, running, requests>>

\* esp_https_ota_perform: the partition is erased and written from its beginning.
Perform(t) ==
    /\ ota[t] = "download" /\ sta = "up"
    /\ spare' = [image |-> offered[t], whole |-> FALSE]
    /\ Goto(t, "writing")
    /\ UNCHANGED <<groupVars, wifiVars, offered, boot, running, uncompared, requests>>

\* The last piece, in a partition that another task may have written as well.
Complete(t) ==
    /\ ota[t] = "writing" /\ sta = "up"
    /\ spare' = IF spare.image = offered[t] THEN [image |-> offered[t], whole |-> TRUE] ELSE Erased
    /\ Goto(t, "finish")
    /\ UNCHANGED <<groupVars, wifiVars, offered, boot, running, uncompared, requests>>

\* The download breaks off: not all the data has been received.
Incomplete(t) ==
    /\ ota[t] \in {"download", "writing"}
    /\ Goto(t, "restart")
    /\ UNCHANGED <<groupVars, wifiVars, flashVars, requests>>

\* esp_https_ota_finish: the boot partition changes when the image verifies.
Finish(t) ==
    /\ ota[t] = "finish"
    /\ boot' = IF spare.whole THEN "spare" ELSE boot
    /\ Goto(t, "restart")
    /\ UNCHANGED <<groupVars, wifiVars, offered, spare, running, uncompared, requests>>

Restart(t) == ota[t] = "restart" /\ Reset

Download(t) ==
    \/ Fail(t) \/ Begin(t) \/ ValidateHeader(t) \/ Perform(t) \/ Complete(t)
    \/ Incomplete(t) \/ Finish(t) \/ Restart(t)

PowerLoss == (\E t \in Tasks : ota[t] # "none") /\ Reset

Next ==
    \/ \E t \in Tasks : Update(t) \/ ConnectSta(t) \/ Download(t)
    \/ Handlers \/ PowerLoss

Spec == Init /\ [][Next]_vars

\* The scheduler runs the tasks, and the station's attempts end one way or the other.
FairSpec ==
    /\ Spec
    /\ \A t \in Tasks : WF_vars(ConnectSta(t)) /\ WF_vars(Download(t))
    /\ WF_vars(StaStart) /\ WF_vars(GotIp \/ IpAsserts \/ StaDisconnected \/ FailureAsserts)

-----------------------------------------------------------------------------
(* What must hold *)

\* Whenever the node is reset it boots what it runs, or an image that is not below the
\* secure version and has another version than the one it runs, unless the header check
\* could not read that one: also when a second task writes the partition that the first
\* has made the one to boot, or when a download follows one that broke off.
OnlyAccepted ==
    Updated => /\ NextImage.secure >= HwSecure
               /\ NextImage.version # running.version \/ NextImage \in uncompared

\* Every update ends in a restart, even when a second one takes the group the
\* first waits on, or deletes it.
UpdateEnds == (\E t \in Tasks : ota[t] # "none") ~> (\A t \in Tasks : ota[t] = "none")

\* espnow_wifi_connect_sta gives up after its retries and no sooner, as long as one
\* task at a time has registered the handler.
GivesUpLast ==
    \A t \in Tasks : ota[t] = "failed" /\ handlers = 1 => drops = MaxRetry + 1
=============================================================================
