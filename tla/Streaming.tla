------------------------------ MODULE Streaming ------------------------------
(***************************************************************************)
(* The streaming half of the server: DataGetter.java polls the Python AI   *)
(* and Broadcast.java sends new packets, camera commands and heartbeats to *)
(* every SSE connection, under the switches of ServerState.java that       *)
(* DashboardController.java toggles.                                       *)
(*                                                                         *)
(* Threads: the Spring scheduling thread (one for all @Scheduled methods), *)
(* one container thread per request that toggles the camera, and the       *)
(* container's own, which run an emitter's completion callbacks.  The list *)
(* of emitters is copied on write: removeIf holds its lock while it sends, *)
(* add and remove wait for it.                                             *)
(***************************************************************************)
EXTENDS Naturals

CONSTANTS
  Client,     (* SSE connections, recycled once the server has dropped them *)
  Request,    (* container threads that serve POST /api/toggle/camera       *)
  Scheduler,  (* the scheduling thread                                      *)
  Packet,     (* the different JSON answers of the Python AI                *)
  NoPacket    (* lastJson before the first one (null)                       *)

ASSUME StreamingAssumption ==
  /\ Scheduler \notin Request
  /\ NoPacket \notin Packet

VARIABLES
  pollingEnabled, streamingEnabled, cameraEnabled,
  served,     (* what the Python AI answers at the moment                   *)
  lastJson,
  sched,      (* where the scheduling thread is                             *)
  req,        (* req[r]: where request r is, and its local value            *)
  emitters,   (* the connections in the list                                *)
  ended,      (* those the container has completed; their removal is due    *)
  link,       (* link[c]: the connection as the network sees it             *)
  loop        (* loop[t]: what thread t is sending, inside removeIf         *)

(* Observers: what a connection has received last of either kind; "unknown" *)
(* if nothing was sent since it connected, or if it was left out.           *)
(* announced: the camera command whose loop began last.  astray: the camera *)
(* request that came last overlapped with another one.                      *)
VARIABLES told, shown, announced, astray

switchVars == <<pollingEnabled, streamingEnabled, cameraEnabled>>
pollVars   == <<served, lastJson, sched>>
listVars   == <<emitters, ended, link>>
seenVars   == <<told, shown, announced, astray>>
streamingVars == <<switchVars, pollVars, req, listVars, loop, seenVars>>

Thread == Request \union {Scheduler}

NoEvent   == [name |-> "none", value |-> "none"]
Heartbeat == [name |-> "heartbeat", value |-> "none"]
Data(p)   == [name |-> "data", value |-> p]
Camera(b) == [name |-> "cameraControl",
              value |-> IF b THEN "start" ELSE "stop"]

(* The event, the emitters the loop has not visited yet, and those of which *)
(* its predicate was TRUE.                                                  *)
NoLoop == [event |-> NoEvent, unsent |-> {}, failed |-> {}]

LockFree == \A t \in Thread : loop[t] = NoLoop

(* The clients in left have not received what others have.                  *)
Forgotten(seen, left) ==
  [c \in Client |-> IF c \in left THEN "unknown" ELSE seen[c]]

Idle == [at |-> "idle", value |-> FALSE]

-----------------------------------------------------------------------------
Init ==
  /\ pollingEnabled = FALSE /\ streamingEnabled = FALSE
  /\ cameraEnabled = FALSE
  /\ served \in Packet
  /\ lastJson = NoPacket
  /\ sched = "free"
  /\ req = [r \in Request |-> Idle]
  /\ emitters = {} /\ ended = {}
  /\ link = [c \in Client |-> "none"]
  /\ loop = [t \in Thread |-> NoLoop]
  /\ told = [c \in Client |-> "unknown"]
  /\ shown = [c \in Client |-> "unknown"]
  /\ announced = "none"
  /\ astray = FALSE

-----------------------------------------------------------------------------
(* Connections.                                                             *)

(* GET /stream: addEmitter, whose add waits for the lock.                   *)
AddEmitter(c) ==
  /\ link[c] = "none" /\ LockFree
  /\ emitters' = emitters \union {c}
  /\ link' = [link EXCEPT ![c] = "up"]
  /\ UNCHANGED <<switchVars, pollVars, req, ended, loop, seenVars>>

(* The glasses go, or their Wi-Fi does.                                     *)
Drop(c) ==
  /\ link[c] = "up"
  /\ link' = [link EXCEPT ![c] = "down"]
  /\ told' = [told EXCEPT ![c] = "unknown"]
  /\ shown' = [shown EXCEPT ![c] = "unknown"]
  /\ UNCHANGED <<switchVars, pollVars, req, emitters, ended, loop, announced,
                 astray>>

(* The container notices, completes the emitter and is about to call its    *)
(* callback.                                                                *)
ContainerEnds(c) ==
  /\ c \in emitters \ ended /\ link[c] = "down"
  /\ ended' = ended \union {c}
  /\ UNCHANGED <<switchVars, pollVars, req, emitters, link, loop,
                 seenVars>>

(* onCompletion, onError, onTimeout: emitters.remove, which waits for the   *)
(* lock.                                                                    *)
RemoveEmitter(c) ==
  /\ c \in ended /\ LockFree
  /\ emitters' = emitters \ {c}
  /\ ended' = ended \ {c}
  /\ link' = [link EXCEPT ![c] = "none"]
  /\ UNCHANGED <<switchVars, pollVars, req, loop, seenVars>>

-----------------------------------------------------------------------------
(* broadcast, broadcastNamed and heartbeat: one loop over the emitters.     *)

(* Mutant: the loop is over a snapshot of the list, without its lock.       *)
BeginLoopUnlocked(t, e) ==
  loop' = [loop EXCEPT ![t] =
             [event |-> e, unsent |-> emitters, failed |-> {}]]

BeginLoop(t, e) ==
  /\ LockFree
  /\ loop' = [loop EXCEPT ![t] =
               [event |-> e, unsent |-> emitters, failed |-> {}]]

(* Thread t comes back from removeIf.                                       *)
LeaveLoop(t) ==
  /\ loop' = [loop EXCEPT ![t] = NoLoop]
  /\ sched' = IF t = Scheduler THEN "free" ELSE sched
  /\ req' = [r \in Request |-> IF t = r THEN Idle ELSE req[r]]

Visited(t, c) == [loop EXCEPT ![t].unsent = @ \ {c}]
Throwing(t, c) == [loop EXCEPT ![t].unsent = @ \ {c},
                               ![t].failed = @ \union {c}]

(* The event reaches a client ...                                           *)
Deliver(t, c) ==
  /\ c \in loop[t].unsent /\ link[c] = "up"
  /\ loop' = Visited(t, c)
  /\ told' = IF loop[t].event.name = "cameraControl"
             THEN [told EXCEPT ![c] = loop[t].event.value] ELSE told
  /\ shown' = IF loop[t].event.name = "data"
              THEN [shown EXCEPT ![c] = loop[t].event.value] ELSE shown
  /\ UNCHANGED <<switchVars, pollVars, req, listVars, announced, astray>>

(* ... or is written to a dead connection, which may go unnoticed ...       *)
SendToDead(t, c) ==
  /\ c \in loop[t].unsent \ ended /\ link[c] = "down"
  /\ loop' = Visited(t, c)
  /\ UNCHANGED <<switchVars, pollVars, req, listVars, seenVars>>

(* Mutant: the predicate returns FALSE of an emitter that threw.            *)
SendThrowsKept(t, c) ==
  /\ c \in loop[t].unsent \ ended /\ link[c] = "down"
  /\ loop' = Visited(t, c)
  /\ UNCHANGED <<switchVars, pollVars, req, listVars, seenVars>>

(* Mutant: the try block is around the loop, not in it.                     *)
SendThrowsStops(t, c) ==
  /\ c \in loop[t].unsent \ ended /\ link[c] = "down"
  /\ loop' = [loop EXCEPT ![t].unsent = {}, ![t].failed = @ \union {c}]
  /\ UNCHANGED <<switchVars, pollVars, req, listVars, seenVars>>

(* ... or throws an IOException, and the predicate returns TRUE.            *)
SendThrows(t, c) ==
  /\ c \in loop[t].unsent \ ended /\ link[c] = "down"
  /\ loop' = Throwing(t, c)
  /\ UNCHANGED <<switchVars, pollVars, req, listVars, seenVars>>

(* send throws an IllegalStateException on an emitter that is complete:     *)
(* nothing catches it here, removeIf removes nothing and the clients it has *)
(* not come to miss the event.                                              *)
SendAborts(t, c) ==
  /\ c \in loop[t].unsent \intersect ended
  /\ LeaveLoop(t)
  /\ told' = IF loop[t].event.name = "cameraControl"
             THEN Forgotten(told, loop[t].unsent) ELSE told
  /\ shown' = IF loop[t].event.name = "data"
              THEN Forgotten(shown, loop[t].unsent) ELSE shown
  /\ UNCHANGED <<switchVars, served, lastJson, listVars, announced, astray>>

(* removeIf removes the emitters that threw, and returns.                   *)
EndLoop(t) ==
  /\ loop[t] # NoLoop /\ loop[t].unsent = {}
  /\ LeaveLoop(t)
  /\ emitters' = emitters \ loop[t].failed
  /\ ended' = ended \ loop[t].failed
  /\ link' = [c \in Client |-> IF c \in loop[t].failed THEN "none"
                               ELSE link[c]]
  /\ UNCHANGED <<switchVars, served, lastJson, seenVars>>

-----------------------------------------------------------------------------
(* The scheduling thread.                                                   *)

(* pollAndBroadcast calls the Python AI, without a timeout.                 *)
PollBegin ==
  /\ sched = "free" /\ pollingEnabled
  /\ sched' = "fetching"
  /\ UNCHANGED <<switchVars, served, lastJson, req, listVars, loop,
                 seenVars>>

(* An answer: if it is new it is kept, and sent if streaming is enabled.    *)
PollAnswered ==
  /\ sched = "fetching"
  /\ lastJson' = served
  /\ sched' = IF served # lastJson /\ streamingEnabled THEN "sending"
              ELSE "free"
  /\ shown' = IF served # lastJson /\ ~streamingEnabled
              THEN Forgotten(shown, Client) ELSE shown
  /\ UNCHANGED <<switchVars, served, req, listVars, loop, told, announced,
                 astray>>

(* No connection, or an error status: the RestClientException is caught.    *)
PollFails ==
  /\ sched = "fetching"
  /\ sched' = "free"
  /\ UNCHANGED <<switchVars, served, lastJson, req, listVars, loop,
                 seenVars>>

PollSend ==
  /\ sched = "sending"
  /\ BeginLoop(Scheduler, Data(lastJson))
  /\ sched' = "looping"
  /\ UNCHANGED <<switchVars, served, lastJson, req, listVars, seenVars>>

(* heartbeat, every 30 seconds.                                             *)
SendHeartbeat ==
  /\ sched = "free"
  /\ BeginLoop(Scheduler, Heartbeat)
  /\ sched' = "looping"
  /\ UNCHANGED <<switchVars, served, lastJson, req, listVars, seenVars>>

-----------------------------------------------------------------------------
(* The dashboard's requests.  The switches are volatile fields: a toggle    *)
(* reads, negates and writes without a lock.                                *)

TogglePolling ==
  /\ pollingEnabled' = ~pollingEnabled
  /\ UNCHANGED <<streamingEnabled, cameraEnabled, pollVars, req, listVars,
                 loop, seenVars>>

ToggleStreaming ==
  /\ streamingEnabled' = ~streamingEnabled
  /\ UNCHANGED <<pollingEnabled, cameraEnabled, pollVars, req, listVars,
                 loop, seenVars>>

(* toggleCamera: the field is read,                                         *)
ToggleRead(r) ==
  /\ req[r].at = "idle"
  /\ req' = [req EXCEPT ![r] = [at |-> "toggling", value |-> ~cameraEnabled]]
  /\ astray' = \E q \in Request \ {r} : req[q].at # "idle"
  /\ UNCHANGED <<switchVars, pollVars, listVars, loop, told, shown,
                 announced>>

(* written,                                                                 *)
ToggleWrite(r) ==
  /\ req[r].at = "toggling"
  /\ cameraEnabled' = req[r].value
  /\ req' = [req EXCEPT ![r] = [at |-> "toggled", value |-> FALSE]]
  /\ UNCHANGED <<pollingEnabled, streamingEnabled, pollVars, listVars,
                 loop, seenVars>>

(* Mutant: the glasses are told what the switch was before.                 *)
ToggleReadBackOld(r) ==
  /\ req[r].at = "toggled"
  /\ req' = [req EXCEPT ![r] = [at |-> "announcing", value |-> ~cameraEnabled]]
  /\ UNCHANGED <<switchVars, pollVars, listVars, loop, seenVars>>

(* read again,                                                              *)
ToggleReadBack(r) ==
  /\ req[r].at = "toggled"
  /\ req' = [req EXCEPT ![r] = [at |-> "announcing", value |-> cameraEnabled]]
  /\ UNCHANGED <<switchVars, pollVars, listVars, loop, seenVars>>

(* and sent to the glasses.                                                 *)
ToggleAnnounce(r) ==
  /\ req[r].at = "announcing"
  /\ BeginLoop(r, Camera(req[r].value))
  /\ req' = [req EXCEPT ![r].at = "looping"]
  /\ announced' = Camera(req[r].value).value
  /\ UNCHANGED <<switchVars, pollVars, listVars, told, shown, astray>>

-----------------------------------------------------------------------------
(* The Python AI has something else to say.                                 *)
Serve ==
  /\ served' \in Packet
  /\ UNCHANGED <<switchVars, lastJson, sched, req, listVars, loop,
                 seenVars>>

-----------------------------------------------------------------------------
Connection(c) == AddEmitter(c) \/ Drop(c) \/ ContainerEnds(c)
                 \/ RemoveEmitter(c)

LoopStep(t) ==
  \/ \E c \in loop[t].unsent : Deliver(t, c) \/ SendToDead(t, c)
                               \/ SendThrows(t, c) \/ SendAborts(t, c)
  \/ EndLoop(t)

PollAndBroadcast == PollBegin \/ PollAnswered \/ PollFails \/ PollSend

ToggleCamera(r) == ToggleRead(r) \/ ToggleWrite(r) \/ ToggleReadBack(r)
                   \/ ToggleAnnounce(r)

Next ==
  \/ \E c \in Client : Connection(c)
  \/ \E t \in Thread : LoopStep(t)
  \/ PollAndBroadcast
  \/ SendHeartbeat
  \/ TogglePolling \/ ToggleStreaming
  \/ \E r \in Request : ToggleCamera(r)
  \/ Serve

Spec == Init /\ [][Next]_streamingVars

(* Threads go on; one that waits for the lock gets it in the end; the       *)
(* scheduled methods get their turns; writing to a dead connection throws   *)
(* in the end.  Nothing is assumed of the Python AI's answers, nor of the   *)
(* container's callbacks, which "Spring does not always fire".              *)
Fairness ==
  /\ \A t \in Thread : WF_streamingVars(LoopStep(t))
  /\ \A c \in Client : SF_streamingVars(\E t \in Thread : SendThrows(t, c))
  /\ SF_streamingVars(SendHeartbeat)
  /\ SF_streamingVars(PollSend)
  /\ \A r \in Request :
       /\ WF_streamingVars(ToggleWrite(r) \/ ToggleReadBack(r))
       /\ SF_streamingVars(ToggleAnnounce(r))

FairSpec == Spec /\ Fairness

-----------------------------------------------------------------------------
(* Properties that hold.                                                    *)

(* The type invariant, with what ties the list to the connections.          *)
StreamingTypeOK ==
  /\ pollingEnabled \in BOOLEAN /\ streamingEnabled \in BOOLEAN
  /\ cameraEnabled \in BOOLEAN
  /\ served \in Packet /\ lastJson \in Packet \union {NoPacket}
  /\ sched \in {"free", "fetching", "sending", "looping"}
  /\ req \in [Request ->
       [at : {"idle", "toggling", "toggled", "announcing", "looping"},
        value : BOOLEAN]]
  /\ emitters \subseteq Client /\ ended \subseteq emitters
  /\ link \in [Client -> {"none", "up", "down"}]
  /\ emitters = {c \in Client : link[c] # "none"}
  /\ \A t \in Thread : loop[t].unsent \union loop[t].failed \subseteq emitters
  /\ announced \in {"none", "start", "stop"} /\ astray \in BOOLEAN

(* All the glasses that have heard of a camera command agree on the last    *)
(* one while none is being sent, however many requests announce theirs at   *)
(* once (removeIf sends under the lock of the list).                        *)
GlassesAgree ==
  (\A t \in Thread : loop[t].event.name # "cameraControl") =>
    \A c, d \in emitters : "unknown" \in {told[c], told[d]} \/ told[c] = told[d]

(* Camera requests that overlap may leave the glasses on the opposite of    *)
(* the switch, for toggleCamera reads, writes, reads and announces without  *)
(* a lock.  One that has the endpoint for itself mends that: once it is     *)
(* done, every client that the announcement reached films as the switch     *)
(* says, whatever the requests before it left behind.                       *)
GlassesFollow ==
  ~astray /\ (\A r \in Request : req[r].at = "idle") =>
    \A c \in Client : told[c] \in {"unknown", Camera(cameraEnabled).value}

(* Between two polls every client shows the packet that was fetched last,   *)
(* unless it has received none since it connected, streaming was disabled   *)
(* when the packet came, or its broadcast was abandoned (deduplication in   *)
(* pollAndBroadcast, dead connections in broadcast).                        *)
ShownIsLatest ==
  sched \in {"free", "fetching"} =>
    \A c \in Client : shown[c] \in {lastJson, "unknown"}

Packets  == INSTANCE Bulletin WITH notice <- lastJson, seen <- shown
Commands == INSTANCE Bulletin WITH notice <- announced, seen <- told

(* A client that has seen a packet sees every later one in its turn until it*)
(* is left out, by its own connection, a broadcast that is abandoned or the *)
(* streaming switch: whatever connections come, go or throw under the loop, *)
(* pollAndBroadcast takes no packet before the last one has reached or given*)
(* up every client, and no loop sends an old one.                           *)
PacketsInTurn == Packets!Spec

(* So with the camera commands, although container threads announce theirs  *)
(* at once: none overtakes another on its way through the list, and no loop *)
(* begins before the one before it has reached or given up every client.    *)
CommandsInTurn == Commands!Spec

(* A dead connection is removed from the list, as long as the Python AI     *)
(* answers or refuses and no broadcast is abandoned for ever (heartbeat).   *)
GhostsLeave ==
  []<>(sched # "fetching") /\ <>[](ended = {}) =>
    \A c \in Client : link[c] = "down" ~> link[c] # "down"

-----------------------------------------------------------------------------
(* Statements of the source that the program does not keep.                 *)

(* Broadcast.java:29: "looping during a broadcast is always safe, even if a *)
(* connection is added or removed at the same moment".  A loop ends when it *)
(* has visited every client that is still there.                            *)
LoopingIsSafe ==
  [][\A t \in Thread : loop[t] # NoLoop /\ loop'[t] = NoLoop =>
       \A c \in loop[t].unsent : link[c] # "up"]_streamingVars

=============================================================================
