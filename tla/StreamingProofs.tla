--------------------------- MODULE StreamingProofs ---------------------------
(***************************************************************************)
(* What holds of Streaming for every set of connections, requests and      *)
(* packets: its types, that all glasses agree on the last camera command   *)
(* and that they show the packet fetched last.                             *)
(***************************************************************************)
EXTENDS Streaming, TLAPS

EventName == {"none", "heartbeat", "data", "cameraControl"}
Value == Packet \union {NoPacket, "none", "start", "stop", "unknown"}

Event == [name : EventName, value : Value]
Loops == [event : Event, unsent : SUBSET Client, failed : SUBSET Client]
Places == [at : {"idle", "toggling", "toggled", "announcing", "looping"},
           value : BOOLEAN]

(* Where the thread of a loop is, and what it may be sending.               *)
Owners ==
  /\ \A r \in Request : loop[r] # NoLoop =>
       req[r].at = "looping" /\ loop[r].event.name = "cameraControl"
  /\ loop[Scheduler] # NoLoop =>
       /\ sched = "looping"
       /\ loop[Scheduler].event.name \in {"heartbeat", "data"}
       /\ loop[Scheduler].event.name = "data" =>
            loop[Scheduler].event.value = lastJson

(* The lock: one thread at a time is in removeIf.                           *)
Exclusive ==
  \A t, u \in Thread : loop[t] # NoLoop /\ loop[u] # NoLoop => t = u

StreamTypes ==
  /\ StreamingTypeOK
  /\ loop \in [Thread -> Loops]
  /\ told \in [Client -> Value] /\ shown \in [Client -> Value]
  /\ Owners
  /\ Exclusive
  /\ \A t \in Thread : \A c \in loop[t].failed : link[c] = "down"
  /\ \A c \in ended : link[c] = "down"

USE DEF Thread, Event, Places

-----------------------------------------------------------------------------
LEMMA NoLoopType ==
  /\ NoLoop \in Loops
  /\ NoLoop.unsent = {} /\ NoLoop.failed = {} /\ NoLoop.event.name = "none"
  BY DEF NoLoop, NoEvent, Loops, EventName, Value

LEMMA StreamInit == Init => StreamTypes
<1> SUFFICES ASSUME Init PROVE StreamTypes
  OBVIOUS
<1>1. loop \in [Thread -> Loops] /\ \A t \in Thread : loop[t] = NoLoop
  BY NoLoopType DEF Init
<1>2. StreamingTypeOK
  BY <1>1, NoLoopType DEF Init, StreamingTypeOK, Idle
<1>3. told \in [Client -> Value] /\ shown \in [Client -> Value]
  BY DEF Init, Value
<1>4. Owners /\ Exclusive
  BY <1>1 DEF Owners, Exclusive
<1>5. /\ ended = {}
      /\ \A t \in Thread : loop[t].failed = {}
  BY <1>1, NoLoopType DEF Init
<1> QED
  BY <1>1, <1>2, <1>3, <1>4, <1>5 DEF StreamTypes

(* A loop that begins is the only one, and its event is not the empty one.  *)
LEMMA BeginLoopAlone ==
  ASSUME StreamTypes, NEW t \in Thread, NEW e, e.name # "none",
         e \in Event, BeginLoop(t, e)
  PROVE  /\ \A u \in Thread : u # t => loop'[u] = NoLoop /\ loop[u] = NoLoop
         /\ loop'[t] = [event |-> e, unsent |-> emitters, failed |-> {}]
         /\ loop'[t] # NoLoop /\ loop[t] = NoLoop
         /\ loop' \in [Thread -> Loops]
  BY DEF BeginLoop, LockFree, StreamTypes, StreamingTypeOK, NoLoop, NoEvent,
         Loops

(* A loop visits an emitter that does not throw ...                         *)
LEMMA VisitOne ==
  ASSUME loop \in [Thread -> Loops], NEW t \in Thread, NEW c \in Client,
         loop' = Visited(t, c)
  PROVE  /\ loop' \in [Thread -> Loops]
         /\ \A u \in Thread : u # t => loop'[u] = loop[u]
         /\ loop'[t].event = loop[t].event
         /\ loop'[t].unsent = loop[t].unsent \ {c}
         /\ loop'[t].failed = loop[t].failed
<1>1. loop'[t] = [event |-> loop[t].event, unsent |-> loop[t].unsent \ {c},
                 failed |-> loop[t].failed]
  BY DEF Visited, Loops
<1>2. loop'[t] \in Loops
  BY <1>1 DEF Loops
<1>3. /\ \A u \in Thread : u # t => loop'[u] = loop[u]
      /\ loop' = [u \in Thread |-> loop'[u]]
  BY DEF Visited
<1> QED
  BY <1>1, <1>2, <1>3

(* ... or one that does.                                                    *)
LEMMA VisitThrowing ==
  ASSUME loop \in [Thread -> Loops], NEW t \in Thread, NEW c \in Client,
         loop' = Throwing(t, c)
  PROVE  /\ loop' \in [Thread -> Loops]
         /\ \A u \in Thread : u # t => loop'[u] = loop[u]
         /\ loop'[t].event = loop[t].event
         /\ loop'[t].unsent = loop[t].unsent \ {c}
         /\ loop'[t].failed = loop[t].failed \union {c}
<1>1. loop'[t] = [event |-> loop[t].event, unsent |-> loop[t].unsent \ {c},
                 failed |-> loop[t].failed \union {c}]
  BY DEF Throwing, Loops
<1>2. loop'[t] \in Loops
  BY <1>1 DEF Loops
<1>3. /\ \A u \in Thread : u # t => loop'[u] = loop[u]
      /\ loop' = [u \in Thread |-> loop'[u]]
  BY DEF Throwing
<1> QED
  BY <1>1, <1>2, <1>3

LEMMA StreamStep == StreamTypes /\ [Next]_streamingVars => StreamTypes'
<1> SUFFICES ASSUME StreamTypes, [Next]_streamingVars PROVE StreamTypes'
  OBVIOUS
<1> USE StreamingAssumption
    DEF StreamTypes, StreamingTypeOK, switchVars, pollVars, listVars, seenVars
<1>1. ASSUME NEW c \in Client, AddEmitter(c) PROVE StreamTypes'
  BY <1>1, NoLoopType DEF AddEmitter, Owners, Exclusive, LockFree
<1>2. ASSUME NEW c \in Client, Drop(c) PROVE StreamTypes'
  BY <1>2 DEF Drop, Owners, Exclusive, Value
<1>3. ASSUME NEW c \in Client, ContainerEnds(c) PROVE StreamTypes'
  BY <1>3 DEF ContainerEnds, Owners, Exclusive
<1>4. ASSUME NEW c \in Client, RemoveEmitter(c) PROVE StreamTypes'
  BY <1>4, NoLoopType DEF RemoveEmitter, Owners, Exclusive, LockFree
<1>5. ASSUME NEW t \in Thread, NEW c \in loop[t].unsent,
             Deliver(t, c) \/ SendToDead(t, c) \/ SendThrows(t, c)
      PROVE  StreamTypes'
  <2>1. c \in Client /\ c \in emitters
    OBVIOUS
  <2>2. loop[t] # NoLoop
    BY DEF NoLoop
  <2>3. \/ loop' = Visited(t, c)
        \/ loop' = Throwing(t, c) /\ link[c] = "down"
    BY <1>5 DEF Deliver, SendToDead, SendThrows
  <2>4. /\ \A u \in Thread : /\ u # t => loop'[u] = loop[u]
                             /\ loop'[u].event = loop[u].event
                             /\ loop'[u].unsent \subseteq loop[u].unsent
                             /\ loop'[u].failed \subseteq loop[u].failed \union {c}
        /\ \A u \in Thread : loop'[u].failed # loop[u].failed => link[c] = "down"
        /\ loop' \in [Thread -> Loops]
    <3>1. loop' = Visited(t, c) \/ loop' = Throwing(t, c)
      BY <2>3
    <3>2. /\ loop' \in [Thread -> Loops]
          /\ \A u \in Thread : u # t => loop'[u] = loop[u]
          /\ loop'[t].event = loop[t].event
          /\ loop'[t].unsent = loop[t].unsent \ {c}
      BY <2>1, <3>1, VisitOne, VisitThrowing
    <3>3. \/ loop'[t].failed = loop[t].failed
          \/ loop'[t].failed = loop[t].failed \union {c} /\ link[c] = "down"
      BY <2>1, <2>3, VisitOne, VisitThrowing
    <3> QED
      BY <3>2, <3>3
  <2>5. \A u \in Thread : loop'[u] # NoLoop => loop[u] # NoLoop
    BY <2>2, <2>4
  <2>6. UNCHANGED <<switchVars, pollVars, req, listVars, announced, astray>>
    BY <1>5 DEF Deliver, SendToDead, SendThrows
  <2>7. told' \in [Client -> Value] /\ shown' \in [Client -> Value]
    <3>1. loop[t].event.value \in Value
      BY DEF Loops
    <3> QED
      BY <1>5, <2>1, <3>1 DEF Deliver, SendToDead, SendThrows
  <2>8. Owners'
    BY <2>4, <2>5, <2>6 DEF Owners
  <2>9. Exclusive'
    BY <2>5 DEF Exclusive
  <2>10. \A u \in Thread : loop'[u].unsent \union loop'[u].failed \subseteq emitters
    BY <2>1, <2>4
  <2>11. \A u \in Thread : \A d \in loop'[u].failed : link[d] = "down"
    BY <2>4
  <2> QED
    BY <2>4, <2>6, <2>7, <2>8, <2>9, <2>10, <2>11
<1>6. ASSUME NEW t \in Thread, LeaveLoop(t)
      PROVE  /\ \A u \in Thread : u # t => loop'[u] = loop[u]
             /\ loop'[t] = NoLoop
             /\ loop' \in [Thread -> Loops]
             /\ sched' \in {"free", "fetching", "sending", "looping"}
             /\ req' \in [Request -> Places]
             /\ (lastJson' = lastJson => Owners')
             /\ Exclusive'
  <2>1. loop' = [loop EXCEPT ![t] = NoLoop]
    BY <1>6 DEF LeaveLoop
  <2>2. NoLoop \in Loops
    BY NoLoopType
  <2>3. /\ \A u \in Thread : u # t => loop'[u] = loop[u]
        /\ loop'[t] = NoLoop
    BY <2>1
  <2>4. loop' \in [Thread -> Loops]
    BY <2>1, <2>2
  <2>5. /\ sched' \in {"free", "fetching", "sending", "looping"}
        /\ req' \in [Request -> Places]
    BY <1>6 DEF LeaveLoop, Idle
  <2>6. ASSUME lastJson' = lastJson PROVE Owners'
    <3>1. \A r \in Request : r # t => req'[r] = req[r]
      BY <1>6 DEF LeaveLoop
    <3>2. t # Scheduler => sched' = sched
      BY <1>6 DEF LeaveLoop
    <3> QED
      BY <2>3, <2>6, <3>1, <3>2 DEF Owners
  <2>7. Exclusive'
    BY <2>3 DEF Exclusive
  <2> QED
    BY <2>3, <2>4, <2>5, <2>6, <2>7
<1>7. ASSUME NEW t \in Thread, NEW c \in loop[t].unsent, SendAborts(t, c)
      PROVE  StreamTypes'
  <2>1. LeaveLoop(t)
        /\ UNCHANGED <<switchVars, served, lastJson, listVars, announced, astray>>
    BY <1>7 DEF SendAborts
  <2>2. told' \in [Client -> Value] /\ shown' \in [Client -> Value]
    BY <1>7 DEF SendAborts, Forgotten, Value
  <2>3. /\ NoLoop.unsent = {} /\ NoLoop.failed = {}
    BY DEF NoLoop
  <2> QED
    BY <1>6, <2>1, <2>2, <2>3
<1>8. ASSUME NEW t \in Thread, EndLoop(t) PROVE StreamTypes'
  <2>1. LeaveLoop(t) /\ loop[t] # NoLoop
        /\ UNCHANGED <<switchVars, served, lastJson, seenVars>>
    BY <1>8 DEF EndLoop
  <2>2. \A u \in Thread : loop'[u] = NoLoop
    BY <1>6, <2>1 DEF Exclusive
  <2>3. /\ emitters' = emitters \ loop[t].failed
        /\ ended' = ended \ loop[t].failed
        /\ link' = [c \in Client |-> IF c \in loop[t].failed THEN "none"
                                     ELSE link[c]]
    BY <1>8 DEF EndLoop
  <2>4. /\ ended' \subseteq emitters' /\ emitters' \subseteq Client
        /\ link' \in [Client -> {"none", "up", "down"}]
        /\ emitters' = {c \in Client : link'[c] # "none"}
    BY <2>3
  <2>5. /\ NoLoop.unsent = {} /\ NoLoop.failed = {}
    BY DEF NoLoop
  <2>6. \A c \in ended' : link'[c] = "down"
    BY <2>3
  <2>7. Owners'
    BY <1>6, <2>1
  <2> QED
    BY <1>6, <2>1, <2>2, <2>4, <2>5, <2>6, <2>7
<1>9. CASE PollBegin
  BY <1>9 DEF PollBegin, Owners, Exclusive
<1>10. CASE PollAnswered
  BY <1>10 DEF PollAnswered, Owners, Exclusive, Forgotten, Value
<1>11. CASE PollFails
  BY <1>11 DEF PollFails, Owners, Exclusive
<1>12. ASSUME NEW e, e = Data(lastJson) \/ e = Heartbeat,
              BeginLoop(Scheduler, e), sched' = "looping",
              UNCHANGED <<switchVars, served, lastJson, req, listVars, seenVars>>
       PROVE  StreamTypes'
  <2>1. e \in Event /\ e.name # "none"
        /\ e.name \in {"heartbeat", "data"}
        /\ (e.name = "data" => e.value = lastJson)
    BY <1>12 DEF Data, Heartbeat, EventName, Value
  <2>2. /\ \A u \in Thread : u # Scheduler => loop'[u] = NoLoop
        /\ loop'[Scheduler] = [event |-> e, unsent |-> emitters, failed |-> {}]
        /\ loop'[Scheduler] # NoLoop
        /\ loop' \in [Thread -> Loops]
    BY <1>12, <2>1, BeginLoopAlone
  <2>3. Owners' /\ Exclusive'
    BY <1>12, <2>1, <2>2 DEF Owners, Exclusive
  <2>4. \A u \in Thread : /\ loop'[u].failed = {}
                          /\ loop'[u].unsent \subseteq emitters
    BY <2>2 DEF NoLoop
  <2> QED
    BY <1>12, <2>2, <2>3, <2>4
<1>13. CASE TogglePolling \/ ToggleStreaming \/ Serve
  <2>1. CASE TogglePolling
    BY <2>1 DEF TogglePolling, Owners, Exclusive
  <2>2. CASE ToggleStreaming
    BY <2>2 DEF ToggleStreaming, Owners, Exclusive
  <2>3. CASE Serve
    BY <2>3 DEF Serve, Owners, Exclusive
  <2> QED
    BY <1>13, <2>1, <2>2, <2>3
<1>14. ASSUME NEW r \in Request,
              ToggleRead(r) \/ ToggleWrite(r) \/ ToggleReadBack(r)
       PROVE  StreamTypes'
  <2>1. /\ UNCHANGED <<pollingEnabled, streamingEnabled, pollVars, listVars,
                       loop, told, shown, announced>>
        /\ cameraEnabled' \in BOOLEAN /\ astray' \in BOOLEAN
        /\ req' \in [Request -> Places]
        /\ req[r].at # "looping"
        /\ \A q \in Request : q # r => req'[q] = req[q]
    <3>1. CASE ToggleRead(r)
      BY <3>1 DEF ToggleRead
    <3>2. CASE ToggleWrite(r)
      BY <3>2 DEF ToggleWrite
    <3>3. CASE ToggleReadBack(r)
      BY <3>3 DEF ToggleReadBack
    <3> QED
      BY <1>14, <3>1, <3>2, <3>3
  <2>2. Owners' /\ Exclusive'
    BY <2>1 DEF Owners, Exclusive
  <2> QED
    BY <2>1, <2>2
<1>15. ASSUME NEW r \in Request, ToggleAnnounce(r) PROVE StreamTypes'
  <2> DEFINE e == Camera(req[r].value)
  <2>1. e \in Event /\ e.name = "cameraControl"
    BY DEF Camera, EventName, Value
  <2>2. /\ BeginLoop(r, e)
        /\ req' = [req EXCEPT ![r].at = "looping"]
        /\ announced' \in {"start", "stop"}
        /\ UNCHANGED <<switchVars, pollVars, listVars, told, shown, astray>>
    BY <1>15 DEF ToggleAnnounce, Camera
  <2>3. /\ \A u \in Thread : u # r => loop'[u] = NoLoop
        /\ loop'[r] = [event |-> e, unsent |-> emitters, failed |-> {}]
        /\ loop' \in [Thread -> Loops]
    <3> HIDE DEF e
    <3> QED
      BY <2>1, <2>2, BeginLoopAlone
  <2> HIDE DEF e
  <2>4. req' \in [Request -> Places] /\ req'[r].at = "looping"
    BY <2>2
  <2>5. Owners' /\ Exclusive'
    BY <2>1, <2>2, <2>3, <2>4 DEF Owners, Exclusive
  <2>6. \A u \in Thread : /\ loop'[u].failed = {}
                          /\ loop'[u].unsent \subseteq emitters
    BY <2>3 DEF NoLoop
  <2> QED
    BY <2>2, <2>3, <2>4, <2>5, <2>6
<1>16. CASE UNCHANGED streamingVars
  BY <1>16 DEF streamingVars, Owners, Exclusive
<1> QED
  BY <1>1, <1>2, <1>3, <1>4, <1>5, <1>7, <1>8, <1>9, <1>10, <1>11, <1>12,
     <1>13, <1>14, <1>15, <1>16
  DEF Next, Connection, LoopStep, PollAndBroadcast, PollSend, SendHeartbeat,
      ToggleCamera

(* The types of the streaming half, and that the emitters of the list are   *)
(* the connections that are not gone.                                       *)
THEOREM StreamingTypeCorrect == Spec => []StreamingTypeOK
<1>1. StreamTypes => StreamingTypeOK
  BY DEF StreamTypes
<1> QED
  BY StreamInit, StreamStep, <1>1, PTL DEF Spec

-----------------------------------------------------------------------------
Announces(t) == loop[t].event.name = "cameraControl"

(* A client that is not there has heard of nothing.                         *)
DeadKnowNothing ==
  \A c \in Client : link[c] # "up" =>
    told[c] = "unknown" /\ shown[c] = "unknown"

(* The clients that a camera loop has passed have heard its command ...     *)
Heard ==
  \A t \in Thread : Announces(t) =>
    \A c \in Client \ loop[t].unsent :
      told[c] \in {"unknown", loop[t].event.value}

(* which is the one announced last ...                                      *)
Newest == \A t \in Thread : Announces(t) => loop[t].event.value = announced

(* ... and all have heard of that one when there is no such loop.           *)
Informed ==
  (\A t \in Thread : ~Announces(t)) =>
    \A c \in Client : told[c] \in {"unknown", announced}

(* A client shows the latest packet or is about to receive it.              *)
Latest ==
  sched # "sending" =>
    \A c \in Client :
      \/ shown[c] \in {lastJson, "unknown"}
      \/ loop[Scheduler].event.name = "data" /\ c \in loop[Scheduler].unsent

SeenInv == DeadKnowNothing /\ Heard /\ Newest /\ Informed /\ Latest

LEMMA SeenInit == Init => SeenInv
  BY NoLoopType
  DEF Init, SeenInv, DeadKnowNothing, Heard, Newest, Informed, Latest, Announces

(* What a step that leaves the loops and what was seen alone preserves.     *)
LEMMA SeenUnchanged ==
  ASSUME SeenInv, UNCHANGED <<loop, told, shown, announced, lastJson>>,
         \A c \in Client : link'[c] # "up" => link[c] # "up",
         sched' # "sending" => sched # "sending"
  PROVE  SeenInv'
  BY DEF SeenInv, DeadKnowNothing, Heard, Newest, Informed, Latest, Announces

LEMMA SeenStep ==
  StreamTypes /\ SeenInv /\ [Next]_streamingVars => SeenInv'
<1> SUFFICES ASSUME StreamTypes, SeenInv, [Next]_streamingVars PROVE SeenInv'
  OBVIOUS
<1> USE StreamingAssumption
    DEF StreamTypes, StreamingTypeOK, switchVars, pollVars, listVars, seenVars
<1>0. \A t \in Thread : loop[t].event.name # "none" => loop[t] # NoLoop
  BY NoLoopType
<1>1. ASSUME NEW c \in Client, AddEmitter(c) \/ ContainerEnds(c)
             \/ RemoveEmitter(c)
      PROVE  SeenInv'
  <2>1. CASE AddEmitter(c)
    BY <2>1, SeenUnchanged DEF AddEmitter
  <2>2. CASE ContainerEnds(c)
    BY <2>2, SeenUnchanged DEF ContainerEnds
  <2>3. CASE RemoveEmitter(c)
    <3>1. link' = [link EXCEPT ![c] = "none"]
          /\ UNCHANGED <<pollVars, loop, seenVars>>
      BY <2>3 DEF RemoveEmitter
    <3>2. CASE link[c] # "up"
      BY <3>1, <3>2, SeenUnchanged
    <3>3. CASE link[c] = "up"
      BY <2>3, <3>3 DEF RemoveEmitter
    <3> QED
      BY <3>2, <3>3
  <2> QED
    BY <1>1, <2>1, <2>2, <2>3
<1>2. ASSUME NEW c \in Client, Drop(c) PROVE SeenInv'
  BY <1>2 DEF Drop, SeenInv, DeadKnowNothing, Heard, Newest, Informed, Latest, Announces
<1>3. ASSUME NEW t \in Thread, NEW c \in loop[t].unsent,
             Deliver(t, c) \/ SendToDead(t, c) \/ SendThrows(t, c)
      PROVE  SeenInv'
  <2>1. /\ c \in Client /\ loop[t] # NoLoop
        /\ \A u \in Thread : u # t => loop[u] = NoLoop /\ ~Announces(u)
    BY NoLoopType DEF Exclusive, Announces
  <2>2. loop' = Visited(t, c) \/ loop' = Throwing(t, c)
    BY <1>3 DEF Deliver, SendToDead, SendThrows
  <2>3. /\ \A u \in Thread : /\ u # t => loop'[u] = loop[u]
                             /\ loop'[u].event = loop[u].event
        /\ loop'[t].unsent = loop[t].unsent \ {c}
    BY <2>1, <2>2, VisitOne, VisitThrowing
  <2>4. /\ UNCHANGED <<pollVars, req, listVars, announced>>
        /\ \A d \in Client \ {c} : told'[d] = told[d] /\ shown'[d] = shown[d]
        /\ link[c] = "up" \/ UNCHANGED <<told, shown>>
        /\ ~Announces(t) => told' = told
        /\ loop[t].event.name # "data" => shown' = shown
    BY <1>3, <2>1 DEF Deliver, SendToDead, SendThrows, Announces
  <2>5. /\ Announces(t) => told'[c] \in {"unknown", loop[t].event.value}
        /\ loop[t].event.name = "data" =>
             shown'[c] \in {"unknown", loop[t].event.value}
    BY <1>3, <2>1
    DEF Deliver, SendToDead, SendThrows, Announces, SeenInv, DeadKnowNothing
  <2>6. DeadKnowNothing'
    BY <2>4 DEF SeenInv, DeadKnowNothing
  <2>7. Heard'
    BY <2>1, <2>3, <2>4, <2>5 DEF SeenInv, Heard, Announces
  <2>8. Newest' /\ Informed'
    BY <2>3, <2>4 DEF SeenInv, Newest, Informed, Announces
  <2>9. Latest'
    <3>1. CASE loop[t].event.name = "data"
      <4>1. t = Scheduler /\ loop[t].event.value = lastJson
        BY <2>1, <3>1 DEF Owners
      <4> QED
        BY <2>3, <2>4, <2>5, <3>1, <4>1 DEF SeenInv, Latest
    <3>2. CASE loop[t].event.name # "data"
      BY <2>3, <2>4, <3>2 DEF SeenInv, Latest
    <3> QED
      BY <3>1, <3>2
  <2> QED
    BY <2>6, <2>7, <2>8, <2>9 DEF SeenInv
<1>4. ASSUME NEW t \in Thread, loop[t] # NoLoop, LeaveLoop(t),
             lastJson' = lastJson, announced' = announced,
             \A c \in Client : link'[c] # "up" => link[c] # "up",
             told' = IF Announces(t) THEN Forgotten(told, loop[t].unsent)
                     ELSE told,
             shown' = IF loop[t].event.name = "data"
                      THEN Forgotten(shown, loop[t].unsent) ELSE shown
      PROVE  SeenInv'
  <2>1. /\ loop'[t] = NoLoop
        /\ \A u \in Thread : u # t => loop'[u] = loop[u] /\ loop[u] = NoLoop
    BY <1>4 DEF LeaveLoop, Exclusive
  <2>2. \A u \in Thread : loop'[u] = NoLoop /\ ~Announces(u)'
    BY <2>1, NoLoopType DEF Announces
  <2>3. DeadKnowNothing'
    BY <1>4 DEF SeenInv, DeadKnowNothing, Forgotten
  <2>4. Heard'
    BY <2>2 DEF Heard
  <2>5. Newest' /\ Informed'
    <3>1. CASE Announces(t)
      <4>1. \A c \in Client : told'[c] \in {"unknown", loop[t].event.value}
        BY <1>4, <3>1 DEF SeenInv, Heard, Forgotten
      <4> QED
        BY <1>4, <2>2, <3>1, <4>1 DEF SeenInv, Newest, Informed
    <3>2. CASE ~Announces(t)
      <4>1. \A u \in Thread : ~Announces(u)
        BY <2>1, <3>2, NoLoopType DEF Announces
      <4> QED
        BY <1>4, <2>2, <3>2, <4>1 DEF SeenInv, Newest, Informed
    <3> QED
      BY <3>1, <3>2
  <2>6. Latest'
    <3>1. CASE t = Scheduler
      <4>1. sched = "looping"
        BY <1>4, <3>1 DEF Owners
      <4> QED
        BY <1>4, <3>1, <4>1 DEF SeenInv, Latest, Forgotten
    <3>2. CASE t # Scheduler
      <4>1. loop[t].event.name # "data" /\ sched' = sched
        BY <1>4, <3>2 DEF Owners, LeaveLoop
      <4> QED
        BY <1>4, <2>1, <3>2, <4>1 DEF SeenInv, Latest
    <3> QED
      BY <3>1, <3>2
  <2> QED
    BY <2>3, <2>4, <2>5, <2>6 DEF SeenInv
<1>5. ASSUME NEW t \in Thread, NEW c \in loop[t].unsent, SendAborts(t, c)
      PROVE  SeenInv'
  <2>1. loop[t] # NoLoop
    BY NoLoopType
  <2> QED
    BY <1>4, <1>5, <2>1 DEF SendAborts, Announces
<1>6. ASSUME NEW t \in Thread, EndLoop(t) PROVE SeenInv'
  <2>1. /\ loop[t] # NoLoop /\ loop[t].unsent = {} /\ LeaveLoop(t)
        /\ UNCHANGED <<lastJson, told, shown, announced>>
        /\ link' = [c \in Client |-> IF c \in loop[t].failed THEN "none"
                                     ELSE link[c]]
    BY <1>6 DEF EndLoop
  <2>2. Forgotten(told, {}) = told /\ Forgotten(shown, {}) = shown
    BY DEF Forgotten
  <2>3. \A c \in Client : link'[c] # "up" => link[c] # "up"
    BY <2>1
  <2> QED
    BY <1>4, <2>1, <2>2, <2>3
<1>7. CASE PollBegin \/ PollFails
  BY <1>7, SeenUnchanged DEF PollBegin, PollFails
<1>8. CASE PollAnswered
  <2>1. loop[Scheduler] = NoLoop
    BY <1>8 DEF PollAnswered, Owners
  <2> QED
    BY <1>8, <2>1, NoLoopType
    DEF PollAnswered, Forgotten, SeenInv, DeadKnowNothing, Heard, Newest,
        Informed, Latest, Announces
<1>9. ASSUME NEW t \in Thread, NEW e \in Event, e.name # "none",
             BeginLoop(t, e), UNCHANGED <<lastJson, listVars, told, shown>>,
             \/ /\ t = Scheduler /\ announced' = announced
                /\ \/ sched = "sending" /\ e.name = "data"
                   \/ sched = "free" /\ e.name = "heartbeat"
             \/ /\ t # Scheduler /\ sched' = sched
                /\ e.name = "cameraControl" /\ e.value = announced'
      PROVE  SeenInv'
  <2>1. /\ \A u \in Thread : u # t => loop'[u] = NoLoop /\ loop[u] = NoLoop
        /\ loop'[t].event = e /\ loop'[t].unsent = emitters
        /\ loop[t] = NoLoop
    <3>1. /\ \A u \in Thread : u # t => loop'[u] = NoLoop /\ loop[u] = NoLoop
          /\ loop'[t] = [event |-> e, unsent |-> emitters, failed |-> {}]
          /\ loop[t] = NoLoop
      BY <1>9, BeginLoopAlone
    <3> QED
      BY <3>1
  <2>2. \A u \in Thread : /\ loop[u].event.name = "none" /\ ~Announces(u)
                          /\ u # t => loop'[u].event.name = "none"
    BY <2>1, NoLoopType DEF Announces
  <2>3. \A c \in Client \ emitters : told[c] = "unknown" /\ shown[c] = "unknown"
    BY DEF SeenInv, DeadKnowNothing
  <2>4. DeadKnowNothing'
    BY <1>9 DEF SeenInv, DeadKnowNothing
  <2>5. Heard'
    BY <1>9, <2>1, <2>2, <2>3 DEF Heard, Announces
  <2>6. Newest'
    BY <1>9, <2>1, <2>2 DEF Newest, Announces
  <2>7. Informed'
    <3>1. CASE e.name = "cameraControl"
      BY <2>1, <3>1 DEF Informed, Announces
    <3>2. CASE e.name # "cameraControl"
      BY <1>9, <2>2, <3>2 DEF SeenInv, Informed
    <3> QED
      BY <3>1, <3>2
  <2>8. Latest'
    <3>1. CASE t = Scheduler /\ e.name = "data"
      BY <1>9, <2>1, <2>3, <3>1 DEF Latest
    <3>2. CASE sched # "sending" /\ (sched' = sched \/ sched = "free")
      BY <1>9, <2>2, <3>2 DEF SeenInv, Latest
    <3>3. CASE t # Scheduler
      BY <1>9, <2>1, <2>2, <3>3, NoLoopType DEF SeenInv, Latest
    <3> QED
      BY <1>9, <3>1, <3>2, <3>3
  <2> QED
    BY <2>4, <2>5, <2>6, <2>7, <2>8 DEF SeenInv
<1>10. CASE PollSend
  <2>1. Data(lastJson) \in Event /\ Data(lastJson).name = "data"
    BY DEF Data, EventName, Value
  <2> QED
    BY <1>9, <1>10, <2>1 DEF PollSend
<1>11. CASE SendHeartbeat
  <2>1. Heartbeat \in Event /\ Heartbeat.name = "heartbeat"
    BY DEF Heartbeat, EventName, Value
  <2> QED
    BY <1>9, <1>11, <2>1 DEF SendHeartbeat
<1>12. CASE TogglePolling \/ ToggleStreaming \/ Serve
  BY <1>12, SeenUnchanged DEF TogglePolling, ToggleStreaming, Serve
<1>13. ASSUME NEW r \in Request, ToggleCamera(r) PROVE SeenInv'
  <2>1. CASE ToggleRead(r) \/ ToggleWrite(r) \/ ToggleReadBack(r)
    BY <2>1, SeenUnchanged DEF ToggleRead, ToggleWrite, ToggleReadBack
  <2>2. CASE ToggleAnnounce(r)
    <3>1. /\ Camera(req[r].value) \in Event
          /\ Camera(req[r].value).name = "cameraControl"
      BY DEF Camera, EventName, Value
    <3> QED
      BY <1>9, <2>2, <3>1 DEF ToggleAnnounce
  <2> QED
    BY <1>13, <2>1, <2>2 DEF ToggleCamera
<1>14. CASE UNCHANGED streamingVars
  BY <1>14, SeenUnchanged DEF streamingVars
<1> QED
  BY <1>1, <1>2, <1>3, <1>5, <1>6, <1>7, <1>8, <1>10, <1>11, <1>12, <1>13,
     <1>14
  DEF Next, Connection, LoopStep, PollAndBroadcast

LEMMA StreamingInvariant == Spec => [](StreamTypes /\ SeenInv)
<1>1. Init => StreamTypes /\ SeenInv
  BY StreamInit, SeenInit
<1>2. StreamTypes /\ SeenInv /\ [Next]_streamingVars
      => (StreamTypes /\ SeenInv)'
  BY StreamStep, SeenStep
<1> QED
  BY <1>1, <1>2, PTL DEF Spec

(* While no camera command is being sent, all the glasses that have heard   *)
(* of one agree on the last (the lock of the emitter list in removeIf).     *)
THEOREM AllGlassesAgree == Spec => []GlassesAgree
<1>1. StreamTypes /\ SeenInv => GlassesAgree
  BY DEF StreamTypes, StreamingTypeOK, SeenInv, Informed, Announces, GlassesAgree
<1> QED
  BY StreamingInvariant, <1>1, PTL

(* Between two polls the glasses show the packet that was fetched last, or  *)
(* have been left out of its broadcast (pollAndBroadcast, broadcast).       *)
THEOREM PacketsAreLatest == Spec => []ShownIsLatest
<1>1. StreamTypes /\ SeenInv => ShownIsLatest
  <2> SUFFICES ASSUME StreamTypes, SeenInv, sched \in {"free", "fetching"}
               PROVE  \A c \in Client : shown[c] \in {lastJson, "unknown"}
    BY DEF ShownIsLatest
  <2>1. loop[Scheduler].event.name # "data"
    BY NoLoopType DEF StreamTypes, Owners
  <2> QED
    BY <2>1 DEF SeenInv, Latest
<1> QED
  BY StreamingInvariant, <1>1, PTL

-----------------------------------------------------------------------------
(* The two refinements of Bulletin.  An answer posts a packet and a loop    *)
(* that begins posts a command; Deliver shows it to one client; the rest is *)
(* losing track.                                                            *)

LEMMA LosingSome ==
  ASSUME NEW left \in SUBSET Client
  PROVE  /\ Packets!Losing(left) = Forgotten(shown, left)
         /\ Commands!Losing(left) = Forgotten(told, left)
  BY DEF Packets!Losing, Commands!Losing, Forgotten

LEMMA LosingOne ==
  ASSUME StreamTypes, NEW c \in Client
  PROVE  /\ Forgotten(shown, {c}) = [shown EXCEPT ![c] = "unknown"]
         /\ Forgotten(told, {c}) = [told EXCEPT ![c] = "unknown"]
  BY DEF StreamTypes, Forgotten

LEMMA LosingNone ==
  ASSUME StreamTypes
  PROVE  Forgotten(shown, {}) = shown /\ Forgotten(told, {}) = told
  BY DEF StreamTypes, Forgotten

LEMMA PacketsStep ==
  StreamTypes /\ SeenInv /\ [Next]_streamingVars =>
    [Packets!Next]_Packets!bulletinVars
<1> SUFFICES ASSUME StreamTypes, SeenInv, [Next]_streamingVars
             PROVE  [Packets!Next]_Packets!bulletinVars
  OBVIOUS
<1>1. ASSUME NEW c \in Client, Drop(c) PROVE Packets!Next
  <2>1. shown' = Packets!Losing({c}) /\ lastJson' = lastJson
    BY <1>1, LosingSome, LosingOne DEF Drop, pollVars
  <2> QED
    BY <2>1 DEF Packets!Next, Packets!Lose
<1>2. ASSUME NEW t \in Thread, NEW c \in loop[t].unsent, Deliver(t, c)
      PROVE  [Packets!Next]_Packets!bulletinVars
  <2>1. CASE loop[t].event.name = "data"
    <3>1. loop[t] # NoLoop
      BY NoLoopType
    <3>2. loop[t].event.value = lastJson
      BY <2>1, <3>1 DEF StreamTypes, Owners
    <3>3. c \in Client
      BY DEF StreamTypes, StreamingTypeOK
    <3> QED
      BY <1>2, <2>1, <3>2, <3>3
         DEF Deliver, pollVars, Packets!Next, Packets!See
  <2>2. CASE loop[t].event.name # "data"
    BY <1>2, <2>2 DEF Deliver, pollVars, Packets!bulletinVars
  <2> QED
    BY <2>1, <2>2
<1>3. ASSUME NEW t \in Thread, NEW c \in loop[t].unsent, SendAborts(t, c)
      PROVE  Packets!Next
  <2>1. loop[t].unsent \in SUBSET Client
    BY DEF StreamTypes, StreamingTypeOK
  <2>2. \E left \in SUBSET Client : shown' = Forgotten(shown, left)
    BY <1>3, <2>1, LosingNone DEF SendAborts
  <2> QED
    BY <1>3, <2>2, LosingSome DEF SendAborts, Packets!Next, Packets!Lose
<1>4. CASE PollAnswered
  <2>1. \A c \in Client : shown[c] \in {lastJson, "unknown"}
    <3>1. sched = "fetching" /\ loop[Scheduler] = NoLoop
      BY <1>4 DEF PollAnswered, StreamTypes, Owners
    <3> QED
      BY <3>1, NoLoopType DEF SeenInv, Latest
  <2>2. \E left \in SUBSET Client : shown' = Forgotten(shown, left)
    <3>1. shown' \in {Forgotten(shown, Client), Forgotten(shown, {})}
      BY <1>4, LosingNone DEF PollAnswered
    <3> QED
      BY <3>1
  <2> QED
    BY <2>1, <2>2, LosingSome DEF Packets!Next, Packets!Post
<1>5. ASSUME UNCHANGED <<pollVars, seenVars>>
      PROVE  UNCHANGED Packets!bulletinVars
  BY <1>5 DEF pollVars, seenVars, Packets!bulletinVars
<1>6. ASSUME NEW c \in Client, Connection(c), ~Drop(c)
      PROVE  UNCHANGED Packets!bulletinVars
  BY <1>5, <1>6 DEF Connection, AddEmitter, ContainerEnds, RemoveEmitter
<1>7. ASSUME NEW t \in Thread, LoopStep(t),
             \A c \in loop[t].unsent : ~Deliver(t, c) /\ ~SendAborts(t, c)
      PROVE  UNCHANGED Packets!bulletinVars
  BY <1>7 DEF LoopStep, SendToDead, SendThrows, EndLoop, pollVars, seenVars,
     Packets!bulletinVars
<1>8. CASE PollBegin \/ PollFails \/ PollSend \/ SendHeartbeat
  BY <1>8 DEF PollBegin, PollFails, PollSend, SendHeartbeat, seenVars,
     Packets!bulletinVars
<1>9. CASE TogglePolling \/ ToggleStreaming
  <2>1. CASE TogglePolling
    BY <1>5, <2>1 DEF TogglePolling
  <2>2. CASE ToggleStreaming
    BY <1>5, <2>2 DEF ToggleStreaming
  <2> QED
    BY <1>9, <2>1, <2>2
<1>10. CASE Serve
  BY <1>10 DEF Serve, seenVars, Packets!bulletinVars
<1>11. ASSUME NEW r \in Request, ToggleCamera(r)
       PROVE  UNCHANGED Packets!bulletinVars
  BY <1>11 DEF ToggleCamera, ToggleRead, ToggleWrite, ToggleReadBack,
     ToggleAnnounce, pollVars, seenVars, Packets!bulletinVars
<1>12. CASE UNCHANGED streamingVars
  BY <1>5, <1>12 DEF streamingVars
<1> QED
  BY <1>1, <1>2, <1>3, <1>4, <1>6, <1>7, <1>8, <1>9, <1>10, <1>11, <1>12
  DEF Next, Connection, LoopStep, PollAndBroadcast

LEMMA CommandsStep ==
  StreamTypes /\ SeenInv /\ [Next]_streamingVars =>
    [Commands!Next]_Commands!bulletinVars
<1> SUFFICES ASSUME StreamTypes, SeenInv, [Next]_streamingVars
             PROVE  [Commands!Next]_Commands!bulletinVars
  OBVIOUS
<1>1. ASSUME NEW c \in Client, Drop(c) PROVE Commands!Next
  <2>1. told' = Commands!Losing({c}) /\ announced' = announced
    BY <1>1, LosingSome, LosingOne DEF Drop
  <2> QED
    BY <2>1 DEF Commands!Next, Commands!Lose
<1>2. ASSUME NEW t \in Thread, NEW c \in loop[t].unsent, Deliver(t, c)
      PROVE  [Commands!Next]_Commands!bulletinVars
  <2>1. CASE Announces(t)
    <3>1. loop[t].event.value = announced
      BY <2>1 DEF SeenInv, Newest
    <3>2. c \in Client
      BY DEF StreamTypes, StreamingTypeOK
    <3> QED
      BY <1>2, <2>1, <3>1, <3>2
         DEF Announces, Deliver, Commands!Next, Commands!See
  <2>2. CASE ~Announces(t)
    BY <1>2, <2>2 DEF Announces, Deliver, Commands!bulletinVars
  <2> QED
    BY <2>1, <2>2
<1>3. ASSUME NEW t \in Thread, NEW c \in loop[t].unsent, SendAborts(t, c)
      PROVE  Commands!Next
  <2>1. loop[t].unsent \in SUBSET Client
    BY DEF StreamTypes, StreamingTypeOK
  <2>2. \E left \in SUBSET Client : told' = Forgotten(told, left)
    BY <1>3, <2>1, LosingNone DEF SendAborts
  <2> QED
    BY <1>3, <2>2, LosingSome DEF SendAborts, Commands!Next, Commands!Lose
<1>4. ASSUME NEW r \in Request, ToggleAnnounce(r) PROVE Commands!Next
  <2>1. \A c \in Client : told[c] \in {announced, "unknown"}
    <3>1. \A t \in Thread : ~Announces(t)
      BY <1>4, NoLoopType DEF ToggleAnnounce, BeginLoop, LockFree, Announces
    <3> QED
      BY <3>1 DEF SeenInv, Informed
  <2>2. told' = Forgotten(told, {})
    BY <1>4, LosingNone DEF ToggleAnnounce
  <2> QED
    BY <2>1, <2>2, LosingSome DEF Commands!Next, Commands!Post
<1>5. ASSUME UNCHANGED seenVars PROVE UNCHANGED Commands!bulletinVars
  BY <1>5 DEF seenVars, Commands!bulletinVars
<1>6. ASSUME NEW c \in Client, Connection(c), ~Drop(c)
      PROVE  UNCHANGED Commands!bulletinVars
  BY <1>5, <1>6 DEF Connection, AddEmitter, ContainerEnds, RemoveEmitter
<1>7. ASSUME NEW t \in Thread, LoopStep(t),
             \A c \in loop[t].unsent : ~Deliver(t, c) /\ ~SendAborts(t, c)
      PROVE  UNCHANGED Commands!bulletinVars
  BY <1>5, <1>7 DEF LoopStep, SendToDead, SendThrows, EndLoop
<1>8. CASE PollBegin \/ PollFails \/ PollSend \/ SendHeartbeat \/ Serve
  BY <1>5, <1>8 DEF PollBegin, PollFails, PollSend, SendHeartbeat, Serve
<1>9. CASE PollAnswered
  BY <1>9 DEF PollAnswered, Commands!bulletinVars
<1>10. CASE TogglePolling \/ ToggleStreaming
  <2>1. CASE TogglePolling
    BY <1>5, <2>1 DEF TogglePolling
  <2>2. CASE ToggleStreaming
    BY <1>5, <2>2 DEF ToggleStreaming
  <2> QED
    BY <1>10, <2>1, <2>2
<1>11. ASSUME NEW r \in Request, ToggleRead(r) \/ ToggleWrite(r) \/ ToggleReadBack(r)
       PROVE  UNCHANGED Commands!bulletinVars
  <2>1. UNCHANGED <<told, announced>>
    BY <1>11 DEF ToggleRead, ToggleWrite, ToggleReadBack, seenVars
  <2> QED
    BY <2>1 DEF Commands!bulletinVars
<1>12. CASE UNCHANGED streamingVars
  BY <1>5, <1>12 DEF streamingVars
<1> QED
  BY <1>1, <1>2, <1>3, <1>4, <1>6, <1>7, <1>8, <1>9, <1>10, <1>11, <1>12
  DEF Next, Connection, LoopStep, PollAndBroadcast, ToggleCamera

(* A client sees the packets in their order and none is kept from it while  *)
(* it keeps track (pollAndBroadcast, broadcast).                            *)
THEOREM PacketsComeInTurn == Spec => PacketsInTurn
<1>1. Init => Packets!Init
  BY DEF Init, Packets!Init
<1> QED
  BY <1>1, StreamingInvariant, PacketsStep, PTL
     DEF Spec, PacketsInTurn, Packets!Spec

(* A client hears the camera commands in the order they are announced, by   *)
(* however many requests at once (toggleCamera, broadcastNamed).            *)
THEOREM CommandsComeInTurn == Spec => CommandsInTurn
<1>1. Init => Commands!Init
  BY DEF Init, Commands!Init
<1> QED
  BY <1>1, StreamingInvariant, CommandsStep, PTL
     DEF Spec, CommandsInTurn, Commands!Spec

-----------------------------------------------------------------------------
Lone(r) == \A q \in Request : q # r => req[q].at = "idle"
Quiet == \A r \in Request : req[r].at = "idle"

(* While the last request is the only one, what it read back and what it    *)
(* sends are the switch, and the clients it has sent to do as it says.      *)
OneRequest == \A r \in Request : req[r].at # "idle" => Lone(r)
InStep ==
  \A r \in Request :
    /\ req[r].at = "announcing" => req[r].value = cameraEnabled
    /\ loop[r] # NoLoop => loop[r].event = Camera(cameraEnabled)
Mended ==
  Quiet => \A c \in Client : told[c] \in {"unknown", Camera(cameraEnabled).value}

FollowInv == ~astray => OneRequest /\ InStep /\ Mended

LEMMA FollowInit == Init => FollowInv
  BY NoLoopType DEF Init, FollowInv, OneRequest, InStep, Mended, Lone, Idle

(* What a step that leaves the requests, the switch and the announcements   *)
(* alone preserves.                                                         *)
LEMMA FollowUnchanged ==
  ASSUME FollowInv, UNCHANGED <<req, cameraEnabled, astray>>,
         \A r \in Request :
           loop'[r] # NoLoop => loop[r] # NoLoop /\ loop'[r].event = loop[r].event,
         \A c \in Client : Quiet => told'[c] \in {"unknown", told[c]}
  PROVE  FollowInv'
  BY DEF FollowInv, OneRequest, InStep, Mended, Lone, Quiet

LEMMA FollowStep ==
  StreamTypes /\ SeenInv /\ FollowInv /\ [Next]_streamingVars => FollowInv'
<1> SUFFICES ASSUME StreamTypes, SeenInv, FollowInv, [Next]_streamingVars
             PROVE  FollowInv'
  OBVIOUS
<1> USE StreamingAssumption
    DEF StreamTypes, StreamingTypeOK, switchVars, pollVars, listVars, seenVars
<1>1. ASSUME NEW c \in Client, Connection(c) PROVE FollowInv'
  <2>1. /\ UNCHANGED <<req, cameraEnabled, astray, loop>>
        /\ \A d \in Client : told'[d] \in {"unknown", told[d]}
    BY <1>1 DEF Connection, AddEmitter, Drop, ContainerEnds, RemoveEmitter
  <2> QED
    BY <2>1, FollowUnchanged
<1>2. ASSUME NEW t \in Thread, NEW c \in loop[t].unsent,
             Deliver(t, c) \/ SendToDead(t, c) \/ SendThrows(t, c)
      PROVE  FollowInv'
  <2>1. c \in Client /\ loop[t] # NoLoop
    BY NoLoopType
  <2>2. loop' = Visited(t, c) \/ loop' = Throwing(t, c)
    BY <1>2 DEF Deliver, SendToDead, SendThrows
  <2>3. \A u \in Thread : /\ u # t => loop'[u] = loop[u]
                          /\ loop'[u].event = loop[u].event
    BY <2>1, <2>2, VisitOne, VisitThrowing
  <2>4. /\ UNCHANGED <<req, cameraEnabled, astray>>
        /\ told' = told \/ loop[t].event.name = "cameraControl"
    BY <1>2 DEF Deliver, SendToDead, SendThrows
  <2>5. loop[t].event.name = "cameraControl" => ~Quiet
    BY <2>1 DEF Owners, Quiet
  <2>6. \A r \in Request :
          loop'[r] # NoLoop => loop[r] # NoLoop /\ loop'[r].event = loop[r].event
    BY <2>1, <2>3
  <2> QED
    BY <2>4, <2>5, <2>6, FollowUnchanged
<1>3. ASSUME NEW t \in Thread, loop[t] # NoLoop, LeaveLoop(t),
             UNCHANGED <<cameraEnabled, astray>>,
             told' = IF Announces(t) THEN Forgotten(told, loop[t].unsent)
                     ELSE told
      PROVE  FollowInv'
  <2>1. \A u \in Thread : loop'[u] = NoLoop
    BY <1>3 DEF LeaveLoop, Exclusive
  <2>2. CASE t = Scheduler
    <3>1. req' = req
      BY <1>3, <2>2 DEF LeaveLoop
    <3>2. ~Announces(t)
      BY <1>3, <2>2 DEF Owners, Announces
    <3> QED
      BY <1>3, <2>1, <3>1, <3>2, FollowUnchanged
  <2>3. CASE t \in Request
    <3>1. /\ req'[t].at = "idle"
          /\ \A q \in Request : q # t => req'[q] = req[q]
      BY <1>3, <2>3 DEF LeaveLoop, Idle
    <3>2. Announces(t) /\ req[t].at = "looping"
      BY <1>3, <2>3 DEF Owners, Announces
    <3>3. SUFFICES ASSUME ~astray PROVE OneRequest' /\ InStep' /\ Mended'
      BY <1>3 DEF FollowInv
    <3>4. Lone(t) /\ loop[t].event = Camera(cameraEnabled)
      BY <1>3, <2>3, <3>2, <3>3 DEF FollowInv, OneRequest, InStep
    <3>5. \A q \in Request : req'[q].at = "idle"
      BY <3>1, <3>4 DEF Lone
    <3>6. \A c \in Client : told'[c] \in {"unknown", loop[t].event.value}
      BY <1>3, <3>2 DEF SeenInv, Heard, Forgotten
    <3> QED
      BY <1>3, <2>1, <3>4, <3>5, <3>6 DEF OneRequest, InStep, Mended, Lone
  <2> QED
    BY <2>2, <2>3
<1>4. ASSUME NEW t \in Thread, NEW c \in loop[t].unsent, SendAborts(t, c)
      PROVE  FollowInv'
  <2>1. loop[t] # NoLoop
    BY NoLoopType
  <2> QED
    BY <1>3, <1>4, <2>1 DEF SendAborts, Announces
<1>5. ASSUME NEW t \in Thread, EndLoop(t) PROVE FollowInv'
  <2>1. Forgotten(told, {}) = told
    BY DEF Forgotten
  <2> QED
    BY <1>3, <1>5, <2>1 DEF EndLoop
<1>6. CASE PollBegin \/ PollAnswered \/ PollFails
           \/ TogglePolling \/ ToggleStreaming \/ Serve
  <2>1. UNCHANGED <<req, cameraEnabled, astray, loop, told>>
    BY <1>6 DEF PollBegin, PollAnswered, PollFails, TogglePolling,
                ToggleStreaming, Serve
  <2> QED
    BY <2>1, FollowUnchanged
<1>7. CASE PollSend \/ SendHeartbeat
  <2>1. /\ UNCHANGED <<req, cameraEnabled, astray, told>>
        /\ \A r \in Request : loop'[r] = loop[r]
    BY <1>7 DEF PollSend, SendHeartbeat, BeginLoop
  <2> QED
    BY <2>1, FollowUnchanged
<1>8. ASSUME NEW r \in Request, ToggleCamera(r) PROVE FollowInv'
  <2>1. /\ req'[r].at # "idle"
        /\ \A q \in Request : q # r => req'[q] = req[q]
    <3>1. CASE ToggleRead(r)
      BY <3>1 DEF ToggleRead
    <3>2. CASE ToggleWrite(r) \/ ToggleReadBack(r)
      BY <3>2 DEF ToggleWrite, ToggleReadBack
    <3>3. CASE ToggleAnnounce(r)
      BY <3>3 DEF ToggleAnnounce
    <3> QED
      BY <1>8, <3>1, <3>2, <3>3 DEF ToggleCamera
  <2>2. /\ ~Quiet'
        /\ \A q \in Request : q # r => req'[q] = req[q]
    BY <2>1 DEF Quiet
  <2>3. SUFFICES ASSUME ~astray' PROVE OneRequest' /\ InStep'
    BY <2>2 DEF FollowInv, Mended
  <2>4. CASE ToggleRead(r)
    <3>1. /\ \A q \in Request : req[q].at = "idle"
          /\ loop' = loop /\ req'[r].at = "toggling"
      BY <2>3, <2>4 DEF ToggleRead
    <3>2. \A q \in Request : loop[q] = NoLoop
      BY <3>1 DEF Owners
    <3> QED
      BY <2>2, <3>1, <3>2 DEF OneRequest, InStep, Lone
  <2>5. ASSUME req[r].at # "idle", astray' = astray
        PROVE  /\ Lone(r) /\ InStep /\ OneRequest'
               /\ \A q \in Request : q # r => loop[q] = NoLoop
    <3>1. Lone(r) /\ InStep
      BY <2>3, <2>5 DEF FollowInv, OneRequest
    <3>2. \A q \in Request : q # r => loop[q] = NoLoop
      BY <3>1 DEF Lone, Owners
    <3>3. OneRequest'
      BY <2>2, <3>1 DEF OneRequest, Lone
    <3> QED
      BY <3>1, <3>2, <3>3
  <2>6. CASE ToggleWrite(r)
    <3>1. req'[r].at = "toggled" /\ loop' = loop /\ loop[r] = NoLoop
          /\ req[r].at # "idle" /\ astray' = astray
      BY <2>6 DEF ToggleWrite, Owners
    <3> QED
      BY <2>2, <2>5, <3>1 DEF InStep, Lone
  <2>7. CASE ToggleReadBack(r)
    <3>1. /\ req'[r].at = "announcing" /\ req'[r].value = cameraEnabled
          /\ cameraEnabled' = cameraEnabled
          /\ loop' = loop /\ loop[r] = NoLoop
          /\ req[r].at # "idle" /\ astray' = astray
      BY <2>7 DEF ToggleReadBack, Owners
    <3> QED
      BY <2>2, <2>5, <3>1 DEF InStep, Lone
  <2>8. CASE ToggleAnnounce(r)
    <3>1. /\ req'[r].at = "looping" /\ req[r].at = "announcing"
          /\ cameraEnabled' = cameraEnabled /\ astray' = astray
          /\ BeginLoop(r, Camera(req[r].value))
      BY <2>8 DEF ToggleAnnounce
    <3>2. InStep /\ OneRequest' /\ req[r].value = cameraEnabled
          /\ Lone(r) /\ \A q \in Request : q # r => loop[q] = NoLoop
      BY <2>5, <3>1 DEF InStep
    <3>3. /\ loop'[r].event = Camera(cameraEnabled)
          /\ \A q \in Request : q # r => loop'[q] = loop[q]
      BY <3>1, <3>2 DEF BeginLoop
    <3> QED
      BY <2>2, <3>1, <3>2, <3>3 DEF InStep, Lone
  <2> QED
    BY <1>8, <2>4, <2>6, <2>7, <2>8 DEF ToggleCamera
<1>9. CASE UNCHANGED streamingVars
  BY <1>9, FollowUnchanged DEF streamingVars
<1> QED
  BY <1>1, <1>2, <1>4, <1>5, <1>6, <1>7, <1>8, <1>9
  DEF Next, LoopStep, PollAndBroadcast

(* After a camera request that overlapped with no other, every client it    *)
(* reached films as the switch says, whatever overlapping requests have     *)
(* done before (toggleCamera reads, writes, reads and announces unlocked).  *)
THEOREM GlassesFollowTheSwitch == Spec => []GlassesFollow
<1>1. Init => FollowInv
  BY FollowInit
<1>2. StreamTypes /\ SeenInv /\ FollowInv /\ [Next]_streamingVars => FollowInv'
  BY FollowStep
<1>3. FollowInv => GlassesFollow
  BY DEF FollowInv, Mended, Quiet, GlassesFollow
<1> QED
  BY StreamingInvariant, <1>1, <1>2, <1>3, PTL DEF Spec

=============================================================================
