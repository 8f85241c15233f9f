------------------------------ MODULE Dashboard ------------------------------
(***************************************************************************)
(* The Go Live button of the dashboard (toggleSession in dashboard.html)   *)
(* and the two switches of ServerState.java behind it.  A page never       *)
(* commands a state: it asks for the status and then toggles the switches  *)
(* that differ, while its own idea of the session follows the statuses it  *)
(* fetches every two seconds.                                              *)
(*                                                                         *)
(* Each page is one JavaScript thread, so a callback is one step; between  *)
(* callbacks its requests are under way together, and their answers come   *)
(* back in any order.  The server handles each request in a thread of its  *)
(* own.                                                                    *)
(***************************************************************************)
CONSTANTS
  Page,      (* dashboards that are open                                    *)
  NoPage,    (* the page of an exchange that is not under way               *)
  Request    (* exchanges with the server that can be under way at once     *)

ASSUME DashboardAssumption == NoPage \notin Page

VARIABLES
  switch,        (* pollingEnabled and streamingEnabled of ServerState      *)
  up,            (* whether the server is running                           *)
  sessionActive, (* sessionActive[p]: the button of page p says Stop session*)
  demoState,     (* demoState[p]: what page p shows when a status fails     *)
  req            (* req[r]: where exchange r is                             *)

(* Observer: what the button promised when r was pressed ("on", "off"), or  *)
(* "crossed" if something has come in between since.                        *)
VARIABLE pressed

dashboardVars == <<switch, up, sessionActive, demoState, req, pressed>>

Switch == {"polling", "streaming"}

AllOn(s) == \A w \in Switch : s[w]

(* How far the POST /api/toggle/w of an exchange is: not needed, sent, the  *)
(* field read and its negation about to be written, done.                   *)
Progress == {"none", "sent", "on", "off", "done"}

NoCalls == [w \in Switch |-> "none"]
AllOff  == [w \in Switch |-> FALSE]
Sent(W) == [w \in Switch |-> IF w \in W THEN "sent" ELSE "none"]

(* kind: what the page will do with the answer.  seen: the status as far as *)
(* the server has read it.                                                  *)
Exchange(p, kind, at, calls) ==
  [page |-> p, kind |-> kind, at |-> at, seen |-> AllOff, calls |-> calls]

Unused(r) == req[r].kind = "none"

(* A status request, refused at once when the server is down.               *)
Ask(p, kind) == Exchange(p, kind, IF up THEN "asked" ELSE "failed", NoCalls)

Nothing == Exchange(NoPage, "none", "asked", NoCalls)

Presses == {r \in Request : req[r].kind \in {"click", "toggle"}}

Cross(R) == [r \in Request |-> IF r \in R /\ pressed[r] # "none"
                               THEN "crossed" ELSE pressed[r]]

(* Clicks of page p that have not looked at the button yet.                 *)
Undecided(p) ==
  {r \in Request : req[r].kind = "click" /\ req[r].page = p
                   /\ req[r].at # "toggling"}

-----------------------------------------------------------------------------
Init ==
  /\ switch = AllOff
  /\ up = TRUE
  /\ sessionActive = [p \in Page |-> FALSE]
  /\ demoState = [p \in Page |-> AllOff]
  /\ req = [r \in Request |-> Nothing]
  /\ pressed = [r \in Request |-> "none"]

-----------------------------------------------------------------------------
(* What makes a page send something.                                        *)

(* setInterval(refreshStatus, 2000).                                        *)
Refresh(r, p) ==
  /\ Unused(r)
  /\ req' = [req EXCEPT ![r] = Ask(p, "refresh")]
  /\ UNCHANGED <<switch, up, sessionActive, demoState, pressed>>

(* The session button: toggleSession asks for the status.                   *)
Press(r, p) ==
  /\ Unused(r)
  /\ req' = [req EXCEPT ![r] = Ask(p, "click")]
  /\ pressed' = [Cross(Presses) EXCEPT
       ![r] = IF Presses # {} THEN "crossed"
              ELSE IF sessionActive[p] THEN "off" ELSE "on"]
  /\ UNCHANGED <<switch, up, sessionActive, demoState>>

(* One of the switches: toggle(name).                                       *)
PressSwitch(r, p, w) ==
  /\ Unused(r)
  /\ req' = [req EXCEPT
       ![r] = Exchange(p, "toggle", IF up THEN "toggling" ELSE "failed",
                       Sent({w}))]
  /\ pressed' = Cross(Presses)
  /\ UNCHANGED <<switch, up, sessionActive, demoState>>

-----------------------------------------------------------------------------
(* The server's side.                                                       *)

(* Status exchange x after reading switch w.                                *)
WithRead(x, at, w) == [x EXCEPT !.at = at, !.seen[w] = switch[w]]

(* status() reads pollingEnabled,                                           *)
ReadPolling(r) ==
  /\ req[r].at = "asked" /\ ~Unused(r)
  /\ req' = [req EXCEPT ![r] = WithRead(@, "reading", "polling")]
  /\ UNCHANGED <<switch, up, sessionActive, demoState, pressed>>

(* then streamingEnabled, and then calls the Python AI, without a timeout.  *)
ReadStreaming(r) ==
  /\ req[r].at = "reading"
  /\ req' = [req EXCEPT ![r] = WithRead(@, "answered", "streaming")]
  /\ UNCHANGED <<switch, up, sessionActive, demoState, pressed>>

(* togglePolling and toggleStreaming read their volatile field              *)
ToggleRead(r, w) ==
  /\ req[r].at = "toggling" /\ req[r].calls[w] = "sent"
  /\ req' = [req EXCEPT ![r].calls[w] = IF switch[w] THEN "off" ELSE "on"]
  /\ UNCHANGED <<switch, up, sessionActive, demoState, pressed>>

(* and write it.                                                            *)
ToggleWrite(r, w) ==
  /\ req[r].at = "toggling" /\ req[r].calls[w] \in {"on", "off"}
  /\ switch' = [switch EXCEPT ![w] = req[r].calls[w] = "on"]
  /\ req' = [req EXCEPT ![r].calls[w] = "done"]
  /\ UNCHANGED <<up, sessionActive, demoState, pressed>>

(* The server stops: what it was working on fails, and both switches are    *)
(* off when it starts again.                                                *)
StopServer ==
  /\ up
  /\ up' = FALSE
  /\ switch' = AllOff
  /\ req' = [r \in Request |->
               IF Unused(r) \/ req[r].at = "answered" THEN req[r]
               ELSE Exchange(req[r].page, req[r].kind, "failed",
                             IF req[r].kind = "toggle" THEN req[r].calls
                             ELSE NoCalls)]
  /\ pressed' = Cross(Request)
  /\ UNCHANGED <<sessionActive, demoState>>

StartServer ==
  /\ ~up
  /\ up' = TRUE
  /\ UNCHANGED <<switch, sessionActive, demoState, req, pressed>>

-----------------------------------------------------------------------------
(* The page's callbacks.                                                    *)

(* The clicks that are crossed when the button of page p says b from now on.*)
Misled(p, b) == IF b = sessionActive[p] THEN {} ELSE Undecided(p)

(* Mutant: a status only ever activates the session.                        *)
ApplyStatusOn(r) ==
  /\ req[r].kind = "refresh" /\ req[r].at = "answered"
  /\ sessionActive' = [sessionActive EXCEPT
                         ![req[r].page] = @ \/ AllOn(req[r].seen)]
  /\ req' = [req EXCEPT ![r] = Nothing]
  /\ UNCHANGED <<switch, up, demoState, pressed>>

(* Mutant: one switch that is on is enough.                                 *)
ApplyStatusEither(r) ==
  /\ req[r].kind = "refresh" /\ req[r].at = "answered"
  /\ sessionActive' = [sessionActive EXCEPT
                         ![req[r].page] = \E w \in Switch : req[r].seen[w]]
  /\ pressed' = Cross(Misled(req[r].page, AllOn(req[r].seen)))
  /\ req' = [req EXCEPT ![r] = Nothing]
  /\ UNCHANGED <<switch, up, demoState>>

(* applyStatus, with the status of an exchange: the session is active if    *)
(* both switches are on.                                                    *)
ApplyStatus(r) ==
  /\ req[r].kind = "refresh" /\ req[r].at = "answered"
  /\ sessionActive' = [sessionActive EXCEPT ![req[r].page] = AllOn(req[r].seen)]
  /\ pressed' = Cross(Misled(req[r].page, AllOn(req[r].seen)))
  /\ req' = [req EXCEPT ![r] = Nothing]
  /\ UNCHANGED <<switch, up, demoState>>

(* Mutant: the answer of a click is not looked at, both switches are toggled.*)
DecideBoth(r) ==
  /\ req[r].kind = "click" /\ req[r].at = "answered"
  /\ req' = [req EXCEPT ![r] =
       IF up THEN Exchange(req[r].page, "click", "toggling", Sent(Switch))
       ELSE Exchange(req[r].page, "click", "failed", NoCalls)]
  /\ UNCHANGED <<switch, up, sessionActive, demoState, pressed>>

(* The status of a click is there: toggle the switches that are not as the  *)
(* button, as it is by now, wants them.                                     *)
Decide(r) ==
  /\ req[r].kind = "click" /\ req[r].at = "answered"
  /\ LET want == ~sessionActive[req[r].page]
         differing == {w \in Switch : req[r].seen[w] # want}
     IN req' = [req EXCEPT ![r] =
          IF up \/ differing = {}
          THEN Exchange(req[r].page, "click", "toggling", Sent(differing))
          ELSE Exchange(req[r].page, "click", "failed", NoCalls)]
  /\ UNCHANGED <<switch, up, sessionActive, demoState, pressed>>

(* Mutant: the button is pressed again instead of asking for the status.    *)
FinishPresses(r) ==
  /\ req[r].at = "toggling"
  /\ \A w \in Switch : req[r].calls[w] \in {"none", "done"}
  /\ sessionActive' = IF req[r].kind = "click"
                      THEN [sessionActive EXCEPT ![req[r].page] = ~@]
                      ELSE sessionActive
  /\ req' = [req EXCEPT ![r] = Ask(req[r].page, "click")]
  /\ pressed' = [pressed EXCEPT ![r] = "none"]
  /\ UNCHANGED <<switch, up, demoState>>

(* All calls have been answered.  A click flips the button; then the status *)
(* is asked for again.                                                      *)
Finish(r) ==
  /\ req[r].at = "toggling"
  /\ \A w \in Switch : req[r].calls[w] \in {"none", "done"}
  /\ sessionActive' = IF req[r].kind = "click"
                      THEN [sessionActive EXCEPT ![req[r].page] = ~@]
                      ELSE sessionActive
  /\ req' = [req EXCEPT ![r] = Ask(req[r].page, "refresh")]
  /\ pressed' = [pressed EXCEPT ![r] = "none"]
  /\ UNCHANGED <<switch, up, demoState>>

(* A request has failed: renderDemo shows demoState as if it were a status, *)
(* which a failed press has changed before.                                 *)
Fail(r) ==
  /\ ~Unused(r) /\ req[r].at = "failed"
  /\ LET p == req[r].page
         demo == CASE req[r].kind = "refresh" -> demoState[p]
                   [] req[r].kind = "click" ->
                        [w \in Switch |-> ~sessionActive[p]]
                   [] req[r].kind = "toggle" ->
                        [w \in Switch |->
                           demoState[p][w] # (req[r].calls[w] # "none")]
     IN
       /\ demoState' = [demoState EXCEPT ![p] = demo]
       /\ sessionActive' = [sessionActive EXCEPT ![p] = AllOn(demo)]
       /\ pressed' = [Cross(Misled(p, AllOn(demo)))
                      EXCEPT ![r] = "none"]
       /\ req' = [req EXCEPT ![r] = Nothing]
  /\ UNCHANGED <<switch, up>>

-----------------------------------------------------------------------------
Serving(r) ==
  \/ ReadPolling(r) \/ ReadStreaming(r)
  \/ \E w \in Switch : ToggleRead(r, w) \/ ToggleWrite(r, w)

Answering(r) == ApplyStatus(r) \/ Decide(r) \/ Finish(r) \/ Fail(r)

Pressing(r, p) == Press(r, p) \/ \E w \in Switch : PressSwitch(r, p, w)

Next ==
  \/ \E r \in Request : Serving(r) \/ Answering(r)
  \/ \E r \in Request, p \in Page : Refresh(r, p) \/ Pressing(r, p)
  \/ StopServer \/ StartServer

Spec == Init /\ [][Next]_dashboardVars

(* The server answers, the Python AI answers its status or refuses, the     *)
(* browser calls back, and its timer gets a connection in the end.  Nobody  *)
(* has to press anything, and the server need not be started again.         *)
Fairness ==
  /\ \A r \in Request : WF_dashboardVars(Serving(r))
                       /\ WF_dashboardVars(Answering(r))
  /\ \A p \in Page : SF_dashboardVars(\E r \in Request : Refresh(r, p))

FairSpec == Spec /\ Fairness

-----------------------------------------------------------------------------
(* The type invariant of the switches, the pages and the exchanges.         *)
DashboardTypeOK ==
  /\ switch \in [Switch -> BOOLEAN]
  /\ up \in BOOLEAN
  /\ sessionActive \in [Page -> BOOLEAN]
  /\ demoState \in [Page -> [Switch -> BOOLEAN]]
  /\ req \in [Request ->
       [page : Page \union {NoPage},
        kind : {"none", "refresh", "click", "toggle"},
        at : {"asked", "reading", "answered", "toggling", "failed"},
        seen : [Switch -> BOOLEAN],
        calls : [Switch -> Progress]]]
  /\ \A r \in Request : Unused(r) <=> req[r].page = NoPage
  /\ pressed \in [Request -> {"none", "on", "off", "crossed"}]
  /\ \A r \in Request : pressed[r] # "none" <=> req[r].kind = "click"

(* One press of the button brings both switches to what it promised, from   *)
(* whatever state earlier presses, stale statuses, failures and restarts    *)
(* have left them and the page in, one on and one off included: unless      *)
(* another press, of any page, overlaps with it, the server stops, or a     *)
(* status changes the button between the press and the answer               *)
(* (toggleSession reads it only then).                                      *)
ClickSettles ==
  [][\A r \in Request :
       /\ req[r].kind = "click" /\ req'[r].kind = "refresh"
       /\ pressed[r] \in {"on", "off"}
       => \A w \in Switch : switch[w] = (pressed[r] = "on")]_dashboardVars

(* If the server stays up and nobody presses anything any more, every page  *)
(* comes to show the session as the server has it, whatever order the       *)
(* statuses come in and whatever a failure had put on display               *)
(* (refreshStatus, applyStatus, renderDemo).                                *)
PageFollows ==
  <>[]up /\ <>[](Presses = {}) =>
    <>[](\A p \in Page : sessionActive[p] = AllOn(switch))

(* The status that exchange r brings, as far as it has been read, is true.  *)
Current(r) ==
  /\ req[r].at # "failed"
  /\ req[r].at \in {"reading", "answered"} =>
       req[r].seen["polling"] = switch["polling"]
  /\ req[r].at = "answered" => req[r].seen["streaming"] = switch["streaming"]

Settled(p) ==
  /\ up /\ Presses = {}
  /\ \A r \in Request : req[r].page = p => Current(r)
  /\ sessionActive[p] = AllOn(switch)

(* A page that shows the session as the server has it, with no status on its*)
(* way that says otherwise, goes on doing so until somebody presses or the  *)
(* server stops: no answer that comes late or out of order, half of it read *)
(* before another page's last toggle or not, takes it back (refreshStatus,  *)
(* applyStatus).  With it PageFollows needs to come true only once.         *)
PageStays ==
  [][\A p \in Page :
       Settled(p) /\ up' /\ Presses' = {} => Settled(p)']_dashboardVars

=============================================================================
