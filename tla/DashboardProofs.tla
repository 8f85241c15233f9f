--------------------------- MODULE DashboardProofs ---------------------------
(***************************************************************************)
(* That a press of the session button which nothing crosses brings both    *)
(* switches where the button promised, and that a page which shows what is *)
(* goes on doing so, for any number of dashboards and of exchanges under   *)
(* way at once.                                                            *)
(***************************************************************************)
EXTENDS Dashboard, TLAPS

Exchanges ==
  [page : Page \union {NoPage},
   kind : {"none", "refresh", "click", "toggle"},
   at : {"asked", "reading", "answered", "toggling", "failed"},
   seen : [Switch -> BOOLEAN],
   calls : [Switch -> Progress]]

(* Only presses toggle, and what is not under way has got nowhere.          *)
Toggling ==
  \A r \in Request : /\ req[r].at = "toggling" => r \in Presses
                     /\ Unused(r) => req[r].at = "asked"

(* What a press that nothing has crossed knows and does: the button says the*)
(* opposite of what was promised until it decides; the status it has read is*)
(* still true; and then every switch that is not yet as promised is being   *)
(* toggled, once.                                                           *)
Promising(r) ==
  /\ req[r].at # "toggling" =>
       (sessionActive[req[r].page] <=> pressed[r] = "off")
  /\ req[r].at \in {"reading", "answered"} =>
       (req[r].seen["polling"] <=> switch["polling"])
  /\ req[r].at = "answered" =>
       (req[r].seen["streaming"] <=> switch["streaming"])
  /\ req[r].at = "toggling" =>
       \A w \in Switch :
         /\ req[r].calls[w] \in {"none", "done"} =>
              (switch[w] <=> pressed[r] = "on")
         /\ req[r].calls[w] = "sent" => (switch[w] <=> pressed[r] = "off")
         /\ req[r].calls[w] = "on" => pressed[r] = "on"
         /\ req[r].calls[w] = "off" => pressed[r] = "off"

Uncrossed(r) == pressed[r] \in {"on", "off"}

Alone == \A r \in Request : Uncrossed(r) => Presses = {r} /\ Promising(r)

DashboardInv == DashboardTypeOK /\ Toggling /\ Alone

-----------------------------------------------------------------------------
(* Exchanges that are built anew have their type.                           *)
LEMMA Built ==
  ASSUME NEW p \in Page \union {NoPage},
         NEW k \in {"none", "refresh", "click", "toggle"},
         NEW a \in {"asked", "reading", "answered", "toggling", "failed"},
         NEW c \in [Switch -> Progress]
  PROVE  /\ Exchange(p, k, a, c) \in Exchanges
         /\ Exchange(p, k, a, c).page = p /\ Exchange(p, k, a, c).kind = k
         /\ Exchange(p, k, a, c).at = a /\ Exchange(p, k, a, c).calls = c
BY DEF Exchange, Exchanges, AllOff

LEMMA Calls ==
  /\ NoCalls \in [Switch -> Progress]
  /\ \A W : Sent(W) \in [Switch -> Progress]
BY DEF NoCalls, Sent, Progress

LEMMA NothingUnderWay ==
  /\ Nothing \in Exchanges /\ Nothing.kind = "none"
  /\ Nothing.page = NoPage /\ Nothing.at = "asked"
BY Built, Calls DEF Nothing

LEMMA TypesOf ==
  DashboardTypeOK <=>
    /\ switch \in [Switch -> BOOLEAN]
    /\ up \in BOOLEAN
    /\ sessionActive \in [Page -> BOOLEAN]
    /\ demoState \in [Page -> [Switch -> BOOLEAN]]
    /\ req \in [Request -> Exchanges]
    /\ \A r \in Request : req[r].kind = "none" <=> req[r].page = NoPage
    /\ pressed \in [Request -> {"none", "on", "off", "crossed"}]
    /\ \A r \in Request : pressed[r] # "none" <=> req[r].kind = "click"
BY DEF DashboardTypeOK, Exchanges, Unused

(* Crossing R keeps the types and leaves no uncrossed press in R.           *)
LEMMA Crossing ==
  ASSUME DashboardTypeOK, NEW R
  PROVE  /\ Cross(R) \in [Request -> {"none", "on", "off", "crossed"}]
         /\ \A r \in Request :
              /\ Cross(R)[r] # "none" <=> pressed[r] # "none"
              /\ Cross(R)[r] \in {"on", "off"} =>
                   r \notin R /\ Cross(R)[r] = pressed[r]
BY DEF Cross, DashboardTypeOK

LEMMA InitDashboard == Init => DashboardInv
<1> SUFFICES ASSUME Init PROVE DashboardInv
  OBVIOUS
<1>1. /\ Nothing \in Exchanges /\ Nothing.kind = "none"
      /\ Nothing.page = NoPage /\ Nothing.at = "asked"
  BY NothingUnderWay
<1>2. DashboardTypeOK
  BY <1>1, TypesOf DEF Init, AllOff
<1>3. Toggling /\ Alone
  BY <1>1 DEF Init, Toggling, Alone, Uncrossed, Unused
<1> QED
  BY <1>2, <1>3 DEF DashboardInv

-----------------------------------------------------------------------------
(* A press that a step does not concern goes on as before.                  *)
LEMMA Unconcerned ==
  ASSUME NEW r \in Request, Alone, Uncrossed(r),
         pressed'[r] = pressed[r], req'[r] = req[r], switch' = switch,
         \/ req[r].at = "toggling"
         \/ sessionActive'[req[r].page] = sessionActive[req[r].page],
         Presses' \subseteq Presses, r \in Presses'
  PROVE  Presses' = {r} /\ Promising(r)'
BY DEF Alone, Promising

(* What a step changes of one exchange, and of the presses with it.         *)
LEMMA OneExchange ==
  ASSUME DashboardTypeOK, NEW r \in Request, NEW x \in Exchanges,
         req' = [req EXCEPT ![r] = x]
  PROVE  /\ req' \in [Request -> Exchanges]
         /\ req'[r] = x /\ \A q \in Request \ {r} : req'[q] = req[q]
         /\ Presses' = IF x.kind \in {"click", "toggle"}
                       THEN Presses \union {r} ELSE Presses \ {r}
BY TypesOf DEF Presses

-----------------------------------------------------------------------------
(* The timer: no press is concerned.                                        *)
LEMMA RefreshKeeps ==
  ASSUME DashboardInv, NEW r \in Request, NEW p \in Page, Refresh(r, p)
  PROVE  DashboardInv'
<1> USE DEF DashboardInv
<1> DEFINE x == Ask(p, "refresh")
<1>1. x \in Exchanges /\ x.kind = "refresh" /\ x.page = p /\ x.at # "toggling"
  BY Built, Calls DEF Ask
<1> HIDE DEF x
<1>2. req' = [req EXCEPT ![r] = x]
  BY DEF Refresh, x
<1>3. /\ req' \in [Request -> Exchanges]
      /\ req'[r] = x /\ \A q \in Request \ {r} : req'[q] = req[q]
      /\ Presses' = Presses \ {r}
  BY <1>1, <1>2, OneExchange
<1>4. r \notin Presses /\ pressed[r] = "none" /\ req[r].kind = "none"
  BY DEF Refresh, Unused, Presses, DashboardTypeOK
<1>5. DashboardTypeOK'
  BY <1>1, <1>3, <1>4, TypesOf, DashboardAssumption DEF Refresh, DashboardTypeOK, Unused, Exchanges
<1>6. Toggling'
  BY <1>1, <1>3, <1>4 DEF Toggling, Unused
<1>7. Alone'
  <2> SUFFICES ASSUME NEW q \in Request, Uncrossed(q)'
               PROVE  Presses' = {q} /\ Promising(q)'
    BY DEF Alone
  <2>1. q # r /\ Uncrossed(q) /\ pressed'[q] = pressed[q]
    BY <1>4 DEF Refresh, Uncrossed
  <2> QED
    BY <2>1, <1>3, <1>4, Unconcerned DEF Refresh, Alone
<1> QED
  BY <1>5, <1>6, <1>7

-----------------------------------------------------------------------------
(* A step that replaces r by x and crosses R: what is left to show is that  *)
(* r itself is fine, and the presses that are not crossed go on.            *)
LEMMA Exchanged ==
  ASSUME DashboardInv, NEW r \in Request, NEW x \in Exchanges,
         x.kind = "none" <=> x.page = NoPage,
         req' = [req EXCEPT ![r] = x],
         switch' \in [Switch -> BOOLEAN], up' \in BOOLEAN,
         sessionActive' \in [Page -> BOOLEAN],
         demoState' \in [Page -> [Switch -> BOOLEAN]],
         pressed' \in [Request -> {"none", "on", "off", "crossed"}],
         \A q \in Request \ {r} : pressed'[q] # "none" <=> pressed[q] # "none",
         pressed'[r] # "none" <=> x.kind = "click",
         x.at = "toggling" => x.kind \in {"click", "toggle"},
         x.kind = "none" => x.at = "asked"
  PROVE  DashboardTypeOK' /\ Toggling'
<1>1. /\ req' \in [Request -> Exchanges]
      /\ req'[r] = x /\ \A q \in Request \ {r} : req'[q] = req[q]
  BY OneExchange DEF DashboardInv
<1>2. DashboardTypeOK'
  BY <1>1, TypesOf DEF DashboardInv, DashboardTypeOK, Unused, Exchanges
<1>3. Toggling'
  BY <1>1 DEF DashboardInv, Toggling, Presses, Unused
<1> QED
  BY <1>2, <1>3

(* Pressing the button: alone, it promises the opposite of what is shown.   *)
LEMMA PressKeeps ==
  ASSUME DashboardInv, NEW r \in Request, NEW p \in Page, Press(r, p)
  PROVE  DashboardInv'
<1> DEFINE x == Ask(p, "click")
           y == IF Presses # {} THEN "crossed"
                ELSE IF sessionActive[p] THEN "off" ELSE "on"
<1>0. DashboardTypeOK
  BY DEF DashboardInv
<1>1. /\ x \in Exchanges /\ x.kind = "click" /\ x.page = p
      /\ x.at \in {"asked", "failed"}
  BY Built, Calls DEF Ask
<1>2. /\ y \in {"on", "off", "crossed"}
      /\ Presses # {} => y = "crossed"
      /\ y # "crossed" => (sessionActive[p] <=> y = "off")
  BY <1>0 DEF DashboardTypeOK
<1>3. /\ req' = [req EXCEPT ![r] = x]
      /\ pressed' = [Cross(Presses) EXCEPT ![r] = y]
      /\ switch' = switch /\ up' = up
      /\ sessionActive' = sessionActive /\ demoState' = demoState
  BY DEF Press, x, y
<1> HIDE DEF x, y
<1>4. /\ req'[r] = x /\ \A q \in Request \ {r} : req'[q] = req[q]
      /\ Presses' = Presses \union {r}
  BY <1>0, <1>1, <1>3, OneExchange
<1>5. /\ Cross(Presses) \in [Request -> {"none", "on", "off", "crossed"}]
      /\ \A q \in Request : Cross(Presses)[q] # "none" <=> pressed[q] # "none"
      /\ \A q \in Request : Cross(Presses)[q] \in {"on", "off"} => q \notin Presses
  BY <1>0, Crossing
<1>6. /\ pressed' \in [Request -> {"none", "on", "off", "crossed"}]
      /\ pressed'[r] = y
      /\ \A q \in Request \ {r} : pressed'[q] = Cross(Presses)[q]
  BY <1>2, <1>3, <1>5
<1>7. DashboardTypeOK' /\ Toggling'
  <2>1. p # NoPage
    BY DashboardAssumption
  <2>2. /\ switch' \in [Switch -> BOOLEAN] /\ up' \in BOOLEAN
        /\ sessionActive' \in [Page -> BOOLEAN]
        /\ demoState' \in [Page -> [Switch -> BOOLEAN]]
    BY <1>0, <1>3 DEF DashboardTypeOK
  <2> QED
    BY <2>1, <2>2, <1>1, <1>2, <1>3, <1>5, <1>6, Exchanged
<1>8. Alone'
  <2> SUFFICES ASSUME NEW q \in Request, Uncrossed(q)'
               PROVE  Presses' = {q} /\ Promising(q)'
    BY DEF Alone
  <2>1. q = r
    <3> SUFFICES ASSUME q # r PROVE FALSE
      OBVIOUS
    <3>1. Cross(Presses)[q] \in {"on", "off"}
      BY <1>6 DEF Uncrossed
    <3>2. q \notin Presses /\ pressed[q] # "none"
      BY <3>1, <1>5
    <3> QED
      BY <3>2, <1>0 DEF DashboardTypeOK, Presses
  <2>2. y # "crossed" /\ Presses = {}
    BY <2>1, <1>6, <1>2 DEF Uncrossed
  <2>3. Presses' = {r}
    BY <2>2, <1>4
  <2> QED
    BY <2>1, <2>2, <2>3, <1>1, <1>2, <1>3, <1>4, <1>6 DEF Promising
<1> QED
  BY <1>7, <1>8 DEF DashboardInv

(* A switch is pressed: every press under way is crossed.                   *)
LEMMA PressSwitchKeeps ==
  ASSUME DashboardInv, NEW r \in Request, NEW p \in Page, NEW w \in Switch,
         PressSwitch(r, p, w)
  PROVE  DashboardInv'
<1> DEFINE x == Exchange(p, "toggle", IF up THEN "toggling" ELSE "failed",
                         Sent({w}))
<1>0. DashboardTypeOK /\ pressed[r] = "none" /\ p # NoPage
  BY DashboardAssumption DEF DashboardInv, DashboardTypeOK, PressSwitch, Unused
<1>1. x \in Exchanges /\ x.kind = "toggle" /\ x.page = p
  <2> DEFINE a == IF up THEN "toggling" ELSE "failed"
  <2>1. a \in {"toggling", "failed"}
    OBVIOUS
  <2>2. Sent({w}) \in [Switch -> Progress]
    BY Calls
  <2> HIDE DEF a
  <2> QED
    BY <2>1, <2>2, Built DEF a
<1>2. /\ req' = [req EXCEPT ![r] = x]
      /\ pressed' = Cross(Presses)
      /\ switch' = switch /\ up' = up
      /\ sessionActive' = sessionActive /\ demoState' = demoState
  BY DEF PressSwitch, x
<1> HIDE DEF x
<1>3. /\ pressed' \in [Request -> {"none", "on", "off", "crossed"}]
      /\ \A q \in Request : pressed'[q] # "none" <=> pressed[q] # "none"
      /\ \A q \in Request : pressed'[q] \in {"on", "off"} => q \notin Presses
  BY <1>0, <1>2, Crossing
<1>4. /\ switch' \in [Switch -> BOOLEAN] /\ up' \in BOOLEAN
      /\ sessionActive' \in [Page -> BOOLEAN]
      /\ demoState' \in [Page -> [Switch -> BOOLEAN]]
  BY <1>0, <1>2 DEF DashboardTypeOK
<1>5. DashboardTypeOK' /\ Toggling'
  BY <1>0, <1>1, <1>2, <1>3, <1>4, Exchanged
<1>6. Alone'
  BY <1>0, <1>3 DEF Alone, Uncrossed, DashboardTypeOK, Presses
<1> QED
  BY <1>5, <1>6 DEF DashboardInv

-----------------------------------------------------------------------------
(* The server works on exchange r: its kind, its page and the presses stay. *)
LEMMA Served ==
  ASSUME DashboardInv, NEW r \in Request, ~Unused(r), NEW x \in Exchanges,
         x.page = req[r].page, x.kind = req[r].kind,
         x.at = "toggling" => r \in Presses,
         req' = [req EXCEPT ![r] = x],
         switch' \in [Switch -> BOOLEAN], up' = up,
         sessionActive' = sessionActive, demoState' = demoState,
         pressed' = pressed,
         \A q \in Request \ {r} : Uncrossed(q) => switch' = switch,
         Uncrossed(r) => Promising(r)'
  PROVE  DashboardInv'
<1>0. DashboardTypeOK /\ Toggling /\ Alone
  BY DEF DashboardInv
<1>1. /\ req'[r] = x /\ \A q \in Request \ {r} : req'[q] = req[q]
      /\ req' \in [Request -> Exchanges]
  BY <1>0, OneExchange
<1>2. Presses' = Presses
  BY <1>1 DEF Presses
<1>3. x.kind \in {"refresh", "click", "toggle"} /\ x.page # NoPage
  BY <1>0, TypesOf DEF Unused, Exchanges
<1>4. DashboardTypeOK' /\ Toggling'
  <2>1. /\ up' \in BOOLEAN /\ sessionActive' \in [Page -> BOOLEAN]
        /\ demoState' \in [Page -> [Switch -> BOOLEAN]]
        /\ pressed' \in [Request -> {"none", "on", "off", "crossed"}]
        /\ pressed'[r] # "none" <=> x.kind = "click"
    BY <1>0 DEF DashboardTypeOK
  <2>2. x.at = "toggling" => x.kind \in {"click", "toggle"}
    BY DEF Presses
  <2> QED
    BY <2>1, <2>2, <1>3, Exchanged
<1>5. Alone'
  <2> SUFFICES ASSUME NEW q \in Request, Uncrossed(q)'
               PROVE  Presses' = {q} /\ Promising(q)'
    BY DEF Alone
  <2>1. Uncrossed(q)
    BY DEF Uncrossed
  <2>2. CASE q = r
    BY <2>1, <2>2, <1>0, <1>2 DEF Alone
  <2>3. CASE q # r
    BY <2>1, <2>3, <1>0, <1>1, <1>2 DEF Alone, Promising
  <2> QED
    BY <2>2, <2>3
<1> QED
  BY <1>4, <1>5 DEF DashboardInv

(* An exchange with some of its fields replaced.                            *)
LEMMA Replaced ==
  ASSUME DashboardTypeOK, NEW r \in Request,
         NEW a \in {"asked", "reading", "answered", "toggling", "failed"},
         NEW s \in [Switch -> BOOLEAN], NEW c \in [Switch -> Progress],
         NEW x, x = [page |-> req[r].page, kind |-> req[r].kind, at |-> a,
                     seen |-> s, calls |-> c]
  PROVE  /\ x \in Exchanges
         /\ x.page = req[r].page /\ x.kind = req[r].kind /\ x.at = a
         /\ x.seen = s /\ x.calls = c
BY TypesOf DEF Exchanges

(* An exchange with its place and one switch of its status replaced.        *)
LEMMA SeenReplaced ==
  ASSUME NEW e \in Exchanges, NEW a, NEW w
  PROVE  WithRead(e, a, w)
           = [page |-> e.page, kind |-> e.kind, at |-> a,
              seen |-> [e.seen EXCEPT ![w] = switch[w]], calls |-> e.calls]
<1> DEFINE f == [e EXCEPT !.at = a]
<1>1. e = [page |-> e.page, kind |-> e.kind, at |-> e.at,
           seen |-> e.seen, calls |-> e.calls]
  BY DEF Exchanges
<1>2. f = [page |-> e.page, kind |-> e.kind, at |-> a,
           seen |-> e.seen, calls |-> e.calls]
  BY <1>1
<1>3. WithRead(e, a, w)
        = [f EXCEPT !.seen = [f.seen EXCEPT ![w] = switch[w]]]
  BY DEF WithRead
<1> HIDE DEF f
<1>4. [f EXCEPT !.seen = [f.seen EXCEPT ![w] = switch[w]]]
        = [page |-> e.page, kind |-> e.kind, at |-> a,
           seen |-> [e.seen EXCEPT ![w] = switch[w]], calls |-> e.calls]
  BY <1>2
<1> QED
  BY <1>3, <1>4

(* ... with one of its calls replaced.                                      *)
LEMMA CallReplaced ==
  ASSUME NEW e \in Exchanges, NEW w, NEW b
  PROVE  [e EXCEPT !.calls[w] = b]
           = [page |-> e.page, kind |-> e.kind, at |-> e.at, seen |-> e.seen,
              calls |-> [e.calls EXCEPT ![w] = b]]
<1>1. e = [page |-> e.page, kind |-> e.kind, at |-> e.at,
           seen |-> e.seen, calls |-> e.calls]
  BY DEF Exchanges
<1> QED
  BY <1>1

(* The status is read, one switch after the other, and stays true.          *)
LEMMA ReadPollingKeeps ==
  ASSUME DashboardInv, NEW r \in Request, ReadPolling(r)
  PROVE  DashboardInv'
<1> DEFINE s == [req[r].seen EXCEPT !["polling"] = switch["polling"]]
           x == [page |-> req[r].page, kind |-> req[r].kind, at |-> "reading",
                 seen |-> s, calls |-> req[r].calls]
<1>0. DashboardTypeOK /\ Alone
  BY DEF DashboardInv
<1>1. /\ req[r] \in Exchanges /\ switch \in [Switch -> BOOLEAN]
      /\ req \in [Request -> Exchanges]
  BY <1>0, TypesOf
<1>2. s \in [Switch -> BOOLEAN] /\ s["polling"] = switch["polling"]
  BY <1>1 DEF Exchanges, Switch
<1>3. req' = [req EXCEPT ![r] = x]
  <2>1. WithRead(req[r], "reading", "polling") = x
    BY <1>1, SeenReplaced
  <2> HIDE DEF x
  <2> QED
    BY <2>1 DEF ReadPolling
<1>4. /\ x \in Exchanges
      /\ x.page = req[r].page /\ x.kind = req[r].kind /\ x.at = "reading"
      /\ x.seen = s
  BY <1>0, <1>1, <1>2, Replaced DEF Exchanges
<1> HIDE DEF x, s
<1>5. req'[r] = x
  BY <1>0, <1>3, <1>4, OneExchange
<1>6. ASSUME Uncrossed(r) PROVE Promising(r)'
  <2>1. /\ sessionActive[req[r].page] <=> pressed[r] = "off"
    BY <1>0, <1>6 DEF ReadPolling, Alone, Promising
  <2>2. /\ sessionActive' = sessionActive /\ pressed' = pressed
        /\ switch' = switch
    BY DEF ReadPolling
  <2> QED
    BY <2>1, <2>2, <1>2, <1>4, <1>5 DEF Promising
<1> QED
  BY <1>1, <1>3, <1>4, <1>6, Served DEF ReadPolling

LEMMA ReadStreamingKeeps ==
  ASSUME DashboardInv, NEW r \in Request, ReadStreaming(r)
  PROVE  DashboardInv'
<1> DEFINE s == [req[r].seen EXCEPT !["streaming"] = switch["streaming"]]
           x == [page |-> req[r].page, kind |-> req[r].kind, at |-> "answered",
                 seen |-> s, calls |-> req[r].calls]
<1>0. DashboardTypeOK /\ Alone
  BY DEF DashboardInv
<1>1. /\ req[r] \in Exchanges /\ switch \in [Switch -> BOOLEAN]
      /\ req \in [Request -> Exchanges]
  BY <1>0, TypesOf
<1>2. /\ s \in [Switch -> BOOLEAN] /\ s["streaming"] = switch["streaming"]
      /\ s["polling"] = req[r].seen["polling"]
  BY <1>1 DEF Exchanges, Switch
<1>3. req' = [req EXCEPT ![r] = x]
  <2>1. WithRead(req[r], "answered", "streaming") = x
    BY <1>1, SeenReplaced
  <2> HIDE DEF x
  <2> QED
    BY <2>1 DEF ReadStreaming
<1>4. /\ x \in Exchanges
      /\ x.page = req[r].page /\ x.kind = req[r].kind /\ x.at = "answered"
      /\ x.seen = s
  BY <1>0, <1>1, <1>2, Replaced DEF Exchanges
<1> HIDE DEF x, s
<1>5. req'[r] = x
  BY <1>0, <1>3, <1>4, OneExchange
<1>6. ASSUME Uncrossed(r) PROVE Promising(r)'
  <2>1. /\ sessionActive[req[r].page] <=> pressed[r] = "off"
        /\ req[r].seen["polling"] <=> switch["polling"]
    BY <1>0, <1>6 DEF ReadStreaming, Alone, Promising
  <2>2. /\ sessionActive' = sessionActive /\ pressed' = pressed
        /\ switch' = switch
    BY DEF ReadStreaming
  <2> QED
    BY <2>1, <2>2, <1>2, <1>4, <1>5 DEF Promising
<1>7. ~Unused(r)
  BY DEF ReadStreaming, DashboardInv, Toggling
<1> QED
  BY <1>1, <1>3, <1>4, <1>6, <1>7, Served DEF ReadStreaming

-----------------------------------------------------------------------------
(* A press that nothing crosses is the only one that toggles: what it reads *)
(* and writes brings the switch where it promised.                          *)
LEMMA ToggleReadKeeps ==
  ASSUME DashboardInv, NEW r \in Request, NEW w \in Switch, ToggleRead(r, w)
  PROVE  DashboardInv'
<1> DEFINE b == IF switch[w] THEN "off" ELSE "on"
           c == [req[r].calls EXCEPT ![w] = b]
           x == [page |-> req[r].page, kind |-> req[r].kind, at |-> req[r].at,
                 seen |-> req[r].seen, calls |-> c]
<1>0. DashboardTypeOK /\ Toggling /\ Alone
  BY DEF DashboardInv
<1>1. /\ req[r] \in Exchanges /\ switch \in [Switch -> BOOLEAN]
      /\ req \in [Request -> Exchanges]
  BY <1>0, TypesOf
<1>2. /\ c \in [Switch -> Progress]
      /\ c[w] = b /\ \A v \in Switch \ {w} : c[v] = req[r].calls[v]
  BY <1>1 DEF Exchanges, Progress
<1>3. req' = [req EXCEPT ![r] = x]
  <2>1. [req[r] EXCEPT !.calls[w] = b] = x
    BY <1>1, CallReplaced, Zenon
  <2> QED
    BY <2>1 DEF ToggleRead
<1>4. /\ x \in Exchanges
      /\ x.page = req[r].page /\ x.kind = req[r].kind /\ x.at = req[r].at
      /\ x.seen = req[r].seen /\ x.calls = c
  BY <1>0, <1>1, <1>2, Replaced DEF Exchanges
<1>5. b \in {"on", "off"} /\ (b = "off" <=> switch[w])
  BY <1>1
<1> HIDE DEF x, c, b
<1>6. req'[r] = x
  BY <1>0, <1>3, <1>4, OneExchange
<1>7. /\ sessionActive' = sessionActive /\ pressed' = pressed
      /\ switch' = switch /\ up' = up /\ demoState' = demoState
      /\ req[r].at = "toggling" /\ req[r].calls[w] = "sent"
  BY DEF ToggleRead
<1>8. ASSUME Uncrossed(r) PROVE Promising(r)'
  <2>1. Promising(r)
    BY <1>0, <1>8 DEF Alone
  <2>2. \A v \in Switch :
          /\ req[r].calls[v] \in {"none", "done"} =>
               (switch[v] <=> pressed[r] = "on")
          /\ req[r].calls[v] = "sent" => (switch[v] <=> pressed[r] = "off")
          /\ req[r].calls[v] = "on" => pressed[r] = "on"
          /\ req[r].calls[v] = "off" => pressed[r] = "off"
    BY <2>1, <1>7 DEF Promising
  <2>3. switch[w] <=> pressed[r] = "off"
    BY <2>2, <1>7
  <2>4. b = pressed[r]
    BY <2>3, <1>5, <1>8 DEF Uncrossed
  <2>5. \A v \in Switch :
          /\ c[v] \in {"none", "done"} => (switch[v] <=> pressed[r] = "on")
          /\ c[v] = "sent" => (switch[v] <=> pressed[r] = "off")
          /\ c[v] = "on" => pressed[r] = "on"
          /\ c[v] = "off" => pressed[r] = "off"
    BY <2>2, <2>4, <1>2, <1>5
  <2> QED
    BY <2>5, <1>4, <1>6, <1>7 DEF Promising
<1>9. r \in Presses /\ ~Unused(r)
  BY <1>0, <1>7 DEF Toggling, Presses, Unused
<1> QED
  BY <1>1, <1>3, <1>4, <1>7, <1>8, <1>9, Served

LEMMA ToggleWriteKeeps ==
  ASSUME DashboardInv, NEW r \in Request, NEW w \in Switch, ToggleWrite(r, w)
  PROVE  DashboardInv'
<1> DEFINE c == [req[r].calls EXCEPT ![w] = "done"]
           x == [page |-> req[r].page, kind |-> req[r].kind, at |-> req[r].at,
                 seen |-> req[r].seen, calls |-> c]
           y == [switch EXCEPT ![w] = req[r].calls[w] = "on"]
<1>0. DashboardTypeOK /\ Toggling /\ Alone
  BY DEF DashboardInv
<1>1. /\ req[r] \in Exchanges /\ switch \in [Switch -> BOOLEAN]
      /\ req \in [Request -> Exchanges]
  BY <1>0, TypesOf
<1>2. /\ c \in [Switch -> Progress]
      /\ c[w] = "done" /\ \A v \in Switch \ {w} : c[v] = req[r].calls[v]
  BY <1>1 DEF Exchanges, Progress
<1>3. req' = [req EXCEPT ![r] = x]
  <2>1. [req[r] EXCEPT !.calls[w] = "done"] = x
    BY <1>1, CallReplaced, Zenon
  <2> QED
    BY <2>1 DEF ToggleWrite
<1>4. /\ x \in Exchanges
      /\ x.page = req[r].page /\ x.kind = req[r].kind /\ x.at = req[r].at
      /\ x.seen = req[r].seen /\ x.calls = c
  BY <1>0, <1>1, <1>2, Replaced DEF Exchanges
<1>5. /\ y \in [Switch -> BOOLEAN]
      /\ y[w] <=> req[r].calls[w] = "on"
      /\ \A v \in Switch \ {w} : y[v] <=> switch[v]
  BY <1>1
<1> HIDE DEF x, c, y
<1>6. req'[r] = x
  BY <1>0, <1>3, <1>4, OneExchange
<1>7. /\ sessionActive' = sessionActive /\ pressed' = pressed
      /\ switch' = y /\ up' = up /\ demoState' = demoState
      /\ req[r].at = "toggling" /\ req[r].calls[w] \in {"on", "off"}
  BY DEF ToggleWrite, y
<1>8. ASSUME Uncrossed(r) PROVE Promising(r)'
  <2>1. Promising(r)
    BY <1>0, <1>8 DEF Alone
  <2>2. \A v \in Switch :
          /\ req[r].calls[v] \in {"none", "done"} =>
               (switch[v] <=> pressed[r] = "on")
          /\ req[r].calls[v] = "sent" => (switch[v] <=> pressed[r] = "off")
          /\ req[r].calls[v] = "on" => pressed[r] = "on"
          /\ req[r].calls[v] = "off" => pressed[r] = "off"
    BY <2>1, <1>7 DEF Promising
  <2>3. req[r].calls[w] = pressed[r]
    BY <2>2, <1>7
  <2>4. y[w] <=> pressed[r] = "on"
    BY <2>3, <1>5
  <2>5. \A v \in Switch :
          /\ c[v] \in {"none", "done"} => (y[v] <=> pressed[r] = "on")
          /\ c[v] = "sent" => (y[v] <=> pressed[r] = "off")
          /\ c[v] = "on" => pressed[r] = "on"
          /\ c[v] = "off" => pressed[r] = "off"
    BY <2>2, <2>4, <1>2, <1>5
  <2> QED
    BY <2>5, <1>4, <1>6, <1>7 DEF Promising
<1>9. r \in Presses /\ ~Unused(r)
  BY <1>0, <1>7 DEF Toggling, Presses, Unused
<1>10. \A q \in Request \ {r} : ~Uncrossed(q)
  BY <1>0, <1>9 DEF Alone
<1> QED
  BY <1>3, <1>4, <1>5, <1>7, <1>8, <1>9, <1>10, Served

-----------------------------------------------------------------------------
LEMMA FailedExchange ==
  ASSUME NEW y \in Exchanges, NEW c \in [Switch -> Progress]
  PROVE  /\ Exchange(y.page, y.kind, "failed", c) \in Exchanges
         /\ Exchange(y.page, y.kind, "failed", c).page = y.page
         /\ Exchange(y.page, y.kind, "failed", c).kind = y.kind
         /\ Exchange(y.page, y.kind, "failed", c).at = "failed"
BY DEF Exchange, Exchanges, AllOff

(* A stop of the server crosses every press.                                *)
LEMMA StopServerKeeps ==
  ASSUME DashboardInv, StopServer
  PROVE  DashboardInv'
<1>0. DashboardTypeOK /\ Toggling
  BY DEF DashboardInv
<1> DEFINE c(q) == IF req[q].kind = "toggle" THEN req[q].calls ELSE NoCalls
           x(q) == IF Unused(q) \/ req[q].at = "answered" THEN req[q]
                   ELSE Exchange(req[q].page, req[q].kind, "failed", c(q))
<1>1. ASSUME NEW q \in Request
      PROVE  /\ x(q) \in Exchanges
             /\ x(q).kind = req[q].kind /\ x(q).page = req[q].page
             /\ \/ x(q).at = req[q].at /\ x(q).at # "toggling"
                \/ x(q).at = "failed"
             /\ Unused(q) => x(q).at = "asked"
  <2>1. /\ req[q] \in Exchanges /\ req[q].page \in Page \union {NoPage}
        /\ req[q].kind \in {"none", "refresh", "click", "toggle"}
        /\ req[q].calls \in [Switch -> Progress]
    BY <1>0, TypesOf DEF Exchanges
  <2>2. c(q) \in [Switch -> Progress]
    BY <2>1, Calls
  <2> HIDE DEF c
  <2>3. /\ Unused(q) => req[q].at = "asked"
        /\ req[q].at = "answered" => req[q].at # "toggling"
    BY <1>0 DEF Toggling
  <2> DEFINE e == Exchange(req[q].page, req[q].kind, "failed", c(q))
  <2>4. /\ e \in Exchanges /\ e.page = req[q].page /\ e.kind = req[q].kind
        /\ e.at = "failed"
    BY <2>1, <2>2, FailedExchange
  <2> HIDE DEF e
  <2>5. x(q) = IF Unused(q) \/ req[q].at = "answered" THEN req[q] ELSE e
    BY DEF e
  <2> HIDE DEF x
  <2> QED
    BY <2>1, <2>3, <2>4, <2>5 DEF Unused
<1>2. /\ req' = [q \in Request |-> x(q)]
      /\ pressed' = Cross(Request) /\ switch' = AllOff /\ up' = FALSE
      /\ sessionActive' = sessionActive /\ demoState' = demoState
  BY DEF StopServer
<1> HIDE DEF x
<1>3. /\ \A q \in Request : Cross(Request)[q] # "none" <=> pressed[q] # "none"
      /\ Cross(Request) \in [Request -> {"none", "on", "off", "crossed"}]
      /\ \A q \in Request : Cross(Request)[q] \notin {"on", "off"}
  BY <1>0, Crossing
<1>4. \A q \in Request : req'[q] = x(q)
  BY <1>2
<1>5. req' \in [Request -> Exchanges]
  BY <1>1, <1>2
<1>6. DashboardTypeOK'
  <2>1. /\ switch' \in [Switch -> BOOLEAN] /\ up' \in BOOLEAN
        /\ sessionActive' \in [Page -> BOOLEAN]
        /\ demoState' \in [Page -> [Switch -> BOOLEAN]]
    BY <1>0, <1>2 DEF DashboardTypeOK, AllOff
  <2>2. \A q \in Request : req'[q].kind = "none" <=> req'[q].page = NoPage
    BY <1>0, <1>1, <1>4, TypesOf
  <2>3. \A q \in Request : pressed'[q] # "none" <=> req'[q].kind = "click"
    BY <1>0, <1>1, <1>2, <1>3, <1>4, TypesOf
  <2>4. pressed' \in [Request -> {"none", "on", "off", "crossed"}]
    BY <1>2, <1>3
  <2> QED
    BY <1>5, <2>1, <2>2, <2>3, <2>4 DEF DashboardTypeOK, Exchanges, Unused
<1>7. Toggling'
  BY <1>1, <1>4 DEF Toggling, Unused
<1>8. Alone'
  BY <1>2, <1>3 DEF Alone, Uncrossed
<1> QED
  BY <1>6, <1>7, <1>8 DEF DashboardInv

LEMMA StartServerKeeps ==
  ASSUME DashboardInv, StartServer
  PROVE  DashboardInv'
<1>1. /\ req' = req /\ pressed' = pressed /\ switch' = switch
      /\ sessionActive' = sessionActive /\ demoState' = demoState
      /\ up' \in BOOLEAN
  BY DEF StartServer
<1>2. DashboardTypeOK' /\ Toggling'
  BY <1>1 DEF DashboardInv, DashboardTypeOK, Toggling, Unused, Presses
<1>3. Alone'
  BY <1>1 DEF DashboardInv, Alone, Uncrossed, Promising, Presses
<1> QED
  BY <1>2, <1>3 DEF DashboardInv

-----------------------------------------------------------------------------
(* A page shows a status, or demoState for it: a press that this turns round*)
(* before it has decided is crossed.                                        *)
LEMMA Shown ==
  ASSUME DashboardInv, NEW r \in Request, ~Unused(r), NEW b \in BOOLEAN,
         req' = [req EXCEPT ![r] = Nothing],
         switch' = switch, up' = up,
         demoState' \in [Page -> [Switch -> BOOLEAN]],
         sessionActive' = [sessionActive EXCEPT ![req[r].page] = b],
         pressed' \in [Request -> {"none", "on", "off", "crossed"}],
         pressed'[r] = "none",
         \A q \in Request \ {r} :
           pressed'[q] = Cross(Misled(req[r].page, b))[q]
  PROVE  DashboardInv'
<1>0. DashboardTypeOK /\ Alone
  BY DEF DashboardInv
<1>1. /\ Nothing \in Exchanges /\ Nothing.kind = "none"
      /\ Nothing.page = NoPage /\ Nothing.at = "asked"
  BY NothingUnderWay
<1>2. /\ req'[r] = Nothing /\ \A q \in Request \ {r} : req'[q] = req[q]
      /\ Presses' = Presses \ {r}
  BY <1>0, <1>1, OneExchange
<1>3. req[r].page \in Page
  BY <1>0, TypesOf DEF Unused, Exchanges
<1>4. /\ sessionActive \in [Page -> BOOLEAN]
      /\ sessionActive' \in [Page -> BOOLEAN]
  BY <1>0, <1>3 DEF DashboardTypeOK
<1>5. \A q \in Request \ {r} :
        /\ pressed'[q] # "none" <=> pressed[q] # "none"
        /\ pressed'[q] \in {"on", "off"} =>
             pressed'[q] = pressed[q] /\ q \notin Misled(req[r].page, b)
  BY <1>0, Crossing
<1>6. DashboardTypeOK' /\ Toggling'
  <2>1. switch' \in [Switch -> BOOLEAN] /\ up' \in BOOLEAN
    BY <1>0 DEF DashboardTypeOK
  <2> QED
    BY <2>1, <1>1, <1>4, <1>5, Exchanged
<1>7. Alone'
  <2> SUFFICES ASSUME NEW q \in Request, Uncrossed(q)'
               PROVE  Presses' = {q} /\ Promising(q)'
    BY DEF Alone
  <2>1. q # r /\ pressed'[q] = pressed[q] /\ q \notin Misled(req[r].page, b)
    BY <1>5 DEF Uncrossed
  <2>2. Uncrossed(q) /\ Presses = {q} /\ q \in Presses'
    BY <2>1, <1>0, <1>2 DEF Uncrossed, Alone
  <2>3. req[q].kind = "click" /\ req'[q] = req[q]
    BY <2>1, <2>2, <1>0, <1>2 DEF Uncrossed, DashboardTypeOK
  <2>4. \/ req[q].at = "toggling"
        \/ sessionActive'[req[q].page] = sessionActive[req[q].page]
    <3>1. CASE req[q].page # req[r].page
      <4>1. req[q].page \in Page
        BY <2>3, <1>0, TypesOf DEF Exchanges
      <4> QED
        BY <3>1, <4>1, <1>3, <1>4
    <3>2. CASE req[q].page = req[r].page /\ b = sessionActive[req[r].page]
      BY <3>2, <1>3, <1>4
    <3>3. CASE req[q].page = req[r].page /\ b # sessionActive[req[r].page]
      BY <3>3, <2>1, <2>3 DEF Misled, Undecided
    <3> QED
      BY <3>1, <3>2, <3>3
  <2> QED
    BY <2>1, <2>2, <2>3, <2>4, <1>0, <1>2, Unconcerned
<1> QED
  BY <1>6, <1>7 DEF DashboardInv

LEMMA ApplyStatusKeeps ==
  ASSUME DashboardInv, NEW r \in Request, ApplyStatus(r)
  PROVE  DashboardInv'
<1>0. DashboardTypeOK
  BY DEF DashboardInv
<1> DEFINE b == AllOn(req[r].seen)
<1>1. b \in BOOLEAN
  BY DEF AllOn
<1>2. /\ req' = [req EXCEPT ![r] = Nothing]
      /\ sessionActive' = [sessionActive EXCEPT ![req[r].page] = b]
      /\ pressed' = Cross(Misled(req[r].page, b))
      /\ switch' = switch /\ up' = up /\ demoState' = demoState
      /\ req[r].kind = "refresh"
  BY DEF ApplyStatus
<1> HIDE DEF b
<1>3. /\ pressed' \in [Request -> {"none", "on", "off", "crossed"}]
      /\ pressed'[r] = "none"
  BY <1>0, <1>2, Crossing DEF DashboardTypeOK
<1>4. ~Unused(r) /\ demoState' \in [Page -> [Switch -> BOOLEAN]]
  BY <1>0, <1>2 DEF Unused, DashboardTypeOK
<1> QED
  BY <1>1, <1>2, <1>3, <1>4, Shown

LEMMA FailKeeps ==
  ASSUME DashboardInv, NEW r \in Request, Fail(r)
  PROVE  DashboardInv'
<1>0. DashboardTypeOK
  BY DEF DashboardInv
<1> DEFINE p == req[r].page
           d == CASE req[r].kind = "refresh" -> demoState[p]
                  [] req[r].kind = "click" ->
                       [w \in Switch |-> ~sessionActive[p]]
                  [] req[r].kind = "toggle" ->
                       [w \in Switch |->
                          demoState[p][w] # (req[r].calls[w] # "none")]
           b == AllOn(d)
<1>1. /\ req' = [req EXCEPT ![r] = Nothing]
      /\ sessionActive' = [sessionActive EXCEPT ![p] = b]
      /\ pressed' = [Cross(Misled(p, b)) EXCEPT ![r] = "none"]
      /\ demoState' = [demoState EXCEPT ![p] = d]
      /\ switch' = switch /\ up' = up /\ ~Unused(r)
  BY DEF Fail
<1>2. p \in Page /\ req[r].kind \in {"refresh", "click", "toggle"}
  BY <1>0, <1>1, TypesOf DEF Unused, Exchanges
<1>3. d \in [Switch -> BOOLEAN]
  <2>1. demoState[p] \in [Switch -> BOOLEAN]
    BY <1>0, <1>2 DEF DashboardTypeOK
  <2>2. CASE req[r].kind = "refresh"
    BY <2>1, <2>2
  <2>3. CASE req[r].kind = "click"
    <3>1. d = [w \in Switch |-> ~sessionActive[p]]
      BY <2>3
    <3> QED
      BY <3>1
  <2>4. CASE req[r].kind = "toggle"
    <3>1. d = [w \in Switch |-> demoState[p][w] # (req[r].calls[w] # "none")]
      BY <2>4
    <3> QED
      BY <3>1
  <2> QED
    BY <2>2, <2>3, <2>4, <1>2
<1>4. b \in BOOLEAN
  BY DEF AllOn
<1> HIDE DEF d, b
<1>5. demoState' \in [Page -> [Switch -> BOOLEAN]]
  BY <1>0, <1>1, <1>2, <1>3 DEF DashboardTypeOK
<1>6. Cross(Misled(p, b)) \in [Request -> {"none", "on", "off", "crossed"}]
  BY <1>0, Crossing
<1>7. /\ pressed' \in [Request -> {"none", "on", "off", "crossed"}]
      /\ pressed'[r] = "none"
      /\ \A q \in Request \ {r} : pressed'[q] = Cross(Misled(p, b))[q]
  BY <1>1, <1>6
<1> QED
  BY <1>1, <1>4, <1>5, <1>7, Shown

-----------------------------------------------------------------------------
(* The click decides.  Uncrossed, it has seen the switches as they are and  *)
(* the button as it was when pressed: what differs from the promise, and    *)
(* nothing else, will be toggled.                                           *)
LEMMA DecideKeeps ==
  ASSUME DashboardInv, NEW r \in Request, Decide(r)
  PROVE  DashboardInv'
<1>0. DashboardTypeOK /\ Alone
  BY DEF DashboardInv
<1> DEFINE want == ~sessionActive[req[r].page]
           differing == {w \in Switch : req[r].seen[w] # want}
           go == up \/ differing = {}
           a == IF go THEN "toggling" ELSE "failed"
           c == IF go THEN Sent(differing) ELSE NoCalls
           x == Exchange(req[r].page, "click", a, c)
<1>1. /\ req[r].kind = "click" /\ req[r].at = "answered"
      /\ switch' = switch /\ up' = up /\ sessionActive' = sessionActive
      /\ demoState' = demoState /\ pressed' = pressed
  BY DEF Decide
<1>2. req' = [req EXCEPT ![r] = x]
  <2>1. CASE go
    BY <2>1 DEF Decide
  <2>2. CASE ~go
    BY <2>2 DEF Decide
  <2> QED
    BY <2>1, <2>2
<1>3. a \in {"toggling", "failed"} /\ c \in [Switch -> Progress]
  BY Calls
<1>4. a = "toggling" => c = Sent(differing)
  OBVIOUS
<1>5. /\ x \in Exchanges /\ x.page = req[r].page /\ x.kind = "click"
      /\ x.at = a /\ x.calls = c
  <2>1. req[r].page \in Page \union {NoPage}
    BY <1>0, TypesOf DEF Exchanges
  <2> HIDE DEF a, c
  <2> QED
    BY <2>1, <1>3, Built
<1> HIDE DEF x, a, c, go
<1>6. req'[r] = x
  BY <1>0, <1>2, <1>5, OneExchange
<1>7. ASSUME Uncrossed(r) PROVE Promising(r)'
  <2>1. /\ sessionActive[req[r].page] <=> pressed[r] = "off"
        /\ req[r].seen["polling"] <=> switch["polling"]
        /\ req[r].seen["streaming"] <=> switch["streaming"]
    BY <1>0, <1>1, <1>7 DEF Alone, Promising
  <2>2. \A w \in Switch : w \in differing <=> (switch[w] <=> pressed[r] = "off")
    <3>1. want <=> pressed[r] = "on"
      BY <2>1, <1>7 DEF Uncrossed
    <3>2. \A w \in Switch : req[r].seen[w] <=> switch[w]
      BY <2>1 DEF Switch
    <3>3. /\ want \in BOOLEAN
          /\ \A w \in Switch : req[r].seen[w] \in BOOLEAN
      BY <1>0, TypesOf DEF Exchanges
    <3> QED
      BY <3>1, <3>2, <3>3, <1>7 DEF Uncrossed
  <2> HIDE DEF differing
  <2>3. ASSUME a = "toggling", NEW w \in Switch
        PROVE  /\ c[w] \in {"none", "done"} => (switch[w] <=> pressed[r] = "on")
               /\ c[w] = "sent" => (switch[w] <=> pressed[r] = "off")
               /\ c[w] # "on" /\ c[w] # "off"
    <3>1. /\ w \in differing => c[w] = "sent"
          /\ w \notin differing => c[w] = "none"
      BY <2>3, <1>4 DEF Sent
    <3> QED
      BY <3>1, <2>2, <1>7 DEF Uncrossed
  <2> QED
    BY <2>1, <2>3, <1>1, <1>3, <1>5, <1>6 DEF Promising
<1>8. r \in Presses /\ ~Unused(r)
  BY <1>1 DEF Presses, Unused
<1>9. switch' \in [Switch -> BOOLEAN]
  BY <1>0, <1>1 DEF DashboardTypeOK
<1> QED
  BY <1>1, <1>2, <1>5, <1>7, <1>8, <1>9, Served

(* The press is over; had it been crossed or not, there is no other.        *)
LEMMA FinishKeeps ==
  ASSUME DashboardInv, NEW r \in Request, Finish(r)
  PROVE  DashboardInv'
<1>0. DashboardTypeOK /\ Toggling /\ Alone
  BY DEF DashboardInv
<1> DEFINE x == Ask(req[r].page, "refresh")
<1>1. /\ req[r].at = "toggling"
      /\ req' = [req EXCEPT ![r] = x]
      /\ pressed' = [pressed EXCEPT ![r] = "none"]
      /\ switch' = switch /\ up' = up /\ demoState' = demoState
  BY DEF Finish
<1>2. r \in Presses
  BY <1>0, <1>1 DEF Toggling
<1>3. req[r].page \in Page
  BY <1>0, <1>2, TypesOf DEF Presses, Exchanges
<1>4. /\ x \in Exchanges /\ x.kind = "refresh" /\ x.page = req[r].page
      /\ x.at # "toggling"
  BY <1>3, Built, Calls DEF Ask
<1> HIDE DEF x
<1>5. sessionActive' \in [Page -> BOOLEAN]
  <2>1. sessionActive \in [Page -> BOOLEAN]
    BY <1>0 DEF DashboardTypeOK
  <2>2. CASE req[r].kind = "click"
    <3>1. sessionActive' = [sessionActive EXCEPT
                              ![req[r].page] = ~sessionActive[req[r].page]]
      BY <2>2 DEF Finish
    <3> QED
      BY <2>1, <3>1, <1>3
  <2>3. CASE req[r].kind # "click"
    BY <2>1, <2>3 DEF Finish
  <2> QED
    BY <2>2, <2>3
<1>6. DashboardTypeOK' /\ Toggling'
  <2>1. /\ switch' \in [Switch -> BOOLEAN] /\ up' \in BOOLEAN
        /\ demoState' \in [Page -> [Switch -> BOOLEAN]]
        /\ pressed' \in [Request -> {"none", "on", "off", "crossed"}]
        /\ pressed'[r] = "none"
        /\ \A q \in Request \ {r} : pressed'[q] = pressed[q]
    BY <1>0, <1>1 DEF DashboardTypeOK
  <2>2. req[r].page # NoPage
    BY <1>3, DashboardAssumption
  <2> QED
    BY <2>1, <2>2, <1>1, <1>4, <1>5, Exchanged
<1>7. \A q \in Request : ~Uncrossed(q)'
  BY <1>0, <1>1, <1>2 DEF Alone, Uncrossed, DashboardTypeOK
<1>8. Alone'
  BY <1>7 DEF Alone
<1> QED
  BY <1>6, <1>8 DEF DashboardInv

-----------------------------------------------------------------------------
LEMMA NextKeeps ==
  ASSUME DashboardInv, [Next]_dashboardVars
  PROVE  DashboardInv'
<1>1. ASSUME NEW r \in Request, Serving(r) PROVE DashboardInv'
  BY <1>1, ReadPollingKeeps, ReadStreamingKeeps, ToggleReadKeeps,
     ToggleWriteKeeps DEF Serving
<1>2. ASSUME NEW r \in Request, Answering(r) PROVE DashboardInv'
  BY <1>2, ApplyStatusKeeps, DecideKeeps, FinishKeeps, FailKeeps
     DEF Answering
<1>3. ASSUME NEW r \in Request, NEW p \in Page, Pressing(r, p)
      PROVE  DashboardInv'
  BY <1>3, PressKeeps, PressSwitchKeeps DEF Pressing
<1>4. CASE UNCHANGED dashboardVars
  <2>1. DashboardTypeOK' /\ Toggling'
    BY <1>4 DEF dashboardVars, DashboardInv, DashboardTypeOK, Toggling,
                Unused, Presses
  <2>2. Alone'
    BY <1>4 DEF dashboardVars, DashboardInv, Alone, Uncrossed, Promising,
                Presses
  <2> QED
    BY <2>1, <2>2 DEF DashboardInv
<1> QED
  BY <1>1, <1>2, <1>3, <1>4, RefreshKeeps, StopServerKeeps, StartServerKeeps
     DEF Next

(* The types of the switches, the pages and the exchanges.                  *)
THEOREM DashboardTypeCorrect == Spec => []DashboardTypeOK
<1>1. DashboardInv => DashboardTypeOK
  BY DEF DashboardInv
<1> QED
  BY InitDashboard, NextKeeps, <1>1, PTL DEF Spec

-----------------------------------------------------------------------------
(* A click that turns into a request for the status has finished.           *)
LEMMA OnlyFinishRefreshes ==
  ASSUME DashboardInv, Next, NEW r \in Request,
         req[r].kind = "click", req'[r].kind = "refresh"
  PROVE  Finish(r)
<1>0. DashboardTypeOK
  BY DEF DashboardInv
<1>1. ASSUME NEW q \in Request, NEW x, req' = [req EXCEPT ![q] = x],
             q = r => x.kind # "refresh"
      PROVE  FALSE
  BY <1>0, <1>1 DEF DashboardTypeOK
<1>2. ASSUME NEW q \in Request, ReadPolling(q) \/ ReadStreaming(q)
      PROVE  FALSE
  <2>1. WithRead(req[q], "reading", "polling").kind = req[q].kind
    BY <1>0, SeenReplaced, TypesOf
  <2>2. WithRead(req[q], "answered", "streaming").kind = req[q].kind
    BY <1>0, SeenReplaced, TypesOf
  <2> QED
    BY <1>1, <1>2, <2>1, <2>2 DEF ReadPolling, ReadStreaming
<1>3. ASSUME NEW q \in Request, NEW w \in Switch,
             ToggleRead(q, w) \/ ToggleWrite(q, w)
      PROVE  FALSE
  <2> DEFINE b == IF ToggleRead(q, w)
                  THEN IF switch[w] THEN "off" ELSE "on" ELSE "done"
             y == [req[q] EXCEPT !.calls[w] = b]
  <2>1. y.kind = req[q].kind
    BY <1>0, CallReplaced, TypesOf
  <2>2. req' = [req EXCEPT ![q] = y]
    BY <1>3 DEF ToggleRead, ToggleWrite
  <2> HIDE DEF y
  <2> QED
    BY <1>1, <2>1, <2>2
<1>4. ASSUME NEW q \in Request, ApplyStatus(q) \/ Fail(q)
      PROVE  FALSE
  BY <1>1, <1>4, NothingUnderWay DEF ApplyStatus, Fail
<1>5. ASSUME NEW q \in Request, Decide(q) PROVE FALSE
  BY <1>0, <1>5 DEF Decide, Exchange, DashboardTypeOK
<1>6. ASSUME NEW q \in Request, Finish(q) PROVE Finish(r)
  BY <1>0, <1>6 DEF Finish, DashboardTypeOK
<1>7. ASSUME NEW q \in Request, NEW p \in Page, Refresh(q, p) PROVE FALSE
  BY <1>0, <1>7 DEF Refresh, Unused, DashboardTypeOK
<1>8. ASSUME NEW q \in Request, NEW p \in Page, Pressing(q, p) PROVE FALSE
  BY <1>0, <1>8 DEF Pressing, Press, PressSwitch, Unused, DashboardTypeOK
<1>9. CASE StopServer
  BY <1>0, <1>9 DEF StopServer, Exchange
<1>10. CASE StartServer
  BY <1>10 DEF StartServer
<1> QED
  BY <1>2, <1>3, <1>4, <1>5, <1>6, <1>7, <1>8, <1>9, <1>10
     DEF Next, Serving, Answering

(* ClickSettles (toggleSession): however many dashboards are open and how-  *)
(* ever many exchanges are under way, a press of the session button that    *)
(* nothing crosses leaves both switches as the button promised.             *)
THEOREM PressesSettle == Spec => ClickSettles
<1>1. ASSUME DashboardInv, [Next]_dashboardVars
      PROVE  [\A r \in Request :
                /\ req[r].kind = "click" /\ req'[r].kind = "refresh"
                /\ pressed[r] \in {"on", "off"}
                => \A w \in Switch :
                     switch[w] = (pressed[r] = "on")]_dashboardVars
  <2> SUFFICES ASSUME Next, NEW r \in Request,
                      req[r].kind = "click", req'[r].kind = "refresh",
                      pressed[r] \in {"on", "off"}, NEW w \in Switch
               PROVE  switch[w] = (pressed[r] = "on")
    BY <1>1
  <2>1. /\ req[r].at = "toggling" /\ req[r].calls[w] \in {"none", "done"}
    BY <1>1, OnlyFinishRefreshes DEF Finish
  <2>2. switch[w] <=> pressed[r] = "on"
    BY <1>1, <2>1 DEF DashboardInv, Alone, Uncrossed, Promising
  <2>3. switch[w] \in BOOLEAN
    BY <1>1 DEF DashboardInv, DashboardTypeOK
  <2> QED
    BY <2>2, <2>3
<1> QED
  BY InitDashboard, NextKeeps, <1>1, PTL DEF Spec, ClickSettles

-----------------------------------------------------------------------------
(* A page stays settled when one exchange is replaced by another that does  *)
(* not mislead it, and its button goes on saying what is.                   *)
LEMMA Undeceived ==
  ASSUME DashboardTypeOK, NEW p \in Page, Settled(p),
         up', Presses' = {}, switch' = switch,
         sessionActive'[p] = sessionActive[p],
         NEW r \in Request, NEW x \in Exchanges,
         req' = [req EXCEPT ![r] = x],
         x.page = p =>
           /\ x.at # "failed"
           /\ x.at \in {"reading", "answered"} =>
                x.seen["polling"] = switch["polling"]
           /\ x.at = "answered" => x.seen["streaming"] = switch["streaming"]
  PROVE  Settled(p)'
<1>1. req'[r] = x /\ \A q \in Request \ {r} : req'[q] = req[q]
  BY OneExchange
<1>2. ASSUME NEW q \in Request, req'[q].page = p PROVE Current(q)'
  <2>1. CASE q = r
    BY <1>1, <1>2, <2>1 DEF Current
  <2>2. CASE q # r
    BY <1>1, <1>2, <2>2 DEF Settled, Current
  <2> QED
    BY <2>1, <2>2
<1>3. AllOn(switch)' = AllOn(switch)
  BY DEF AllOn
<1> QED
  BY <1>2, <1>3 DEF Settled

LEMMA RefreshStays ==
  ASSUME DashboardInv, NEW p \in Page, Settled(p), up', Presses' = {},
         NEW r \in Request, NEW q \in Page, Refresh(r, q)
  PROVE  Settled(p)'
<1> DEFINE x == Ask(q, "refresh")
<1>1. up
  BY DEF Settled
<1>2. x \in Exchanges /\ x.at = "asked"
  BY <1>1, Built, Calls DEF Ask
<1> HIDE DEF x
<1>3. req' = [req EXCEPT ![r] = x] /\ UNCHANGED <<switch, sessionActive>>
  BY DEF Refresh, x
<1> QED
  BY <1>2, <1>3, Undeceived DEF DashboardInv

LEMMA ReadStays ==
  ASSUME DashboardInv, NEW p \in Page, Settled(p), up', Presses' = {},
         NEW r \in Request, ReadPolling(r) \/ ReadStreaming(r)
  PROVE  Settled(p)'
<1>0. /\ DashboardTypeOK /\ req[r] \in Exchanges
      /\ switch \in [Switch -> BOOLEAN]
  BY TypesOf DEF DashboardInv
<1>1. UNCHANGED <<switch, sessionActive>>
  BY DEF ReadPolling, ReadStreaming
<1>2. /\ req[r].seen \in [Switch -> BOOLEAN]
      /\ req[r].calls \in [Switch -> Progress]
  BY <1>0 DEF Exchanges
<1>3. ASSUME NEW a \in {"reading", "answered"}, NEW w \in Switch,
             req' = [req EXCEPT ![r] = WithRead(@, a, w)],
             a = "reading" => w = "polling",
             a = "answered" => w = "streaming" /\ req[r].at = "reading"
      PROVE  Settled(p)'
  <2> DEFINE s == [req[r].seen EXCEPT ![w] = switch[w]]
             x == WithRead(req[r], a, w)
  <2>1. x = [page |-> req[r].page, kind |-> req[r].kind, at |-> a,
             seen |-> s, calls |-> req[r].calls]
    BY <1>0, SeenReplaced
  <2>2. s \in [Switch -> BOOLEAN] /\ s[w] = switch[w]
        /\ (w = "streaming" => s["polling"] = req[r].seen["polling"])
    BY <1>0, <1>2 DEF Switch
  <2>3. req' = [req EXCEPT ![r] = x]
    BY <1>3
  <2> HIDE DEF x, s
  <2>4. x \in Exchanges /\ x.page = req[r].page /\ x.at = a /\ x.seen = s
    BY <1>0, <1>2, <2>1, <2>2, Replaced
  <2>5. req[r].page = p => Current(r)
    BY DEF Settled
  <2>6. x.page = p =>
          /\ x.at # "failed"
          /\ x.at \in {"reading", "answered"} =>
               x.seen["polling"] = switch["polling"]
          /\ x.at = "answered" => x.seen["streaming"] = switch["streaming"]
    BY <1>3, <2>2, <2>4, <2>5 DEF Current
  <2> QED
    BY <1>0, <1>1, <2>3, <2>4, <2>6, Undeceived
<1> QED
  BY <1>3 DEF ReadPolling, ReadStreaming, Switch

(* A status that is shown is true, and no request of the page has failed.   *)
LEMMA ShowStays ==
  ASSUME DashboardInv, NEW p \in Page, Settled(p), up', Presses' = {},
         NEW r \in Request, ApplyStatus(r) \/ Fail(r)
  PROVE  Settled(p)'
<1>0. /\ DashboardTypeOK /\ req[r] \in Exchanges
      /\ sessionActive \in [Page -> BOOLEAN]
  BY TypesOf DEF DashboardInv
<1>1. Nothing \in Exchanges /\ Nothing.page # p
  BY NothingUnderWay, DashboardAssumption
<1>2. req' = [req EXCEPT ![r] = Nothing] /\ switch' = switch
  BY DEF ApplyStatus, Fail
<1>3. sessionActive'[p] = sessionActive[p]
  <2>1. CASE req[r].page # p
    <3>1. PICK b : sessionActive' = [sessionActive EXCEPT ![req[r].page] = b]
      BY DEF ApplyStatus, Fail
    <3> QED
      BY <1>0, <2>1, <3>1
  <2>2. CASE req[r].page = p
    <3>1. Current(r) /\ sessionActive[p] = AllOn(switch)
      BY <2>2 DEF Settled
    <3>2. ApplyStatus(r) /\ req[r].at = "answered"
      BY <3>1 DEF Current, ApplyStatus, Fail
    <3>3. AllOn(req[r].seen) = AllOn(switch)
      BY <3>1, <3>2 DEF Current, AllOn, Switch
    <3> QED
      BY <1>0, <2>2, <3>1, <3>2, <3>3 DEF ApplyStatus
  <2> QED
    BY <2>1, <2>2
<1> QED
  BY <1>0, <1>1, <1>2, <1>3, Undeceived

(* While nobody presses, a settled page stays so as long as the server runs.*)
LEMMA SettledStep ==
  ASSUME DashboardInv, Next, NEW p \in Page, Settled(p), up', Presses' = {}
  PROVE  Settled(p)'
<1>0. DashboardTypeOK /\ Toggling /\ up /\ Presses = {}
  BY DEF DashboardInv, Settled
<1>1. ASSUME NEW r \in Request, req[r].at = "toggling" \/ req[r].kind = "click"
      PROVE  FALSE
  BY <1>0, <1>1 DEF Toggling, Presses
<1>2. ASSUME NEW r \in Request, Serving(r) PROVE Settled(p)'
  BY <1>1, <1>2, ReadStays DEF Serving, ToggleRead, ToggleWrite
<1>3. ASSUME NEW r \in Request, Answering(r) PROVE Settled(p)'
  BY <1>1, <1>3, ShowStays DEF Answering, Decide, Finish
<1>4. ASSUME NEW r \in Request, NEW q \in Page, Pressing(r, q) PROVE FALSE
  <2>1. CASE Press(r, q)
    <3>1. req'[r].kind = "click"
      BY <1>0, <2>1 DEF Press, Ask, Exchange, DashboardTypeOK
    <3> QED
      BY <3>1 DEF Presses
  <2>2. CASE \E w \in Switch : PressSwitch(r, q, w)
    <3>1. req'[r].kind = "toggle"
      BY <1>0, <2>2 DEF PressSwitch, Exchange, DashboardTypeOK
    <3> QED
      BY <3>1 DEF Presses
  <2> QED
    BY <1>4, <2>1, <2>2 DEF Pressing
<1>5. ~StopServer /\ ~StartServer
  BY <1>0 DEF StopServer, StartServer
<1> QED
  BY <1>2, <1>3, <1>4, <1>5, RefreshStays DEF Next

(* PageStays (refreshStatus, applyStatus): a page that shows what is, and   *)
(* has no outdated status on its way, goes on showing it, for any number of *)
(* pages and of exchanges that overtake each other.                         *)
THEOREM PagesStay == Spec => PageStays
<1>1. ASSUME DashboardInv, [Next]_dashboardVars
      PROVE  [\A p \in Page :
                Settled(p) /\ up' /\ Presses' = {} => Settled(p)'
             ]_dashboardVars
  BY <1>1, SettledStep
<1> QED
  BY InitDashboard, NextKeeps, <1>1, PTL DEF Spec, PageStays

=============================================================================
