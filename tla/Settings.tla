------------------------------- MODULE Settings -------------------------------
(***************************************************************************)
(* The detector settings of ServerState.java: saved from the dashboard's   *)
(* form field by field, without a lock, and fetched by pool_detector.py    *)
(* every ten seconds.  The app settings go the same way (app-settings).    *)
(*                                                                         *)
(* Two of the five fields, in the order they are stored: blurKernel, of    *)
(* which a wrong value kills the detector, and minBlobArea, which stands   *)
(* for the others.                                                         *)
(***************************************************************************)
EXTENDS Naturals, Sequences

CONSTANTS
  Save,     (* requests POST /api/settings that can be under way at once    *)
  Value,    (* values of a field                                            *)
  Even,     (* those that GaussianBlur does not take                        *)
  Default,  (* what every field is initialised to, here and in the detector *)
  Blank     (* null, which an empty input of the form is sent as            *)

ASSUME SettingsAssumption ==
  /\ Even \subseteq Value
  /\ Default \in Value \ Even
  /\ Blank \notin Value

Order == <<"blurKernel", "minBlobArea">>

Field == {Order[i] : i \in DOMAIN Order}

VARIABLES
  up,       (* whether the server, and with it the launcher, is running     *)
  settings, (* the fields of ServerState                                    *)
  post,     (* post[r]: the body of request r and how many of its fields are*)
            (* stored                                                       *)
  fetch,    (* where the detector is: in its loop, or how far the server has*)
            (* read the settings for it                                     *)
  inUse     (* BLUR_KERNEL and the other globals of pool_detector.py        *)

(* Observers: the last body that was stored whole by a request with no other*)
(* in progress, whether something else has been stored since, the requests  *)
(* that were not alone, and whether a field has been stored under the fetch *)
(* that is under way.                                                       *)
VARIABLES lastSaved, mixed, overlapped, torn

settingsVars == <<up, settings, post, fetch, inUse, lastSaved, mixed,
                  overlapped, torn>>

AllDefault == [f \in Field |-> Default]

NoPost == [storing |-> FALSE, stored |-> 0, body |-> AllDefault]

Storing == {r \in Save : post[r].storing}

(* The detector outside of fetch_settings, or ended.                        *)
Looping == [at |-> "looping", read |-> 0, seen |-> AllDefault]
Ended   == [at |-> "ended", read |-> 0, seen |-> AllDefault]

-----------------------------------------------------------------------------
Init ==
  /\ up = TRUE
  /\ settings = AllDefault
  /\ post = [r \in Save |-> NoPost]
  /\ fetch = Looping
  /\ inUse = AllDefault
  /\ lastSaved = AllDefault
  /\ mixed = FALSE
  /\ overlapped = {}
  /\ torn = FALSE

-----------------------------------------------------------------------------
(* saveServerSettings: the page sends every field of its form, whether it   *)
(* has been edited or not.                                                  *)
Submit(r) ==
  /\ up /\ r \notin Storing
  /\ \E body \in [Field -> Value \union {Blank}] :
       post' = [post EXCEPT ![r] = [storing |-> TRUE, stored |-> 0,
                                    body |-> body]]
  /\ overlapped' = IF Storing = {} THEN {} ELSE Storing \union {r}
  /\ UNCHANGED <<up, settings, fetch, inUse, lastSaved, mixed, torn>>

(* Mutant: a field that has no value is passed over, the request goes on.   *)
StoreFieldOrSkip(r) ==
  LET f == Order[post[r].stored + 1] IN
  /\ r \in Storing /\ post[r].stored < Len(Order)
  /\ settings' = IF post[r].body[f] = Blank THEN settings
                 ELSE [settings EXCEPT ![f] = post[r].body[f]]
  /\ post' = [post EXCEPT ![r].stored = @ + 1]
  /\ torn' = (fetch.at = "fetching")
  /\ UNCHANGED <<up, fetch, inUse, lastSaved, mixed, overlapped>>

(* Mutant: the fields of ServerState are Integer, and null is stored.       *)
StoreFieldUnchecked(r) ==
  LET f == Order[post[r].stored + 1] IN
  /\ r \in Storing /\ post[r].stored < Len(Order)
  /\ settings' = [settings EXCEPT ![f] = post[r].body[f]]
  /\ post' = [post EXCEPT ![r].stored = @ + 1]
  /\ torn' = (fetch.at = "fetching")
  /\ UNCHANGED <<up, fetch, inUse, lastSaved, mixed, overlapped>>

(* updateSettings stores the next field ...                                 *)
StoreField(r) ==
  /\ r \in Storing /\ post[r].stored < Len(Order)
  /\ LET f == Order[post[r].stored + 1] IN
       /\ post[r].body[f] # Blank
       /\ settings' = [settings EXCEPT ![f] = post[r].body[f]]
  /\ post' = [post EXCEPT ![r].stored = @ + 1]
  /\ torn' = (fetch.at = "fetching")
  /\ UNCHANGED <<up, fetch, inUse, lastSaved, mixed, overlapped>>

(* ... or throws, unboxing null: what it has stored stays.                  *)
StoreThrows(r) ==
  /\ r \in Storing /\ post[r].stored < Len(Order)
  /\ post[r].body[Order[post[r].stored + 1]] = Blank
  /\ post' = [post EXCEPT ![r] = NoPost]
  /\ overlapped' = overlapped \ {r}
  /\ IF post[r].stored > 0 THEN mixed' = TRUE ELSE UNCHANGED mixed
  /\ UNCHANGED <<up, settings, fetch, inUse, lastSaved, torn>>

(* All fields are stored.                                                   *)
StoreDone(r) ==
  /\ r \in Storing /\ post[r].stored = Len(Order)
  /\ post' = [post EXCEPT ![r] = NoPost]
  /\ overlapped' = overlapped \ {r}
  /\ IF r \in overlapped
     THEN mixed' = TRUE /\ UNCHANGED lastSaved
     ELSE mixed' = FALSE /\ lastSaved' = post[r].body
  /\ UNCHANGED <<up, settings, fetch, inUse, torn>>

-----------------------------------------------------------------------------
(* pool_detector.py                                                         *)

(* fetch_settings asks for the settings: at the start, and when ten seconds *)
(* have passed.                                                             *)
FetchBegin ==
  /\ up /\ fetch.at = "looping"
  /\ fetch' = [Looping EXCEPT !.at = "fetching"]
  /\ torn' = FALSE
  /\ UNCHANGED <<up, settings, post, inUse, lastSaved, mixed, overlapped>>

(* getSettings reads the next field.                                        *)
FetchRead ==
  /\ fetch.at = "fetching" /\ fetch.read < Len(Order)
  /\ LET f == Order[fetch.read + 1] IN
     fetch' = [fetch EXCEPT !.read = @ + 1, !.seen[f] = settings[f]]
  /\ UNCHANGED <<up, settings, post, inUse, lastSaved, mixed, overlapped,
                 torn>>

(* Mutant: a misspelt key, for which settings.get returns the value in use. *)
FetchDoneMisspelt ==
  /\ fetch.at = "fetching" /\ fetch.read = Len(Order)
  /\ inUse' = [inUse EXCEPT !["blurKernel"] = fetch.seen["blurKernel"]]
  /\ fetch' = Looping
  /\ UNCHANGED <<up, settings, post, lastSaved, mixed, overlapped, torn>>

(* The answer is there.                                                     *)
FetchDone ==
  /\ fetch.at = "fetching" /\ fetch.read = Len(Order)
  /\ inUse' = fetch.seen
  /\ fetch' = Looping
  /\ UNCHANGED <<up, settings, post, lastSaved, mixed, overlapped, torn>>

(* No answer within a second: the values in use are kept.                   *)
FetchFails ==
  /\ fetch.at = "fetching"
  /\ fetch' = Looping
  /\ UNCHANGED <<up, settings, post, inUse, lastSaved, mixed, overlapped,
                 torn>>

(* detect_pool blurs a frame: with an even kernel, GaussianBlur raises an   *)
(* error that nothing catches.                                              *)
DetectRaises ==
  /\ fetch.at = "looping" /\ inUse["blurKernel"] \in Even
  /\ fetch' = Ended
  /\ UNCHANGED <<up, settings, post, inUse, lastSaved, mixed, overlapped,
                 torn>>

-----------------------------------------------------------------------------
(* The server stops, and the detector with it.                              *)
StopServer ==
  /\ up
  /\ up' = FALSE
  /\ post' = [r \in Save |-> NoPost]
  /\ overlapped' = {}
  /\ fetch' = Ended
  /\ settings' = AllDefault
  /\ inUse' = AllDefault
  /\ lastSaved' = AllDefault
  /\ mixed' = FALSE
  /\ torn' = FALSE

(* Both start with their own defaults.                                      *)
StartServer ==
  /\ ~up
  /\ up' = TRUE
  /\ fetch' = Looping
  /\ UNCHANGED <<settings, post, inUse, lastSaved, mixed, overlapped, torn>>

-----------------------------------------------------------------------------
UpdateSettings(r) == StoreField(r) \/ StoreThrows(r) \/ StoreDone(r)

FetchSettings == FetchBegin \/ FetchRead \/ FetchDone \/ FetchFails

Next ==
  \/ \E r \in Save : Submit(r) \/ UpdateSettings(r)
  \/ FetchSettings \/ DetectRaises
  \/ StopServer \/ StartServer

Spec == Init /\ [][Next]_settingsVars

(* Requests are served, and the detector's loop goes on.                    *)
Fairness ==
  /\ \A r \in Save : WF_settingsVars(UpdateSettings(r))
  /\ WF_settingsVars(FetchBegin \/ FetchRead \/ FetchDone)

FairSpec == Spec /\ Fairness

-----------------------------------------------------------------------------
(* The type invariant of the settings, the requests and the detector.       *)
SettingsTypeOK ==
  /\ up \in BOOLEAN /\ mixed \in BOOLEAN /\ torn \in BOOLEAN
  /\ settings \in [Field -> Value] /\ lastSaved \in [Field -> Value]
  /\ inUse \in [Field -> Value]
  /\ post \in [Save -> [storing : BOOLEAN, stored : 0..Len(Order),
                        body : [Field -> Value \union {Blank}]]]
  /\ fetch \in [at : {"looping", "fetching", "ended"},
                read : 0..Len(Order), seen : [Field -> Value]]
  /\ overlapped \subseteq Storing

(* A save that goes through alone leaves exactly what its form showed, all  *)
(* of it, also after saves that were refused half-way or mixed with others: *)
(* it repairs whatever they have left.  A save refused at its first field   *)
(* changes nothing (updateSettings, saveServerSettings).                    *)
SoloSaveWins ==
  Storing = {} /\ ~mixed => settings = lastSaved

(* The detector never changes to values that nobody saved: when it takes new*)
(* ones, they are those of the last save that went through alone, all of    *)
(* them, unless a save is half-way or has mixed with others or been refused *)
(* half-way, or has stored a field under the fetch (getSettings reads field *)
(* by field, fetch_settings assigns them at once).                          *)
DetectorTakesOneSave ==
  [][up' /\ inUse' # inUse /\ ~torn /\ ~mixed
     /\ (\A r \in Storing : post[r].stored = 0)
     => inUse' = lastSaved]_settingsVars

(* If from some time on nothing is saved, the server stays up and answers   *)
(* within a second, and the detector is alive, then it comes to use the     *)
(* settings of the server, even if a fetch has read half of one save and    *)
(* half of another, or has failed (fetch_settings every ten seconds).  A    *)
(* fetch has failed only if it ends otherwise than an answer could have     *)
(* ended it.                                                                *)
SettingsReachDetector ==
  /\ <>[](up /\ Storing = {} /\ fetch.at # "ended")
  /\ <>[][FetchFails => FetchDone]_settingsVars
  => <>[](inUse = settings)

=============================================================================
