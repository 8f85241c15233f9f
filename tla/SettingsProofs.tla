--------------------------- MODULE SettingsProofs ---------------------------
(***************************************************************************)
(* That a save which goes through alone wins, and that the detector takes  *)
(* whole saves, for any number of concurrent requests and any values.      *)
(***************************************************************************)
EXTENDS Settings, TLAPS

(* What a request that is alone has stored is still there.                  *)
Solo ==
  \A r \in Storing \ overlapped :
    /\ Storing = {r}
    /\ \A i \in 1..post[r].stored :
         settings[Order[i]] = post[r].body[Order[i]]

(* SoloSaveWins, extended to requests that have not stored anything yet:    *)
(* such a request may be refused without having changed anything.           *)
Untouched ==
  ~mixed /\ (\A r \in Storing : post[r].stored = 0) => settings = lastSaved

SettingsInv == SettingsTypeOK /\ Solo /\ Untouched

-----------------------------------------------------------------------------
(* The order in which updateSettings stores the fields names each once.     *)
LEMMA Fields ==
  /\ Len(Order) = 2
  /\ Order[1] = "blurKernel" /\ Order[2] = "minBlobArea"
  /\ Field = {"blurKernel", "minBlobArea"}
  /\ \A i \in 1..2 : Order[i] \in Field
BY DEF Field, Order

LEMMA InitSettings == Init => SettingsInv
<1> SUFFICES ASSUME Init PROVE SettingsInv
  OBVIOUS
<1>1. Storing = {}
  BY DEF Init, Storing, NoPost
<1>2. SettingsTypeOK
  <2>1. AllDefault \in [Field -> Value]
    BY SettingsAssumption DEF AllDefault
  <2>2. NoPost \in [storing : BOOLEAN, stored : 0..Len(Order),
                    body : [Field -> Value \union {Blank}]]
    BY <2>1, Fields DEF NoPost, AllDefault
  <2>3. Looping \in [at : {"looping", "fetching", "ended"},
                     read : 0..Len(Order), seen : [Field -> Value]]
    BY <2>1, Fields DEF Looping
  <2> QED
    BY <2>1, <2>2, <2>3 DEF Init, SettingsTypeOK
<1>3. Solo
  BY <1>1 DEF Solo
<1>4. Untouched
  BY DEF Init, Untouched
<1> QED
  BY <1>2, <1>3, <1>4 DEF SettingsInv

-----------------------------------------------------------------------------
(* A request begins: alone, with nothing stored, or overlapping with all    *)
(* those that are under way.                                                *)
LEMMA SubmitKeeps ==
  ASSUME SettingsInv, NEW r \in Save, Submit(r)
  PROVE  SettingsInv'
<1> USE DEF SettingsInv
<1> PICK body \in [Field -> Value \union {Blank}] :
      post' = [post EXCEPT ![r] = [storing |-> TRUE, stored |-> 0,
                                   body |-> body]]
  BY DEF Submit
<1>1. post' \in [Save -> [storing : BOOLEAN, stored : 0..Len(Order),
                          body : [Field -> Value \union {Blank}]]]
  BY Fields DEF SettingsTypeOK
<1>2. Storing' = Storing \union {r} /\ r \notin Storing
  BY DEF Submit, Storing, SettingsTypeOK
<1>3. post'[r].stored = 0 /\ \A q \in Storing : post'[q] = post[q]
  BY <1>2 DEF SettingsTypeOK
<1>4. SettingsTypeOK'
  BY <1>1, <1>2 DEF Submit, SettingsTypeOK
<1>5. Solo'
  BY <1>2, <1>3 DEF Solo, Submit
<1>6. Untouched'
  BY <1>2, <1>3 DEF Untouched, Submit
<1> QED
  BY <1>4, <1>5, <1>6

(* A field is stored: by a request that is alone, or one of several that are*)
(* all overlapped.                                                          *)
LEMMA StoreFieldKeeps ==
  ASSUME SettingsInv, NEW r \in Save, StoreField(r)
  PROVE  SettingsInv'
<1> USE DEF SettingsInv
<1> DEFINE n == post[r].stored
           f == Order[n + 1]
<1>1. n \in 0..1 /\ f \in Field /\ r \in Storing
  BY Fields DEF StoreField, SettingsTypeOK
<1>2. post[r].body \in [Field -> Value \union {Blank}]
  BY DEF SettingsTypeOK
<1>3. post[r].body[f] \in Value
  BY <1>1, <1>2 DEF StoreField
<1>4. settings' = [settings EXCEPT ![f] = post[r].body[f]]
  BY DEF StoreField
<1>5. /\ post'[r].stored = n + 1 /\ post'[r].body = post[r].body
      /\ post'[r].storing = post[r].storing
      /\ \A q \in Save \ {r} : post'[q] = post[q]
      /\ post' \in [Save -> [storing : BOOLEAN, stored : 0..Len(Order),
                             body : [Field -> Value \union {Blank}]]]
  BY <1>1, Fields DEF StoreField, SettingsTypeOK
<1>6. Storing' = Storing
  BY <1>5 DEF Storing
<1>7. SettingsTypeOK'
  BY <1>1, <1>3, <1>4, <1>5, <1>6 DEF StoreField, SettingsTypeOK
<1>8. Solo'
  <2> SUFFICES ASSUME NEW q \in Storing \ overlapped
               PROVE  /\ Storing = {q}
                      /\ \A i \in 1..post'[q].stored :
                           settings'[Order[i]] = post'[q].body[Order[i]]
    BY <1>6 DEF Solo, StoreField
  <2>1. Storing = {q} /\ q = r
    BY <1>1 DEF Solo
  <2>2. ASSUME NEW i \in 1..(n + 1)
        PROVE  settings'[Order[i]] = post[r].body[Order[i]]
    <3>1. CASE i = n + 1
      BY <3>1, <1>1, <1>4 DEF SettingsTypeOK
    <3>2. CASE i \in 1..n
      <4>1. settings[Order[i]] = post[r].body[Order[i]]
        BY <3>2, <2>1 DEF Solo
      <4>2. Order[i] # f /\ Order[i] \in Field
        BY <3>2, <1>1, Fields
      <4> QED
        BY <4>1, <4>2, <1>4 DEF SettingsTypeOK
    <3> QED
      BY <3>1, <3>2, <1>1
  <2> QED
    BY <2>1, <2>2, <1>5
<1>9. Untouched'
  <2>1. r \in Storing' /\ post'[r].stored # 0
    BY <1>1, <1>5, <1>6
  <2> QED
    BY <2>1 DEF Untouched
<1> QED
  BY <1>7, <1>8, <1>9

-----------------------------------------------------------------------------
(* A request ends.                                                          *)
LEMMA EndingPost ==
  ASSUME SettingsTypeOK, NEW r \in Storing,
         post' = [post EXCEPT ![r] = NoPost]
  PROVE  /\ Storing' = Storing \ {r}
         /\ \A q \in Storing' : post'[q] = post[q]
         /\ post' \in [Save -> [storing : BOOLEAN, stored : 0..Len(Order),
                                body : [Field -> Value \union {Blank}]]]
<1>1. AllDefault \in [Field -> Value \union {Blank}]
  BY SettingsAssumption DEF AllDefault
<1>2. NoPost \in [storing : BOOLEAN, stored : 0..Len(Order),
                  body : [Field -> Value \union {Blank}]]
  BY <1>1, Fields DEF NoPost
<1>3. r \in Save /\ NoPost.storing = FALSE
  BY DEF Storing, NoPost
<1> QED
  BY <1>2, <1>3 DEF SettingsTypeOK, Storing

LEMMA StoreThrowsKeeps ==
  ASSUME SettingsInv, NEW r \in Save, StoreThrows(r)
  PROVE  SettingsInv'
<1> USE DEF SettingsInv
<1>1. r \in Storing
  BY DEF StoreThrows
<1>2. /\ Storing' = Storing \ {r}
      /\ \A q \in Storing' : post'[q] = post[q]
      /\ post' \in [Save -> [storing : BOOLEAN, stored : 0..Len(Order),
                             body : [Field -> Value \union {Blank}]]]
  BY <1>1, EndingPost DEF StoreThrows
<1>3. SettingsTypeOK'
  BY <1>2 DEF StoreThrows, SettingsTypeOK
<1>4. Solo'
  BY <1>1, <1>2 DEF StoreThrows, Solo
<1>5. Untouched'
  <2> SUFFICES ASSUME ~mixed', \A q \in Storing' : post'[q].stored = 0
               PROVE  settings' = lastSaved'
    BY DEF Untouched
  <2>1. post[r].stored \in Nat
    BY DEF SettingsTypeOK
  <2>2. ~mixed /\ post[r].stored = 0
    BY <2>1 DEF StoreThrows
  <2>3. \A q \in Storing : post[q].stored = 0
    BY <2>2, <1>2
  <2> QED
    BY <2>2, <2>3 DEF StoreThrows, Untouched
<1> QED
  BY <1>3, <1>4, <1>5

LEMMA StoreDoneKeeps ==
  ASSUME SettingsInv, NEW r \in Save, StoreDone(r)
  PROVE  SettingsInv'
<1> USE DEF SettingsInv
<1>1. r \in Storing /\ post[r].stored = 2
  BY Fields DEF StoreDone
<1>2. /\ Storing' = Storing \ {r}
      /\ \A q \in Storing' : post'[q] = post[q]
      /\ post' \in [Save -> [storing : BOOLEAN, stored : 0..Len(Order),
                             body : [Field -> Value \union {Blank}]]]
  BY <1>1, EndingPost DEF StoreDone
<1>3. ASSUME r \notin overlapped
      PROVE  settings = post[r].body
  <2>1. /\ settings["blurKernel"] = post[r].body["blurKernel"]
        /\ settings["minBlobArea"] = post[r].body["minBlobArea"]
    BY <1>1, <1>3, Fields DEF Solo
  <2>2. /\ settings \in [Field -> Value]
        /\ post[r].body \in [Field -> Value \union {Blank}]
    BY DEF SettingsTypeOK
  <2> QED
    BY <2>1, <2>2, Fields
<1>4. SettingsTypeOK'
  BY <1>2, <1>3 DEF StoreDone, SettingsTypeOK
<1>5. Solo'
  BY <1>1, <1>2 DEF StoreDone, Solo
<1>6. Untouched'
  BY <1>3 DEF StoreDone, Untouched
<1> QED
  BY <1>4, <1>5, <1>6

-----------------------------------------------------------------------------
(* The detector only reads.                                                 *)
LEMMA DetectorKeeps ==
  ASSUME SettingsInv, FetchSettings \/ DetectRaises
  PROVE  SettingsInv'
<1> USE DEF SettingsInv
<1>1. UNCHANGED <<settings, post, lastSaved, mixed, overlapped, up>>
  BY DEF FetchSettings, FetchBegin, FetchRead, FetchDone, FetchFails,
         DetectRaises
<1>2. AllDefault \in [Field -> Value]
  BY SettingsAssumption DEF AllDefault
<1> DEFINE FetchType == [at : {"looping", "fetching", "ended"},
                         read : 0..Len(Order), seen : [Field -> Value]]
<1>3. fetch \in FetchType /\ inUse \in [Field -> Value]
  BY DEF SettingsTypeOK
<1>4. fetch' \in FetchType /\ inUse' \in [Field -> Value]
  <2>1. CASE FetchBegin
    <3>1. fetch' = [at |-> "fetching", read |-> 0, seen |-> AllDefault]
      BY <2>1 DEF FetchBegin, Looping
    <3> QED
      BY <3>1, <2>1, <1>2, <1>3, Fields DEF FetchBegin
  <2>2. CASE FetchRead
    <3> DEFINE f == Order[fetch.read + 1]
    <3>1. fetch.read \in 0..1 /\ f \in Field
      BY <2>2, <1>3, Fields DEF FetchRead
    <3> DEFINE seen == [fetch.seen EXCEPT ![f] = settings[f]]
    <3>2. fetch' = [at |-> fetch.at, read |-> fetch.read + 1, seen |-> seen]
      BY <2>2, <1>3 DEF FetchRead
    <3>3. seen \in [Field -> Value]
      BY <3>1, <1>3 DEF SettingsTypeOK
    <3> QED
      BY <3>1, <3>2, <3>3, <2>2, <1>3, Fields DEF FetchRead
  <2>3. CASE FetchDone
    BY <2>3, <1>2, <1>3, Fields DEF FetchDone, Looping
  <2>4. CASE FetchFails
    BY <2>4, <1>2, <1>3, Fields DEF FetchFails, Looping
  <2>5. CASE DetectRaises
    BY <2>5, <1>2, <1>3, Fields DEF DetectRaises, Ended
  <2> QED
    BY <2>1, <2>2, <2>3, <2>4, <2>5 DEF FetchSettings
<1>5. Storing' = Storing
  BY <1>1 DEF Storing
<1>6. SettingsTypeOK'
  <2>1. torn' \in BOOLEAN
    BY DEF FetchSettings, FetchBegin, FetchRead, FetchDone, FetchFails,
           DetectRaises, SettingsTypeOK
  <2> QED
    BY <1>1, <1>4, <1>5, <2>1 DEF SettingsTypeOK
<1>7. Solo' /\ Untouched'
  BY <1>1, <1>5 DEF Solo, Untouched
<1> QED
  BY <1>6, <1>7

(* After a stop everything is as at the beginning.                          *)
LEMMA ServerKeeps ==
  ASSUME SettingsInv, StopServer \/ StartServer
  PROVE  SettingsInv'
<1> USE DEF SettingsInv
<1>1. AllDefault \in [Field -> Value] /\ AllDefault \in [Field -> Value \union {Blank}]
  BY SettingsAssumption DEF AllDefault
<1>2. CASE StopServer
  <2>1. NoPost \in [storing : BOOLEAN, stored : 0..Len(Order),
                    body : [Field -> Value \union {Blank}]]
    BY <1>1, Fields DEF NoPost
  <2>2. Storing' = {}
    BY <1>2 DEF StopServer, Storing, NoPost
  <2>3. fetch' \in [at : {"looping", "fetching", "ended"},
                     read : 0..Len(Order), seen : [Field -> Value]]
    BY <1>1, <1>2, Fields DEF StopServer, Ended
  <2>4. post' \in [Save -> [storing : BOOLEAN, stored : 0..Len(Order),
                           body : [Field -> Value \union {Blank}]]]
    BY <1>2, <2>1 DEF StopServer
  <2>5. SettingsTypeOK'
    BY <1>1, <1>2, <2>3, <2>4 DEF StopServer, SettingsTypeOK
  <2>6. Solo' /\ Untouched'
    BY <1>2, <2>2 DEF StopServer, Solo, Untouched
  <2> QED
    BY <2>5, <2>6
<1>3. CASE StartServer
  <2>1. Storing' = Storing
    BY <1>3 DEF StartServer, Storing
  <2>2. SettingsTypeOK'
    BY <1>1, <1>3, <2>1, Fields DEF StartServer, SettingsTypeOK, Looping
  <2>3. Solo' /\ Untouched'
    BY <1>3, <2>1 DEF StartServer, Solo, Untouched
  <2> QED
    BY <2>2, <2>3
<1> QED
  BY <1>2, <1>3

-----------------------------------------------------------------------------
LEMMA NextKeepsSettings ==
  SettingsInv /\ [Next]_settingsVars => SettingsInv'
<1> SUFFICES ASSUME SettingsInv, [Next]_settingsVars PROVE SettingsInv'
  OBVIOUS
<1>1. CASE \E r \in Save : Submit(r) \/ UpdateSettings(r)
  BY <1>1, SubmitKeeps, StoreFieldKeeps, StoreThrowsKeeps, StoreDoneKeeps
     DEF UpdateSettings
<1>2. CASE FetchSettings \/ DetectRaises
  BY <1>2, DetectorKeeps
<1>3. CASE StopServer \/ StartServer
  BY <1>3, ServerKeeps
<1>4. CASE UNCHANGED settingsVars
  BY <1>4 DEF settingsVars, SettingsInv, SettingsTypeOK, Solo, Untouched,
              Storing
<1> QED
  BY <1>1, <1>2, <1>3, <1>4 DEF Next

LEMMA SettingsInvariant == Spec => []SettingsInv
<1>1. Init => SettingsInv
  BY InitSettings
<1>2. SettingsInv /\ [Next]_settingsVars => SettingsInv'
  BY NextKeepsSettings
<1> QED
  BY <1>1, <1>2, PTL DEF Spec

(* The settings, requests and the detector keep their types.                *)
THEOREM SettingsTypeCorrect == Spec => []SettingsTypeOK
<1>1. SettingsInv => SettingsTypeOK
  BY DEF SettingsInv
<1> QED
  BY <1>1, SettingsInvariant, PTL

(* However many saves are under way, fail half-way or mix with each other,  *)
(* one that goes through alone afterwards leaves exactly its own settings.  *)
THEOREM SoloSavesWin == Spec => []SoloSaveWins
<1>1. SettingsInv => SoloSaveWins
  BY DEF SettingsInv, Untouched, SoloSaveWins
<1> QED
  BY <1>1, SettingsInvariant, PTL

-----------------------------------------------------------------------------
(* What the server has read for the detector is what it holds, as long as   *)
(* no field is stored under the fetch.                                      *)
Fetched ==
  fetch.at = "fetching" /\ ~torn =>
    \A i \in 1..fetch.read : fetch.seen[Order[i]] = settings[Order[i]]

LEMMA FetchReadKeeps ==
  ASSUME SettingsTypeOK, Fetched, FetchRead
  PROVE  Fetched'
<1> DEFINE n == fetch.read
           f == Order[n + 1]
           seen == [fetch.seen EXCEPT ![f] = settings[f]]
<1>1. /\ n \in 0..1 /\ f \in Field /\ fetch.at = "fetching"
      /\ fetch.seen \in [Field -> Value]
  BY Fields DEF FetchRead, SettingsTypeOK
<1>2. fetch'.read = n + 1 /\ fetch'.seen = seen
  BY DEF FetchRead, SettingsTypeOK
<1>3. torn' = torn /\ settings' = settings
  BY DEF FetchRead
<1> SUFFICES ASSUME ~torn, NEW i \in 1..(n + 1)
             PROVE  seen[Order[i]] = settings[Order[i]]
  BY <1>1, <1>2, <1>3 DEF Fetched
<1>4. CASE i = n + 1
  BY <1>1, <1>4
<1>5. CASE i \in 1..n
  <2>1. fetch.seen[Order[i]] = settings[Order[i]]
    BY <1>1, <1>5 DEF Fetched
  <2>2. Order[i] # f /\ Order[i] \in Field
    BY <1>1, <1>5, Fields
  <2> QED
    BY <1>1, <2>1, <2>2
<1> QED
  BY <1>1, <1>4, <1>5

LEMMA FetchedStep ==
  SettingsTypeOK /\ Fetched /\ [Next]_settingsVars => Fetched'
<1> SUFFICES ASSUME SettingsTypeOK, Fetched, [Next]_settingsVars PROVE Fetched'
  OBVIOUS
<1>1. ASSUME UNCHANGED <<fetch, settings, torn>> PROVE Fetched'
  BY <1>1 DEF Fetched
<1>2. ASSUME fetch'.at # "fetching" PROVE Fetched'
  BY <1>2 DEF Fetched
<1>3. ASSUME NEW r \in Save, Submit(r) \/ StoreThrows(r) \/ StoreDone(r)
      PROVE  Fetched'
  BY <1>1, <1>3 DEF Submit, StoreThrows, StoreDone
<1>4. ASSUME NEW r \in Save, StoreField(r) PROVE Fetched'
  BY <1>4 DEF StoreField, Fetched
<1>5. CASE FetchBegin
  <2>1. fetch'.read = 0
    BY <1>5 DEF FetchBegin, Looping
  <2> QED
    BY <2>1 DEF Fetched
<1>6. CASE FetchRead
  BY <1>6, FetchReadKeeps
<1>7. CASE FetchDone \/ FetchFails
  BY <1>2, <1>7 DEF FetchDone, FetchFails, Looping
<1>8. CASE DetectRaises \/ StopServer
  BY <1>2, <1>8 DEF DetectRaises, StopServer, Ended
<1>9. CASE StartServer
  BY <1>2, <1>9 DEF StartServer, Looping
<1>10. CASE UNCHANGED settingsVars
  BY <1>1, <1>10 DEF settingsVars
<1> QED
  BY <1>3, <1>4, <1>5, <1>6, <1>7, <1>8, <1>9, <1>10
  DEF Next, UpdateSettings, FetchSettings

(* Only a fetch that has read every field changes what the detector uses,   *)
(* while the server runs.                                                   *)
LEMMA ChangesTogether ==
  ASSUME SettingsInv, Fetched, [Next]_settingsVars, up', inUse' # inUse,
         ~torn, ~mixed, \A r \in Storing : post[r].stored = 0
  PROVE  inUse' = lastSaved
<1>1. FetchDone
  <2>1. \A r \in Save : Submit(r) \/ UpdateSettings(r) => inUse' = inUse
    BY DEF Submit, UpdateSettings, StoreField, StoreThrows, StoreDone
  <2>2. FetchSettings => FetchDone \/ inUse' = inUse
    BY DEF FetchSettings, FetchBegin, FetchRead, FetchFails
  <2>3. DetectRaises \/ StopServer \/ StartServer => ~up' \/ inUse' = inUse
    BY DEF DetectRaises, StopServer, StartServer
  <2> QED
    BY <2>1, <2>2, <2>3 DEF Next, settingsVars
<1>2. fetch.at = "fetching" /\ fetch.read = 2 /\ inUse' = fetch.seen
  BY <1>1, Fields DEF FetchDone
<1>3. settings = lastSaved
  BY DEF SettingsInv, Untouched
<1>4. /\ fetch.seen["blurKernel"] = settings["blurKernel"]
      /\ fetch.seen["minBlobArea"] = settings["minBlobArea"]
  BY <1>2, Fields DEF Fetched
<1>5. fetch.seen \in [Field -> Value] /\ settings \in [Field -> Value]
  BY DEF SettingsInv, SettingsTypeOK
<1> QED
  BY <1>2, <1>3, <1>4, <1>5, Fields

(* When the detector takes new values they are those of the last save that  *)
(* went through alone, all of them, unless saves and fetch overlap or the   *)
(* saves were mixed or refused half-way (getSettings, fetch_settings).      *)
THEOREM DetectorTakesSaves == Spec => DetectorTakesOneSave
<1>1. Init => Fetched
  BY DEF Init, Looping, Fetched
<1>2. SettingsInv /\ Fetched /\ [Next]_settingsVars => Fetched'
  BY FetchedStep DEF SettingsInv
<1>3. SettingsInv /\ Fetched /\ [Next]_settingsVars =>
        [up' /\ inUse' # inUse /\ ~torn /\ ~mixed
         /\ (\A r \in Storing : post[r].stored = 0)
         => inUse' = lastSaved]_settingsVars
  BY ChangesTogether
<1> QED
  BY <1>1, <1>2, <1>3, SettingsInvariant, PTL DEF Spec, DetectorTakesOneSave

=============================================================================
