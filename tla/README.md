# A verification of the Thesis-Remy server

The repository is a Spring Boot server that sits between a welding robot's
Python AI, a pair of Android AR glasses and a browser dashboard, plus a Python
process that looks for the weld pool in the glasses' camera pictures. This
directory models the parts of it that are concurrent and keep state: the
*recording* half (camera frames to video), the *streaming* half (AI data to
glasses) and the *dashboard* half (session button and settings). TLC checks
them on small instances; TLAPS proves every safety property of the runs that
hold, for every value of the constants.

Paths below are relative to `src/main/java/com/example/thesisremy/` of the
repository unless they say otherwise.

## Inventory

| Part | State | Operations | Talks to |
|---|---|---|---|
| `serviceandcomponents/FrameWebSocketHandler` (recorder) | `frameCounter`, `pendingStitch`, `lastFrameMs`; files in `frames/`, `videos/` | session callbacks (established, binary message, closed), `stitchOnIdle` every 5 s, `stitchAndClean` and `clearFrames` on an executor of one thread | glasses (WebSocket), ffmpeg (process), detector (folders), `ServerState.cameraEnabled` |
| `pool_detector.py` (detector) | `last_processed`; files in `annotated/` | scan `frames/` ten times a second, annotate every new frame, POST the last result, GET settings every few seconds | recorder (folders only), `/pool`, `/api/settings` |
| `PoolDetectorLauncher` | the child process | start with the server, stop in `@PreDestroy` | detector |
| `ServerState` | three switches, settings, last packet and pool result; all `volatile`, no lock | toggles, getters, setters | everybody |
| `Broadcast` | the list of SSE emitters (copy on write) | `addEmitter` with three removal callbacks, `broadcast`, `broadcastNamed`, `heartbeat` every 30 s | glasses (SSE) |
| `DataGetter` | `lastJson` | `pollAndBroadcast` every second | Python AI (HTTP), `Broadcast` |
| `controller/ControllerClass` | none | `GET /stream`, `GET /frames/count`, `POST /pool` | the above |
| `controller/DashboardController` | none | toggles, settings, status, video list and download | the above |
| `dashboard.html` | `sessionActive`, `demoState` of each open page | session button, switches, forms, polling of `/api/status` | REST |
| `DnsConfig`, `WebSocketConfig`, `StartupLogger`, `ThesisRemyApplication` | none | wiring, mDNS announcement | |

Threads: one container thread per WebSocket session and per HTTP request, *one*
Spring scheduling thread for `pollAndBroadcast`, `heartbeat` and `stitchOnIdle`
together (the default pool size; nothing configures another), the recorder's
executor, and the ffmpeg and Python processes. The only lock in the program is
the one inside `CopyOnWriteArrayList`.

What is hard, and what each part owes:

* **Recorder.** Hiccups: the close of a connection, the reconnection, the five
  second timer and the idle check come in any order, on four threads. A written
  frame must end up in a video or stay on disk; a video must have all frames of
  its session; nothing must be left on disk with a counter of 0, which disables
  both ways to stitch it; every session must be stitched in the end.
* **Detector and recorder.** They share two folders and no protocol. The
  recorder takes `annotated/` for the video if it holds a single file, and
  deletes both folders; the detector infers a new session from numbers that
  went down. While the detector keeps up, the recorder's promises must hold.
* **Broadcast and poller.** Sends happen under the list's lock, from several
  threads, to connections that die silently or are completed by the container
  at any moment. Glasses must agree on the last command, show the latest packet,
  and ghosts must leave the list.
* **Dashboard.** A page cannot command a state: it asks for the status and
  toggles what differs, on unlocked fields, while its own idea of the session
  follows statuses that come back in any order. One press must put right
  whatever state it finds, and the page must follow the server in the end.
* **Settings.** Saved and fetched field by field without a lock, and a save may be
  refused half-way. A save alone must win, the detector must come to use it.

`PROJECT.json` lists the hazards one by one with the line where each bites.

## Modules

| Module | Models | Needs |
|---|---|---|
| `Folders` | files of `frames/` and `annotated/`, what a listing matches, what ffmpeg reads | |
| `SessionRecorder` | the abstract recorder: record a frame, stitch a session | |
| `Bulletin` | the abstract broadcast: post a notice when everybody has seen the last | |
| `Recorder` | `FrameWebSocketHandler`, with ffmpeg, the network, time and the camera switch around it | `Folders`, instance of `SessionRecorder` |
| `Detector` | the loop of `pool_detector.py` | `Folders` |
| `RecordingPipeline` | recorder, detector and launcher on the same folders | `Recorder`, instances of `Detector` and `SessionRecorder` |
| `Streaming` | `Broadcast`, `DataGetter`, the toggle endpoints | two instances of `Bulletin` |
| `Dashboard` | `toggleSession`, `toggle` and `refreshStatus` of the page, the status and the two switches | |
| `Settings` | the detector settings from the form to the detector | |
| `RecorderProofs`, `PipelineProofs`, `StreamingProofs`, `DashboardProofs`, `SettingsProofs` | theorems | the module of that name, TLAPS (`PipelineProofs` also `RecorderProofs`) |
| `MCRecorder`, `MCRecordingPipeline`, `MCStreaming`, `MCDashboard`, `MCSettings` | symmetry and constraints for TLC | |

### How the recorder's model corresponds to the code

A file is a record of its number, the frame whose picture it shows and whether
all its bytes are there; `Create` and `Fill` are the two halves of
`Files.write`, and a delete may fall between them. `Sequence` is what
`ffmpeg -i frame_%05d.jpg` reads: from the first number in its start range (five numbers
in ffmpeg) to the first gap. `frameCounter`, `pendingStitch`, `cameraEnabled`
keep their names; `active` is the set of futures whose `isDone()` is false, and
`left` their remaining delay. `lastFrameMs` is kept as the ticks since (`idle`),
which saturate at `IDLE_STITCH_MS` because only that comparison is made.

Each method is cut where another thread can observe a difference:

* `afterConnectionEstablished`: `Establish` (tests `pendingStitch`), then
  `CancelPending`. `cancel(false)` makes the future done but does not stop a
  run that has begun.
* `handleBinaryMessage`: `DiscardFrame`, or `NumberFrame`, `CreateFile`,
  `FillFile`; `WriteFails` from either of the last two.
* `afterConnectionClosed`: `Close`, `CloseSchedule`. It may come long after
  `Vanish` (the network's view) and after another session's `Establish`.
* `stitchOnIdle`: `IdleBegin`, `IdleCheck`, `IdleSchedule`.
* `stitchAndClean`: `BeginStitch`, `ChooseSource`, `LaunchFfmpeg`, then
  `StitchFails`, or `FinishVideo`, one `DeleteRaw` per listed file,
  `ListAnnotated`, one `DeleteAnnotated` per file and `ResetCounter`.
* A kill and restart of the server (`Restart`) leaves only the folders. The
  connections that come afterwards are new ones, so sessions may use their
  identities again and record over what the restart has left.

`arrived`, `epoch`, `stored`, `saved`, `lately` and `mishaps` are observers: the
program has no such state and no guard reads them, except the two bounds
`MaxFrames` on `arrived` and one `Restart`. `mishaps` names what has happened so
far among a frame in flight during a stitch (`overlap`) or even while the counter
is reset (`straddled`), a failed write, a failed delete, a restart, and a video that overwrites an earlier one because both were
named in the same second (`sameName`; `lately` is what the earlier one held), so
that a property says under which of them it holds.

### What the recorder promises

`SessionRecorder` has a set of frames on disk and a set in videos, and two steps:
`Record` adds a frame, `Stitch` moves all of them into the videos. The refinement
mapping of `Recorder` takes `OnDisk`, the frames with a whole file that are in no
video, for the first set and `saved` for the second; a mishap maps to `disturbed`,
after which nothing is promised. So `FillFile` is `Record`, `FinishVideo` is
`Stitch`, and everything else, the deletion of files one by one included, is a
stutter. `ImplementsSessionRecorder` is checked by `MCRecorder` and proved.

The same promise is kept by the recorder *with* a detector:
`PairImplementsSessionRecorder` takes the same sets for the mapping, and a slip of the
detector also maps to `disturbed`. That says more than it seems: the video may now
be made of `annotated/`, files that the abstract recorder knows nothing of, and both
folders are deleted.

`StitchTakesTheStart` is what is left of the promise when things go wrong. Through
every mishap but `straddled`, `ffmpeg` reads every frame of the session
that was stored and that no gap precedes: stale files of a failed delete or a
restart are overwritten before they are reached, since the session's numbers start
at 0. A write that straddles the reset is the exception: it ends under a number of
the old session, and may replace the file that the next one has under that number.

### Detector and pipeline

`Scan` is one pass up to `new_files`, with the reset rule; `Unreadable`,
`ReadFrame`, `Crash`, `BeginAnnotated`, `FinishAnnotated` and `AnnotateFails`
are `detect_pool` by its effects on the folder. A picture is what frame it
shows: the image processing is left out, since every outcome but the early return writes
one file. `Crash` is the exception of `GaussianBlur` on an even kernel, which
the dashboard stores without a test. `RecordingPipeline` adds the observer
`slips`: the seven ways in which `annotated/` was not a whole copy of `frames/`
when it mattered. One of them is the recorder's doing: a frame numbered above
`NameLimit` (six digits) is `unlisted`, for `frame_?????.jpg` does not match it.

Most properties of the pair hold until the first slip. `VideoOfOneSession` says
what slips do *not* cost: after any of them but `busy`, each listed picture of a video is the
frame of that number of the session. Frames may be missing at the end; none is out
of turn and none is of another session.

That something *is* stitched is `EventuallyStitchedWithDetector`, under two
conditions (`KeptUp`): the detector makes no slip, if there is one, and either frames
come during stitches and videos share a name, or the server is restarted. A
frame is `Due` when it and those before it in its session are stored and `ffmpeg` has
not been started since. When frames stop coming, the counter returns to 0 for good,
*and* every due frame is in a video by then: a counter at 0 alone would say
little, since a restart sets it with the frames left on disk. Those that the
restart finds are given up, by the code as by the model (`Restart` takes them out of
`stored`); those that arrive after it are covered, although they are recorded over
and among the old ones. A frame is also excused if `annotated/` holds the picture of an
earlier one under its number (`Outdated`). Both excuses are needed: without either,
TLC has a counterexample.

### Streaming

A connection is an emitter with its network link. The three `removeIf` loops
are one (`BeginLoop`, a step per emitter, `EndLoop`), because they differ in
the event only; `loop[t] # NoLoop` says that thread `t` holds the list's lock.
The list's order is abstracted: the loop visits emitters in any order, of which
the order of the list is one. A send to a dead connection may go unnoticed or
throw an `IOException`; a send to an emitter that the container has completed throws
`IllegalStateException`, which no loop catches. `ToggleRead` to
`ToggleAnnounce` are the four steps of `toggleCamera`; the other two toggles
only negate a field, in one step: a lost update is the same as a toggle that
did not come. `told`, `shown`, `announced` and `astray` are observers: what a
client was told and shown last, the command whose loop began last, and whether the
last camera request overlapped with another.

`Bulletin` is what is promised to one who follows a broadcast: a notice is posted
only when each client has seen the one before or has lost track, and a client that
has lost track resumes with the notice of the day. `Streaming` implements
it twice. For packets (`PacketsInTurn`) the notice is `lastJson`; it is posted by
`PollAnswered`, *before* its loop begins, and what keeps the promise is that the one
scheduling thread does not fetch while it sends. For camera commands
(`CommandsInTurn`) it is posted by `ToggleAnnounce`, by any of many threads, and
what keeps it is the list's lock.

### Dashboard

`req[r]` is one exchange between a page and the server: a status request of the
two second timer (`refresh`), a press of the session button (`click`) or of one switch
(`toggle`). A page is one JavaScript thread, so each callback is one step:
`Press`, `Decide` (the status of a click is there), `Finish` (the toggles are
answered, the button is flipped and the status asked for again), `ApplyStatus`
and `Fail` (`renderDemo`). On the server `ReadPolling`, `ReadStreaming`,
`ToggleRead` and `ToggleWrite` are the accesses to the unlocked fields. `want` is
computed from the button as it is when the status arrives, as in the code. `pressed` is
an observer: what the button promised, until something crosses the press.
`PageStays` says of what `PageFollows` promises in the end that it is stable once
it is there, with the statuses on their way (`Settled`).

### Settings

`StoreField` and `StoreThrows` are the assignments of `updateSettings` in their
order, of which unboxing a `null` ends the request with the earlier ones in effect;
`FetchRead` is the same on the way to the detector, and `FetchDone` the
assignment of its globals. Two of the five fields are kept: the blur kernel,
whose even values end the detector (`DetectRaises`), and one for the others, which
are only numbers. A save may send anything, so what fills the form need not be
modelled. `lastSaved`, `mixed`, `overlapped` and `torn` are observers; `torn` says
that a field was stored under the fetch that is under way.

## Runs

Every passing run ends within five minutes with two workers.

| Run | Instance | Shows |
|---|---|---|
| `MCRecorder` | 2 sessions, 3 futures, 3 frames, 1.30 M states | `NoQuietLoss`, `VideoComplete`, `NothingStranded` and `ResetMeansSaved` with write failures, and the refinement `ImplementsSessionRecorder` |
| `MCRecorderLimit` | 1 session, 3 frames, numbers have one digit less than frames need, every mishap, 2.24 M states | `TypeOK`, `NoQuietLoss`, `ResetMeansSaved`, `StitchTakesTheStart` |
| `MCRecordingPipeline` | 1 session, 2 futures, 2 frames, write failures and every slip, 1.30 M states | `DetectorTypeOK`, `NothingStranded`, `LossNeedsSlip`, `VideoCompleteWithoutSlip`, `VideoOfOneSession`, `BothFoldersFresh`, `ResetMeansSavedWithoutSlip`, and the refinement `PairImplementsSessionRecorder` |
| `MCRecordingPipelineLive` | 2 sessions or 2 frames (`Combined`), fair, no failed write or delete, no slip, 239 k states | `EventuallyStitchedWithDetector`, through reconnections and cancelled stitches, frames in flight, or a restart with files in both folders |
| `MCStreaming` | 2 connections, 2 camera requests, 2 packets, 305 k states | `StreamingTypeOK`, `GlassesAgree`, `GlassesFollow`, `ShownIsLatest`, and the refinements `PacketsInTurn`, `CommandsInTurn` |
| `MCStreamingLive` | 2 connections, 1 request, fair, 31 k states | `GhostsLeave` |
| `MCDashboard` | 2 pages, 2 exchanges, fair, stops and starts of the server, 506 k states | `DashboardTypeOK`, `ClickSettles`, `PageFollows`, `PageStays` |
| `MCSettings` | 2 saves, 2 fields of 2 values and `null`, fair, stops and starts, 430 k states | `SettingsTypeOK`, `SoloSaveWins`, `DetectorTakesOneSave`, `SettingsReachDetector` |

Four more runs check what a comment of the source says and the program does not
do; TLC finds the counterexample in each (see *Findings*).

**Bounds.** Two sessions are what an overlap of an old and a new connection
needs; the glasses are one device, so a third adds nothing but another
reconnection. Three futures let a cancelled or running one, a pending one and
one more coexist. Three frames are enough for a gap with a frame on either
side, and with `NameLimit` 1 for frames on both sides of the limit. With the
detector two frames suffice, one annotated and one not yet, and the proofs
cover every other number. The run with fairness cannot afford
all combinations: `Combined` takes two sessions with one frame and no detector, for
every order of a close, a reconnection, its cancellation and the timers; one session
with two frames, in flight during a stitch, and no detector; and one session with two
frames, a detector and a restart, with a frame before it and one after. The delays
are one and two ticks: what matters is which timer may fire before which. With
`StitchDelay` 1 and `IdleStitch` 2 the five second timer precedes the ten
second one when both start together, and either may be late. Two pages with two
exchanges let a press meet a refresh, a press of the other page or a failure; a
third exchange is covered by the proofs of `ClickSettles` and `PageStays`. Two values per setting,
one that the detector survives and one that it does not, and two saves are what
a mixture needs.

**Constraints.** `UpToWriteFailure`, `KeptUp`, `NoMishap`
and `AtMostLagged` cut states from which the run's properties are true in
every later state: each property is an implication from the constraint (or from its holding
always, for a liveness property), and `mishaps` and `slips` only grow. `Combined` is `KeptUp`
with the bounds above.
`ImplementsSessionRecorder` and `PairImplementsSessionRecorder` promise nothing
after a mishap, whichever it is.
`DemoWhole` is a bound of another kind: it leaves out that single switches, pressed in
vain an odd number of times while the server is down, make the two halves of a
page's demo state differ. Futures, connections, requests and packets are
interchangeable where a run uses symmetry; runs with liveness use none.

**Deadlock** is checked in every run: the dashboard can always switch
the camera, submit a form or refresh, so the check cannot find one of the
recorder alone; the liveness properties are what excludes it.

**Fairness.** Weak fairness for the threads in the middle of a method (for the sessions
taken together, which assumes less than for each); for
`stitchOnIdle`, which Spring calls at a fixed rate; for the executor, which
runs what is due; and for time. Strong fairness for ffmpeg to start and to
succeed: if it fails for ever on good input no video can exist, and the code
keeps the frames and tries again. Without any input it fails, sooner or later.
Nothing is assumed of the glasses, the network, the close callback or the dashboard. In
the streaming half, weak fairness for a loop in progress, and strong fairness for getting
the list's lock, for the scheduled methods' turns, and for a write to a dead
connection to throw in the end. Nothing is assumed of the Python AI: `RestTemplate`
has no timeout, `pollAndBroadcast` shares its thread with `heartbeat`, and
`GhostsLeave` therefore has `[]<>(sched # "fetching")` as an antecedent. The same
call delays `stitchOnIdle`, whose fairness in the recorder rests on it too.
On the dashboard, weak fairness for the server's work on an exchange (the status
calls the Python AI, which is taken to answer or refuse) and for the page's
callbacks, and strong fairness for each page's timer to get one of the exchanges.
Presses and the start of the server are not assumed. In the settings, weak
fairness for a request in progress and for the detector's loop; that its fetches
succeed from some time on is an antecedent of `SettingsReachDetector`.

## Proofs

All theorems hold for every value of the constants that satisfies the modules'
assumptions (`FoldersAssumption`, `RecorderAssumption`, `StreamingAssumption`,
`DashboardAssumption`, `SettingsAssumption`), and from nothing else.

| Module | Theorem | States |
|---|---|---|
| `RecorderProofs` | `TypeCorrect` | `Spec => []TypeOK` |
| | `NothingQuietlyLost` | `Spec => []NoQuietLoss` |
| | `VideosComplete` | `Spec => []VideoComplete` |
| | `NothingIsStranded` | `Spec => []NothingStranded` |
| | `ResetsMeanSaved` | `Spec => ResetMeansSaved` |
| | `StitchesTakeTheStart` | `Spec => StitchTakesTheStart` |
| | `RecorderImplements` | `Spec => ImplementsSessionRecorder` |
| `PipelineProofs` | `DetectorTypeCorrect` | `PipelineSpec => []DetectorTypeOK` |
| | `NothingIsStrandedWithDetector` | `PipelineSpec => []NothingStranded` |
| | `LossesNeedSlips` | `PipelineSpec => []LossNeedsSlip` |
| | `VideosCompleteWithDetector` | `PipelineSpec => []VideoCompleteWithoutSlip` |
| | `FoldersStartFresh` | `PipelineSpec => []BothFoldersFresh` |
| | `ResetsMeanSavedWithDetector` | `PipelineSpec => ResetMeansSavedWithoutSlip` |
| | `PairImplements` | `PipelineSpec => PairImplementsSessionRecorder` |
| | `VideosOfOneSession` | `PipelineSpec => []VideoOfOneSession` |
| `StreamingProofs` | `StreamingTypeCorrect` | `Spec => []StreamingTypeOK` |
| | `AllGlassesAgree` | `Spec => []GlassesAgree` |
| | `GlassesFollowTheSwitch` | `Spec => []GlassesFollow` |
| | `PacketsAreLatest` | `Spec => []ShownIsLatest` |
| | `PacketsComeInTurn` | `Spec => PacketsInTurn` |
| | `CommandsComeInTurn` | `Spec => CommandsInTurn` |
| `DashboardProofs` | `DashboardTypeCorrect` | `Spec => []DashboardTypeOK` |
| | `PressesSettle` | `Spec => ClickSettles` |
| | `PagesStay` | `Spec => PageStays` |
| `SettingsProofs` | `SettingsTypeCorrect` | `Spec => []SettingsTypeOK` |
| | `SoloSavesWin` | `Spec => []SoloSaveWins` |
| | `DetectorTakesSaves` | `Spec => DetectorTakesOneSave` |

**Recorder.** None of the safety properties is inductive. `TypeInv` adds to the
types what a session's slot holds while it writes (`SlotOK`). The rest comes in
three layers, by the mishaps they survive and by whether they need to know that no
detector is at work:

* `Orderly`, through write failures, with or without a detector: the frames of the
  session are numbered from 0 without a gap and `frameCounter = arrived - epoch`
  (`Numbering`); no frame is being written during a stitch, and what the executor
  does agrees with its phase (`Settled`); every file of `frames/` is one of the
  session under its number, or an older one that no listing matches (`RawFiles`);
  until clearing begins every frame of the session that was stored is there, and from
  then on every listed file is about to be deleted (`Kept`).
* `Undisturbed`, through write failures and without a detector: also
  `annotated/` is empty and the reel is what ffmpeg reads of `frames/`
  (`OneFolder`), and while clearing, the frames before the first failed write are
  saved (`Rescued`).
* `Lossless`, without any mishap: every frame of the session is stored or in flight
  (`Complete`), and those of earlier sessions are saved (`Archived`).

`NumberFrame` is the step that keeps the numbering, `FinishVideo` the one that moves
the session into `saved`, and the deletions are harmless because everything in
`doomed` is saved by then. `RecorderImplements` uses the same invariant:
`FramesStay` says that a step that neither fills a file nor finishes a video leaves
`OnDisk` and `saved` alone.

`StitchTakesTheStart` has an invariant of its own, `Sturdy`, which does without the
quiet that `Orderly` describes and so survives all mishaps but one: the numbers are still
without a gap (`Numbering`), a file being written has its number (`Placed`),
nothing on disk is younger than the session (`NoneAhead`), and unless the
folder is being cleared the session's stored frames are there, whatever else is
(`InPlace`). The numbers of the session start at 0, so what ffmpeg reads begins
with its frames.

**Recorder with detector.** `PipelineProofs` reuses `OrderlyStep`, `CompleteStep`
and `ArchivedStep` for the recorder's steps; the detector's steps leave what these
parts speak of alone, which gives `FramesInv`. `Faithful` is what the detector keeps while there is no
slip: all numbers are below the limit (`Named`), a file in `annotated/`, and the
picture the detector has in hand, are whole frames of the session under their
numbers (`Copies`, `InHand`), no batch is processed while ffmpeg runs or folders
are cleared (`Apart`), ffmpeg reads a folder that has the numbers of `frames/`
(`Encoding`), so that the choice of the folder makes no difference to the video,
and `frames/` is not cleared before the session, as far as its first gap, is in
one (`Filmed`, `Emptying`). All of that survives write failures: a copy exists only of
a whole frame, so the gap of `frames/` is the gap of `annotated/`, too. Without
a failure the earlier sessions are saved (`Archived`), as for the recorder alone.
`OnlyResetsLower` singles out `ResetCounter` as the step that
`ResetsMeanSavedWithDetector` is about, where `Filmed` is all it needs.
`PairImplements` maps every step of the detector to a stutter, since none touches
`raw` or `saved`; for `FinishVideo` it needs that what ffmpeg read, from either folder, are
all the frames on disk (`Encoding`, `Complete`, `Named`) and no others, though they are
copies (`Copies`).

`VideosOfOneSession` cannot use `Faithful`, which a slip ends. Its invariant
`OwnPictures` asks less of the detector and holds through every slip but `busy`: a listed file
in `annotated/` or in what ffmpeg reads has the picture of its own number (`AllOwn`, which
does not say whole, nor that no number is missing), as has the one in hand (`HandOwn`);
no batch is processed while ffmpeg runs or folders are cleared (`Apart`); and
everything listed in `annotated/` is about to be deleted once clearing has come to it
(`Emptying`). The step that matters is `ResetCounter`, after which the numbers
mean other frames: nothing is listed, and nothing is in hand.

**Streaming.** `StreamTypes` adds to the types that at most
one thread is in `removeIf` (`Exclusive`), that a thread in it is where it
should be and sends what it should (`Owners`: a request sends camera commands,
the scheduling thread the packet `lastJson` or a heartbeat), and that only dead
connections have thrown or are completed. `SeenInv` says what the clients know
in the middle of a loop: those that a camera loop has passed have heard its
command (`Heard`), all agree if there is no such loop (`Agreed`), and a client
that does not show `lastJson` is about to receive it (`Latest`). `LeaveLoop`,
the end or the abandonment of a loop, is where `Heard` turns into `Agreed`.
For the two refinements, that the command of such a loop is the one announced last
(`Newest`), that with no such loop nobody holds another (`Informed`), and
`Latest` say that at a `Post` everyone has seen the notice before or has lost track;
`LosingSome` and `LosingNone` give the set of clients that a step leaves out.
`FollowInv` is what a request that has the endpoint for itself adds: it is the only
one (`OneRequest`), so what it read back and sends is the switch (`InStep`), and
when it is done its command is what everyone was told (`Mended`).

**Dashboard.** `DashboardInv` adds to the types that only presses toggle
(`Toggling`) and that a press nothing has crossed is the only one
and still says what it will bring about (`Alone`, with `Promising` for each of its
stages: while toggling, a switch is as promised exactly if its call
is done or was not needed). `PagesStay` needs the types and `Toggling`: it
goes through the actions and shows that an exchange which is not a press, and whose status is true so far,
reads and shows nothing else.

**Settings.** `SettingsInv` adds that what a request that is alone has stored of its
body is still there (`Solo`), and that the settings are `lastSaved` unless `mixed`, also
while requests have stored nothing yet (`Untouched`). `DetectorTakesSaves` adds that
what the fetch has read is what the server holds, if no field was stored under it
(`Fetched`).

**Only model-checked:** liveness, which is out of reach of the prover
(`EventuallyStitchedWithDetector`, `GhostsLeave`, `PageFollows`,
`SettingsReachDetector`). Every other property of a passing run, invariants, action
properties and refinements, is proved. Part of the liveness is proved as safety:
`PagesStay` leaves of `PageFollows` that a settled page is reached once.

## Findings

| Run | What a comment says | What happens |
|---|---|---|
| `MCRecorderDuringUse` | "Only if the glasses stay disconnected for the full 5 seconds is the video stitched" | the close of the old connection comes after the reconnection and schedules a stitch nobody cancels |
| `MCRecordingPipelineLost` | "nothing is lost" | the detector dies or lags: the video is made of the few annotated frames, and all raw ones are deleted |
| `MCRecordingPipelineIdle` | "stitches whenever" frames are there and none arrives | the detector misses a reset, `annotated/` lacks the first frames, ffmpeg fails on every attempt |
| `MCStreamingSafe` | "looping during a broadcast is always safe" | a completed emitter makes `send` throw what the loop does not catch: the clients behind it miss the event |

**Observed and not kept as runs.** Also visible in the models, each a short
trace:

* The recorder logs "stitch cancelled, session continues", but `cancel(false)` on
  a stitch that has begun does not stop it: it goes on, and deletes the frames
  that it has put into the video.
* A frame numbered before `clearFrames` lists the folder is written after it and
  stays behind with the counter at 0, although "the next session starts fresh".
* Frames from the 100001st of a session on have six digits and are not deleted by
  "Deletes all raw and annotated frames"; with a detector, whose glob does not list them
  either, they are not in the video (the slip `unlisted`).
* After a restart the counter is 0 whatever is in `frames/`, so `stitchOnIdle` returns
  at its first test, and nothing stitches those frames unless a next session does
  (which overwrites those whose numbers it uses), although "If we have
  captured frames on disk but no new frame has arrived in this long, treat the session
  as ended and stitch the video".
* After a restart with files in both folders, the detector annotates a frame of
  before it that has not been replaced yet, and then takes the one that replaces it
  for done: the video shows the old picture, and the new frame is deleted. What a
  frame in flight during a clear leaves behind can do the same to a later session
  (`Outdated`).
* A close between the check and the schedule of `stitchOnIdle` leads to two
  stitches, although the check "skips while it's pending".
* A frame that is being written when `imread` opens it is skipped for good,
  although the detector writes "always" so that "the ffmpeg sequence is never
  broken".
* The detector, in the middle of a batch, writes into `annotated/` after it was
  cleared.
* Two videos that are finished within one second have one name (`sameName`).
* Two camera requests that overlap may announce the opposite of the switch;
  the next one that runs alone mends it (`GlassesFollow`).
* Between a press of the session button and the answer to its status request,
  a refresh may change the button: Go Live then stops the session. Two presses at
  once, from one page or two, may toggle a switch twice or once.
* A refused save of the settings is reported as "Saved ✓", and leaves the fields
  before the refused one in effect. A form that was filled before another page
  saved puts back the old values.

## Not modelled

* The image processing of the detector, and the JSON of the Python AI: data that
  nothing in the server decides on.
* The app settings, which are stored and fetched like the detector settings; the
  last packet and pool result, the video list, the gauges and the simulation of
  the page, which are only displayed.
* How a form is filled (a save may send anything), and what it reports.
* A server killed without `@PreDestroy`, which leaves a detector beside the
  next one; a hung ffmpeg; a client that blocks `send`; and a hung Python AI's effect
  on `stitchOnIdle`. The code has no defence against any of these; they are listed
  as hazards.
* mDNS, wiring and logging, which keep no state; `test_pipeline.py`, a manual test.
* The vendored Python environment under `.conda`: third-party code, most of the
  repository's lines, of which the server uses nothing but the interpreter.

## Plan

Done: the recorder, the detector and their composition, streaming, the session
button and the settings; the abstract recorder, which the recorder alone and with a
detector implements; the abstract broadcast, which packets and commands implement; all
safety properties of the runs proved. What would add most next:

1. The safety halves of the other liveness properties, as action properties with
   proofs: a ghost that has left the list stays out until its client connects
   anew; once the settings of the detector are those of the server they stay so until
   a save; a counter at 0 stays there while no frame arrives.
2. `StitchTakesTheStart` with a detector: how many frames a slip costs at most, in
   place of excluding it (`VideoOfOneSession` says that it costs nothing else).
3. One scheduling thread for `pollAndBroadcast`, `heartbeat` and `stitchOnIdle`,
   across the recording and the streaming half: what a Python AI that never
   answers does to the idle stitch.
4. A second detector on the same folders after a kill, and whether the seven
   slips still cover every loss.
