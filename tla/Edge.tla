-------------------------------- MODULE Edge --------------------------------
(***************************************************************************)
(* The edge process: one camera, one grab loop that publishes into a       *)
(* latest-frame slot, the HTTP requests that change the settings, and the  *)
(* watchdog that exits the process so that systemd starts it again.        *)
(*                                                                         *)
(* Requests run on threads of their own.  A settings change reads the live *)
(* settings, opens the camera it is asked for, rewrites the settings file, *)
(* swaps the live settings, closes the camera it replaced, has the motion  *)
(* gate relearn and grabs a frame itself; every place where it holds no    *)
(* lock is a step of its own.  A camera is read under the camera's own     *)
(* lock, which close() waits for.                                          *)
(*                                                                         *)
(* Settings are four fields: the device, the region (rotation and clip),   *)
(* the lens (focus, and white balance, which has the same route) and the   *)
(* night-light schedule.  A frame is the device it shows; motion is the    *)
(* view, device and region, whose coordinates its box is in; what the gate *)
(* learned is the set of views it was shown since its last reset.          *)
(***************************************************************************)
EXTENDS Integers, Sequences, FiniteSets

CONSTANTS
    Devices, Regions,  \* camera ids, rotation and clip pairs
    Faulty,            \* devices whose reads may fail or never return
    Bodies,            \* what POST /api/config is sent: [device, region]
    Nights,            \* night-light schedules
    DEFAULTS,          \* the settings of a missing or unreadable file
    Keep,              \* a field that the body does not name
    Torn,              \* a settings file that does not parse
    None,
    Requests,          \* request threads
    MaxAsked,          \* bound: requests made
    MaxCrashes         \* bound: crashes that are not the watchdog's doing

Settings == [device : Devices, region : Regions, lens : BOOLEAN, night : Nights]
Views == Devices \X Regions

ASSUME FaultyAssumption == Faulty \subseteq Devices
ASSUME BodiesAssumption ==
    Bodies \subseteq [device : Devices \cup {Keep}, region : Regions \cup {Keep}]
ASSUME DefaultsAssumption == DEFAULTS \in Settings
ASSUME MaxAskedAssumption == MaxAsked \in Nat
ASSUME MaxCrashesAssumption == MaxCrashes \in Nat
ASSUME NamesAssumption ==
    /\ Keep \notin Devices \cup Regions /\ Torn \notin Settings
    /\ None \notin Devices \cup Views /\ "loop" \notin Requests

VARIABLES
    file,        \* settings.json
    live,        \* create_app's state, without its source
    source,      \* state["source"]: a place in cameras
    cameras,     \* the sources made since the process started
    request,     \* what each request thread is doing
    grab,        \* the iteration each thread has in Grabber._grab_once_internal
    learned,     \* MotionGate's background model
    slot,        \* the published frame and motion, and whether the last grab failed
    asked, crashes,
    overlapped,  \* history: two settings changes ran at once
    unsaved,     \* history: the last save of the settings failed
    straddled    \* history: halves of the last relearning that a grab with
                 \* settings of before was under way across

edits   == <<file, live, source, cameras>>
motion  == <<learned, straddled>>
history == <<overlapped, unsaved>>
counts  == <<asked, crashes>>
vars == <<file, live, source, cameras, request, grab, learned, slot,
          asked, crashes, overlapped, unsaved, straddled>>

Threads == Requests \cup {"loop"}

Idle == [kind |-> "none", pc |-> "idle", body |-> [device |-> Keep, region |-> Keep],
         cur |-> DEFAULTS, next |-> DEFAULTS, camera |-> 0]
NoGrab == [pc |-> "idle", camera |-> 0, region |-> DEFAULTS.region, box |-> None]
NoFrame == [frame |-> None, box |-> None, failed |-> FALSE]

Open(device) == [device |-> device, closed |-> FALSE]

(* load_settings fills in defaults for a file it cannot parse; create_app   *)
(* then makes the source, and the grab loop and the watchdog start.         *)
load_settings(f) == IF f = Torn THEN DEFAULTS ELSE f

Boot ==
    /\ live' = load_settings(file)
    /\ source' = 1 /\ cameras' = <<Open(live'.device)>>
    /\ request' = [r \in Requests |-> Idle] /\ grab' = [t \in Threads |-> NoGrab]
    /\ learned' = {} /\ slot' = NoFrame
    /\ overlapped' = FALSE /\ unsaved' = FALSE /\ straddled' = {}
    /\ UNCHANGED <<file, asked>>

Init ==
    /\ file = DEFAULTS /\ live = file
    /\ source = 1 /\ cameras = <<Open(live.device)>>
    /\ request = [r \in Requests |-> Idle] /\ grab = [t \in Threads |-> NoGrab]
    /\ learned = {} /\ slot = NoFrame
    /\ asked = 0 /\ crashes = 0
    /\ overlapped = FALSE /\ unsaved = FALSE /\ straddled = {}

View(g) == <<cameras[g.camera].device, g.region>>
LiveView == <<cameras[source].device, live.region>>

(* A camera's lock is held for as long as a read of it lasts.               *)
Locked(c) == \E t \in Threads : grab[t].pc = "reading" /\ grab[t].camera = c

Editing(r) == request[r].kind \in {"config", "lens", "night"}
At(r, kind, pc) == request[r].kind = kind /\ request[r].pc = pc
Move(r, pc) == request' = [request EXCEPT ![r].pc = pc]
Done(r) == request' = [request EXCEPT ![r] = Idle]

-----------------------------------------------------------------------------
(* The grab, by the loop and by a request that swapped the camera: the      *)
(* settings under the app's lock, the read under the camera's, the motion   *)
(* under the gate's, and the slot under its condition.                      *)

MayGrab(t) == IF t = "loop" THEN TRUE ELSE At(t, "config", "grabbing")
EndsGrab(t) ==
    /\ grab' = [grab EXCEPT ![t] = NoGrab]
    /\ IF t = "loop" THEN UNCHANGED request ELSE Done(t)

read_config(t) ==
    /\ MayGrab(t) /\ grab[t].pc = "idle"
    /\ grab' = [grab EXCEPT ![t] =
                  [NoGrab EXCEPT !.pc = "configured", !.camera = source, !.region = live.region]]
    /\ UNCHANGED <<edits, request, motion, slot, counts, history>>

StartRead(t) ==
    /\ grab[t].pc = "configured" /\ ~Locked(grab[t].camera)
    /\ grab' = [grab EXCEPT ![t].pc = "reading"]
    /\ UNCHANGED <<edits, request, motion, slot, counts, history>>

ReadOk(t) ==
    /\ grab[t].pc = "reading" /\ ~cameras[grab[t].camera].closed
    /\ grab' = [grab EXCEPT ![t].pc = "read"]
    /\ UNCHANGED <<edits, request, motion, slot, counts, history>>

ReadFails(t) ==
    /\ grab[t].pc = "reading"
    /\ cameras[grab[t].camera].closed \/ cameras[grab[t].camera].device \in Faulty
    /\ slot' = [slot EXCEPT !.failed = TRUE]
    /\ EndsGrab(t)
    /\ UNCHANGED <<edits, motion, counts, history>>

(* MotionGate: the model goes on learning from what it is shown.            *)
process(view) == learned' = learned \cup {view}
reset == learned' = {}

(* The motion step may find nothing or fail on its own: the frame then      *)
(* carries no motion.                                                       *)
compute_motion(t) ==
    /\ grab[t].pc = "read"
    /\ \E box \in {None, View(grab[t])} :
         grab' = [grab EXCEPT ![t].pc = "computed", ![t].box = box]
    /\ process(View(grab[t]))
    /\ UNCHANGED <<edits, request, slot, counts, history, straddled>>

Publish(t) ==
    /\ grab[t].pc = "computed"
    /\ slot' = [frame |-> View(grab[t])[1], box |-> grab[t].box, failed |-> FALSE]
    /\ EndsGrab(t)
    /\ UNCHANGED <<edits, motion, counts, history>>

-----------------------------------------------------------------------------
(* The watchdog.  Time is not counted: a stall of watchdog_s, or of the     *)
(* boot grace before the first frame, may come whenever the loop waits for  *)
(* a faulty device or its last grab failed, and exits the process.          *)

LoopWaits == grab["loop"].pc \in {"configured", "reading"}

MayStall ==
    \/ LoopWaits /\ cameras[grab["loop"].camera].device \in Faulty
    \/ slot.failed

(* Mutant: there is no boot grace, only a bound on the last frame's age. *)
on_stallAfterFirst == MayStall /\ slot.frame # None /\ Boot /\ UNCHANGED crashes

on_stall == MayStall /\ Boot /\ UNCHANGED crashes

(* A crash or a power cut, of interest while settings are being changed.    *)
Dies == crashes < MaxCrashes /\ crashes' = crashes + 1 /\ Boot
Crash == (\E r \in Requests : Editing(r)) /\ Dies

-----------------------------------------------------------------------------
(* Requests.                                                                *)

Ask(r, first) ==
    /\ request[r].pc = "idle" /\ asked < MaxAsked
    /\ asked' = asked + 1
    /\ request' = [request EXCEPT ![r] = first]
    /\ overlapped' = (overlapped \/ (first.kind # "relearn" /\ \E q \in Requests : Editing(q)))
    /\ UNCHANGED <<edits, grab, motion, slot, crashes, unsaved>>

(* POST /api/config, with the body's fields valid; state is read without    *)
(* its lock.  A camera is opened only when the device changes.              *)
set_config(r, body) ==
    Ask(r, [Idle EXCEPT
              !.kind = "config", !.body = body, !.cur = live,
              !.pc = IF body.device \in {Keep, live.device} THEN "assembling" ELSE "opening"])

OpenCandidate(r) ==
    /\ At(r, "config", "opening")
    /\ cameras' = Append(cameras, Open(request[r].body.device))
    /\ request' = [request EXCEPT ![r].pc = "probing", ![r].camera = Len(cameras) + 1]
    /\ UNCHANGED <<file, live, source, grab, motion, slot, counts, history>>

ProbeOk(r) ==
    /\ At(r, "config", "probing")
    /\ Move(r, "assembling")
    /\ UNCHANGED <<edits, grab, motion, slot, counts, history>>

Close(c) == cameras' = [cameras EXCEPT ![c].closed = TRUE]

(* Any device can miss its one probe: it is busy, or gives no frame.        *)
ProbeFails(r) ==
    /\ At(r, "config", "probing")
    /\ Close(request[r].camera) /\ Done(r)
    /\ UNCHANGED <<file, live, source, grab, motion, slot, counts, history>>

(* Mutant: the schedule is left out of the rewritten file. *)
AssembleCameraOnly(r) ==
    /\ At(r, "config", "assembling")
    /\ LET body == request[r].body
           cur  == request[r].cur
       IN  request' = [request EXCEPT
             ![r].pc = "saving",
             ![r].next = [device |-> IF body.device = Keep THEN cur.device ELSE body.device,
                          region |-> IF body.region = Keep THEN cur.region ELSE body.region,
                          lens   |-> cur.lens,
                          night  |-> DEFAULTS.night]]
    /\ UNCHANGED <<edits, grab, motion, slot, counts, history>>

Assemble(r) ==
    /\ At(r, "config", "assembling")
    /\ LET body == request[r].body
           cur  == request[r].cur
       IN  request' = [request EXCEPT
             ![r].pc = "saving",
             ![r].next = [device |-> IF body.device = Keep THEN cur.device ELSE body.device,
                          region |-> IF body.region = Keep THEN cur.region ELSE body.region,
                          lens   |-> cur.lens,
                          night  |-> live.night]]
    /\ UNCHANGED <<edits, grab, motion, slot, counts, history>>

(* POST /api/night-light takes its snapshot and its change under one hold   *)
(* of the lock; autofocus and the white-balance lock first work the camera. *)
night_light_set(r, night) ==
    Ask(r, [Idle EXCEPT !.kind = "night", !.pc = "saving",
                        !.next = [live EXCEPT !.night = night]])

autofocus(r) ==
    Ask(r, [Idle EXCEPT !.kind = "lens", !.pc = "focusing", !.camera = source])

FocusFound(r) ==
    /\ At(r, "lens", "focusing") /\ ~Locked(request[r].camera)
    /\ ~cameras[request[r].camera].closed
    /\ request' = [request EXCEPT
                     ![r] = [Idle EXCEPT !.kind = "lens", !.pc = "saving",
                                         !.next = [live EXCEPT !.lens = TRUE]]]
    /\ UNCHANGED <<edits, grab, motion, slot, counts, history>>

FocusFails(r) ==
    /\ At(r, "lens", "focusing") /\ ~Locked(request[r].camera)
    /\ Done(r)
    /\ UNCHANGED <<edits, grab, motion, slot, counts, history>>

(* save_settings opens the file for writing, which empties it, and writes   *)
(* at close; of two requests that both emptied it, the later can leave the  *)
(* tail of the longer text behind its own.                                  *)
Truncate(r) ==
    /\ request[r].pc = "saving"
    /\ file' = Torn
    /\ Move(r, "writing")
    /\ UNCHANGED <<live, source, cameras, grab, motion, slot, counts, history>>

Write(r) ==
    /\ request[r].pc = "writing"
    /\ file' \in IF file = Torn THEN {request[r].next} ELSE {request[r].next, Torn}
    /\ Move(r, "swapping")
    /\ unsaved' = FALSE
    /\ UNCHANGED <<live, source, cameras, grab, motion, slot, counts, overlapped>>

(* Mutant: the candidate stays open. *)
SaveFailsLeaking(r) ==
    /\ request[r].pc \in {"saving", "writing"}
    /\ unsaved' = TRUE
    /\ Done(r)
    /\ UNCHANGED <<edits, grab, motion, slot, counts, overlapped>>

SaveFails(r) ==
    /\ request[r].pc \in {"saving", "writing"}
    /\ IF request[r].camera = 0 THEN UNCHANGED cameras ELSE Close(request[r].camera)
    /\ unsaved' = TRUE
    /\ Done(r)
    /\ UNCHANGED <<file, live, source, grab, motion, slot, counts, overlapped>>

(* roi_changed.  Mutant: only another camera makes the gate relearn. *)
DeviceChanged(r) == request[r].camera # 0

RegionChanged(r) ==
    \/ request[r].camera # 0
    \/ request[r].body.region \notin {Keep, request[r].cur.region}

(* The swap under the lock; device and source move only if the device       *)
(* changed, and the request goes on with the source it replaced.            *)
Swap(r) ==
    LET next == request[r].next IN
    /\ At(r, "config", "swapping")
    /\ live' = [live EXCEPT !.region = next.region, !.lens = next.lens,
                            !.device = IF request[r].camera = 0 THEN @ ELSE next.device]
    /\ IF request[r].camera # 0
       THEN /\ source' = request[r].camera
            /\ request' = [request EXCEPT
                 ![r] = [Idle EXCEPT !.kind = "config", !.pc = "closing", !.camera = source]]
       ELSE /\ UNCHANGED source
            /\ IF RegionChanged(r)
               THEN request' = [request EXCEPT
                      ![r] = [Idle EXCEPT !.kind = "config", !.pc = "relearning"]]
               ELSE Done(r)
    /\ UNCHANGED <<file, cameras, grab, motion, slot, counts, history>>

SwapField(r) ==
    /\ request[r].kind \in {"lens", "night"} /\ request[r].pc = "swapping"
    /\ live' = IF request[r].kind = "lens" THEN [live EXCEPT !.lens = request[r].next.lens]
               ELSE [live EXCEPT !.night = request[r].next.night]
    /\ Done(r)
    /\ UNCHANGED <<file, source, cameras, grab, motion, slot, counts, history>>

CloseOld(r) ==
    /\ At(r, "config", "closing") /\ ~Locked(request[r].camera)
    /\ Close(request[r].camera)
    /\ Move(r, "relearning")
    /\ UNCHANGED <<file, live, source, grab, motion, slot, counts, history>>

(* reset_motion, after a change of region and on POST /api/motion/reset:    *)
(* the gate under its lock, then the published motion under the condition.  *)
motion_reset(r) == Ask(r, [Idle EXCEPT !.kind = "relearn", !.pc = "relearning"])

NoteStraddle(half, under) ==
    straddled' = IF \E t \in Threads : grab[t].pc \in under /\ View(grab[t]) # LiveView
                 THEN straddled \cup {half} ELSE straddled \ {half}

ResetGate(r) ==
    /\ request[r].pc = "relearning"
    /\ reset
    /\ NoteStraddle("gate", {"configured", "reading", "read"})
    /\ Move(r, "clearing")
    /\ UNCHANGED <<edits, grab, slot, counts, history>>

ClearSlot(r) ==
    /\ request[r].pc = "clearing"
    /\ slot' = [slot EXCEPT !.box = None]
    /\ NoteStraddle("slot", {"configured", "reading", "read", "computed"})
    /\ IF request[r].camera # 0 THEN Move(r, "grabbing") ELSE Done(r)
    /\ UNCHANGED <<edits, grab, learned, counts, history>>

-----------------------------------------------------------------------------
Grabs(t) ==
    \/ read_config(t) \/ StartRead(t) \/ ReadOk(t) \/ ReadFails(t)
    \/ compute_motion(t) \/ Publish(t)

Serves(r) ==
    \/ OpenCandidate(r) \/ ProbeOk(r) \/ ProbeFails(r) \/ Assemble(r)
    \/ FocusFound(r) \/ FocusFails(r)
    \/ Truncate(r) \/ Write(r) \/ SaveFails(r) \/ Swap(r) \/ SwapField(r)
    \/ CloseOld(r) \/ ResetGate(r) \/ ClearSlot(r)

Asks(r) ==
    \/ \E body \in Bodies : set_config(r, body)
    \/ \E night \in Nights \ {live.night} : night_light_set(r, night)
    \/ autofocus(r)
    \/ motion_reset(r)

Next ==
    \/ \E t \in Threads : Grabs(t)
    \/ \E r \in Requests : Asks(r) \/ Serves(r)
    \/ on_stall \/ Crash

(* Threads run, and time passes while the loop does not get on.  A read     *)
(* returns unless its device is faulty, and so does a probe.                *)
Returns(t) == grab[t].pc = "reading" =>
    cameras[grab[t].camera].closed \/ cameras[grab[t].camera].device \notin Faulty
Answers(r) == request[r].pc = "probing" => request[r].body.device \notin Faulty

Fairness ==
    /\ \A t \in Threads : WF_vars(Returns(t) /\ Grabs(t))
    /\ \A r \in Requests : WF_vars(Answers(r) /\ Serves(r))
    /\ WF_vars(LoopWaits /\ on_stall)

Spec == Init /\ [][Next]_vars /\ Fairness

-----------------------------------------------------------------------------
(* The sets of which the variables are members.                             *)
RequestType ==
    [kind : {"none", "config", "lens", "night", "relearn"},
     pc : {"idle", "opening", "probing", "assembling", "focusing", "saving", "writing",
           "swapping", "closing", "relearning", "clearing", "grabbing"},
     body : [device : Devices \cup {Keep}, region : Regions \cup {Keep}],
     cur : Settings, next : Settings, camera : 0..Len(cameras)]

GrabType ==
    [pc : {"idle", "configured", "reading", "read", "computed"},
     camera : 0..Len(cameras), region : Regions, box : Views \cup {None}]

TypeOK ==
    /\ file \in Settings \cup {Torn} /\ live \in Settings
    /\ cameras \in Seq([device : Devices, closed : BOOLEAN]) /\ source \in DOMAIN cameras
    /\ request \in [Requests -> RequestType] /\ grab \in [Threads -> GrabType]
    /\ learned \subseteq Views
    /\ slot \in [frame : Devices \cup {None}, box : Views \cup {None}, failed : BOOLEAN]
    /\ asked \in 0..MaxAsked /\ crashes \in 0..MaxCrashes
    /\ overlapped \in BOOLEAN /\ unsaved \in BOOLEAN /\ straddled \subseteq {"gate", "slot"}

Quiet == \A r \in Requests : ~Editing(r)

(* Whatever order the swaps, failed saves and closes of several settings    *)
(* changes take, the loop's source is open and is the device the settings   *)
(* name, and a camera nobody works with any more has been closed.           *)
SourcesInOrder ==
    /\ ~cameras[source].closed /\ cameras[source].device = live.device
    /\ \A c \in DOMAIN cameras : c # source /\ ~cameras[c].closed =>
         \E r \in Requests : request[r].kind = "config" /\ request[r].camera = c

(* While settings changes have come one at a time and the last was saved,   *)
(* the file holds the settings in force, through crashes in the middle of a *)
(* save: the whole-file rewrite drops no field of another route.            *)
SoloEditsStick ==
    Quiet /\ ~overlapped /\ ~unsaved => load_settings(file) = live

(* Once settings changes that came one at a time are through, motion is     *)
(* published in the coordinates of the view in force and the gate has       *)
(* learned no other, unless a grab was under way while the gate relearned.  *)
NoStrayMotion ==
    Quiet /\ ~overlapped =>
        /\ slot.box \in {None, LiveView} \/ "slot" \in straddled
        /\ learned \subseteq {LiveView} \/ "gate" \in straddled

(* A sound camera that the file names in the end is served, whatever hangs  *)
(* before: a hung read blocks the swap, and then the watchdog restarts the  *)
(* process on the file.                                                     *)
SavedDeviceServes ==
    []<>(\/ load_settings(file).device \in Faulty
         \/ slot.frame = load_settings(file).device
         \/ overlapped \/ unsaved)

(* src/edge/server/app.py:837 and src/edge/config/settings.py:48: the file  *)
(* and the live settings agree when a write fails, and a camera POST never  *)
(* wipes the schedule.                                                      *)
FileAgrees == Quiet => load_settings(file) = live
=============================================================================
