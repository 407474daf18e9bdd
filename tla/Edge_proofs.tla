----------------------------- MODULE Edge_proofs -----------------------------
(***************************************************************************)
(* The safety of the edge process, both of its sides over one settings     *)
(* file, for every set of devices, regions, schedules, bodies and request  *)
(* threads, and any number of requests and crashes.                        *)
(***************************************************************************)
EXTENDS EdgeProcess, SequenceTheorems, TLAPS

(* What either side of the process does to the camera side's variables.     *)
EdgeStep == Next \/ Dies

LEMMA OneProcess == [ProcessNext]_processVars => [EdgeStep]_vars
<1> SUFFICES ASSUME ProcessNext PROVE [EdgeStep]_vars
  BY DEF processVars
<1>1. CASE Camera(Next)
  BY <1>1 DEF Camera, EdgeStep
<1>2. CASE LampSide
  <2>1. CASE UNCHANGED <<vars, side, flips>>
    BY <2>1
  <2>2. ASSUME NEW c \in Channels, NEW high \in BOOLEAN, Flip(c, high) PROVE UNCHANGED vars
    BY <2>2 DEF Flip
  <2>3. ASSUME NEW r \in Requests, EditSchedule(r) PROVE Next
    BY <2>3 DEF EditSchedule, Next, Asks
  <2>4. CASE Restart
    BY <2>4 DEF Restart, EdgeStep
  <2> QED BY <1>2, <2>1, <2>2, <2>3, <2>4 DEF LampSide, EdgeStep
<1> QED BY <1>1, <1>2 DEF ProcessNext

-----------------------------------------------------------------------------
(* Types.                                                                   *)
LEMMA IdleTyped ==
    /\ NoFrame \in [frame : Devices \cup {None}, box : Views \cup {None}, failed : BOOLEAN]
    /\ \A n \in Nat :
         /\ Idle \in [kind : {"none"}, pc : {"idle"},
                      body : [device : Devices \cup {Keep}, region : Regions \cup {Keep}],
                      cur : Settings, next : Settings, camera : 0..n]
         /\ NoGrab \in [pc : {"idle"}, camera : 0..n, region : Regions, box : Views \cup {None}]
BY DefaultsAssumption DEF NoFrame, Idle, NoGrab, Settings

LEMMA TypeInit == Init => TypeOK
<1> SUFFICES ASSUME Init PROVE TypeOK
  OBVIOUS
<1>1. cameras \in Seq([device : Devices, closed : BOOLEAN]) /\ Len(cameras) = 1 /\ source \in DOMAIN cameras
  BY DefaultsAssumption DEF Init, Open, Settings
<1>2. request \in [Requests -> RequestType] /\ grab \in [Threads -> GrabType]
  BY <1>1, IdleTyped DEF Init, RequestType, GrabType
<1>3. slot \in [frame : Devices \cup {None}, box : Views \cup {None}, failed : BOOLEAN]
  BY IdleTyped DEF Init
<1>4. asked \in 0..MaxAsked /\ crashes \in 0..MaxCrashes
  BY MaxAskedAssumption, MaxCrashesAssumption DEF Init
<1>5. learned \subseteq Views /\ straddled \subseteq {"gate", "slot"} /\ live \in Settings /\ file \in Settings
      /\ overlapped \in BOOLEAN /\ unsaved \in BOOLEAN
  BY DefaultsAssumption DEF Init
<1> QED BY <1>1, <1>2, <1>3, <1>4, <1>5 DEF TypeOK

LEMMA CamerasTyped ==
    ASSUME TypeOK
    PROVE  /\ Len(cameras) \in Nat /\ DOMAIN cameras = 1..Len(cameras)
           /\ \A c \in 1..Len(cameras) : cameras[c] \in [device : Devices, closed : BOOLEAN]
           /\ source \in 1..Len(cameras) /\ LiveView \in Views
           /\ \A g \in GrabType : g.camera # 0 =>
                /\ g.camera \in 1..Len(cameras) /\ View(g) \in Views /\ View(g)[1] \in Devices
<1>1. /\ Len(cameras) \in Nat /\ DOMAIN cameras = 1..Len(cameras)
      /\ \A c \in 1..Len(cameras) : cameras[c] \in [device : Devices, closed : BOOLEAN]
      /\ source \in 1..Len(cameras)
  <2>1. cameras \in Seq([device : Devices, closed : BOOLEAN]) /\ source \in DOMAIN cameras
    BY DEF TypeOK
  <2>2. Len(cameras) \in Nat /\ cameras \in [1..Len(cameras) -> [device : Devices, closed : BOOLEAN]]
    BY <2>1, LenProperties
  <2> QED BY <2>1, <2>2
<1>2. LiveView \in Views
  BY <1>1 DEF TypeOK, LiveView, Views, Settings
<1>3. ASSUME NEW g \in GrabType, g.camera # 0
      PROVE  g.camera \in 1..Len(cameras) /\ View(g) \in Views /\ View(g)[1] \in Devices
  <2>1. g.camera \in 1..Len(cameras) /\ g.region \in Regions
    BY <1>1, <1>3 DEF GrabType
  <2>2. cameras[g.camera].device \in Devices
    BY <1>1, <2>1
  <2> QED BY <2>1, <2>2 DEF View, Views
<1> QED BY <1>1, <1>2, <1>3

(* A request or a grab keeps its type while the cameras only get more.      *)
LEMMA MoreCameras ==
    ASSUME NEW r \in RequestType, NEW g \in GrabType, Len(cameras) \in Nat, Len(cameras') \in Nat,
           Len(cameras) <= Len(cameras')
    PROVE  r \in RequestType' /\ g \in GrabType'
BY DEF RequestType, GrabType

LEMMA BootTyped ==
    ASSUME TypeOK, Boot, crashes' \in 0..MaxCrashes
    PROVE  TypeOK'
<1>1. live' \in Settings
  BY DefaultsAssumption DEF TypeOK, Boot, load_settings
<1>2. cameras' \in Seq([device : Devices, closed : BOOLEAN]) /\ Len(cameras') = 1
      /\ source' \in DOMAIN cameras'
  BY <1>1 DEF Boot, Open, Settings
<1>3. request' \in [Requests -> RequestType'] /\ grab' \in [Threads -> GrabType']
  BY <1>2, IdleTyped DEF Boot, RequestType, GrabType
<1> QED BY <1>1, <1>2, <1>3, IdleTyped DEF Boot, TypeOK

-----------------------------------------------------------------------------
(* What a request holds at each place of its route.                         *)
Consistent(q) ==
    /\ q.pc = "idle" <=> q.kind = "none"
    /\ q.pc \in {"opening", "probing", "assembling", "closing", "grabbing"} => q.kind = "config"
    /\ q.pc = "focusing" => q.kind = "lens"
    /\ q.pc \in {"saving", "writing", "swapping"} => q.kind \in {"config", "lens", "night"}
    /\ q.pc \in {"relearning", "clearing"} => q.kind \in {"config", "relearn"}
    /\ q.pc \in {"probing", "closing", "grabbing", "focusing"} => q.camera # 0
    /\ q.pc = "opening" => q.camera = 0
    /\ q.pc \in {"opening", "probing"} => q.body.device # Keep
    /\ q.kind \in {"none", "night", "relearn"} => q.camera = 0
    /\ q.kind = "lens" /\ q.pc # "focusing" => q.camera = 0

(* A thread that grabs has a camera; a request grabs in one place only.     *)
GrabsAgree ==
    \A t \in Threads : grab[t].pc # "idle" =>
        grab[t].camera # 0 /\ (t \in Requests => At(t, "config", "grabbing"))

Shape ==
    /\ TypeOK
    /\ \A r \in Requests : Consistent(request[r])
    /\ GrabsAgree

LEMMA IdleConsistent == Consistent(Idle)
BY DEF Consistent, Idle

(* A grab in its own steps and its end.                                     *)
LEMMA GrabTyped ==
    ASSUME TypeOK, NEW t \in Threads, Grabs(t),
           grab[t].pc # "idle" => grab[t].camera # 0
    PROVE  TypeOK'
<1>1. Len(cameras) \in Nat /\ cameras' = cameras /\ cameras \in Seq([device : Devices, closed : BOOLEAN])
  BY DEF TypeOK, Grabs, read_config, StartRead, ReadOk, ReadFails, compute_motion, Publish, edits
<1>2. request' \in [Requests -> RequestType']
  <2>1. request' = request \/ (t \in Requests /\ request' = [request EXCEPT ![t] = Idle])
    BY DEF Grabs, read_config, StartRead, ReadOk, ReadFails, compute_motion, Publish, edits,
           EndsGrab, Done, Threads
  <2>2. RequestType' = RequestType /\ Idle \in RequestType
    BY <1>1, IdleTyped DEF RequestType
  <2> QED BY <2>1, <2>2 DEF TypeOK
<1>3. grab' \in [Threads -> GrabType'] /\ grab[t] \in GrabType
  <2>1. GrabType' = GrabType /\ NoGrab \in GrabType /\ grab \in [Threads -> GrabType]
    BY <1>1, IdleTyped DEF GrabType, TypeOK
  <2>2. CASE read_config(t)
    <3> DEFINE g == [NoGrab EXCEPT !.pc = "configured", !.camera = source, !.region = live.region]
    <3>1. source \in 0..Len(cameras) /\ live.region \in Regions
      BY CamerasTyped DEF TypeOK, Settings
    <3>2. g \in GrabType'
      BY <2>1, <3>1 DEF GrabType
    <3>3. grab' = [grab EXCEPT ![t] = g]
      BY <2>2 DEF read_config
    <3> HIDE DEF g
    <3> QED BY <2>1, <3>2, <3>3
  <2>3. CASE StartRead(t) \/ ReadOk(t)
    <3>1. PICK pc \in {"reading", "read"} : grab' = [grab EXCEPT ![t].pc = pc]
      BY <2>3 DEF StartRead, ReadOk
    <3> QED BY <2>1, <3>1 DEF GrabType
  <2>4. CASE compute_motion(t)
    <3>1. PICK box \in {None, View(grab[t])} :
              grab' = [grab EXCEPT ![t].pc = "computed", ![t].box = box]
      BY <2>4 DEF compute_motion
    <3>2. View(grab[t]) \in Views
      BY <2>1, <2>4, CamerasTyped DEF compute_motion
    <3> QED BY <2>1, <3>1, <3>2 DEF GrabType
  <2>5. CASE ReadFails(t) \/ Publish(t)
    BY <2>1, <2>5 DEF ReadFails, Publish, EndsGrab
  <2> QED BY <2>1, <2>2, <2>3, <2>4, <2>5 DEF Grabs
<1>4. slot' \in [frame : Devices \cup {None}, box : Views \cup {None}, failed : BOOLEAN]
  <2>1. CASE Publish(t)
    <3>1. View(grab[t])[1] \in Devices
      BY <2>1, <1>3, CamerasTyped DEF Publish
    <3> QED BY <2>1, <3>1, <1>3 DEF Publish, GrabType
  <2>2. CASE ReadFails(t)
    BY <2>2 DEF ReadFails, TypeOK
  <2> QED BY <2>1, <2>2 DEF Grabs, read_config, StartRead, ReadOk, compute_motion, TypeOK
<1>5. learned' \subseteq Views
  <2>1. CASE compute_motion(t)
    <3>1. View(grab[t]) \in Views
      BY <2>1, <1>3, CamerasTyped DEF compute_motion
    <3> QED BY <2>1, <3>1 DEF compute_motion, process, TypeOK
  <2> QED BY <2>1 DEF Grabs, read_config, StartRead, ReadOk, ReadFails, Publish, motion, TypeOK
<1>6. UNCHANGED <<edits, counts, overlapped, unsaved, straddled>>
  BY DEF Grabs, read_config, StartRead, ReadOk, ReadFails, compute_motion, Publish, motion, history
<1> QED BY <1>1, <1>2, <1>3, <1>4, <1>5, <1>6 DEF edits, counts, TypeOK

(* A request's steps.                                                       *)
CameraSeq == Seq([device : Devices, closed : BOOLEAN])

(* The cameras keep their number, their devices and all but the closing.    *)
LEMMA CloseTyped ==
    ASSUME TypeOK, NEW c \in 1..Len(cameras), Close(c)
    PROVE  /\ cameras' \in CameraSeq /\ Len(cameras') = Len(cameras)
           /\ DOMAIN cameras' = DOMAIN cameras
           /\ \A d \in 1..Len(cameras) :
                /\ cameras'[d].device = cameras[d].device
                /\ cameras'[d].closed = (d = c \/ cameras[d].closed)
<1> DEFINE e == [cameras[c] EXCEPT !.closed = TRUE]
<1>1. cameras[c] \in [device : Devices, closed : BOOLEAN] /\ cameras \in CameraSeq
  BY CamerasTyped DEF TypeOK, CameraSeq
<1>2. e \in [device : Devices, closed : BOOLEAN] /\ e.device = cameras[c].device /\ e.closed = TRUE
  BY <1>1
<1>3. cameras' = [cameras EXCEPT ![c] = e]
  BY DEF Close
<1> HIDE DEF e
<1>4. /\ cameras' \in CameraSeq /\ Len(cameras') = Len(cameras)
      /\ \A d \in 1..Len(cameras) : cameras'[d] = IF d = c THEN e ELSE cameras[d]
  BY <1>1, <1>2, <1>3, ExceptSeq DEF CameraSeq
<1>5. \A d \in 1..Len(cameras) : cameras[d].closed \in BOOLEAN
  BY CamerasTyped
<1> QED BY <1>2, <1>3, <1>4, <1>5

LEMMA OpenTyped ==
    ASSUME TypeOK, NEW device \in Devices, cameras' = Append(cameras, Open(device))
    PROVE  /\ cameras' \in CameraSeq /\ Len(cameras') = Len(cameras) + 1
           /\ DOMAIN cameras' = 1..(Len(cameras) + 1)
           /\ \A d \in 1..Len(cameras) : cameras'[d] = cameras[d]
           /\ cameras'[Len(cameras) + 1].device = device /\ ~cameras'[Len(cameras) + 1].closed
<1>1. Open(device) \in [device : Devices, closed : BOOLEAN] /\ cameras \in CameraSeq
      /\ Open(device).device = device /\ Open(device).closed = FALSE
  BY DEF Open, TypeOK, CameraSeq
<1>2. /\ cameras' \in CameraSeq /\ Len(cameras') = Len(cameras) + 1
      /\ \A d \in 1..Len(cameras) : cameras'[d] = cameras[d]
      /\ cameras'[Len(cameras) + 1] = Open(device)
  BY <1>1, AppendProperties DEF CameraSeq
<1>3. DOMAIN cameras' = 1..Len(cameras')
  BY <1>2, LenProperties DEF CameraSeq
<1> QED BY <1>1, <1>2, <1>3

(* The cameras of requests and grabs stay in range.                         *)
CamerasGrow ==
    cameras' \in CameraSeq /\ Len(cameras) <= Len(cameras')

LEMMA RequestTyped ==
    ASSUME TypeOK, CamerasGrow, NEW r \in Requests, NEW q \in RequestType',
           request' = [request EXCEPT ![r] = q], grab' = grab
    PROVE  request' \in [Requests -> RequestType'] /\ grab' \in [Threads -> GrabType']
<1>1. Len(cameras) \in Nat /\ Len(cameras') \in Nat /\ Len(cameras) <= Len(cameras')
  BY CamerasTyped, LenProperties DEF CamerasGrow, CameraSeq
<1>2. \A x \in RequestType : x \in RequestType'
  BY <1>1 DEF RequestType
<1>3. \A x \in GrabType : x \in GrabType'
  BY <1>1 DEF GrabType
<1> QED BY <1>2, <1>3 DEF TypeOK

LEMMA SameCameras ==
    ASSUME TypeOK, cameras' = cameras
    PROVE  CamerasGrow /\ RequestType' = RequestType /\ GrabType' = GrabType
BY CamerasTyped DEF CamerasGrow, CameraSeq, TypeOK, RequestType, GrabType

(* What the routes are asked for, each request a member of RequestType.     *)
LEMMA AskShaped ==
    ASSUME Shape, NEW r \in Requests, Asks(r)
    PROVE  Shape'
<1> USE DEF Shape
<1>1. ASSUME NEW first \in RequestType, Consistent(first), Ask(r, first) PROVE Shape'
  <2>1. CamerasGrow /\ RequestType' = RequestType
    BY <1>1, SameCameras DEF Ask, edits
  <2>2. request' \in [Requests -> RequestType'] /\ grab' \in [Threads -> GrabType']
    BY <1>1, <2>1, RequestTyped DEF Ask
  <2>3. asked' \in 0..MaxAsked /\ overlapped' \in BOOLEAN
    BY <1>1, MaxAskedAssumption DEF Ask, TypeOK, Editing
  <2>4. TypeOK'
    BY <1>1, <2>2, <2>3 DEF Ask, edits, motion, TypeOK
  <2>5. \A x \in Requests : Consistent(request'[x])
    BY <1>1 DEF Ask, TypeOK
  <2>6. GrabsAgree'
    <3> SUFFICES ASSUME NEW t \in Threads, grab'[t].pc # "idle"
                 PROVE  grab'[t].camera # 0 /\ (t \in Requests => At(t, "config", "grabbing")')
      BY DEF GrabsAgree
    <3>1. grab[t].pc # "idle" /\ grab'[t] = grab[t]
      BY <1>1 DEF Ask
    <3>2. t \in Requests => t # r /\ request'[t] = request[t]
      BY <1>1, <3>1 DEF Ask, GrabsAgree, At, TypeOK
    <3> QED BY <3>1, <3>2 DEF GrabsAgree, At
  <2> QED BY <2>4, <2>5, <2>6
<1>2. Idle \in RequestType /\ live \in Settings /\ source \in 0..Len(cameras) /\ source # 0
  BY CamerasTyped, IdleTyped DEF TypeOK, RequestType
<1>3. ASSUME NEW body \in Bodies, set_config(r, body) PROVE Shape'
  <2>1. body \in [device : Devices \cup {Keep}, region : Regions \cup {Keep}]
    BY BodiesAssumption
  <2> DEFINE first == [Idle EXCEPT
              !.kind = "config", !.body = body, !.cur = live,
              !.pc = IF body.device \in {Keep, live.device} THEN "assembling" ELSE "opening"]
  <2>2. first \in RequestType
    BY <1>2, <2>1 DEF RequestType
  <2>4. Consistent(first)
    <3>1. /\ first.kind = "config" /\ first.camera = 0 /\ first.body = body
          /\ first.pc = IF body.device \in {Keep, live.device} THEN "assembling" ELSE "opening"
      BY <1>2 DEF Idle
    <3> HIDE DEF first
    <3> QED BY <3>1 DEF Consistent
  <2>3. Ask(r, first)
    BY <1>3 DEF set_config
  <2> HIDE DEF first
  <2> QED BY <1>1, <2>2, <2>3, <2>4
<1>4. ASSUME NEW night \in Nights, night_light_set(r, night) PROVE Shape'
  <2> DEFINE first == [Idle EXCEPT !.kind = "night", !.pc = "saving", !.next = [live EXCEPT !.night = night]]
  <2>1. [live EXCEPT !.night = night] \in Settings
    BY <1>2 DEF Settings
  <2>2. first \in RequestType
    BY <1>2, <2>1 DEF RequestType
  <2>4. Consistent(first)
    BY DEF Consistent, Idle
  <2>3. Ask(r, first)
    BY <1>4 DEF night_light_set
  <2> HIDE DEF first
  <2> QED BY <1>1, <2>2, <2>3, <2>4
<1>5. ASSUME autofocus(r) PROVE Shape'
  <2> DEFINE first == [Idle EXCEPT !.kind = "lens", !.pc = "focusing", !.camera = source]
  <2>2. first \in RequestType
    BY <1>2 DEF RequestType
  <2>4. Consistent(first)
    BY <1>2 DEF Consistent, Idle
  <2>3. Ask(r, first)
    BY <1>5 DEF autofocus
  <2> HIDE DEF first
  <2> QED BY <1>1, <2>2, <2>3, <2>4
<1>6. ASSUME motion_reset(r) PROVE Shape'
  <2> DEFINE first == [Idle EXCEPT !.kind = "relearn", !.pc = "relearning"]
  <2>2. first \in RequestType
    BY <1>2 DEF RequestType
  <2>4. Consistent(first)
    BY DEF Consistent, Idle
  <2>3. Ask(r, first)
    BY <1>6 DEF motion_reset
  <2> HIDE DEF first
  <2> QED BY <1>1, <2>2, <2>3, <2>4
<1> QED BY <1>3, <1>4, <1>5, <1>6 DEF Asks

LEMMA ServesShaped ==
    ASSUME Shape, NEW r \in Requests, Serves(r)
    PROVE  Shape'
<1> USE DEF Shape
<1> DEFINE p == request[r]
<1>1. /\ p \in RequestType /\ Consistent(p) /\ Len(cameras) \in Nat
      /\ Idle \in RequestType /\ live \in Settings /\ CameraSeq = Seq([device : Devices, closed : BOOLEAN])
  BY CamerasTyped, IdleTyped DEF TypeOK, RequestType, CameraSeq
(* The parts that every step of a route leaves or sets alike.               *)
<1>2. ASSUME CamerasGrow, NEW q \in RequestType', Consistent(q), request' = [request EXCEPT ![r] = q],
             grab' = grab, p.pc # "grabbing",
             source' \in DOMAIN cameras', live' \in Settings, file' \in Settings \cup {Torn},
             learned' = learned \/ learned' = {},
             slot' = slot \/ slot' = [slot EXCEPT !.box = None],
             UNCHANGED <<counts, overlapped>>, unsaved' \in BOOLEAN, straddled' \subseteq {"gate", "slot"}
      PROVE  Shape'
  <2>1. request' \in [Requests -> RequestType'] /\ grab' \in [Threads -> GrabType']
    BY <1>2, RequestTyped
  <2>2. slot' \in [frame : Devices \cup {None}, box : Views \cup {None}, failed : BOOLEAN]
    BY <1>2 DEF TypeOK
  <2>3. cameras' \in Seq([device : Devices, closed : BOOLEAN])
    BY <1>2 DEF CamerasGrow, CameraSeq
  <2>4. TypeOK'
    BY <1>2, <2>1, <2>2, <2>3 DEF TypeOK, counts
  <2>5. \A x \in Requests : Consistent(request'[x])
    BY <1>2 DEF TypeOK
  <2>6. GrabsAgree'
    <3> SUFFICES ASSUME NEW t \in Threads, grab'[t].pc # "idle"
                 PROVE  grab'[t].camera # 0 /\ (t \in Requests => At(t, "config", "grabbing")')
      BY DEF GrabsAgree
    <3>1. grab[t].pc # "idle" /\ grab'[t] = grab[t]
      BY <1>2
    <3>2. t \in Requests => t # r /\ request'[t] = request[t]
      BY <1>2, <3>1 DEF GrabsAgree, At, TypeOK
    <3> QED BY <3>1, <3>2 DEF GrabsAgree, At
  <2> QED BY <2>4, <2>5, <2>6
<1>3. ASSUME cameras' = cameras PROVE CamerasGrow /\ RequestType' = RequestType /\ DOMAIN cameras' = DOMAIN cameras
  BY <1>3, SameCameras
<1>4. source \in DOMAIN cameras /\ live \in Settings /\ file \in Settings \cup {Torn}
      /\ unsaved \in BOOLEAN /\ straddled \subseteq {"gate", "slot"}
  BY DEF TypeOK
<1>5. ASSUME NEW c \in 1..Len(cameras), Close(c) PROVE CamerasGrow /\ RequestType' = RequestType /\ DOMAIN cameras' = DOMAIN cameras
  <2>1. cameras' \in CameraSeq /\ Len(cameras') = Len(cameras) /\ DOMAIN cameras' = DOMAIN cameras
    BY <1>5, CloseTyped
  <2>2. RequestType' = RequestType
    BY <2>1 DEF RequestType
  <2> QED BY <1>1, <2>1, <2>2 DEF CamerasGrow
(* A move within a route keeps the rest of the record.                      *)
<1>6. ASSUME NEW pc \in {"assembling", "writing", "swapping", "relearning", "clearing", "grabbing"},
             NEW q, q = [p EXCEPT !.pc = pc]
      PROVE  q \in RequestType /\ q.pc = pc /\ q.kind = p.kind /\ q.camera = p.camera
             /\ q.body = p.body /\ q.cur = p.cur /\ q.next = p.next
  BY <1>1, <1>6 DEF RequestType
<1>7. CASE OpenCandidate(r)
  <2>1. p.body.device \in Devices
    BY <1>1, <1>7 DEF OpenCandidate, At, Consistent, RequestType
  <2>2. CamerasGrow /\ Len(cameras') = Len(cameras) + 1 /\ DOMAIN cameras' = 1..(Len(cameras) + 1)
    <3>1. cameras' \in CameraSeq /\ Len(cameras') = Len(cameras) + 1 /\ DOMAIN cameras' = 1..(Len(cameras) + 1)
      BY <1>7, <2>1, OpenTyped DEF OpenCandidate
    <3> QED BY <1>1, <3>1 DEF CamerasGrow
  <2> DEFINE q == [p EXCEPT !.pc = "probing", !.camera = Len(cameras) + 1]
  <2>3. q \in RequestType'
    <3>1. Len(cameras) + 1 \in 0..Len(cameras') /\ p \in RequestType'
      BY <1>1, <2>2 DEF RequestType
    <3> QED BY <3>1 DEF RequestType
  <2>4. Consistent(q)
    BY <1>1, <1>7 DEF Consistent, RequestType, OpenCandidate, At
  <2>5. request' = [request EXCEPT ![r] = q]
    BY <1>7 DEF OpenCandidate
  <2> HIDE DEF q
  <2>6. source' \in DOMAIN cameras'
    BY <1>7, <2>2, CamerasTyped DEF OpenCandidate
  <2> QED BY <1>2, <1>4, <1>7, <2>2, <2>3, <2>4, <2>5, <2>6 DEF OpenCandidate, At, motion, history
<1>8. CASE ProbeOk(r)
  <2> DEFINE q == [p EXCEPT !.pc = "assembling"]
  <2>1. q \in RequestType /\ Consistent(q)
    BY <1>1, <1>6, <1>8 DEF Consistent, ProbeOk, At
  <2>2. request' = [request EXCEPT ![r] = q]
    BY <1>8 DEF ProbeOk, Move
  <2> HIDE DEF q
  <2> QED BY <1>2, <1>3, <1>4, <1>8, <2>1, <2>2 DEF ProbeOk, At, edits, motion, history
<1>9. CASE ProbeFails(r)
  <2>1. p.camera \in 1..Len(cameras)
    BY <1>1, <1>9 DEF ProbeFails, At, Consistent, RequestType
  <2> QED BY <1>1, <1>2, <1>4, <1>5, <1>9, <2>1, IdleConsistent DEF ProbeFails, Done, At, motion, history
<1>10. CASE Assemble(r)
  <2> DEFINE next == [device |-> IF p.body.device = Keep THEN p.cur.device ELSE p.body.device,
                      region |-> IF p.body.region = Keep THEN p.cur.region ELSE p.body.region,
                      lens   |-> p.cur.lens,
                      night  |-> live.night]
  <2> DEFINE q == [p EXCEPT !.pc = "saving", !.next = next]
  <2>1. next \in Settings
    BY <1>1 DEF RequestType, Settings
  <2>2. request' = [request EXCEPT ![r] = q]
    BY <1>10 DEF Assemble
  <2> HIDE DEF next
  <2>3. q \in RequestType /\ Consistent(q)
    BY <1>1, <1>10, <2>1 DEF RequestType, Consistent, Assemble, At
  <2> HIDE DEF q
  <2> QED BY <1>2, <1>3, <1>4, <1>10, <2>2, <2>3 DEF Assemble, At, edits, motion, history
<1>11. CASE FocusFound(r)
  <2> DEFINE q == [Idle EXCEPT !.kind = "lens", !.pc = "saving", !.next = [live EXCEPT !.lens = TRUE]]
  <2>1. [live EXCEPT !.lens = TRUE] \in Settings
    BY <1>1 DEF Settings
  <2>2. q \in RequestType /\ Consistent(q)
    BY <1>1, <2>1 DEF RequestType, Consistent, Idle
  <2>3. request' = [request EXCEPT ![r] = q]
    BY <1>11 DEF FocusFound
  <2> HIDE DEF q
  <2> QED BY <1>2, <1>3, <1>4, <1>11, <2>2, <2>3 DEF FocusFound, At, edits, motion, history
<1>12. CASE FocusFails(r)
  BY <1>1, <1>2, <1>3, <1>4, <1>12, IdleConsistent DEF FocusFails, Done, At, edits, motion, history
<1>13. CASE Truncate(r)
  <2> DEFINE q == [p EXCEPT !.pc = "writing"]
  <2>1. q \in RequestType /\ Consistent(q)
    BY <1>1, <1>6, <1>13 DEF Consistent, Truncate
  <2>2. request' = [request EXCEPT ![r] = q]
    BY <1>13 DEF Truncate, Move
  <2> HIDE DEF q
  <2> QED BY <1>2, <1>3, <1>4, <1>13, <2>1, <2>2 DEF Truncate, motion, history
<1>14. CASE Write(r)
  <2> DEFINE q == [p EXCEPT !.pc = "swapping"]
  <2>1. q \in RequestType /\ Consistent(q)
    BY <1>1, <1>6, <1>14 DEF Consistent, Write
  <2>2. request' = [request EXCEPT ![r] = q]
    BY <1>14 DEF Write, Move
  <2>3. file' \in Settings \cup {Torn}
    BY <1>1, <1>14 DEF Write, RequestType
  <2> HIDE DEF q
  <2> QED BY <1>2, <1>3, <1>4, <1>14, <2>1, <2>2, <2>3 DEF Write, motion
<1>15. CASE SaveFails(r)
  <2>1. CamerasGrow /\ RequestType' = RequestType /\ DOMAIN cameras' = DOMAIN cameras
    <3>1. CASE p.camera = 0
      BY <1>3, <1>15, <3>1 DEF SaveFails
    <3>2. CASE p.camera # 0
      <4>1. p.camera \in 1..Len(cameras)
        BY <1>1, <3>2 DEF RequestType
      <4> QED BY <1>5, <1>15, <3>2, <4>1 DEF SaveFails
    <3> QED BY <3>1, <3>2
  <2> QED BY <1>1, <1>2, <1>4, <1>15, <2>1, IdleConsistent DEF SaveFails, Done, motion
<1>16. CASE Swap(r)
  <2>1. live' \in Settings
    BY <1>1, <1>16 DEF Swap, RequestType, Settings
  <2>2. source' \in DOMAIN cameras
    BY <1>1, <1>4, <1>16, CamerasTyped DEF Swap, RequestType
  <2>3. PICK q \in RequestType : Consistent(q) /\ request' = [request EXCEPT ![r] = q]
    <3>1. CASE p.camera # 0
      <4> DEFINE q == [Idle EXCEPT !.kind = "config", !.pc = "closing", !.camera = source]
      <4>1. source \in 0..Len(cameras) /\ source # 0
        BY CamerasTyped
      <4>2. q \in RequestType /\ Consistent(q)
        BY <1>1, <4>1 DEF RequestType, Consistent, Idle
      <4>3. request' = [request EXCEPT ![r] = q]
        BY <1>16, <3>1 DEF Swap
      <4> QED BY <4>2, <4>3
    <3>2. CASE p.camera = 0
      <4> DEFINE q == [Idle EXCEPT !.kind = "config", !.pc = "relearning"]
      <4>1. q \in RequestType /\ Consistent(q)
        BY <1>1 DEF RequestType, Consistent, Idle
      <4>2. request' = [request EXCEPT ![r] = q] \/ request' = [request EXCEPT ![r] = Idle]
        BY <1>16, <3>2 DEF Swap, Done
      <4> QED BY <1>1, <4>1, <4>2, IdleConsistent
    <3> QED BY <3>1, <3>2
  <2> QED BY <1>2, <1>3, <1>4, <1>16, <2>1, <2>2, <2>3 DEF Swap, At, motion, history
<1>17. CASE SwapField(r)
  <2>1. live' \in Settings
    BY <1>1, <1>17 DEF SwapField, RequestType, Settings
  <2> QED BY <1>1, <1>2, <1>3, <1>4, <1>17, <2>1, IdleConsistent DEF SwapField, Done, motion, history
<1>18. CASE CloseOld(r)
  <2>1. p.camera \in 1..Len(cameras)
    BY <1>1, <1>18 DEF CloseOld, At, Consistent, RequestType
  <2> DEFINE q == [p EXCEPT !.pc = "relearning"]
  <2>2. q \in RequestType /\ Consistent(q)
    BY <1>1, <1>6, <1>18 DEF Consistent, CloseOld, At
  <2>3. request' = [request EXCEPT ![r] = q]
    BY <1>18 DEF CloseOld, Move
  <2> HIDE DEF q
  <2> QED BY <1>2, <1>4, <1>5, <1>18, <2>1, <2>2, <2>3 DEF CloseOld, At, motion, history
<1>19. CASE ResetGate(r)
  <2> DEFINE q == [p EXCEPT !.pc = "clearing"]
  <2>2. q \in RequestType /\ Consistent(q)
    BY <1>1, <1>6, <1>19 DEF Consistent, ResetGate
  <2>3. request' = [request EXCEPT ![r] = q]
    BY <1>19 DEF ResetGate, Move
  <2>4. straddled' \subseteq {"gate", "slot"}
    BY <1>4, <1>19 DEF ResetGate, NoteStraddle
  <2> HIDE DEF q
  <2> QED BY <1>2, <1>3, <1>4, <1>19, <2>2, <2>3, <2>4 DEF ResetGate, reset, edits, history
<1>20. CASE ClearSlot(r)
  <2>1. straddled' \subseteq {"gate", "slot"}
    BY <1>4, <1>20 DEF ClearSlot, NoteStraddle
  <2>2. PICK q \in RequestType : Consistent(q) /\ request' = [request EXCEPT ![r] = q]
    <3> DEFINE q == [p EXCEPT !.pc = "grabbing"]
    <3>1. CASE p.camera # 0
      <4>1. q \in RequestType /\ Consistent(q)
        BY <1>1, <1>6, <1>20, <3>1 DEF Consistent, ClearSlot
      <4>2. request' = [request EXCEPT ![r] = q]
        BY <1>20, <3>1 DEF ClearSlot, Move
      <4> QED BY <4>1, <4>2
    <3>2. CASE p.camera = 0
      BY <1>1, <1>20, <3>2, IdleConsistent DEF ClearSlot, Done
    <3> QED BY <3>1, <3>2
  <2> QED BY <1>2, <1>3, <1>4, <1>20, <2>1, <2>2 DEF ClearSlot, edits, history
<1> QED BY <1>7, <1>8, <1>9, <1>10, <1>11, <1>12, <1>13, <1>14, <1>15, <1>16, <1>17, <1>18, <1>19, <1>20
        DEF Serves

LEMMA GrabShaped ==
    ASSUME Shape, NEW t \in Threads, Grabs(t)
    PROVE  Shape'
<1>1. TypeOK' /\ TypeOK
  BY GrabTyped DEF Shape, GrabsAgree
<1>2. request' = request \/ (t \in Requests /\ request' = [request EXCEPT ![t] = Idle] /\ grab'[t].pc = "idle")
  BY <1>1 DEF Grabs, read_config, StartRead, ReadOk, ReadFails, compute_motion, Publish, edits,
         EndsGrab, Done, Threads, TypeOK, NoGrab
<1>3. \A x \in Requests : Consistent(request'[x])
  BY <1>1, <1>2, IdleConsistent DEF Shape, TypeOK
<1>4. GrabsAgree'
  <2> SUFFICES ASSUME NEW x \in Threads, grab'[x].pc # "idle"
               PROVE  grab'[x].camera # 0 /\ (x \in Requests => At(x, "config", "grabbing")')
    BY DEF GrabsAgree
  <2>1. CASE x # t
    <3>1. grab'[x] = grab[x]
      BY <1>1, <2>1 DEF Grabs, read_config, StartRead, ReadOk, ReadFails, compute_motion, Publish,
                        EndsGrab, TypeOK
    <3>2. x \in Requests => request'[x] = request[x]
      BY <1>1, <1>2, <2>1 DEF TypeOK
    <3> QED BY <3>1, <3>2 DEF Shape, GrabsAgree, At
  <2>2. CASE x = t
    <3>1. request' = request
      BY <1>2, <2>2
    <3>2. CASE read_config(t)
      <4>1. grab'[t].camera = source /\ source # 0
        BY <1>1, <3>2, CamerasTyped DEF read_config, TypeOK, NoGrab
      <4>2. t \in Requests => At(t, "config", "grabbing")
        BY <3>2, NamesAssumption DEF read_config, MayGrab
      <4> QED BY <2>2, <3>1, <4>1, <4>2 DEF At
    <3>3. CASE StartRead(t) \/ ReadOk(t) \/ compute_motion(t)
      <4>1. grab'[t].camera = grab[t].camera /\ grab[t].pc # "idle"
        BY <1>1, <3>3 DEF StartRead, ReadOk, compute_motion, TypeOK, GrabType
      <4> QED BY <2>2, <3>1, <4>1 DEF Shape, GrabsAgree, At
    <3>4. CASE ReadFails(t) \/ Publish(t)
      BY <1>1, <2>2, <3>4 DEF ReadFails, Publish, EndsGrab, TypeOK, NoGrab
    <3> QED BY <3>2, <3>3, <3>4 DEF Grabs
  <2> QED BY <2>1, <2>2
<1> QED BY <1>1, <1>3, <1>4 DEF Shape

LEMMA DiesTyped ==
    ASSUME TypeOK, Dies \/ on_stall
    PROVE  Boot /\ crashes' \in 0..MaxCrashes
BY MaxCrashesAssumption DEF Dies, on_stall, TypeOK

LEMMA BootShaped ==
    ASSUME Shape, Dies \/ on_stall
    PROVE  Shape'
<1>1. TypeOK' /\ Boot
  BY DiesTyped, BootTyped DEF Shape
<1>2. \A x \in Requests : Consistent(request'[x])
  BY <1>1, IdleConsistent DEF Boot
<1>3. GrabsAgree'
  BY <1>1 DEF Boot, GrabsAgree, NoGrab
<1> QED BY <1>1, <1>2, <1>3 DEF Shape

LEMMA Steps ==
    EdgeStep <=> \/ \E t \in Threads : Grabs(t)
                 \/ \E r \in Requests : Asks(r)
                 \/ \E r \in Requests : Serves(r)
                 \/ on_stall \/ Dies
BY DEF EdgeStep, Next, Crash

LEMMA ShapeStep ==
    ASSUME Shape, [EdgeStep]_vars
    PROVE  Shape'
<1>1. CASE UNCHANGED vars
  BY <1>1 DEF vars, Shape, TypeOK, GrabsAgree, At, RequestType, GrabType
<1>2. CASE EdgeStep
  BY <1>2, Steps, GrabShaped, AskShaped, ServesShaped, BootShaped
<1> QED BY <1>1, <1>2

LEMMA ShapeInit == Init => Shape
<1> SUFFICES ASSUME Init PROVE Shape
  OBVIOUS
<1>1. TypeOK
  BY TypeInit
<1>2. (\A r \in Requests : Consistent(request[r])) /\ GrabsAgree
  BY IdleConsistent DEF Init, GrabsAgree, NoGrab
<1> QED BY <1>1, <1>2 DEF Shape

-----------------------------------------------------------------------------
(* Who closes which camera.  A change of camera owns the candidate up to    *)
(* the swap and the source it replaced from there on.                       *)
Owned(q) == q.kind = "config" /\ q.camera # 0

InHand(q) ==
    Owned(q) =>
        /\ q.camera # source
        /\ q.pc \in {"probing", "assembling", "saving", "writing", "swapping", "closing"} =>
             ~cameras[q.camera].closed
        /\ q.pc \in {"probing", "assembling"} => cameras[q.camera].device = q.body.device
        /\ q.pc \in {"saving", "writing", "swapping"} => cameras[q.camera].device = q.next.device
        /\ q.pc \in {"relearning", "clearing", "grabbing"} => cameras[q.camera].closed

OwnersDiffer ==
    \A r, q \in Requests :
        Owned(request[r]) /\ Owned(request[q]) /\ request[r].camera = request[q].camera => r = q

SourcesHeld ==
    /\ \A r \in Requests : InHand(request[r])
    /\ OwnersDiffer
    /\ SourcesInOrder

(* A step that leaves the cameras and the source alone, and gives up none   *)
(* but a closed camera.                                                     *)
LEMMA SourcesKept ==
    ASSUME Shape, SourcesHeld, UNCHANGED <<cameras, source>>, live'.device = live.device,
           \A x \in Requests :
              \/ request'[x] = request[x]
              \/ /\ InHand(request'[x])
                 /\ Owned(request'[x]) => Owned(request[x]) /\ request'[x].camera = request[x].camera
                 /\ Owned(request[x]) => Owned(request'[x]) \/ cameras[request[x].camera].closed
    PROVE  SourcesHeld'
<1>1. \A x \in Requests : InHand(request'[x]) /\ (InHand(request[x]))' = InHand(request'[x])
  BY DEF SourcesHeld, InHand, Owned
<1>2. OwnersDiffer'
  BY DEF SourcesHeld, OwnersDiffer
<1>3. SourcesInOrder'
  <2>1. ~cameras'[source'].closed /\ cameras'[source'].device = live'.device
    BY DEF SourcesHeld, SourcesInOrder
  <2>2. ASSUME NEW c \in DOMAIN cameras, c # source, ~cameras[c].closed
        PROVE  \E x \in Requests : request'[x].kind = "config" /\ request'[x].camera = c
    <3>1. PICK x \in Requests : request[x].kind = "config" /\ request[x].camera = c
      BY <2>2 DEF SourcesHeld, SourcesInOrder
    <3>2. Owned(request[x])
      BY <2>2, <3>1, CamerasTyped DEF Owned, Shape
    <3> QED BY <2>2, <3>1, <3>2 DEF Owned
  <2> QED BY <2>1, <2>2 DEF SourcesInOrder
<1> QED BY <1>1, <1>2, <1>3 DEF SourcesHeld

(* An owner closes its camera and is done with it or relearns.              *)
LEMMA SourcesClose ==
    ASSUME Shape, SourcesHeld, NEW r \in Requests, Owned(request[r]), Close(request[r].camera),
           UNCHANGED <<source, live>>, NEW q, request' = [request EXCEPT ![r] = q],
           \/ ~Owned(q)
           \/ q.camera = request[r].camera /\ q.pc = "relearning"
    PROVE  SourcesHeld'
<1> DEFINE c == request[r].camera
<1>1. c \in 1..Len(cameras) /\ c # source /\ TypeOK /\ Len(cameras) \in Nat /\ source \in 1..Len(cameras)
  BY CamerasTyped DEF Shape, TypeOK, RequestType, Owned, SourcesHeld, InHand
<1>2. /\ DOMAIN cameras' = DOMAIN cameras /\ DOMAIN cameras = 1..Len(cameras)
      /\ \A d \in 1..Len(cameras) : cameras'[d].device = cameras[d].device
                                    /\ cameras'[d].closed = (d = c \/ cameras[d].closed)
  BY <1>1, CloseTyped, CamerasTyped
<1>3. \A x \in Requests : request'[x] = IF x = r THEN q ELSE request[x]
  BY <1>1 DEF TypeOK
<1>4. \A x \in Requests : Owned(request[x]) => request[x].camera \in 1..Len(cameras)
  BY <1>1 DEF TypeOK, RequestType, Owned
<1>5. \A x \in Requests \ {r} : Owned(request[x]) => request[x].camera # c
  BY DEF SourcesHeld, OwnersDiffer
<1>6. ASSUME NEW x \in Requests PROVE InHand(request[x])'
  <2>1. CASE x = r
    BY <1>1, <1>2, <1>3, <2>1 DEF InHand, Owned
  <2>2. CASE x # r
    <3>1. request'[x] = request[x] /\ InHand(request[x])
      BY <1>3, <2>2 DEF SourcesHeld
    <3>2. Owned(request[x]) => request[x].camera \in 1..Len(cameras) /\ request[x].camera # c
      BY <1>4, <1>5, <2>2
    <3> HIDE DEF c
    <3> QED BY <1>2, <3>1, <3>2 DEF InHand, Owned
  <2> QED BY <2>1, <2>2
<1>7. OwnersDiffer'
  <2>1. \A x \in Requests : Owned(request'[x]) => Owned(request[x]) /\ request'[x].camera = request[x].camera
    BY <1>3
  <2> QED BY <2>1 DEF SourcesHeld, OwnersDiffer
<1>8. SourcesInOrder'
  <2>1. ~cameras'[source'].closed /\ cameras'[source'].device = live'.device
    BY <1>1, <1>2 DEF SourcesHeld, SourcesInOrder
  <2>2. ASSUME NEW d \in DOMAIN cameras', d # source', ~cameras'[d].closed
        PROVE  \E x \in Requests : request'[x].kind = "config" /\ request'[x].camera = d
    <3>1. d # c /\ ~cameras[d].closed
      BY <1>2, <2>2
    <3>2. PICK x \in Requests : request[x].kind = "config" /\ request[x].camera = d
      BY <1>2, <2>2, <3>1 DEF SourcesHeld, SourcesInOrder
    <3>3. x # r
      BY <3>1, <3>2
    <3> QED BY <1>3, <3>2, <3>3
  <2> QED BY <2>1, <2>2 DEF SourcesInOrder
<1> QED BY <1>6, <1>7, <1>8 DEF SourcesHeld

LEMMA SourcesOpen ==
    ASSUME Shape, SourcesHeld, NEW r \in Requests, OpenCandidate(r)
    PROVE  SourcesHeld'
<1> DEFINE c == Len(cameras) + 1
<1> DEFINE q == [request[r] EXCEPT !.pc = "probing", !.camera = c]
<1>1. /\ TypeOK /\ Len(cameras) \in Nat /\ source \in 1..Len(cameras) /\ DOMAIN cameras = 1..Len(cameras)
      /\ request[r] \in RequestType /\ request[r].body.device \in Devices
      /\ request[r].kind = "config" /\ request[r].camera = 0
  BY CamerasTyped DEF Shape, TypeOK, RequestType, OpenCandidate, At, Consistent
<1>2. /\ DOMAIN cameras' = 1..c
      /\ \A d \in 1..Len(cameras) : cameras'[d] = cameras[d]
      /\ cameras'[c].device = request[r].body.device /\ ~cameras'[c].closed
  BY <1>1, OpenTyped DEF OpenCandidate
<1>3. \A x \in Requests : request'[x] = IF x = r THEN q ELSE request[x]
  BY <1>1 DEF TypeOK, OpenCandidate
<1>4. q.pc = "probing" /\ q.camera = c /\ q.kind = "config" /\ q.body = request[r].body
  BY <1>1 DEF RequestType
<1>5. \A x \in Requests : Owned(request[x]) => request[x].camera \in 1..Len(cameras) /\ x # r
  BY <1>1 DEF TypeOK, RequestType, Owned
<1> HIDE DEF q
<1>6. ASSUME NEW x \in Requests PROVE InHand(request[x])'
  <2>1. CASE x = r
    <3>1. request'[x] = q /\ source' = source /\ c # source
      <4>1. source' = source
        BY DEF OpenCandidate
      <4>2. c # source
        BY <1>1
      <4> QED BY <1>3, <2>1, <4>1, <4>2
    <3>2. ~cameras'[q.camera].closed /\ cameras'[q.camera].device = q.body.device
      BY <1>2, <1>4
    <3> QED BY <1>4, <3>1, <3>2 DEF InHand
  <2>2. CASE x # r
    <3>1. request'[x] = request[x] /\ InHand(request[x]) /\ source' = source
      BY <1>3, <2>2 DEF SourcesHeld, OpenCandidate
    <3> QED BY <1>2, <1>5, <3>1 DEF InHand, Owned
  <2> QED BY <2>1, <2>2
<1>7. OwnersDiffer'
  <2> SUFFICES ASSUME NEW x \in Requests, NEW y \in Requests, Owned(request'[x]), Owned(request'[y]),
                      request'[x].camera = request'[y].camera
               PROVE  x = y
    BY DEF OwnersDiffer
  <2>1. \A z \in Requests \ {r} : Owned(request'[z]) => Owned(request[z]) /\ request'[z].camera \in 1..Len(cameras)
                                  /\ request'[z].camera = request[z].camera
    BY <1>3, <1>5
  <2>2. request'[r].camera = c
    BY <1>3, <1>4
  <2> QED BY <1>1, <2>1, <2>2 DEF SourcesHeld, OwnersDiffer
<1>8. SourcesInOrder'
  <2>1. ~cameras'[source'].closed /\ cameras'[source'].device = live'.device
    BY <1>1, <1>2 DEF SourcesHeld, SourcesInOrder, OpenCandidate
  <2>2. ASSUME NEW d \in DOMAIN cameras', d # source', ~cameras'[d].closed
        PROVE  \E x \in Requests : request'[x].kind = "config" /\ request'[x].camera = d
    <3>1. CASE d = c
      BY <1>3, <1>4, <3>1
    <3>2. CASE d # c
      <4>1. d \in DOMAIN cameras /\ ~cameras[d].closed /\ d # source /\ d # 0
        BY <1>1, <1>2, <2>2, <3>2 DEF OpenCandidate
      <4>2. PICK x \in Requests : request[x].kind = "config" /\ request[x].camera = d
        BY <4>1 DEF SourcesHeld, SourcesInOrder
      <4> QED BY <1>1, <1>3, <4>1, <4>2
    <3> QED BY <3>1, <3>2
  <2> QED BY <2>1, <2>2 DEF SourcesInOrder
<1> QED BY <1>6, <1>7, <1>8 DEF SourcesHeld

(* The swap trades the candidate for the source.                            *)
LEMMA SourcesSwap ==
    ASSUME Shape, SourcesHeld, NEW r \in Requests, Swap(r), request[r].camera # 0
    PROVE  SourcesHeld'
<1> DEFINE q == [Idle EXCEPT !.kind = "config", !.pc = "closing", !.camera = source]
<1>1. /\ TypeOK /\ Len(cameras) \in Nat /\ source \in 1..Len(cameras) /\ DOMAIN cameras = 1..Len(cameras)
      /\ request[r].camera \in 1..Len(cameras) /\ Owned(request[r])
  BY CamerasTyped DEF Shape, TypeOK, RequestType, Swap, At, Owned
<1>2. cameras' = cameras /\ source' = request[r].camera
  BY DEF Swap
<1>3. \A x \in Requests : request'[x] = IF x = r THEN q ELSE request[x]
  BY <1>1 DEF TypeOK, Swap
<1>4. q.pc = "closing" /\ q.camera = source /\ q.kind = "config"
  BY DEF Idle
<1> HIDE DEF q
<1>5. /\ ~cameras[source].closed /\ ~cameras[source'].closed /\ source' # source
      /\ cameras[source'].device = request[r].next.device
  BY <1>1, <1>2 DEF SourcesHeld, SourcesInOrder, InHand, Swap, At
<1>6. \A x \in Requests \ {r} : Owned(request[x]) => request[x].camera # source'
  BY <1>1, <1>2 DEF SourcesHeld, OwnersDiffer
<1>7. ASSUME NEW x \in Requests PROVE InHand(request[x])'
  <2>1. CASE x = r
    BY <1>2, <1>3, <1>4, <1>5, <2>1 DEF InHand, Owned
  <2>2. CASE x # r
    <3>1. request'[x] = request[x] /\ InHand(request[x])
      BY <1>3, <2>2 DEF SourcesHeld
    <3> QED BY <1>2, <1>6, <2>2, <3>1 DEF InHand, Owned
  <2> QED BY <2>1, <2>2
<1>8. OwnersDiffer'
  <2> SUFFICES ASSUME NEW x \in Requests, NEW y \in Requests, Owned(request'[x]), Owned(request'[y]),
                      request'[x].camera = request'[y].camera
               PROVE  x = y
    BY DEF OwnersDiffer
  <2>1. \A z \in Requests \ {r} : Owned(request'[z]) => Owned(request[z]) /\ request[z].camera # source
                                  /\ request'[z].camera = request[z].camera
    BY <1>3 DEF SourcesHeld, InHand
  <2>2. request'[r].camera = source
    BY <1>3, <1>4
  <2> QED BY <2>1, <2>2 DEF SourcesHeld, OwnersDiffer
<1>9. SourcesInOrder'
  <2>1. live'.device = request[r].next.device
    BY <1>1 DEF Swap, TypeOK, Settings
  <2>2. ~cameras'[source'].closed /\ cameras'[source'].device = live'.device
    BY <1>2, <1>5, <2>1
  <2>3. ASSUME NEW d \in DOMAIN cameras', d # source', ~cameras'[d].closed
        PROVE  \E x \in Requests : request'[x].kind = "config" /\ request'[x].camera = d
    <3>1. CASE d = source
      BY <1>3, <1>4, <3>1
    <3>2. CASE d # source
      <4>1. PICK x \in Requests : request[x].kind = "config" /\ request[x].camera = d
        BY <1>2, <2>3, <3>2 DEF SourcesHeld, SourcesInOrder
      <4> QED BY <1>2, <1>3, <2>3, <4>1
    <3> QED BY <3>1, <3>2
  <2> QED BY <2>2, <2>3 DEF SourcesInOrder
<1> QED BY <1>7, <1>8, <1>9 DEF SourcesHeld

LEMMA SourcesBoot ==
    ASSUME Shape, Dies \/ on_stall
    PROVE  SourcesHeld'
<1>1. /\ request' = [r \in Requests |-> Idle] /\ source' = 1
      /\ cameras' = <<[device |-> live'.device, closed |-> FALSE]>>
  BY DiesTyped DEF Shape, Boot, Open
<1>2. Idle.kind = "none"
  BY DEF Idle
<1>3. SourcesInOrder'
  BY <1>1 DEF SourcesInOrder
<1>4. (\A x \in Requests : InHand(request[x])') /\ OwnersDiffer'
  BY <1>1, <1>2 DEF InHand, Owned, OwnersDiffer
<1> QED BY <1>3, <1>4 DEF SourcesHeld

LEMMA SourcesInit == Init => SourcesHeld
<1> SUFFICES ASSUME Init PROVE SourcesHeld
  OBVIOUS
<1>1. /\ request = [r \in Requests |-> Idle] /\ source = 1
      /\ cameras = <<[device |-> live.device, closed |-> FALSE]>>
  BY DEF Init, Open
<1>2. Idle.kind = "none"
  BY DEF Idle
<1>3. SourcesInOrder
  BY <1>1 DEF SourcesInOrder
<1>4. (\A x \in Requests : InHand(request[x])) /\ OwnersDiffer
  BY <1>1, <1>2 DEF InHand, Owned, OwnersDiffer
<1> QED BY <1>3, <1>4 DEF SourcesHeld

LEMMA SourcesGrab ==
    ASSUME Shape, SourcesHeld, NEW t \in Threads, Grabs(t)
    PROVE  SourcesHeld'
<1>1. UNCHANGED <<cameras, source, live>>
  BY DEF Grabs, read_config, StartRead, ReadOk, ReadFails, compute_motion, Publish, edits
<1>2. request' = request \/ (t \in Requests /\ request' = [request EXCEPT ![t] = Idle] /\ grab[t].pc # "idle")
  BY DEF Grabs, read_config, StartRead, ReadOk, ReadFails, compute_motion, Publish, EndsGrab, Done, Threads
<1>3. ASSUME NEW x \in Requests, request'[x] # request[x]
      PROVE  ~Owned(request'[x]) /\ InHand(request'[x]) /\ cameras[request[x].camera].closed
  <2>1. x = t /\ request'[x] = Idle /\ At(t, "config", "grabbing")
    BY <1>2, <1>3 DEF Shape, TypeOK, GrabsAgree
  <2>2. Owned(request[x])
    BY <2>1 DEF Shape, Consistent, At, Owned
  <2> QED BY <2>1, <2>2 DEF SourcesHeld, InHand, Owned, Idle, At
<1> QED BY <1>1, <1>3, SourcesKept

LEMMA SourcesAsk ==
    ASSUME Shape, SourcesHeld, NEW r \in Requests, Asks(r)
    PROVE  SourcesHeld'
<1>1. ASSUME NEW first, Ask(r, first), ~Owned(first) PROVE SourcesHeld'
  <2>1. UNCHANGED <<cameras, source, live>> /\ request[r].pc = "idle"
        /\ \A x \in Requests : request'[x] = IF x = r THEN first ELSE request[x]
    BY <1>1 DEF Ask, edits, Shape, TypeOK
  <2>2. ~Owned(request[r])
    BY <2>1 DEF Shape, Consistent, Owned
  <2> QED BY <1>1, <2>1, <2>2, SourcesKept DEF InHand
<1>2. \A body : ~Owned([Idle EXCEPT
              !.kind = "config", !.body = body, !.cur = live,
              !.pc = IF body.device \in {Keep, live.device} THEN "assembling" ELSE "opening"])
  BY DEF Owned, Idle
<1>3. \A s : ~Owned([Idle EXCEPT !.kind = "night", !.pc = "saving", !.next = s])
  BY DEF Owned, Idle
<1>4. ~Owned([Idle EXCEPT !.kind = "lens", !.pc = "focusing", !.camera = source])
  BY DEF Owned, Idle
<1>5. ~Owned([Idle EXCEPT !.kind = "relearn", !.pc = "relearning"])
  BY DEF Owned, Idle
<1> QED BY <1>1, <1>2, <1>3, <1>4, <1>5 DEF Asks, set_config, night_light_set, autofocus, motion_reset

LEMMA SourcesServe ==
    ASSUME Shape, SourcesHeld, NEW r \in Requests, Serves(r)
    PROVE  SourcesHeld'
<1> DEFINE p == request[r]
<1>1. p \in RequestType /\ Consistent(p) /\ InHand(p) /\ request \in [Requests -> RequestType] /\ ~Owned(Idle)
  BY DEF Shape, TypeOK, SourcesHeld, Owned, Idle
(* A step to a later place of the route, with the same camera.              *)
<1>2. ASSUME UNCHANGED <<cameras, source>>, live'.device = live.device,
             NEW q, request' = [request EXCEPT ![r] = q], InHand(q),
             Owned(q) => Owned(p) /\ q.camera = p.camera,
             Owned(p) => Owned(q) \/ cameras[p.camera].closed
      PROVE  SourcesHeld'
  <2>1. \A x \in Requests : request'[x] = IF x = r THEN q ELSE request[x]
    BY <1>1, <1>2
  <2> QED BY <1>2, <2>1, SourcesKept
<1>3. ASSUME NEW pc, NEW q, q = [p EXCEPT !.pc = pc]
      PROVE  q.pc = pc /\ q.kind = p.kind /\ q.camera = p.camera /\ q.body = p.body /\ q.next = p.next
             /\ Owned(q) = Owned(p)
  BY <1>1, <1>3 DEF RequestType, Owned
<1>4. CASE OpenCandidate(r)
  BY <1>4, SourcesOpen
<1>5. CASE ProbeOk(r)
  <2> DEFINE q == [p EXCEPT !.pc = "assembling"]
  <2>1. request' = [request EXCEPT ![r] = q] /\ p.pc = "probing" /\ UNCHANGED <<cameras, source, live>>
    BY <1>5 DEF ProbeOk, Move, At, edits
  <2>2. InHand(q) /\ q.camera = p.camera /\ Owned(q) = Owned(p)
    BY <1>1, <1>3, <2>1 DEF InHand
  <2> HIDE DEF q
  <2> QED BY <1>2, <2>1, <2>2
<1>6. CASE ProbeFails(r)
  <2>1. Owned(p) /\ UNCHANGED <<source, live>>
    BY <1>1, <1>6 DEF ProbeFails, At, Consistent, Owned
  <2> QED BY <1>1, <1>6, <2>1, SourcesClose DEF ProbeFails, Done
<1>7. CASE Assemble(r)
  <2> DEFINE next == [device |-> IF p.body.device = Keep THEN p.cur.device ELSE p.body.device,
                      region |-> IF p.body.region = Keep THEN p.cur.region ELSE p.body.region,
                      lens   |-> p.cur.lens,
                      night  |-> live.night]
  <2> DEFINE q == [p EXCEPT !.pc = "saving", !.next = next]
  <2>1. request' = [request EXCEPT ![r] = q] /\ p.pc = "assembling" /\ UNCHANGED <<cameras, source, live>>
    BY <1>7 DEF Assemble, At, edits
  <2>2. Owned(p) => next.device = cameras[p.camera].device
    <3>1. Owned(p) => cameras[p.camera].device = p.body.device /\ p.camera \in 1..Len(cameras)
      BY <1>1, <2>1 DEF InHand, Owned, RequestType
    <3>2. Owned(p) => p.body.device # Keep
      BY <3>1, CamerasTyped, NamesAssumption DEF Shape
    <3> QED BY <3>1, <3>2
  <2> HIDE DEF next
  <2>3. q.pc = "saving" /\ q.camera = p.camera /\ q.kind = p.kind /\ q.next = next /\ Owned(q) = Owned(p)
    BY <1>1 DEF RequestType, Owned
  <2> HIDE DEF q
  <2>4. InHand(q)
    BY <1>1, <2>1, <2>2, <2>3 DEF InHand
  <2> QED BY <1>2, <2>1, <2>3, <2>4
<1>8. CASE FocusFound(r)
  <2> DEFINE q == [Idle EXCEPT !.kind = "lens", !.pc = "saving", !.next = [live EXCEPT !.lens = TRUE]]
  <2>1. request' = [request EXCEPT ![r] = q] /\ p.kind = "lens" /\ UNCHANGED <<cameras, source, live>>
    BY <1>8 DEF FocusFound, At, edits
  <2>2. ~Owned(q) /\ ~Owned(p)
    BY <2>1 DEF Owned, Idle
  <2> HIDE DEF q
  <2> QED BY <1>2, <2>1, <2>2 DEF InHand
<1>9. CASE FocusFails(r)
  <2>1. request' = [request EXCEPT ![r] = Idle] /\ ~Owned(p) /\ UNCHANGED <<cameras, source, live>>
    BY <1>9 DEF FocusFails, At, edits, Done, Owned
  <2> QED BY <1>1, <1>2, <2>1 DEF InHand
<1>10. CASE Truncate(r) \/ Write(r)
  <2>1. PICK pc \in {"writing", "swapping"} : request' = [request EXCEPT ![r] = [p EXCEPT !.pc = pc]]
    BY <1>10 DEF Truncate, Write, Move
  <2>2. p.pc \in {"saving", "writing"} /\ UNCHANGED <<cameras, source, live>>
    BY <1>10 DEF Truncate, Write
  <2>3. InHand([p EXCEPT !.pc = pc])
    BY <1>1, <1>3, <2>2 DEF InHand
  <2> QED BY <1>2, <1>3, <2>1, <2>2, <2>3
<1>11. CASE SaveFails(r)
  <2>1. CASE p.camera = 0
    <3>1. request' = [request EXCEPT ![r] = Idle] /\ ~Owned(p) /\ UNCHANGED <<cameras, source, live>>
      BY <1>11, <2>1 DEF SaveFails, Done, Owned
    <3> QED BY <1>1, <1>2, <3>1 DEF InHand
  <2>2. CASE p.camera # 0
    <3>1. Owned(p) /\ UNCHANGED <<source, live>>
      BY <1>1, <1>11, <2>2 DEF SaveFails, Consistent, Owned
    <3> QED BY <1>1, <1>11, <2>2, <3>1, SourcesClose DEF SaveFails, Done
  <2> QED BY <2>1, <2>2
<1>12. CASE Swap(r)
  <2>1. CASE p.camera = 0
    <3> DEFINE q == [Idle EXCEPT !.kind = "config", !.pc = "relearning"]
    <3>1. /\ request' = [request EXCEPT ![r] = q] \/ request' = [request EXCEPT ![r] = Idle]
          /\ ~Owned(p) /\ UNCHANGED <<cameras, source>>
      BY <1>12, <2>1 DEF Swap, Done, Owned
    <3>2. live'.device = live.device
      BY <1>12, <2>1 DEF Swap, Shape, TypeOK, Settings
    <3>3. ~Owned(q)
      BY DEF Owned, Idle
    <3> HIDE DEF q
    <3> QED BY <1>1, <1>2, <3>1, <3>2, <3>3 DEF InHand
  <2> QED BY <1>12, <2>1, SourcesSwap
<1>13. CASE SwapField(r)
  <2>1. request' = [request EXCEPT ![r] = Idle] /\ ~Owned(p) /\ UNCHANGED <<cameras, source>>
    BY <1>13 DEF SwapField, Done, Owned
  <2>2. live'.device = live.device
    BY <1>13 DEF SwapField, Shape, TypeOK, Settings
  <2> QED BY <1>1, <1>2, <2>1, <2>2 DEF InHand
<1>14. CASE CloseOld(r)
  <2> DEFINE q == [p EXCEPT !.pc = "relearning"]
  <2>1. request' = [request EXCEPT ![r] = q] /\ Owned(p) /\ UNCHANGED <<source, live>> /\ Close(p.camera)
    BY <1>1, <1>14 DEF CloseOld, Move, At, Owned, Consistent
  <2>2. q.camera = p.camera /\ q.pc = "relearning"
    BY <1>3
  <2> HIDE DEF q
  <2> QED BY <2>1, <2>2, SourcesClose
<1>15. CASE ResetGate(r)
  <2> DEFINE q == [p EXCEPT !.pc = "clearing"]
  <2>1. request' = [request EXCEPT ![r] = q] /\ p.pc = "relearning" /\ UNCHANGED <<cameras, source, live>>
    BY <1>15 DEF ResetGate, Move, edits
  <2>2. InHand(q) /\ q.camera = p.camera /\ Owned(q) = Owned(p)
    BY <1>1, <1>3, <2>1 DEF InHand
  <2> HIDE DEF q
  <2> QED BY <1>2, <2>1, <2>2
<1>16. CASE ClearSlot(r)
  <2> DEFINE q == [p EXCEPT !.pc = "grabbing"]
  <2>1. /\ \/ request' = [request EXCEPT ![r] = q]
           \/ ~Owned(p) /\ request' = [request EXCEPT ![r] = Idle]
        /\ p.pc = "clearing" /\ UNCHANGED <<cameras, source, live>>
    BY <1>16 DEF ClearSlot, Move, Done, Owned, edits
  <2>2. InHand(q) /\ q.camera = p.camera /\ Owned(q) = Owned(p)
    BY <1>1, <1>3, <2>1 DEF InHand
  <2> HIDE DEF q
  <2> QED BY <1>1, <1>2, <2>1, <2>2 DEF InHand
<1> QED BY <1>4, <1>5, <1>6, <1>7, <1>8, <1>9, <1>10, <1>11, <1>12, <1>13, <1>14, <1>15, <1>16 DEF Serves

LEMMA SourcesStep ==
    ASSUME Shape, SourcesHeld, [EdgeStep]_vars
    PROVE  SourcesHeld'
<1>1. CASE UNCHANGED vars
  BY <1>1, SourcesKept DEF vars
<1>2. CASE EdgeStep
  BY <1>2, Steps, SourcesGrab, SourcesAsk, SourcesServe, SourcesBoot
<1> QED BY <1>1, <1>2

-----------------------------------------------------------------------------
(* One settings change at a time.  What it drafted differs from the         *)
(* settings in force only in what it is about to swap.                      *)
IsEdit(q) == q.kind \in {"config", "lens", "night"}

Drafted(q) ==
    /\ q.pc = "writing" => file = Torn
    /\ q.pc = "swapping" => file = q.next /\ ~unsaved
    /\ q.kind = "config" =>
         /\ q.pc \in {"opening", "probing", "assembling", "saving", "writing", "swapping"} => q.cur = live
         /\ q.pc = "assembling" /\ q.camera = 0 => q.body.device \in {Keep, live.device}
         /\ q.pc \in {"saving", "writing", "swapping"} =>
              /\ q.next.lens = live.lens /\ q.next.night = live.night
              /\ q.camera = 0 => q.next.device = live.device
              /\ q.body.region \in {Keep, live.region} => q.next.region = live.region
    /\ q.kind \in {"lens", "night"} /\ q.pc \in {"saving", "writing", "swapping"} =>
         /\ q.next.device = live.device /\ q.next.region = live.region
         /\ q.kind = "lens" => q.next.night = live.night
         /\ q.kind = "night" => q.next.lens = live.lens

OneEditor == \A r, q \in Requests : Editing(r) /\ Editing(q) => r = q

Rewriting(q) == IsEdit(q) /\ q.pc \in {"writing", "swapping"}

FileInStep ==
    ~overlapped =>
        /\ OneEditor
        /\ \A r \in Requests : Editing(r) => Drafted(request[r])
        /\ ~unsaved /\ (\A r \in Requests : ~Rewriting(request[r])) => load_settings(file) = live

LEMMA Edits == \A r \in Requests : Editing(r) <=> IsEdit(request[r])
BY DEF Editing, IsEdit

(* A step that leaves file and settings alone.                              *)
LEMMA FileKept ==
    ASSUME FileInStep, UNCHANGED <<file, live, unsaved>>, overlapped => overlapped',
           \A x \in Requests :
              \/ request'[x] = request[x]
              \/ /\ ~Rewriting(request[x])
                 /\ IsEdit(request'[x]) => IsEdit(request[x]) /\ (Drafted(request[x]) => Drafted(request'[x]))
    PROVE  FileInStep'
<1> SUFFICES ASSUME ~overlapped' PROVE FileInStep'
  BY DEF FileInStep
<1>1. ~overlapped /\ OneEditor
  BY DEF FileInStep
<1>2. \A x \in Requests : Editing(x)' => Editing(x)
  BY Edits DEF Editing, IsEdit
<1>3. OneEditor'
  BY <1>1, <1>2 DEF OneEditor
<1>4. \A x \in Requests : Editing(x)' => Drafted(request'[x])
  BY <1>1, <1>2, Edits DEF FileInStep, Editing, IsEdit
<1>5. \A x \in Requests : Drafted(request[x])' <=> Drafted(request'[x])
  BY DEF Drafted
<1>6. (\A x \in Requests : ~Rewriting(request'[x])) => \A x \in Requests : ~Rewriting(request[x])
  OBVIOUS
<1>7. (\A x \in Requests : ~Rewriting(request[x])' <=> ~Rewriting(request'[x])) /\ load_settings(file)' = load_settings(file)
  BY DEF Rewriting, load_settings, IsEdit
<1> QED BY <1>1, <1>3, <1>4, <1>5, <1>6, <1>7 DEF FileInStep

(* A step of the one editor, which is the only request that holds a draft.  *)
LEMMA FileEdited ==
    ASSUME Shape, FileInStep, ~overlapped => ~overlapped', NEW r \in Requests, Editing(r),
           NEW q, request' = [request EXCEPT ![r] = q],
           ~overlapped => /\ IsEdit(q) => Drafted(q)'
                          /\ ~unsaved' /\ ~Rewriting(q) => load_settings(file') = live',
           overlapped => overlapped'
    PROVE  FileInStep'
<1> SUFFICES ASSUME ~overlapped' PROVE FileInStep'
  BY DEF FileInStep
<1>1. ~overlapped /\ OneEditor /\ \A x \in Requests : request'[x] = IF x = r THEN q ELSE request[x]
  BY DEF FileInStep, Shape, TypeOK
<1>2. \A x \in Requests : x # r => ~Editing(x) /\ ~Editing(x)'
  BY <1>1 DEF OneEditor, Editing
<1>3. OneEditor'
  BY <1>2 DEF OneEditor
<1>4. \A x \in Requests : Editing(x)' => Drafted(request[x])'
  <2> SUFFICES ASSUME NEW x \in Requests, Editing(x)' PROVE Drafted(request[x])'
    OBVIOUS
  <2>1. x = r /\ request'[x] = q
    BY <1>1, <1>2
  <2>2. IsEdit(q)
    BY <2>1 DEF Editing, IsEdit
  <2>3. Drafted(q)'
    BY <1>1, <2>2
  <2> QED BY <2>1, <2>3 DEF Drafted
<1>5. ASSUME ~unsaved', \A x \in Requests : ~Rewriting(request[x])'
      PROVE  load_settings(file)' = live'
  <2>1. ~Rewriting(q)
    BY <1>1, <1>5 DEF Rewriting, IsEdit
  <2> QED BY <1>1, <1>5, <2>1 DEF load_settings
<1> QED BY <1>3, <1>4, <1>5 DEF FileInStep

LEMMA FileBoot ==
    ASSUME Shape, Dies \/ on_stall
    PROVE  FileInStep'
<1>1. Boot
  BY DiesTyped DEF Shape
<1>2. Idle.kind = "none" /\ \A x \in Requests : request'[x] = Idle
  BY <1>1 DEF Boot, Idle
<1>3. \A x \in Requests : ~Editing(x)'
  BY <1>2 DEF Editing
<1> QED BY <1>1, <1>3 DEF FileInStep, OneEditor, Boot, load_settings

LEMMA FileGrab ==
    ASSUME Shape, FileInStep, NEW t \in Threads, Grabs(t)
    PROVE  FileInStep'
<1>1. UNCHANGED <<file, live, unsaved, overlapped>>
  BY DEF Grabs, read_config, StartRead, ReadOk, ReadFails, compute_motion, Publish, edits, history
<1>2. request' = request \/ (t \in Requests /\ request' = [request EXCEPT ![t] = Idle] /\ grab[t].pc # "idle")
  BY DEF Grabs, read_config, StartRead, ReadOk, ReadFails, compute_motion, Publish, EndsGrab, Done, Threads
<1>3. ASSUME NEW x \in Requests, request'[x] # request[x]
      PROVE  ~Rewriting(request[x]) /\ ~IsEdit(request'[x])
  <2>1. x = t /\ request'[x] = Idle /\ At(t, "config", "grabbing")
    BY <1>2, <1>3 DEF Shape, TypeOK, GrabsAgree
  <2> QED BY <2>1 DEF Rewriting, IsEdit, Idle, At
<1> QED BY <1>1, <1>3, FileKept

LEMMA FileAsk ==
    ASSUME Shape, FileInStep, NEW r \in Requests, Asks(r)
    PROVE  FileInStep'
<1>1. ASSUME NEW first, Ask(r, first), first.pc \notin {"writing", "swapping"},
             \/ first.kind = "relearn"
             \/ first.kind \in {"config", "lens", "night"} /\ Drafted(first)
      PROVE  FileInStep'
  <2>1. /\ UNCHANGED <<file, live, unsaved>> /\ request[r].pc = "idle" /\ overlapped \in BOOLEAN
        /\ \A x \in Requests : request'[x] = IF x = r THEN first ELSE request[x]
        /\ overlapped' = (overlapped \/ (first.kind # "relearn" /\ \E q \in Requests : Editing(q)))
    BY <1>1 DEF Ask, edits, Shape, TypeOK
  <2>2. ~IsEdit(request[r])
    BY <2>1 DEF Shape, Consistent, IsEdit
  <2>3. CASE first.kind = "relearn"
    BY <1>1, <2>1, <2>2, <2>3, FileKept DEF IsEdit, Rewriting
  <2>4. CASE first.kind # "relearn"
    <3> SUFFICES ASSUME ~overlapped' PROVE FileInStep'
      BY DEF FileInStep
    <3>1. ~overlapped /\ \A x \in Requests : ~Editing(x)
      BY <2>1, <2>4
    <3>2. \A x \in Requests : Editing(x)' => x = r
      BY <2>1, <3>1 DEF Editing
    <3>3. OneEditor'
      BY <3>2 DEF OneEditor
    <3>4. Drafted(first)' <=> Drafted(first)
      BY <2>1 DEF Drafted
    <3>5. \A x \in Requests : Editing(x)' => Drafted(request[x])'
      BY <1>1, <2>1, <2>4, <3>2, <3>4 DEF Drafted
    <3>6. \A x \in Requests : ~Rewriting(request[x])
      BY <3>1, Edits DEF Rewriting
    <3> QED BY <2>1, <3>1, <3>3, <3>5, <3>6 DEF FileInStep, load_settings
  <2> QED BY <2>3, <2>4
<1>2. ASSUME NEW body \in Bodies, set_config(r, body) PROVE FileInStep'
  <2> DEFINE first == [Idle EXCEPT
              !.kind = "config", !.body = body, !.cur = live,
              !.pc = IF body.device \in {Keep, live.device} THEN "assembling" ELSE "opening"]
  <2>1. /\ first.kind = "config" /\ first.camera = 0 /\ first.body = body /\ first.cur = live
        /\ first.pc = IF body.device \in {Keep, live.device} THEN "assembling" ELSE "opening"
    BY DEF Idle
  <2>2. Ask(r, first)
    BY <1>2 DEF set_config
  <2> HIDE DEF first
  <2>3. Drafted(first) /\ first.pc \notin {"writing", "swapping"}
    BY <2>1 DEF Drafted
  <2> QED BY <1>1, <2>1, <2>2, <2>3
<1>3. ASSUME NEW night \in Nights, night_light_set(r, night) PROVE FileInStep'
  <2> DEFINE next == [live EXCEPT !.night = night]
  <2> DEFINE first == [Idle EXCEPT !.kind = "night", !.pc = "saving", !.next = next]
  <2>1. next.device = live.device /\ next.region = live.region /\ next.lens = live.lens
    BY DEF Shape, TypeOK, Settings
  <2>2. Ask(r, first)
    BY <1>3 DEF night_light_set
  <2> HIDE DEF next
  <2>3. first.kind = "night" /\ first.pc = "saving" /\ first.next = next
    BY DEF Idle
  <2> HIDE DEF first
  <2>4. Drafted(first)
    BY <2>1, <2>3 DEF Drafted
  <2> QED BY <1>1, <2>2, <2>3, <2>4
<1>4. ASSUME autofocus(r) PROVE FileInStep'
  <2> DEFINE first == [Idle EXCEPT !.kind = "lens", !.pc = "focusing", !.camera = source]
  <2>1. first.kind = "lens" /\ first.pc = "focusing" /\ Ask(r, first)
    BY <1>4 DEF Idle, autofocus
  <2> HIDE DEF first
  <2> QED BY <1>1, <2>1 DEF Drafted
<1>5. ASSUME motion_reset(r) PROVE FileInStep'
  <2> DEFINE first == [Idle EXCEPT !.kind = "relearn", !.pc = "relearning"]
  <2>1. first.kind = "relearn" /\ first.pc = "relearning" /\ Ask(r, first)
    BY <1>5 DEF Idle, motion_reset
  <2> HIDE DEF first
  <2> QED BY <1>1, <2>1
<1> QED BY <1>2, <1>3, <1>4, <1>5 DEF Asks

LEMMA SameSettings ==
    \A a, b \in Settings : a.device = b.device /\ a.region = b.region /\ a.lens = b.lens /\ a.night = b.night
                           => a = b
BY DEF Settings

LEMMA FileServe ==
    ASSUME Shape, FileInStep, NEW r \in Requests, Serves(r)
    PROVE  FileInStep'
<1> DEFINE p == request[r]
<1>1. /\ p \in RequestType /\ Consistent(p) /\ request \in [Requests -> RequestType]
      /\ live \in Settings /\ file \in Settings \cup {Torn} /\ ~IsEdit(Idle)
  BY DEF Shape, TypeOK, IsEdit, Idle
<1>2. ~overlapped /\ IsEdit(p) => Drafted(p)
  BY Edits DEF FileInStep
<1>3. ASSUME NEW pc, NEW q, q = [p EXCEPT !.pc = pc]
      PROVE  q.pc = pc /\ q.kind = p.kind /\ q.camera = p.camera /\ q.body = p.body /\ q.next = p.next
             /\ q.cur = p.cur
  BY <1>1, <1>3 DEF RequestType
(* A step on the way to the file, or after the swap.                        *)
<1>4. ASSUME UNCHANGED <<file, live, unsaved, overlapped>>, NEW q, request' = [request EXCEPT ![r] = q],
             ~Rewriting(p), IsEdit(q) => IsEdit(p) /\ (Drafted(p) => Drafted(q))
      PROVE  FileInStep'
  <2>1. \A x \in Requests : request'[x] = IF x = r THEN q ELSE request[x]
    BY <1>1, <1>4
  <2> QED BY <1>4, <2>1, FileKept
<1>5. CASE OpenCandidate(r)
  <2> DEFINE q == [p EXCEPT !.pc = "probing", !.camera = Len(cameras) + 1]
  <2>1. request' = [request EXCEPT ![r] = q] /\ p.pc = "opening" /\ p.kind = "config"
        /\ UNCHANGED <<file, live, unsaved, overlapped>>
    BY <1>5 DEF OpenCandidate, At, history
  <2>2. q.pc = "probing" /\ q.kind = p.kind /\ q.cur = p.cur
    BY <1>1 DEF RequestType
  <2> HIDE DEF q
  <2>3. ~Rewriting(p) /\ IsEdit(p) /\ (Drafted(p) => Drafted(q))
    BY <2>1, <2>2 DEF Rewriting, IsEdit, Drafted
  <2> QED BY <1>4, <2>1, <2>3
<1>6. CASE ProbeOk(r)
  <2> DEFINE q == [p EXCEPT !.pc = "assembling"]
  <2>1. request' = [request EXCEPT ![r] = q] /\ p.pc = "probing" /\ p.kind = "config"
        /\ UNCHANGED <<file, live, unsaved, overlapped>>
    BY <1>6 DEF ProbeOk, Move, At, edits, history
  <2>2. q.pc = "assembling" /\ q.kind = p.kind /\ q.cur = p.cur /\ q.camera # 0
    BY <1>1, <1>3, <2>1 DEF Consistent
  <2> HIDE DEF q
  <2>3. ~Rewriting(p) /\ IsEdit(p) /\ (Drafted(p) => Drafted(q))
    BY <2>1, <2>2 DEF Rewriting, IsEdit, Drafted
  <2> QED BY <1>4, <2>1, <2>3
<1>7. CASE ProbeFails(r) \/ FocusFails(r)
  <2>1. request' = [request EXCEPT ![r] = Idle] /\ ~Rewriting(p) /\ UNCHANGED <<file, live, unsaved, overlapped>>
    BY <1>7 DEF ProbeFails, FocusFails, Done, At, edits, history, Rewriting
  <2> QED BY <1>1, <1>4, <2>1
<1>8. CASE Assemble(r)
  <2> DEFINE next == [device |-> IF p.body.device = Keep THEN p.cur.device ELSE p.body.device,
                      region |-> IF p.body.region = Keep THEN p.cur.region ELSE p.body.region,
                      lens   |-> p.cur.lens,
                      night  |-> live.night]
  <2> DEFINE q == [p EXCEPT !.pc = "saving", !.next = next]
  <2>1. request' = [request EXCEPT ![r] = q] /\ p.pc = "assembling" /\ p.kind = "config"
        /\ UNCHANGED <<file, live, unsaved, overlapped>>
    BY <1>8 DEF Assemble, At, edits, history
  <2>2. Drafted(p) => /\ next.lens = live.lens /\ next.night = live.night
                      /\ p.camera = 0 => next.device = live.device
                      /\ p.body.region \in {Keep, live.region} => next.region = live.region
    BY <2>1 DEF Drafted
  <2> HIDE DEF next
  <2>3. q.pc = "saving" /\ q.camera = p.camera /\ q.kind = p.kind /\ q.next = next /\ q.cur = p.cur /\ q.body = p.body
    BY <1>1 DEF RequestType
  <2> HIDE DEF q
  <2>4. ~Rewriting(p) /\ IsEdit(p) /\ (Drafted(p) => Drafted(q))
    BY <2>1, <2>2, <2>3 DEF Rewriting, IsEdit, Drafted
  <2> QED BY <1>4, <2>1, <2>4
<1>9. CASE FocusFound(r)
  <2> DEFINE next == [live EXCEPT !.lens = TRUE]
  <2> DEFINE q == [Idle EXCEPT !.kind = "lens", !.pc = "saving", !.next = next]
  <2>1. request' = [request EXCEPT ![r] = q] /\ p.pc = "focusing" /\ p.kind = "lens"
        /\ UNCHANGED <<file, live, unsaved, overlapped>>
    BY <1>9 DEF FocusFound, At, edits, history
  <2>2. next.device = live.device /\ next.region = live.region /\ next.night = live.night
    BY <1>1 DEF Settings
  <2> HIDE DEF next
  <2>3. q.pc = "saving" /\ q.kind = "lens" /\ q.next = next
    BY DEF Idle
  <2> HIDE DEF q
  <2>4. ~Rewriting(p) /\ IsEdit(p) /\ Drafted(q)
    BY <2>1, <2>2, <2>3 DEF Rewriting, IsEdit, Drafted
  <2> QED BY <1>4, <2>1, <2>4
<1>10. CASE Truncate(r)
  <2>0. PICK q : q = [p EXCEPT !.pc = "writing"]
    OBVIOUS
  <2>1. request' = [request EXCEPT ![r] = q] /\ p.pc = "saving" /\ IsEdit(p)
        /\ UNCHANGED <<live, unsaved, overlapped>> /\ file' = Torn
    BY <1>1, <2>0, <1>10 DEF Truncate, Move, history, Consistent, IsEdit
  <2>2. q.pc = "writing" /\ q.kind = p.kind /\ q.cur = p.cur /\ q.camera = p.camera /\ q.body = p.body /\ q.next = p.next
    BY <1>3, <2>0
  <2>3. Rewriting(q) /\ (Drafted(p) => Drafted(q)')
    BY <2>1, <2>2 DEF Rewriting, IsEdit, Drafted
  <2> QED BY <1>2, <2>1, <2>3, Edits, FileEdited
<1>11. CASE Write(r)
  <2>0. PICK q : q = [p EXCEPT !.pc = "swapping"]
    OBVIOUS
  <2>1. request' = [request EXCEPT ![r] = q] /\ p.pc = "writing" /\ IsEdit(p)
        /\ UNCHANGED <<live, overlapped>> /\ ~unsaved' /\ (file = Torn => file' = p.next)
    BY <1>1, <2>0, <1>11 DEF Write, Move, Consistent, IsEdit
  <2>2. q.pc = "swapping" /\ q.kind = p.kind /\ q.cur = p.cur /\ q.camera = p.camera /\ q.body = p.body /\ q.next = p.next
    BY <1>3, <2>0
  <2>3. Rewriting(q) /\ (Drafted(p) => Drafted(q)')
    BY <2>1, <2>2 DEF Rewriting, IsEdit, Drafted
  <2> QED BY <1>2, <2>1, <2>3, Edits, FileEdited
<1>12. CASE SaveFails(r)
  <2>1. request' = [request EXCEPT ![r] = Idle] /\ unsaved' = TRUE /\ UNCHANGED overlapped /\ IsEdit(p)
    BY <1>1, <1>12 DEF SaveFails, Done, Consistent, IsEdit
  <2> QED BY <1>1, <2>1, Edits, FileEdited
(* A swap puts in force what the file holds.                                *)
<1>13. ASSUME p.pc = "swapping", UNCHANGED <<file, unsaved, overlapped>>, live' \in Settings,
              NEW q, request' = [request EXCEPT ![r] = q], q.pc \notin {"writing", "swapping"},
              IsEdit(q) => q.kind = "config" /\ q.pc \in {"closing", "relearning"},
              Drafted(p) => /\ live'.device = p.next.device /\ live'.region = p.next.region
                            /\ live'.lens = p.next.lens /\ live'.night = p.next.night
       PROVE  FileInStep'
  <2>1. IsEdit(p) /\ p.next \in Settings
    BY <1>1, <1>13 DEF Consistent, IsEdit, RequestType
  <2>2. Drafted(p) => file = live' /\ file # Torn
    BY <1>13, <2>1, SameSettings, NamesAssumption DEF Drafted
  <2>3. IsEdit(q) => Drafted(q)'
    BY <1>13 DEF Drafted
  <2>4. Drafted(p) => load_settings(file') = live'
    BY <1>13, <2>2 DEF load_settings
  <2> QED BY <1>2, <1>13, <2>1, <2>3, <2>4, Edits, FileEdited
<1>14. CASE Swap(r)
  <2>1. /\ p.pc = "swapping" /\ p.kind = "config" /\ UNCHANGED <<file, unsaved, overlapped>>
        /\ live' = [live EXCEPT !.region = p.next.region, !.lens = p.next.lens,
                                !.device = IF p.camera = 0 THEN @ ELSE p.next.device]
    BY <1>14 DEF Swap, At, history
  <2>2. /\ live' \in Settings /\ live'.region = p.next.region /\ live'.lens = p.next.lens
        /\ live'.device = IF p.camera = 0 THEN live.device ELSE p.next.device
        /\ live'.night = live.night
    BY <1>1, <2>1 DEF RequestType, Settings
  <2>3. Drafted(p) => live'.device = p.next.device /\ live'.night = p.next.night
    BY <2>1, <2>2 DEF Drafted
  <2>4. PICK q : /\ request' = [request EXCEPT ![r] = q] /\ q.pc \notin {"writing", "swapping"}
                 /\ IsEdit(q) => q.kind = "config" /\ q.pc \in {"closing", "relearning"}
    <3> DEFINE q1 == [Idle EXCEPT !.kind = "config", !.pc = "closing", !.camera = source]
    <3> DEFINE q2 == [Idle EXCEPT !.kind = "config", !.pc = "relearning"]
    <3>1. request' = [request EXCEPT ![r] = q1] \/ request' = [request EXCEPT ![r] = q2]
          \/ request' = [request EXCEPT ![r] = Idle]
      BY <1>14 DEF Swap, Done
    <3>2. q1.kind = "config" /\ q1.pc = "closing" /\ q2.kind = "config" /\ q2.pc = "relearning" /\ Idle.pc = "idle"
      BY DEF Idle
    <3> HIDE DEF q1, q2
    <3>3. CASE request' = [request EXCEPT ![r] = q1]
      BY <3>2, <3>3
    <3>4. CASE request' = [request EXCEPT ![r] = q2]
      BY <3>2, <3>4
    <3>5. CASE request' = [request EXCEPT ![r] = Idle]
      BY <1>1, <3>2, <3>5
    <3> QED BY <3>1, <3>3, <3>4, <3>5
  <2> QED BY <1>13, <2>1, <2>2, <2>3, <2>4
<1>15. CASE SwapField(r)
  <2>1. /\ p.pc = "swapping" /\ UNCHANGED <<file, unsaved, overlapped>> /\ p.kind \in {"lens", "night"}
        /\ live' = IF p.kind = "lens" THEN [live EXCEPT !.lens = p.next.lens]
                   ELSE [live EXCEPT !.night = p.next.night]
        /\ request' = [request EXCEPT ![r] = Idle]
    BY <1>15 DEF SwapField, Done, history
  <2>2. /\ live' \in Settings /\ live'.region = live.region /\ live'.device = live.device
        /\ live'.lens = IF p.kind = "lens" THEN p.next.lens ELSE live.lens
        /\ live'.night = IF p.kind = "lens" THEN live.night ELSE p.next.night
    BY <1>1, <2>1 DEF RequestType, Settings
  <2>3. Drafted(p) => /\ live'.device = p.next.device /\ live'.region = p.next.region
                      /\ live'.lens = p.next.lens /\ live'.night = p.next.night
    BY <2>1, <2>2 DEF Drafted
  <2>4. Idle.pc = "idle"
    BY DEF Idle
  <2> QED BY <1>1, <1>13, <2>1, <2>2, <2>3, <2>4
<1>16. CASE CloseOld(r) \/ ResetGate(r)
  <2>1. PICK pc \in {"relearning", "clearing"} : request' = [request EXCEPT ![r] = [p EXCEPT !.pc = pc]]
    BY <1>16 DEF CloseOld, ResetGate, Move
  <2>2. p.pc \in {"closing", "relearning"} /\ UNCHANGED <<file, live, unsaved, overlapped>>
    BY <1>16 DEF CloseOld, ResetGate, At, edits, history
  <2> DEFINE q == [p EXCEPT !.pc = pc]
  <2>3. q.pc = pc /\ q.kind = p.kind
    BY <1>3
  <2> HIDE DEF q
  <2>4. ~Rewriting(p) /\ (IsEdit(q) => IsEdit(p)) /\ Drafted(q)
    BY <2>1, <2>2, <2>3 DEF Rewriting, IsEdit, Drafted
  <2>5. request' = [request EXCEPT ![r] = q]
    BY <2>1 DEF q
  <2> QED BY <1>4, <2>2, <2>4, <2>5
<1>17. CASE ClearSlot(r)
  <2> DEFINE q == [p EXCEPT !.pc = "grabbing"]
  <2>1. /\ request' = [request EXCEPT ![r] = q] \/ request' = [request EXCEPT ![r] = Idle]
        /\ p.pc = "clearing" /\ UNCHANGED <<file, live, unsaved, overlapped>>
    BY <1>17 DEF ClearSlot, Move, Done, edits, history
  <2>2. q.pc = "grabbing" /\ q.kind = p.kind
    BY <1>3
  <2> HIDE DEF q
  <2>3. ~Rewriting(p) /\ (IsEdit(q) => IsEdit(p)) /\ Drafted(q)
    BY <2>1, <2>2 DEF Rewriting, IsEdit, Drafted
  <2> QED BY <1>1, <1>4, <2>1, <2>3
<1> QED BY <1>5, <1>6, <1>7, <1>8, <1>9, <1>10, <1>11, <1>12, <1>14, <1>15, <1>16, <1>17 DEF Serves

LEMMA FileStep ==
    ASSUME Shape, FileInStep, [EdgeStep]_vars
    PROVE  FileInStep'
<1>1. CASE UNCHANGED vars
  BY <1>1, FileKept DEF vars
<1>2. CASE EdgeStep
  BY <1>2, Steps, FileGrab, FileAsk, FileServe, FileBoot
<1> QED BY <1>1, <1>2

LEMMA FileInit == Init => FileInStep
<1> SUFFICES ASSUME Init PROVE FileInStep
  OBVIOUS
<1>1. \A x \in Requests : ~Editing(x)
  BY DEF Init, Editing, Idle
<1>2. load_settings(file) = live
  BY DEF Init, load_settings
<1> QED BY <1>1, <1>2 DEF FileInStep, OneEditor

-----------------------------------------------------------------------------
(* Which views the gate and the slot hold.  While a change of view is on    *)
(* its way to the gate and the slot they may hold others.                   *)
GateOpen == \E r \in Requests : Editing(r) /\ request[r].pc \in {"closing", "relearning"}
SlotOpen == \E r \in Requests : Editing(r) /\ request[r].pc \in {"closing", "relearning", "clearing"}

GateKept ==
    \/ "gate" \in straddled
    \/ /\ learned \subseteq {LiveView}
       /\ \A t \in Threads : grab[t].pc \in {"configured", "reading", "read"} => View(grab[t]) = LiveView

SlotKept ==
    \/ "slot" \in straddled
    \/ /\ slot.box \in {None, LiveView}
       /\ \A t \in Threads :
            grab[t].pc \in {"configured", "reading", "read", "computed"} => View(grab[t]) = LiveView

Boxes == \A t \in Threads : grab[t].pc = "computed" => grab[t].box \in {None, View(grab[t])}

ViewInStep ==
    /\ Boxes
    /\ ~overlapped => (GateOpen \/ GateKept) /\ (SlotOpen \/ SlotKept)

DevicesKept ==
    \A c \in 1..Len(cameras) : cameras'[c].device = cameras[c].device

LEMMA DevicesServe ==
    ASSUME Shape, NEW r \in Requests, Serves(r)
    PROVE  DevicesKept
<1>1. TypeOK /\ request[r] \in RequestType /\ Consistent(request[r])
  BY DEF Shape, TypeOK
<1>2. \/ cameras' = cameras
      \/ \E c \in 1..Len(cameras) : Close(c)
      \/ \E d \in Devices : cameras' = Append(cameras, Open(d))
  <2>1. CASE OpenCandidate(r)
    <3>1. request[r].body.device \in Devices
      BY <1>1, <2>1 DEF OpenCandidate, At, Consistent, RequestType
    <3> QED BY <2>1, <3>1 DEF OpenCandidate
  <2>2. CASE ProbeFails(r) \/ SaveFails(r) \/ CloseOld(r)
    <3>1. request[r].camera = 0 \/ request[r].camera \in 1..Len(cameras)
      BY <1>1 DEF RequestType
    <3>2. cameras' = cameras \/ (request[r].camera # 0 /\ Close(request[r].camera))
      BY <1>1, <2>2 DEF ProbeFails, SaveFails, CloseOld, At, Consistent
    <3> QED BY <3>1, <3>2
  <2> QED BY <2>1, <2>2 DEF Serves, ProbeOk, Assemble, FocusFound, FocusFails, Truncate, Write, Swap,
                            SwapField, ResetGate, ClearSlot, edits
<1>3. CASE \E c \in 1..Len(cameras) : Close(c)
  BY <1>1, <1>3, CloseTyped DEF DevicesKept
<1>4. CASE \E d \in Devices : cameras' = Append(cameras, Open(d))
  BY <1>1, <1>4, OpenTyped DEF DevicesKept
<1> QED BY <1>2, <1>3, <1>4 DEF DevicesKept

(* What a grab under way shows does not change with the settings.           *)
LEMMA ViewsKept ==
    ASSUME Shape, DevicesKept, UNCHANGED grab
    PROVE  \A t \in Threads : grab[t].pc # "idle" => View(grab[t])' = View(grab[t])
<1> SUFFICES ASSUME NEW t \in Threads, grab[t].pc # "idle" PROVE View(grab[t])' = View(grab[t])
  OBVIOUS
<1>1. grab[t] \in GrabType /\ grab[t].camera # 0 /\ TypeOK
  BY DEF Shape, TypeOK, GrabsAgree
<1>2. grab[t].camera \in 1..Len(cameras)
  BY <1>1, CamerasTyped
<1> QED BY <1>2 DEF DevicesKept, View

LEMMA LiveViewKept ==
    ASSUME Shape, DevicesKept, source' = source, live'.region = live.region
    PROVE  LiveView' = LiveView
BY CamerasTyped DEF Shape, DevicesKept, LiveView

(* A step of a request, short of relearning.                                *)
LEMMA ViewKept ==
    ASSUME Shape, ViewInStep, DevicesKept, UNCHANGED <<grab, learned, slot, straddled>>,
           GateOpen => GateOpen', SlotOpen => SlotOpen', overlapped => overlapped',
           ~overlapped' => LiveView' = LiveView \/ (GateOpen' /\ SlotOpen')
    PROVE  ViewInStep'
<1>1. \A t \in Threads : grab[t].pc # "idle" => View(grab[t])' = View(grab[t])
  BY ViewsKept
<1>2. Boxes'
  <2> SUFFICES ASSUME NEW t \in Threads, grab'[t].pc = "computed"
               PROVE  grab'[t].box \in {None, View(grab[t])'}
    BY DEF Boxes
  <2> QED BY <1>1 DEF ViewInStep, Boxes
<1>3. ASSUME LiveView' = LiveView, GateKept PROVE GateKept'
  BY <1>1, <1>3 DEF GateKept
<1>4. ASSUME LiveView' = LiveView, SlotKept PROVE SlotKept'
  BY <1>1, <1>4 DEF SlotKept
<1> QED BY <1>2, <1>3, <1>4 DEF ViewInStep

LEMMA ViewServe ==
    ASSUME Shape, FileInStep, ViewInStep, NEW r \in Requests, Serves(r)
    PROVE  ViewInStep'
<1> DEFINE p == request[r]
<1>1. /\ p \in RequestType /\ Consistent(p) /\ request \in [Requests -> RequestType] /\ DevicesKept
      /\ live \in Settings
  BY DevicesServe DEF Shape, TypeOK
(* A step that leaves the view in force, and does not leave its relearning. *)
<1>2. ASSUME UNCHANGED <<grab, learned, slot, straddled, source, overlapped>>, live'.region = live.region,
             NEW q, request' = [request EXCEPT ![r] = q],
             p.pc \in {"closing", "relearning", "clearing"} => q.kind = p.kind /\ q.pc \in {"closing", "relearning"}
      PROVE  ViewInStep'
  <2>1. \A x \in Requests : request'[x] = IF x = r THEN q ELSE request[x]
    BY <1>1, <1>2
  <2>2. (GateOpen => GateOpen') /\ (SlotOpen => SlotOpen')
    BY <1>2, <2>1 DEF GateOpen, SlotOpen, Editing
  <2>3. LiveView' = LiveView
    BY <1>1, <1>2, LiveViewKept
  <2> QED BY <1>1, <1>2, <2>2, <2>3, ViewKept
<1>3. ASSUME \/ OpenCandidate(r) \/ ProbeOk(r) \/ ProbeFails(r) \/ Assemble(r) \/ FocusFound(r)
             \/ FocusFails(r) \/ Truncate(r) \/ Write(r) \/ SaveFails(r) \/ SwapField(r)
      PROVE  ViewInStep'
  <2>1. /\ UNCHANGED <<grab, learned, slot, straddled, source, overlapped>>
        /\ p.pc \notin {"closing", "relearning", "clearing"}
    BY <1>3 DEF OpenCandidate, ProbeOk, ProbeFails, Assemble, FocusFound, FocusFails, Truncate, Write,
                SaveFails, SwapField, At, edits, motion, history
  <2>2. live' = live \/ live'.region = live.region
    BY <1>1, <1>3 DEF OpenCandidate, ProbeOk, ProbeFails, Assemble, FocusFound, FocusFails, Truncate, Write,
                SaveFails, SwapField, edits, Settings
  <2>3. \E q : request' = [request EXCEPT ![r] = q]
    BY <1>3 DEF OpenCandidate, ProbeOk, ProbeFails, Assemble, FocusFound, FocusFails, Truncate, Write,
                SaveFails, SwapField, Move, Done
  <2> QED BY <1>2, <2>1, <2>2, <2>3
<1>4. CASE Swap(r)
  <2>1. /\ UNCHANGED <<grab, learned, slot, straddled, overlapped>> /\ p.pc = "swapping" /\ p.kind = "config"
        /\ live'.region = p.next.region
    BY <1>1, <1>4 DEF Swap, At, motion, history, Settings
  <2>2. CASE p.camera # 0 \/ RegionChanged(r)
    <3> DEFINE q1 == [Idle EXCEPT !.kind = "config", !.pc = "closing", !.camera = source]
    <3> DEFINE q2 == [Idle EXCEPT !.kind = "config", !.pc = "relearning"]
    <3>1. request' = [request EXCEPT ![r] = q1] \/ request' = [request EXCEPT ![r] = q2]
      BY <1>4, <2>2 DEF Swap
    <3>2. q1.kind = "config" /\ q1.pc = "closing" /\ q2.kind = "config" /\ q2.pc = "relearning"
      BY DEF Idle
    <3> HIDE DEF q1, q2
    <3>3. request'[r].kind = "config" /\ request'[r].pc \in {"closing", "relearning"}
      BY <1>1, <3>1, <3>2
    <3>4. GateOpen' /\ SlotOpen'
      BY <3>3 DEF GateOpen, SlotOpen, Editing
    <3> QED BY <1>1, <2>1, <3>4, ViewKept
  <2>3. CASE p.camera = 0 /\ ~RegionChanged(r)
    <3>1. source' = source /\ request' = [request EXCEPT ![r] = Idle]
      BY <1>4, <2>3 DEF Swap, Done
    <3>2. ~overlapped => live'.region = live.region
      <4>1. Editing(r) /\ p.body.region \in {Keep, p.cur.region}
        BY <2>1, <2>3 DEF Editing, RegionChanged
      <4> QED BY <2>1, <4>1 DEF FileInStep, Drafted
    <3>3. CASE ~overlapped
      BY <1>2, <2>1, <3>1, <3>2, <3>3
    <3>4. CASE overlapped
      <4>1. \A x \in Requests : request'[x] = IF x = r THEN Idle ELSE request[x]
        BY <1>1, <3>1
      <4>2. (GateOpen => GateOpen') /\ (SlotOpen => SlotOpen')
        BY <2>1, <4>1 DEF GateOpen, SlotOpen, Editing
      <4>3. overlapped'
        BY <2>1, <3>4
      <4> QED BY <1>1, <2>1, <4>2, <4>3, ViewKept
    <3> QED BY <3>3, <3>4
  <2> QED BY <2>2, <2>3
<1>5. CASE CloseOld(r)
  <2> DEFINE q == [p EXCEPT !.pc = "relearning"]
  <2>1. /\ UNCHANGED <<grab, learned, slot, straddled, source, live, overlapped>>
        /\ request' = [request EXCEPT ![r] = q]
    BY <1>5 DEF CloseOld, Move, motion, history
  <2>2. q.pc = "relearning" /\ q.kind = p.kind
    BY <1>1 DEF RequestType
  <2> HIDE DEF q
  <2> QED BY <1>2, <2>1, <2>2
(* The gate forgets what it saw; the slot follows.                          *)
<1>6. ASSUME ResetGate(r) \/ ClearSlot(r)
      PROVE  /\ UNCHANGED <<grab, cameras, source, live, overlapped>> /\ LiveView' = LiveView
             /\ \A t \in Threads : View(grab[t])' = View(grab[t])
             /\ Boxes'
  <2>1. UNCHANGED <<grab, cameras, source, live, overlapped>>
    BY <1>6 DEF ResetGate, ClearSlot, edits, history
  <2>2. LiveView' = LiveView /\ \A t \in Threads : View(grab[t])' = View(grab[t])
    BY <2>1 DEF LiveView, View
  <2>3. Boxes'
    BY <2>1, <2>2 DEF ViewInStep, Boxes
  <2> QED BY <2>1, <2>2, <2>3
<1>7. CASE ResetGate(r)
  <2> DEFINE q == [p EXCEPT !.pc = "clearing"]
  <2>1. /\ slot' = slot /\ learned' = {} /\ request' = [request EXCEPT ![r] = q] /\ p.pc = "relearning"
        /\ NoteStraddle("gate", {"configured", "reading", "read"})
    BY <1>7 DEF ResetGate, Move, reset
  <2>2. q.pc = "clearing" /\ q.kind = p.kind
    BY <1>1 DEF RequestType
  <2> HIDE DEF q
  <2>3. \A x \in Requests : request'[x] = IF x = r THEN q ELSE request[x]
    BY <1>1, <2>1
  <2>4. GateKept'
    <3>1. \/ "gate" \in straddled'
          \/ \A t \in Threads : grab[t].pc \in {"configured", "reading", "read"} => View(grab[t]) = LiveView
      BY <2>1 DEF NoteStraddle
    <3> QED BY <1>6, <1>7, <2>1, <3>1 DEF GateKept
  <2>5. SlotOpen => SlotOpen'
    BY <2>1, <2>2, <2>3 DEF SlotOpen, Editing
  <2>6. SlotKept => SlotKept'
    <3>1. "slot" \in straddled => "slot" \in straddled'
      BY <2>1 DEF NoteStraddle
    <3> QED BY <1>6, <1>7, <2>1, <3>1 DEF SlotKept
  <2> QED BY <1>6, <1>7, <2>4, <2>5, <2>6 DEF ViewInStep
<1>8. CASE ClearSlot(r)
  <2>1. /\ learned' = learned /\ p.pc = "clearing" /\ slot'.box = None
        /\ NoteStraddle("slot", {"configured", "reading", "read", "computed"})
    BY <1>8 DEF ClearSlot, Shape, TypeOK
  <2>2. PICK q : request' = [request EXCEPT ![r] = q]
    BY <1>8 DEF ClearSlot, Move, Done
  <2>3. \A x \in Requests : request'[x] = IF x = r THEN q ELSE request[x]
    BY <1>1, <2>2
  <2>4. SlotKept'
    <3>1. \/ "slot" \in straddled'
          \/ \A t \in Threads :
               grab[t].pc \in {"configured", "reading", "read", "computed"} => View(grab[t]) = LiveView
      BY <2>1 DEF NoteStraddle
    <3> QED BY <1>6, <1>8, <2>1, <3>1 DEF SlotKept
  <2>5. GateOpen => GateOpen'
    BY <2>1, <2>3 DEF GateOpen, Editing
  <2>6. GateKept => GateKept'
    <3>1. "gate" \in straddled => "gate" \in straddled'
      BY <2>1 DEF NoteStraddle
    <3> QED BY <1>6, <1>8, <2>1, <3>1 DEF GateKept
  <2> QED BY <1>6, <1>8, <2>4, <2>5, <2>6 DEF ViewInStep
<1> QED BY <1>3, <1>4, <1>5, <1>7, <1>8 DEF Serves

LEMMA ViewAsk ==
    ASSUME Shape, ViewInStep, NEW r \in Requests, Asks(r)
    PROVE  ViewInStep'
<1>1. PICK first : Ask(r, first)
  BY DEF Asks, set_config, night_light_set, autofocus, motion_reset
<1>2. UNCHANGED <<cameras, source, live, grab, learned, slot, straddled>> /\ request[r].pc = "idle"
      /\ \A x \in Requests : request'[x] = IF x = r THEN first ELSE request[x]
  BY <1>1 DEF Ask, edits, motion, Shape, TypeOK
<1>3. (GateOpen => GateOpen') /\ (SlotOpen => SlotOpen')
  BY <1>2 DEF GateOpen, SlotOpen, Editing
<1>4. overlapped => overlapped'
  BY <1>1 DEF Ask
<1>5. DevicesKept /\ LiveView' = LiveView
  BY <1>2 DEF DevicesKept, LiveView
<1> QED BY <1>2, <1>3, <1>4, <1>5, ViewKept

(* A grab takes the view in force, and carries it to the gate and the slot. *)
LEMMA ViewGrab ==
    ASSUME Shape, ViewInStep, NEW t \in Threads, Grabs(t)
    PROVE  ViewInStep'
<1>1. UNCHANGED <<cameras, source, live, overlapped, straddled>> /\ LiveView' = LiveView
  BY DEF Grabs, read_config, StartRead, ReadOk, ReadFails, compute_motion, Publish, edits, history, motion, LiveView
<1>2. \A g : View(g)' = View(g)
  BY <1>1 DEF View
<1>3. grab \in [Threads -> GrabType] /\ request \in [Requests -> RequestType]
  BY DEF Shape, TypeOK
<1>4. (GateOpen => GateOpen') /\ (SlotOpen => SlotOpen')
  <2>1. request' = request \/ (t \in Requests /\ request' = [request EXCEPT ![t] = Idle] /\ grab[t].pc # "idle")
    BY DEF Grabs, read_config, StartRead, ReadOk, ReadFails, compute_motion, Publish, EndsGrab, Done, Threads
  <2>2. \A x \in Requests : request'[x] = request[x] \/ request[x].pc = "grabbing"
    BY <1>3, <2>1 DEF Shape, GrabsAgree, At, Threads
  <2> QED BY <2>2 DEF GateOpen, SlotOpen, Editing
(* It is enough that the thread's own grab, the gate and the slot stay so.  *)
<1>5. ASSUME NEW g, grab' = [grab EXCEPT ![t] = g],
             g.pc = "computed" => g.box \in {None, View(g)},
             GateKept => \/ "gate" \in straddled
                         \/ /\ learned' \subseteq {LiveView}
                            /\ g.pc \in {"configured", "reading", "read"} => View(g) = LiveView,
             SlotKept => \/ "slot" \in straddled
                         \/ /\ slot'.box \in {None, LiveView}
                            /\ g.pc \in {"configured", "reading", "read", "computed"} => View(g) = LiveView
      PROVE  ViewInStep'
  <2>1. \A x \in Threads : grab'[x] = IF x = t THEN g ELSE grab[x]
    BY <1>3, <1>5
  <2>2. \A x \in Threads : View(grab[x])' = View(grab'[x])
    BY <1>1 DEF View
  <2>3. Boxes'
    <3> SUFFICES ASSUME NEW x \in Threads, grab'[x].pc = "computed" PROVE grab'[x].box \in {None, View(grab'[x])}
      BY <2>2 DEF Boxes
    <3> QED BY <1>5, <2>1 DEF ViewInStep, Boxes
  <2>4. GateKept => GateKept'
    BY <1>1, <1>5, <2>1, <2>2 DEF GateKept
  <2>5. SlotKept => SlotKept'
    BY <1>1, <1>5, <2>1, <2>2 DEF SlotKept
  <2> QED BY <1>1, <1>4, <2>3, <2>4, <2>5 DEF ViewInStep
<1>6. CASE read_config(t)
  <2> DEFINE g == [NoGrab EXCEPT !.pc = "configured", !.camera = source, !.region = live.region]
  <2>1. g.pc = "configured" /\ g.camera = source /\ g.region = live.region
    BY DEF NoGrab
  <2>2. grab' = [grab EXCEPT ![t] = g] /\ learned' = learned /\ slot' = slot
    BY <1>6 DEF read_config, motion
  <2> HIDE DEF g
  <2>3. View(g) = LiveView
    BY <2>1 DEF View, LiveView
  <2> QED BY <1>5, <2>1, <2>2, <2>3 DEF GateKept, SlotKept
<1>7. CASE StartRead(t) \/ ReadOk(t)
  <2>1. PICK pc \in {"reading", "read"} : grab' = [grab EXCEPT ![t].pc = pc]
    BY <1>7 DEF StartRead, ReadOk
  <2>2. grab[t].pc \in {"configured", "reading"} /\ learned' = learned /\ slot' = slot
    BY <1>7 DEF StartRead, ReadOk, motion
  <2>3. PICK g : g = [grab[t] EXCEPT !.pc = pc]
    OBVIOUS
  <2>4. g.pc = pc /\ g.camera = grab[t].camera /\ g.region = grab[t].region
    BY <1>3, <2>3 DEF GrabType
  <2>5. View(g) = View(grab[t])
    BY <2>4 DEF View
  <2>6. grab' = [grab EXCEPT ![t] = g]
    BY <2>1, <2>3
  <2> QED BY <1>5, <2>1, <2>2, <2>4, <2>5, <2>6 DEF GateKept, SlotKept
<1>8. CASE compute_motion(t)
  <2>1. PICK box \in {None, View(grab[t])} : grab' = [grab EXCEPT ![t].pc = "computed", ![t].box = box]
    BY <1>8 DEF compute_motion
  <2>2. grab[t].pc = "read" /\ learned' = learned \cup {View(grab[t])} /\ slot' = slot
    BY <1>8 DEF compute_motion, process
  <2>3. PICK g : g = [grab[t] EXCEPT !.pc = "computed", !.box = box]
    OBVIOUS
  <2>4. g.pc = "computed" /\ g.camera = grab[t].camera /\ g.region = grab[t].region /\ g.box = box
    BY <1>3, <2>3 DEF GrabType
  <2>5. View(g) = View(grab[t])
    BY <2>4 DEF View
  <2>6. grab' = [grab EXCEPT ![t] = g]
    BY <1>3, <2>1, <2>3
  <2> QED BY <1>5, <2>1, <2>2, <2>4, <2>5, <2>6 DEF GateKept, SlotKept
<1>9. CASE ReadFails(t) \/ Publish(t)
  <2>1. grab' = [grab EXCEPT ![t] = NoGrab] /\ learned' = learned /\ NoGrab.pc = "idle"
    BY <1>9 DEF ReadFails, Publish, EndsGrab, motion, NoGrab
  <2>2. slot'.box = slot.box \/ (grab[t].pc = "computed" /\ slot'.box = grab[t].box)
    BY <1>9 DEF ReadFails, Publish, Shape, TypeOK
  <2>3. SlotKept => "slot" \in straddled \/ slot'.box \in {None, LiveView}
    BY <2>2 DEF SlotKept, ViewInStep, Boxes
  <2> QED BY <1>5, <2>1, <2>3 DEF GateKept
<1> QED BY <1>6, <1>7, <1>8, <1>9 DEF Grabs

LEMMA ViewBoot ==
    ASSUME Shape, Dies \/ on_stall
    PROVE  ViewInStep'
<1>1. Boot
  BY DiesTyped DEF Shape
<1>2. (\A t \in Threads : grab'[t].pc = "idle") /\ learned' = {} /\ slot'.box = None
  BY <1>1 DEF Boot, NoGrab, NoFrame
<1>3. Boxes' /\ GateKept' /\ SlotKept'
  BY <1>2 DEF Boxes, GateKept, SlotKept
<1> QED BY <1>3 DEF ViewInStep

LEMMA ViewStep ==
    ASSUME Shape, FileInStep, ViewInStep, [EdgeStep]_vars
    PROVE  ViewInStep'
<1>1. CASE UNCHANGED vars
  <2>1. DevicesKept /\ LiveView' = LiveView /\ (GateOpen' <=> GateOpen) /\ (SlotOpen' <=> SlotOpen)
    BY <1>1 DEF vars, DevicesKept, LiveView, GateOpen, SlotOpen, Editing
  <2> QED BY <1>1, <2>1, ViewKept DEF vars
<1>2. CASE EdgeStep
  BY <1>2, Steps, ViewGrab, ViewAsk, ViewServe, ViewBoot
<1> QED BY <1>1, <1>2

LEMMA ViewInit == Init => ViewInStep
<1> SUFFICES ASSUME Init PROVE ViewInStep
  OBVIOUS
<1>1. (\A t \in Threads : grab[t].pc = "idle") /\ learned = {} /\ slot.box = None
  BY DEF Init, NoGrab, NoFrame
<1>2. Boxes /\ GateKept /\ SlotKept
  BY <1>1 DEF Boxes, GateKept, SlotKept
<1> QED BY <1>2 DEF ViewInStep

-----------------------------------------------------------------------------
(* The lamp.                                                                *)
SunWants == Lamp!Wanted(live.night, now)

LampTyped ==
    /\ level \in [Channels -> BOOLEAN] /\ hand \in [Channels -> HandType \cup {None}]
    /\ poll = None \/ poll.night \in Nights
    /\ fresh \in BOOLEAN /\ settled \in BOOLEAN
    /\ side = "camera" => ~fresh

(* What a tick under way read, and what the last one commanded, as long as  *)
(* neither the schedule nor the sun has changed since.                      *)
Abreast ==
    /\ settled => fresh
    /\ fresh /\ poll # None =>
         /\ poll.night.enabled = live.night.enabled
         /\ live.night.enabled => Lamp!Desired = SunWants
    /\ settled => last = IF live.night.enabled THEN SunWants ELSE None

HeldFlips == \A c \in Channels : Lamp!Holds(c) => settled /\ level[c] = hand[c].high

Flipped == LampTyped /\ Abreast /\ HeldFlips

(* The pin is as it was commanded or has been flipped since, and a flip     *)
(* that met a settled lamp met what was commanded.                          *)
Commanded ==
    LET c == live.night.channel IN
    last # None =>
        /\ level[c] = last \/ hand[c] # None
        /\ hand[c] # None /\ hand[c].under # None => hand[c].under = last

OneChannel == \A n, m \in Nights : n.channel = m.channel

LEMMA WantedTyped == \A n, t : Lamp!Wanted(n, t) \in BOOLEAN
BY DEF Lamp!Wanted

LEMMA NightTyped ==
    ASSUME Shape
    PROVE  live.night \in Nights /\ live.night.channel \in Channels /\ live.night.enabled \in BOOLEAN
BY NightsAssumption DEF Shape, TypeOK, Settings

(* The steps of the process, as the scheduler sees them.                    *)
Rests == side = "camera" /\ UNCHANGED <<side, lamp>>
Ticking == Lamp!Ticks /\ UNCHANGED live
Flipping == UNCHANGED live /\ \E c \in Channels, high \in BOOLEAN : Lamp!gpio_set(c, high)
Changing == Lamp!Unsettle(live'.night, now')
LampMoves == side = "lamp" /\ UNCHANGED side /\ (Ticking \/ Flipping \/ Changing \/ Lamp!Boot)

LEMMA LampSteps == ProcessNext => Rests \/ LampMoves
<1>1. CASE Camera(Next)
  BY <1>1 DEF Camera, Rests
<1>2. CASE LampSide
  <2>0. side = "lamp"
    BY <1>2 DEF LampSide
  <2>1. CASE UNCHANGED <<vars, side, flips>> /\ Lamp!Ticks
    BY <2>0, <2>1 DEF Ticking, vars, LampMoves
  <2>2. ASSUME NEW t, UNCHANGED <<vars, side, flips>>, Lamp!Clock(t) PROVE LampMoves
    <3>1. now' = t /\ live'.night = live.night /\ Lamp!Unsettle(live.night, t)
      BY <2>2 DEF Lamp!Clock
    <3>2. Lamp!Unsettle(live'.night, now')
      BY <3>1
    <3> QED BY <2>0, <2>2, <3>2 DEF Changing, LampMoves
  <2>3. ASSUME NEW c \in Channels, NEW high \in BOOLEAN, Flip(c, high) PROVE LampMoves
    BY <2>0, <2>3 DEF Flip, Flipping, vars, LampMoves
  <2>4. ASSUME NEW r \in Requests, EditSchedule(r) PROVE LampMoves
    <3>1. now' = now /\ Lamp!Unsettle(live'.night, now) /\ side' = side
      BY <2>4 DEF EditSchedule, Lamp!Edited
    <3>2. Lamp!Unsettle(live'.night, now')
      BY <3>1
    <3> QED BY <2>0, <3>1, <3>2 DEF Changing, LampMoves
  <2>5. CASE Restart
    BY <2>0, <2>5 DEF Restart, LampMoves
  <2> QED BY <1>2, <2>1, <2>2, <2>3, <2>4, <2>5 DEF LampSide
<1> QED BY <1>1, <1>2 DEF ProcessNext

LEMMA FlipHeld == \A c \in Channels : Lamp!Holds(c) <=> (hand[c] # None /\ hand[c].holds)
BY DEF Lamp!Holds

(* A tick that drives the pin meets no flip that holds.                     *)
LEMMA DrivesUnheld ==
    ASSUME Shape, Flipped, Lamp!Drives
    PROVE  /\ poll.night.channel \in Channels /\ Lamp!Desired \in BOOLEAN
           /\ ~settled /\ ~Lamp!Holds(poll.night.channel)
           /\ fresh => live.night.enabled /\ Lamp!Desired = SunWants
<1>1. poll # None /\ poll.night.enabled /\ last # Lamp!Desired
  BY DEF Lamp!Drives
<1>2. ~settled
  BY <1>1 DEF Flipped, Abreast
<1>3. poll.night.channel \in Channels
  BY <1>1, NightsAssumption DEF Flipped, LampTyped
<1> QED BY <1>1, <1>2, <1>3, WantedTyped DEF Lamp!Desired, Flipped, HeldFlips, Abreast

LEMMA FlippedTick ==
    ASSUME Shape, Flipped, side = "lamp", side' = side, Ticking
    PROVE  Flipped'
<1>1. live' = live /\ now' = now /\ SunWants' = SunWants
  BY DEF Ticking, Lamp!Ticks, Lamp!read_night_light, Lamp!FindsOff, Lamp!SunFails, Lamp!LeavesPin,
         Lamp!Drives, Lamp!DriveFails, Lamp!Succeeds, Lamp!Fails, Lamp!schedule, SunWants
<1>2. CASE Lamp!read_night_light
  <2>1. /\ UNCHANGED <<level, hand, last, settled>> /\ fresh' = TRUE
        /\ poll' = [night |-> live.night, now |-> now]
    BY <1>2 DEF Lamp!read_night_light, Lamp!pins
  <2>2. LampTyped'
    BY <1>1, <2>1, NightTyped DEF Flipped, LampTyped
  <2>3. Lamp!Desired' = SunWants'
    BY <1>1, <2>1 DEF Lamp!Desired, SunWants
  <2>4. Abreast'
    BY <1>1, <2>1, <2>3 DEF Flipped, Abreast
  <2>5. HeldFlips'
    BY <2>1 DEF Flipped, HeldFlips, Lamp!Holds
  <2> QED BY <2>2, <2>4, <2>5 DEF Flipped
<1>3. CASE Lamp!SunFails \/ Lamp!DriveFails
  <2>1. UNCHANGED <<level, hand, last, settled, fresh>> /\ poll' = None
    BY <1>3 DEF Lamp!SunFails, Lamp!DriveFails, Lamp!Fails, Lamp!pins
  <2>2. LampTyped' /\ Abreast'
    BY <1>1, <2>1 DEF Flipped, LampTyped, Abreast
  <2>3. HeldFlips'
    BY <2>1 DEF Flipped, HeldFlips, Lamp!Holds
  <2> QED BY <2>2, <2>3 DEF Flipped
<1>4. CASE Lamp!FindsOff \/ Lamp!LeavesPin
  <2>1. /\ UNCHANGED <<level, hand, fresh>> /\ poll' = None /\ settled' = (settled \/ fresh) /\ poll # None
        /\ last' = IF poll.night.enabled THEN Lamp!Desired ELSE None
    BY <1>4 DEF Lamp!FindsOff, Lamp!LeavesPin, Lamp!Succeeds, Lamp!pins
  <2>2. LampTyped'
    BY <1>1, <2>1 DEF Flipped, LampTyped
  <2>3. Abreast'
    BY <1>1, <2>1 DEF Flipped, LampTyped, Abreast
  <2>4. HeldFlips'
    BY <2>1 DEF Flipped, HeldFlips, Lamp!Holds
  <2> QED BY <2>2, <2>3, <2>4 DEF Flipped
<1>5. CASE Lamp!Drives
  <2> DEFINE c == poll.night.channel
  <2>1. /\ c \in Channels /\ Lamp!Desired \in BOOLEAN /\ ~settled /\ ~Lamp!Holds(c)
        /\ fresh => live.night.enabled /\ Lamp!Desired = SunWants
    BY <1>5, DrivesUnheld
  <2>2. /\ level' = [level EXCEPT ![c] = Lamp!Desired] /\ hand' = [hand EXCEPT ![c] = None]
        /\ last' = Lamp!Desired /\ poll' = None /\ settled' = (settled \/ fresh) /\ fresh' = fresh
    BY <1>5, <2>1 DEF Lamp!Drives, Lamp!Succeeds
  <2> HIDE DEF c
  <2>3. LampTyped'
    BY <1>1, <2>1, <2>2 DEF Flipped, LampTyped
  <2>4. Abreast'
    BY <1>1, <2>1, <2>2 DEF Flipped, LampTyped, Abreast
  <2>5. HeldFlips'
    <3>1. \A d \in Channels : ~Lamp!Holds(d)
      BY <2>1 DEF Flipped, HeldFlips
    <3>2. \A d \in Channels : hand'[d] = None \/ hand'[d] = hand[d]
      BY <2>2 DEF Flipped, LampTyped
    <3>3. \A d \in Channels : ~Lamp!Holds(d)'
      BY <3>1, <3>2 DEF Lamp!Holds
    <3> QED BY <3>3 DEF HeldFlips
  <2> QED BY <2>3, <2>4, <2>5 DEF Flipped
<1> QED BY <1>2, <1>3, <1>4, <1>5 DEF Ticking, Lamp!Ticks

LEMMA FlippedFlip ==
    ASSUME Shape, Flipped, side = "lamp", side' = side, Flipping
    PROVE  Flipped'
<1>1. PICK c \in Channels, high \in BOOLEAN : Lamp!gpio_set(c, high)
  BY DEF Flipping
<1> DEFINE h == [high |-> high, under |-> IF settled THEN SunWants ELSE None, holds |-> settled]
<1>2. /\ level' = [level EXCEPT ![c] = high] /\ hand' = [hand EXCEPT ![c] = h]
      /\ UNCHANGED <<live, now, last, poll, fresh, settled>>
  BY <1>1 DEF Lamp!gpio_set, Lamp!schedule, Flipping, SunWants
<1>3. h.high = high /\ h.holds = settled /\ h \in HandType
  <2>1. SunWants \in BOOLEAN
    BY WantedTyped DEF SunWants
  <2> QED BY <2>1 DEF Flipped, LampTyped, HandType
<1> HIDE DEF h
<1>4. LampTyped'
  BY <1>2, <1>3 DEF Flipped, LampTyped
<1>5. Abreast'
  <2>1. SunWants' = SunWants /\ Lamp!Desired' = Lamp!Desired
    BY <1>2 DEF SunWants, Lamp!Desired
  <2> QED BY <1>2, <2>1 DEF Flipped, Abreast
<1>6. HeldFlips'
  <2> SUFFICES ASSUME NEW d \in Channels, Lamp!Holds(d)' PROVE settled' /\ level'[d] = hand'[d].high
    BY DEF HeldFlips
  <2>1. hand'[d] = (IF d = c THEN h ELSE hand[d]) /\ level'[d] = (IF d = c THEN high ELSE level[d])
    BY <1>2 DEF Flipped, LampTyped
  <2>2. CASE d = c
    BY <1>2, <1>3, <2>1, <2>2 DEF Lamp!Holds
  <2>3. CASE d # c
    <3>1. Lamp!Holds(d)
      BY <2>1, <2>3 DEF Lamp!Holds
    <3> QED BY <1>2, <2>1, <2>3, <3>1 DEF Flipped, HeldFlips
  <2> QED BY <2>2, <2>3
<1> QED BY <1>4, <1>5, <1>6 DEF Flipped

(* A change of the schedule or of the clock either asks for what was asked  *)
(* for before, or makes the scheduler start over and releases every flip.   *)
LEMMA ChangeAlike ==
    ASSUME Flipped, Changing
    PROVE  /\ UNCHANGED <<level, last, poll>>
           /\ \/ /\ UNCHANGED <<fresh, settled, hand>>
                 /\ live'.night.enabled = live.night.enabled
                 /\ live.night.enabled => SunWants' = SunWants
              \/ /\ fresh' = FALSE /\ settled' = FALSE
                 /\ hand' = [c \in Channels |->
                               IF hand[c] = None THEN None ELSE [hand[c] EXCEPT !.holds = FALSE]]
BY DEF Changing, Lamp!Unsettle, Lamp!Alike, SunWants

LEMMA ReleasedTyped ==
    ASSUME NEW h \in HandType
    PROVE  LET e == [h EXCEPT !.holds = FALSE]
           IN  e \in HandType /\ e # None /\ e.holds = FALSE /\ e.under = h.under
BY NoneAssumption DEF HandType

LEMMA FlippedChange ==
    ASSUME Shape, Flipped, side = "lamp", side' = side, Changing
    PROVE  Flipped'
<1>1. UNCHANGED <<level, last, poll>> /\ Lamp!Desired' = Lamp!Desired
  BY ChangeAlike DEF Lamp!Desired
<1>2. CASE /\ UNCHANGED <<fresh, settled, hand>>
           /\ live'.night.enabled = live.night.enabled
           /\ live.night.enabled => SunWants' = SunWants
  <2>1. LampTyped' /\ Abreast'
    BY <1>1, <1>2 DEF Flipped, LampTyped, Abreast
  <2>2. HeldFlips'
    BY <1>1, <1>2 DEF Flipped, HeldFlips, Lamp!Holds
  <2> QED BY <2>1, <2>2 DEF Flipped
<1>3. CASE /\ fresh' = FALSE /\ settled' = FALSE
           /\ hand' = [c \in Channels |->
                         IF hand[c] = None THEN None ELSE [hand[c] EXCEPT !.holds = FALSE]]
  <2>1. \A c \in Channels : /\ hand'[c] \in HandType \cup {None}
                            /\ hand'[c] # None => hand'[c].holds = FALSE
    BY <1>3, ReleasedTyped DEF Flipped, LampTyped
  <2>2. LampTyped' /\ Abreast'
    BY <1>1, <1>3, <2>1 DEF Flipped, LampTyped, Abreast
  <2>3. HeldFlips'
    BY <2>1 DEF HeldFlips, Lamp!Holds
  <2> QED BY <2>2, <2>3 DEF Flipped
<1> QED BY <1>2, <1>3, ChangeAlike

LEMMA FlippedBoot ==
    ASSUME side = "lamp", side' = side, Lamp!Boot
    PROVE  Flipped'
BY DEF Lamp!Boot, Flipped, LampTyped, Abreast, HeldFlips, Lamp!Holds

(* While the camera side is followed the scheduler has not started.         *)
LEMMA FlippedRests ==
    ASSUME Flipped, Rests
    PROVE  Flipped'
<1>1. ~fresh /\ ~settled /\ UNCHANGED <<side, now, level, last, poll, fresh, settled, hand>>
  BY DEF Flipped, LampTyped, Abreast, Rests, lamp
<1> QED BY <1>1 DEF Flipped, LampTyped, Abreast, HeldFlips, Lamp!Holds

LEMMA FlippedStep ==
    ASSUME Shape, Flipped, [ProcessNext]_processVars
    PROVE  Flipped'
<1>1. CASE UNCHANGED processVars
  BY <1>1 DEF processVars, vars, lamp, Flipped, LampTyped, Abreast, HeldFlips, SunWants, Lamp!Holds, Lamp!Desired
<1>2. CASE ProcessNext
  BY <1>2, LampSteps, FlippedRests, FlippedTick, FlippedFlip, FlippedChange, FlippedBoot DEF LampMoves
<1> QED BY <1>1, <1>2

LEMMA FlippedInit == ProcessInit => Flipped
BY DEF ProcessInit, Lamp!Init, Flipped, LampTyped, Abreast, HeldFlips, Lamp!Holds

(* All schedules drive one pin.                                             *)
LEMMA CommandedStep ==
    ASSUME OneChannel, Shape, Shape', Flipped, Flipped', Commanded, [ProcessNext]_processVars
    PROVE  Commanded'
<1> DEFINE c == live.night.channel
<1>1. /\ c \in Channels /\ live'.night.channel = c
      /\ level \in [Channels -> BOOLEAN] /\ hand \in [Channels -> HandType \cup {None}]
      /\ poll # None => poll.night.channel = c
  <2>1. live.night \in Nights /\ live'.night \in Nights
    BY DEF Shape, TypeOK, Settings
  <2> QED BY <2>1, NightsAssumption DEF OneChannel, Flipped, LampTyped
<1>2. ASSUME UNCHANGED <<level, hand>>, last' = last \/ last' = None PROVE Commanded'
  BY <1>1, <1>2 DEF Commanded
<1>3. CASE Rests \/ UNCHANGED processVars
  BY <1>2, <1>3 DEF Rests, lamp, processVars
<1>4. CASE Ticking
  <2>1. CASE Lamp!Drives
    <3>1. level'[c] = last'
      BY <1>1, <2>1 DEF Lamp!Drives
    <3>2. hand'[c] = None
      BY <1>1, <2>1, DrivesUnheld DEF Lamp!Drives
    <3> QED BY <1>1, <3>1, <3>2 DEF Commanded
  <2>2. CASE ~Lamp!Drives
    BY <1>2, <1>4, <2>2 DEF Ticking, Lamp!Ticks, Lamp!read_night_light, Lamp!FindsOff, Lamp!SunFails,
       Lamp!LeavesPin, Lamp!DriveFails, Lamp!Succeeds, Lamp!Fails, Lamp!pins
  <2> QED BY <2>1, <2>2
<1>5. CASE Flipping
  <2>1. PICK d \in Channels, high \in BOOLEAN : Lamp!gpio_set(d, high)
    BY <1>5 DEF Flipping
  <2> DEFINE h == [high |-> high, under |-> IF settled THEN SunWants ELSE None, holds |-> settled]
  <2>2. /\ level' = [level EXCEPT ![d] = high] /\ hand' = [hand EXCEPT ![d] = h] /\ last' = last
    BY <2>1 DEF Lamp!gpio_set, SunWants
  <2>3. h.under = IF settled THEN SunWants ELSE None
    OBVIOUS
  <2>4. h \in HandType
    BY WantedTyped DEF SunWants, HandType, Flipped, LampTyped
  <2> HIDE DEF h
  <2>5. h # None
    BY <2>4, NoneAssumption
  <2>6. last # None /\ h.under # None => h.under = last
    BY <2>3 DEF Flipped, Abreast
  <2> HIDE DEF c
  <2>7. CASE d = c
    <3>1. hand'[c] = h
      BY <1>1, <2>2, <2>7
    <3> QED BY <1>1, <2>2, <2>5, <2>6, <3>1 DEF Commanded
  <2>8. CASE d # c
    <3>1. hand'[c] = hand[c] /\ level'[c] = level[c]
      BY <1>1, <2>2, <2>8
    <3> QED BY <1>1, <2>2, <3>1 DEF Commanded, c
  <2> QED BY <2>7, <2>8
<1>6. CASE Changing
  <2>1. UNCHANGED <<level, last>>
    BY <1>6, ChangeAlike
  <2>2. hand' = hand \/ hand'[c] = IF hand[c] = None THEN None ELSE [hand[c] EXCEPT !.holds = FALSE]
    BY <1>1, <1>6, ChangeAlike
  <2> HIDE DEF c
  <2>3. (hand[c] # None <=> hand'[c] # None) /\ (hand[c] # None => hand'[c].under = hand[c].under)
    BY <1>1, <2>2, ReleasedTyped
  <2> QED BY <1>1, <2>1, <2>3 DEF Commanded, c
<1>7. CASE Lamp!Boot
  BY <1>7 DEF Lamp!Boot, Commanded
<1> QED BY <1>3, <1>4, <1>5, <1>6, <1>7, LampSteps DEF LampMoves

LEMMA CommandedInit == ProcessInit => Commanded
BY DEF ProcessInit, Lamp!Init, Commanded

LEMMA LampFollows ==
    ASSUME Shape, Flipped, Commanded
    PROVE  LampKept
<1>1. Lamp!FlipHolds
  BY DEF Flipped, HeldFlips, Lamp!FlipHolds
<1>2. Lamp!FollowsSun
  <2> DEFINE c == live.night.channel
  <2> SUFFICES ASSUME settled, live.night.enabled, ~Lamp!Excused(c) PROVE level[c] = SunWants
    BY DEF Lamp!FollowsSun, SunWants
  <2>1. last = SunWants /\ SunWants \in BOOLEAN
    BY WantedTyped DEF Flipped, Abreast, SunWants
  <2>2. last # None
    BY <2>1, NoneAssumption
  <2>3. hand[c] = None \/ hand[c].under \notin {None, SunWants}
    BY DEF Lamp!Excused, SunWants
  <2> QED BY <2>1, <2>2, <2>3 DEF Commanded
<1> QED BY <1>1, <1>2 DEF LampKept, Lamp!LampKept

-----------------------------------------------------------------------------
(* The invariant of the camera side, alone and in the whole process.        *)
EdgeInvariant == Shape /\ SourcesHeld /\ FileInStep /\ ViewInStep

LEMMA EdgeInvariantInit == Init => EdgeInvariant
BY ShapeInit, SourcesInit, FileInit, ViewInit DEF EdgeInvariant

LEMMA EdgeInvariantStep == EdgeInvariant /\ [EdgeStep]_vars => EdgeInvariant'
BY ShapeStep, SourcesStep, FileStep, ViewStep DEF EdgeInvariant

LEMMA EdgeInvariantHolds == ProcessSpec => []EdgeInvariant
<1>1. ProcessInit => EdgeInvariant
  BY EdgeInvariantInit DEF ProcessInit
<1>2. EdgeInvariant /\ [ProcessNext]_processVars => EdgeInvariant'
  BY EdgeInvariantStep, OneProcess
<1> QED BY <1>1, <1>2, PTL DEF ProcessSpec

LEMMA EdgeInvariantGives == EdgeInvariant => TypeOK /\ SourcesInOrder /\ SoloEditsStick /\ NoStrayMotion
<1> SUFFICES ASSUME EdgeInvariant PROVE TypeOK /\ SourcesInOrder /\ SoloEditsStick /\ NoStrayMotion
  OBVIOUS
<1>1. TypeOK /\ SourcesInOrder
  BY DEF EdgeInvariant, Shape, SourcesHeld
<1>2. SoloEditsStick
  <2>1. Quiet => \A r \in Requests : ~Rewriting(request[r])
    BY Edits DEF Quiet, Rewriting
  <2> QED BY <2>1 DEF SoloEditsStick, EdgeInvariant, FileInStep
<1>3. NoStrayMotion
  <2>1. Quiet => ~GateOpen /\ ~SlotOpen
    BY DEF Quiet, GateOpen, SlotOpen
  <2> QED BY <2>1 DEF NoStrayMotion, EdgeInvariant, ViewInStep, GateKept, SlotKept
<1> QED BY <1>1, <1>2, <1>3

(* Settings, cameras, requests, grabs, the gate and the slot keep their     *)
(* types in the whole edge process, through crashes and the watchdog.       *)
THEOREM EdgeTypes == ProcessSpec => []TypeOK
BY EdgeInvariantHolds, EdgeInvariantGives, PTL

(* app.py's swap and save_settings' failure path: the grab loop's camera is *)
(* open and is the device the settings name, and every other camera left    *)
(* open is in the hands of a request that will close it.                    *)
THEOREM SourcesStayInOrder == ProcessSpec => []SourcesInOrder
BY EdgeInvariantHolds, EdgeInvariantGives, PTL

(* save_settings and load_settings: settings changes that came one at a     *)
(* time and were saved are what the next start reads.                       *)
THEOREM EditsStick == ProcessSpec => []SoloEditsStick
BY EdgeInvariantHolds, EdgeInvariantGives, PTL

(* reset_motion: after changes that came one at a time, neither the gate    *)
(* nor the published motion is left with a view of before, except through a *)
(* grab that straddled the reset.                                           *)
THEOREM MotionIsOfTheView == ProcessSpec => []NoStrayMotion
BY EdgeInvariantHolds, EdgeInvariantGives, PTL

LEMMA FlippedHolds == ProcessSpec => [](Shape /\ Flipped)
<1>1. EdgeInvariant => Shape
  BY DEF EdgeInvariant
<1>2. Shape /\ Flipped /\ [ProcessNext]_processVars => Flipped'
  BY FlippedStep
<1> QED BY <1>1, <1>2, EdgeInvariantHolds, FlippedInit, PTL DEF ProcessSpec

(* NightLightScheduler.tick: "manual override holds".  A flip that met a    *)
(* settled lamp stays until the sun or the schedule asks for another level, *)
(* whatever outputs the schedules drive.                                    *)
THEOREM OverrideHolds == ProcessSpec => []Lamp!FlipHolds
<1>1. Flipped => Lamp!FlipHolds
  BY DEF Flipped, HeldFlips, Lamp!FlipHolds
<1> QED BY <1>1, FlippedHolds, PTL

(* NightLightScheduler.tick: with all schedules on one output, the lamp is  *)
(* as the sun wants it after a tick that saw the schedule and the sun as    *)
(* they are, or a flip by hand keeps it otherwise.                          *)
THEOREM LampIsKept ==
    ASSUME OneChannel
    PROVE  ProcessSpec => []LampKept
<1>1. ProcessInit => Commanded
  BY CommandedInit
<1>2. (Shape /\ Flipped) /\ (Shape /\ Flipped)' /\ Commanded /\ [ProcessNext]_processVars => Commanded'
  BY CommandedStep
<1>3. Shape /\ Flipped /\ Commanded => LampKept
  BY LampFollows
<1> QED BY <1>1, <1>2, <1>3, FlippedHolds, PTL DEF ProcessSpec
==============================================================================
