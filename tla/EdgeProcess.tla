---------------------------- MODULE EdgeProcess ----------------------------
(***************************************************************************)
(* The whole edge process (create_app): the camera side of Edge.tla and    *)
(* the scheduler of NightLight.tla, in one process with one settings file. *)
(* Requests to either side rewrite that file; what else the two sides do   *)
(* does not meet, so a behaviour follows one of them and the other rests.  *)
(***************************************************************************)
EXTENDS Edge

CONSTANTS
    Channels,              \* GPIO outputs
    Day, Sunrise, Sunset,  \* see NightLight.tla
    MaxFlips               \* bound: manual switches

ASSUME NightsAssumption ==
    Nights \subseteq [enabled : BOOLEAN, channel : Channels, before : Int, after : Int]
ASSUME DayAssumption == Day \in Nat /\ 0 < Sunrise /\ Sunrise < Sunset /\ Sunset < Day
ASSUME MaxFlipsAssumption == MaxFlips \in Nat

(* What a pin remembers of its last hand flip (NightLight.tla). *)
HandType == [high : BOOLEAN, under : BOOLEAN \cup {None}, holds : BOOLEAN]

ASSUME NoneAssumption == None \notin BOOLEAN \cup HandType

VARIABLES
    side,     \* the side whose steps are followed
    now, level, last, poll, fresh, settled, hand,   \* the scheduler's
    flips

Lamp == INSTANCE NightLight WITH night <- live.night

lamp == <<now, level, last, poll, fresh, settled, hand, flips>>
processVars == <<vars, side, lamp>>

ProcessInit ==
    /\ Init /\ Lamp!Init /\ flips = 0
    /\ side \in {"camera", "lamp"} /\ (side = "camera" => now = 0)

Camera(A) == side = "camera" /\ A /\ UNCHANGED <<side, lamp>>

(* Schedule requests one at a time: what overlapping ones do to the file is *)
(* the camera side's, and the scheduler sees only the swaps.                *)
EditSchedule(r) ==
    /\ \/ \E night \in Nights \ {live.night} : night_light_set(r, night)
       \/ Serves(r)
    /\ ~overlapped'
    /\ Lamp!Edited /\ UNCHANGED <<side, flips>>

Flip(c, high) ==
    /\ flips < MaxFlips /\ flips' = flips + 1
    /\ UNCHANGED <<vars, side>>
    /\ Lamp!gpio_set(c, high)

Restart == Dies /\ Lamp!Boot /\ UNCHANGED <<side, now, flips>>

LampSide ==
    /\ side = "lamp"
    /\ \/ /\ UNCHANGED <<vars, side, flips>>
          /\ Lamp!Ticks \/ \E t \in Lamp!Slots \ {now} : Lamp!Clock(t)
       \/ \E c \in Channels, high \in BOOLEAN : Flip(c, high)
       \/ \E r \in Requests : EditSchedule(r)
       \/ Restart

ProcessNext == Camera(Next) \/ LampSide

CameraFairness ==
    /\ \A t \in Threads : WF_processVars(Camera(Returns(t) /\ Grabs(t)))
    /\ \A r \in Requests : WF_processVars(Camera(Answers(r) /\ Serves(r)))
    /\ WF_processVars(Camera(LoopWaits /\ on_stall))

ProcessSpec == ProcessInit /\ [][ProcessNext]_processVars /\ CameraFairness

-----------------------------------------------------------------------------
(* The lamp is as the sun wants it, or as the hand that flipped it last     *)
(* left it (NightLight.tla).                                                *)
LampKept == Lamp!LampKept

(* The camera side's promise of Edge.tla. *)
CameraServes == side = "camera" => SavedDeviceServes
=============================================================================
