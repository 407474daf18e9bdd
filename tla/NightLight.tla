----------------------------- MODULE NightLight -----------------------------
(***************************************************************************)
(* The night-light scheduler (edge/server/night_light.py) and the GPIO     *)
(* outputs it shares with the manual switches (edge/actuators/gpio.py): a  *)
(* thread that polls the schedule and the clock and drives one pin when    *)
(* the level it wants differs from the one it last commanded.              *)
(*                                                                         *)
(* The board is active-low: TRUE is HIGH and dark, FALSE is LOW and lit.   *)
(* A schedule is [enabled, channel, before, after]; the day has Day slots, *)
(* the sun rises at the start of Sunrise and sets at that of Sunset.       *)
(***************************************************************************)
EXTENDS Integers

CONSTANTS Channels, Day, Sunrise, Sunset, None

VARIABLES
    night,     \* the live schedule: state["night_light"]
    now,       \* the clock
    level,     \* the pins
    last,      \* _last_level, or None
    poll,      \* the tick under way: the schedule and the time it read, or None
    fresh,     \* history: neither has changed in kind since that reading
    settled,   \* history: nor since a tick that succeeded
    hand       \* history: what each pin's last hand flip met, until the scheduler answers it

schedule == <<night, now>>
pins     == <<level, hand>>
lampVars == <<now, level, last, poll, fresh, settled, hand>>

Slots == 0..(Day - 1)

should_be_on(n, t) == t < Sunrise + n.after \/ t >= Sunset - n.before
Wanted(n, t) == ~should_be_on(n, t)

(* Pins come up HIGH, and the scheduler has commanded nothing yet. *)
Boot ==
    /\ level' = [c \in Channels |-> TRUE] /\ last' = None /\ poll' = None
    /\ fresh' = FALSE /\ settled' = FALSE /\ hand' = [c \in Channels |-> None]

Init ==
    /\ now \in Slots
    /\ level = [c \in Channels |-> TRUE] /\ last = None /\ poll = None
    /\ fresh = FALSE /\ settled = FALSE /\ hand = [c \in Channels |-> None]

-----------------------------------------------------------------------------
(* tick: the time and the schedule are read first, the pin is driven last. *)

read_night_light ==
    /\ poll = None
    /\ poll' = [night |-> night, now |-> now] /\ fresh' = TRUE
    /\ UNCHANGED <<schedule, pins, last, settled>>

(* A flip that met a settled lamp, and nothing has changed since. *)
Holds(c) == IF hand[c] = None THEN FALSE ELSE hand[c].holds

Desired == Wanted(poll.night, poll.now)
Succeeds == poll' = None /\ settled' = (settled \/ fresh) /\ UNCHANGED <<schedule, fresh>>
Fails == poll' = None /\ UNCHANGED <<schedule, pins, last, fresh, settled>>

FindsOff ==
    /\ poll # None /\ ~poll.night.enabled
    /\ last' = None
    /\ Succeeds /\ UNCHANGED pins

SunFails == poll # None /\ poll.night.enabled /\ Fails

LeavesPin ==
    /\ poll # None /\ poll.night.enabled /\ last = Desired
    /\ Succeeds /\ UNCHANGED <<pins, last>>

(* Mutant: the pin is written on every tick. *)
DrivesEveryTick ==
    /\ poll # None /\ poll.night.enabled
    /\ level' = [level EXCEPT ![poll.night.channel] = Desired]
    /\ hand' = [hand EXCEPT ![poll.night.channel] = IF Holds(poll.night.channel) THEN @ ELSE None]
    /\ last' = Desired
    /\ Succeeds

Drives ==
    /\ poll # None /\ poll.night.enabled /\ last # Desired
    /\ level' = [level EXCEPT ![poll.night.channel] = Desired]
    /\ hand' = [hand EXCEPT ![poll.night.channel] = IF Holds(poll.night.channel) THEN @ ELSE None]
    /\ last' = Desired
    /\ Succeeds

(* Mutant: the level counts as commanded before the write. *)
DriveFailsRemembering ==
    /\ poll # None /\ poll.night.enabled /\ last # Desired
    /\ last' = Desired /\ poll' = None
    /\ UNCHANGED <<schedule, pins, fresh, settled>>

(* The backend does not take the write. *)
DriveFails ==
    /\ poll # None /\ poll.night.enabled /\ last # Desired
    /\ Fails

Ticks ==
    read_night_light \/ FindsOff \/ SunFails \/ LeavesPin \/ Drives \/ DriveFails

-----------------------------------------------------------------------------
(* POST /api/gpio/<name>. *)
gpio_set(c, high) ==
    /\ level' = [level EXCEPT ![c] = high]
    /\ hand' = [hand EXCEPT ![c] =
                  [high |-> high, under |-> IF settled THEN Wanted(night, now) ELSE None,
                   holds |-> settled]]
    /\ UNCHANGED <<schedule, last, poll, fresh, settled>>

(* What a change of the schedule or of the clock means to the history: the  *)
(* scheduler has something new to find out when the level that is asked for *)
(* changes, and from there on no flip need hold.                            *)
Alike(n, t) ==
    /\ n.enabled = night.enabled /\ n.channel = night.channel
    /\ n.enabled => Wanted(n, t) = Wanted(night, now)

Unsettle(n, t) ==
    /\ IF Alike(n, t) THEN UNCHANGED <<fresh, settled, hand>>
       ELSE /\ fresh' = FALSE /\ settled' = FALSE
            /\ hand' = [c \in Channels |->
                          IF hand[c] = None THEN None ELSE [hand[c] EXCEPT !.holds = FALSE]]
    /\ UNCHANGED <<level, last, poll>>

(* Time passes, or NTP steps the clock of a board that has none. *)
Clock(t) == now' = t /\ Unsettle(night, t) /\ UNCHANGED night

Edited == Unsettle(night', now) /\ UNCHANGED now

-----------------------------------------------------------------------------
Excused(c) == IF hand[c] = None THEN FALSE ELSE hand[c].under \in {None, Wanted(night, now)}

(* After a tick that saw the schedule and the sun as they are, the lamp is  *)
(* as the sun wants it, past failed drives, failed sun times, restarts and  *)
(* edits in the middle of a tick; or a hand flip keeps it otherwise.        *)
FollowsSun ==
    settled /\ night.enabled /\ ~Excused(night.channel) =>
        level[night.channel] = Wanted(night, now)

(* "Manual override holds": a flip survives until the next real transition  *)
(* or change of the schedule.                                               *)
FlipHolds ==
    \A c \in Channels : Holds(c) => level[c] = hand[c].high

LampKept == FollowsSun /\ FlipHolds
=============================================================================
