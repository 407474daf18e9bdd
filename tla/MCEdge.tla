------------------------------- MODULE MCEdge -------------------------------
EXTENDS EdgeProcess

CONSTANTS usb, csi, wide, door, relay, spare

OffAllDay == [enabled |-> FALSE, channel |-> relay, before |-> 0, after |-> 0]
Dusk == [enabled |-> TRUE, channel |-> relay, before |-> 1, after |-> 0]
Schedules == {OffAllDay, Dusk}

(* The lamp moves to another output (README, disagreements). *)
MovedLamp == Schedules \cup {[Dusk EXCEPT !.channel = spare]}

Defaults == [device |-> usb, region |-> wide, lens |-> FALSE, night |-> OffAllDay]

(* Another camera, another region, and a POST of neither, such as one of    *)
(* fps alone.                                                               *)
SomeBodies ==
    {[device |-> csi, region |-> Keep], [device |-> Keep, region |-> door],
     [device |-> Keep, region |-> Keep]}
=============================================================================
