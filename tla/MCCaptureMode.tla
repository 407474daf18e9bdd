--------------------------- MODULE MCCaptureMode ---------------------------
EXTENDS CaptureMode

StageSettings == {[on |-> FALSE, stage |-> "tuning"], [on |-> TRUE, stage |-> "collecting"]}

Toggles == [on : BOOLEAN, stage : {"same"}]

AllSettings == StageSettings \cup Toggles

(* Settings change between runs beside a purge, a clear or crashes; during  *)
(* runs beside crashes; a clear comes in the middle of a run.               *)
AllWorlds ==
    {{"purge"}, {"wipe"}, {"toggle live", "die"}, {"wipe", "wipe live"}}
=============================================================================
