----------------------- MODULE MCEndDeviceCommands -----------------------
(* Two overlapping calls (one writes, one waits), two values an entity may *)
(* show and one it may not, a cooldown shorter than the times that run on  *)
(* beside it, and every kind of entity.                                    *)
EXTENDS EndDeviceCommands
==========================================================================
