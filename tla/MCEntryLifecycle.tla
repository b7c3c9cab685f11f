------------------------- MODULE MCEntryLifecycle -------------------------
(* Two coordinators alive at a time (one that outlives its registration,   *)
(* and the current one) and one slot, which is enough for every kind of    *)
(* change: the slots of a topology are independent.                        *)
EXTENDS EntryLifecycle
=============================================================================
