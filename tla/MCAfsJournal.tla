---------------------------- MODULE MCAfsJournal ----------------------------
(***************************************************************************)
(* Small volumes for TLC: a log of a few blocks right before two or three  *)
(* metadata blocks.                                                        *)
(***************************************************************************)
EXTENDS AfsJournal

ASSUME CallsAssumption ==
    Calls \subseteq {"abort", "nomem", "checkpoint", "file", "sync", "unmount"}
=============================================================================
