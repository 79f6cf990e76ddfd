---------------------------- MODULE MCThreadLife -----------------------------
(* Instances of ThreadLife for TLC. *)
EXTENDS ThreadLife, TLC

\* The first processes are in the group of init.
TwoGroups == [p \in Procs |-> IF p = 3 THEN 2 ELSE 1]

\* The first thread that is created blocks SIGCHLD, ignores it, or does neither.
ThreeMasks == {<<{2}, {}>>, <<{}, {2}>>, <<{}, {}>>}

\* wait4 for any child, for one of the group, and for one handle.
ManyWaits == {<<-1, {}>>, <<0, Options>>, <<3, {}>>}

\* Nobody blocks or ignores SIGCHLD, and wait4 is for any child.
NoMasks == {<<{}, {}>>}
OneWait == {<<-1, {}>>}
=============================================================================
