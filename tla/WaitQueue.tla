------------------------------ MODULE WaitQueue ------------------------------
(***************************************************************************)
(* The rings of wait nodes of kernel/kernel/schedule.c: a ring is the      *)
(* sequence of the threads whose nodes are linked in it, head first.       *)
(***************************************************************************)
EXTENDS Integers, Sequences

Members(q) == {q[i] : i \in 1..Len(q)}

\* No thread has two nodes in the ring.
OneNodeEach(q) == \A i, j \in 1..Len(q) : q[i] = q[j] => i = j

\* remove_from_waitlist: take t's node out of the ring.
remove_from_waitlist(q, t) ==
  LET i == CHOOSE i \in 1..Len(q) : q[i] = t
  IN  [j \in 1..(Len(q) - 1) |-> IF j < i THEN q[j] ELSE q[j + 1]]

\* add_to_waitlist: link t's node in at the tail.
add_to_waitlist(q, t) == Append(q, t)
=============================================================================
