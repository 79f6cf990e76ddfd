------------------------------ MODULE ByteLocks ------------------------------
(***************************************************************************)
(* What record locks promise: every thread holds a mode on every byte of   *)
(* every file.  A call changes one range of one file for one thread, and a *)
(* byte locked for writing is locked by nobody else.                       *)
(***************************************************************************)
EXTENDS Integers

CONSTANTS Threads, Inodes, MaxOffset, Requests

VARIABLE bytes   \* bytes[i][t][b]: the mode thread t holds on byte b of file i

Init == bytes = [i \in Inodes |-> [t \in Threads |-> [b \in 0..MaxOffset |-> "F_UNLCK"]]]

\* Thread t gets mode m on the bytes B of file i.
Set(t, i, B, m) ==
  bytes' = [bytes EXCEPT ![i][t] = [b \in 0..MaxOffset |-> IF b \in B THEN m ELSE @[b]]]

\* No other thread stands in the way.
Compatible(t, i, B, m) ==
  \A u \in Threads \ {t}, b \in B :
    bytes[i][u][b] = "F_UNLCK" \/ (m = "F_RDLCK" /\ bytes[i][u][b] = "F_RDLCK")

Acquire(t, i, B, m) == Compatible(t, i, B, m) /\ Set(t, i, B, m)
Release(t, i, B)    == Set(t, i, B, "F_UNLCK")
Die(t) ==
  bytes' = [i \in Inodes |-> [bytes[i] EXCEPT ![t] = [b \in 0..MaxOffset |-> "F_UNLCK"]]]

Next ==
  \E t \in Threads :
    \/ Die(t)
    \/ \E i \in Inodes, q \in Requests[t] :
         Acquire(t, i, q[1]..q[2], q[3]) \/ Release(t, i, q[1]..q[2])

Spec == Init /\ [][Next]_bytes

=============================================================================
