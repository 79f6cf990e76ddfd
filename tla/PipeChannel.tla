----------------------------- MODULE PipeChannel -----------------------------
(***************************************************************************)
(* What a pipe promises: a bounded first-in first-out channel of bytes.    *)
(* A write puts its bytes in by pieces, in order, and may give up; a read  *)
(* takes the oldest bytes; the last reader's leaving empties the channel.  *)
(***************************************************************************)
EXTENDS Integers, Sequences

CONSTANTS Readers, Writers, PIPE_BUF, Payloads, ReadLens

VARIABLES channel, left, got

cvars == <<channel, left, got>>

Init ==
  /\ channel = <<>>
  /\ left = [w \in Writers |-> <<>>]
  /\ got = [r \in Readers |-> <<>>]

\* What w has to write: what a call left, or a new payload.
Due(w) == IF left[w] = <<>> THEN Payloads[w] ELSE {left[w]}

\* The first k of the due bytes go in; the rest waits or is given up.
Put(w) ==
  \E d \in Due(w) : \E k \in 0..Len(d) :
    /\ Len(channel) + k <= PIPE_BUF
    /\ channel' = channel \o SubSeq(d, 1, k)
    /\ left' \in {[left EXCEPT ![w] = SubSeq(d, k + 1, Len(d))], [left EXCEPT ![w] = <<>>]}
    /\ UNCHANGED got

\* A read gets the oldest bytes, fewer than it asked for only if there are no
\* more, and nothing only from an empty channel.
Take(r) ==
  \E n \in ReadLens :
    LET k == IF n < Len(channel) THEN n ELSE Len(channel) IN
    /\ got' = [got EXCEPT ![r] = SubSeq(channel, 1, k)]
    /\ channel' = SubSeq(channel, k + 1, Len(channel))
    /\ UNCHANGED left

Clear == channel' = <<>> /\ UNCHANGED <<left, got>>

Next ==
  \/ \E w \in Writers : Put(w)
  \/ \E r \in Readers : Take(r)
  \/ Clear

Spec == Init /\ [][Next]_cvars
=============================================================================
