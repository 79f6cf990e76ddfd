------------------------------- MODULE MCFlock -------------------------------
(* Instances of Flock for TLC. *)
EXTENDS Flock, TLC

CONSTANTS t1, t2, t3

\* Requests on a file of three bytes that share, cover, split and touch one
\* another and let three threads wait in a circle.
ThreeThreads ==
  (t1 :> {<<0, 2, "F_WRLCK">>, <<1, 1, "F_WRLCK">>})
    @@ (t2 :> {<<0, 0, "F_WRLCK">>, <<2, 2, "F_WRLCK">>, <<0, 0, "F_RDLCK">>})
    @@ (t3 :> {<<0, 0, "F_RDLCK">>, <<0, 1, "F_RDLCK">>})

=============================================================================
