------------------------------ MODULE MCMsgPort ------------------------------
(* Two processes; one port has a single reader, the other has two.          *)
EXTENDS MsgPort

CONSTANTS t1, t2, t3, r1, r2, p1, p2

MCProcOf  == [t \in Threads |-> IF t = t1 THEN r1 ELSE r2]
MCMayRead == [p \in Ports |-> IF p = p1 THEN {t2} ELSE {t2, t3}]
=============================================================================
