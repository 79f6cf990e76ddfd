---------------------------- MODULE DurableStore ----------------------------
(***************************************************************************)
(* What the AFS journal (kernel/fs/afs/journal.c) promises to the file     *)
(* system above it: a store of metadata blocks in which a transaction is   *)
(* seen at once by later reads, is undone as a whole or kept as a whole,   *)
(* and after a crash the store is what it was at the end of some           *)
(* transaction, never older than what was made durable before.             *)
(***************************************************************************)
EXTENDS Integers

CONSTANTS
    Block,      \* metadata blocks
    Value       \* what a block may hold

VARIABLES
    mem,        \* what a read returns, writes of the open transaction included
    committed,  \* the store at the last commit
    durable     \* what a mount after a crash would find

vars == <<mem, committed, durable>>

Init ==
    /\ mem \in [Block -> Value]
    /\ committed = mem
    /\ durable = mem

\* A transaction writes a block.
Write(b, v) ==
    /\ mem' = [mem EXCEPT ![b] = v]
    /\ UNCHANGED <<committed, durable>>

\* The open transaction ends, or is split at a safe point.
Commit ==
    /\ committed' = mem
    /\ UNCHANGED <<mem, durable>>

\* The open transaction is undone.
Abort ==
    /\ mem' = committed
    /\ UNCHANGED <<committed, durable>>

\* Everything committed so far survives a crash from now on.
Persist ==
    /\ durable' = committed
    /\ UNCHANGED <<mem, committed>>

\* The machine stops; the next mount finds what was durable.
Crash ==
    /\ mem' = durable
    /\ committed' = durable
    /\ UNCHANGED durable

Next ==
    \/ \E b \in Block, v \in Value : Write(b, v)
    \/ Commit
    \/ Abort
    \/ Persist
    \/ Crash

Spec == Init /\ [][Next]_vars
=============================================================================
