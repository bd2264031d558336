----------------------------- MODULE AtomicDisk -----------------------------
(***************************************************************************)
(* What the log promises to the file system (the head comment of           *)
(* kernel/log.c, and the begin_op/log_write/end_op interface): the updates *)
(* of a file-system call reach the disk together or not at all, whatever   *)
(* the moment of a crash.                                                  *)
(*                                                                         *)
(* `mem' is what reads of the file system return, `durable' what they      *)
(* would return after a crash and a recovery.  The durable state changes   *)
(* only in Commit, when no call is between begin_op and end_op, so it      *)
(* never holds part of a call's updates.                                   *)
(***************************************************************************)
CONSTANTS Proc,    \* processes that make file-system calls
          Block,   \* disk blocks outside the log
          Data     \* contents of a block

VARIABLES active,  \* processes between begin_op and end_op
          mem,
          durable

vars == <<active, mem, durable>>

Init ==
  /\ active = {}
  /\ durable \in [Block -> Data]
  /\ mem = durable

Begin(p) ==
  /\ p \notin active
  /\ active' = active \cup {p}
  /\ UNCHANGED <<mem, durable>>

Write(p, b, v) ==
  /\ p \in active
  /\ mem' = [mem EXCEPT ![b] = v]
  /\ UNCHANGED <<active, durable>>

End(p) ==
  /\ p \in active
  /\ active' = active \ {p}
  /\ UNCHANGED <<mem, durable>>

Commit ==
  /\ active = {}
  /\ durable' = mem
  /\ UNCHANGED <<active, mem>>

Crash ==
  /\ active' = {}
  /\ mem' = durable
  /\ UNCHANGED durable

Next ==
  \/ \E p \in Proc : Begin(p) \/ End(p)
  \/ \E p \in Proc, b \in Block, v \in Data : Write(p, b, v)
  \/ Commit
  \/ Crash

Spec == Init /\ [][Next]_vars
=============================================================================
