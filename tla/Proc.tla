-------------------------------- MODULE Proc --------------------------------
(***************************************************************************)
(* Life of a process: fork, exit, wait and kill of kernel/proc.c, with     *)
(* allocproc, freeproc, reparent and wakeup, at the granularity of the     *)
(* spin-locks p->lock, wait_lock and pid_lock.                             *)
(*                                                                         *)
(* An action is what a process does between two acquires; an acquire is a  *)
(* guard that the lock is free.  A lock that is acquired and released in   *)
(* one action does not appear as held.  sleep() is atomic: it holds        *)
(* p->lock from before it releases wait_lock until the process is off its  *)
(* stack.  There are as many CPUs as processes, so the scheduler appears   *)
(* only as the step RUNNABLE -> RUNNING.  Data that fork, exit and wait    *)
(* copy (memory, files, the exit status) is left out; their failures are   *)
(* not.                                                                    *)
(***************************************************************************)
EXTENDS Integers, FiniteSets

CONSTANTS NPROC,     \* slots of the process table
          KillPids,  \* arguments of kill() that user programs use
          MaxPid     \* bound: the last pid that fork hands out

ASSUME ProcAssumption ==
  NPROC \in Nat \ {0} /\ MaxPid \in Nat \ {0} /\ KillPids \subseteq Int

Slot == 1 .. NPROC
None == 0        \* the null pointer
initproc == 1    \* userinit takes the first slot

VARIABLES
  state,      \* p->state
  pid,        \* p->pid
  parent,     \* p->parent
  killed,     \* p->killed
  chan,       \* p->chan; wait() sleeps on the process itself
  plock,      \* the process that holds p->lock
  wait_lock,  \* the process that holds wait_lock
  nextpid,
  pid_lock,   \* the process that holds pid_lock
  gone,       \* history: pids that wait has reported, and of failed forks
  pc,         \* where the kernel thread of the slot is
  i,          \* its loop variable over the process table
  arg,        \* pid in allocpid, np in fork, the argument of kill, the
              \* channel of wakeup
  havekids    \* local variable of wait

pids == <<nextpid, pid_lock, gone>>
vars == <<state, pid, parent, killed, chan, plock, wait_lock, pids, pc, i, arg,
          havekids>>

TypeOK ==
  /\ state \in [Slot -> {"UNUSED", "USED", "SLEEPING", "RUNNABLE", "RUNNING",
                         "ZOMBIE"}]
  /\ pid \in [Slot -> 0 .. MaxPid]
  /\ parent \in [Slot -> Slot \cup {None}]
  /\ killed \in [Slot -> BOOLEAN]
  /\ chan \in [Slot -> Slot \cup {None}]
  /\ plock \in [Slot -> Slot \cup {None}]
  /\ wait_lock \in Slot \cup {None}
  /\ nextpid \in 1 .. MaxPid + 1
  /\ pid_lock \in Slot \cup {None}
  /\ gone \subseteq 1 .. MaxPid
  /\ pc \in [Slot -> {"none", "user", "fork", "allocpid", "allocpid_inc",
                      "fork_parent", "fork_run", "exit", "reparent",
                      "wakeup_init", "wakeup_parent", "zombie", "sched",
                      "wait", "wait_scan", "wait_sleep", "sleep", "kill"}]
  /\ i \in [Slot -> 1 .. NPROC + 1]
  /\ arg \in [Slot -> Slot \cup 1 .. MaxPid \cup KillPids \cup {None}]
  /\ havekids \in [Slot -> BOOLEAN]

\* After userinit, when init has reached user space.
Init ==
  /\ state = [p \in Slot |-> IF p = initproc THEN "RUNNING" ELSE "UNUSED"]
  /\ pid = [p \in Slot |-> IF p = initproc THEN 1 ELSE 0]
  /\ parent = [p \in Slot |-> None]
  /\ killed = [p \in Slot |-> FALSE]
  /\ chan = [p \in Slot |-> None]
  /\ plock = [p \in Slot |-> None]
  /\ wait_lock = None
  /\ nextpid = 2
  /\ pid_lock = None
  /\ gone = {}
  /\ pc = [p \in Slot |-> IF p = initproc THEN "user" ELSE "none"]
  /\ i = [p \in Slot |-> 1]
  /\ arg = [p \in Slot |-> None]
  /\ havekids = [p \in Slot |-> FALSE]

At(p, l) == pc[p] = l /\ state[p] = "RUNNING"
Goto(p, l) == pc' = [pc EXCEPT ![p] = l]

\* Start or advance the loop of p over the process table.
Restart(p) == i' = [i EXCEPT ![p] = 1]
Advance(p) == i' = [i EXCEPT ![p] = @ + 1]

\* Locals of a thread that has left the kernel are dead.
ReturnToUser(p) ==
  /\ Goto(p, "user")
  /\ Restart(p)
  /\ arg' = [arg EXCEPT ![p] = None]
  /\ havekids' = [havekids EXCEPT ![p] = FALSE]

\* freeproc(q)
freeproc(q) ==
  /\ pid' = [pid EXCEPT ![q] = 0]
  /\ parent' = [parent EXCEPT ![q] = None]
  /\ chan' = [chan EXCEPT ![q] = None]
  /\ killed' = [killed EXCEPT ![q] = FALSE]
  /\ state' = [state EXCEPT ![q] = "UNUSED"]

-----------------------------------------------------------------------------
(* Entry from user space: usertrap calls exit(-1) for a killed process, else
   the system call.  init only forks and waits (user/init.c). *)

Syscall(p, l) ==
  /\ At(p, "user")
  /\ plock[p] = None
  /\ ~killed[p]
  /\ Goto(p, l)
  /\ UNCHANGED <<state, pid, parent, killed, chan, plock, wait_lock, pids, i,
                 havekids>>

\* The bound on pids: every fork under way will take one.
Forking == {q \in Slot : pc[q] \in {"fork", "allocpid", "allocpid_inc"}}
ForkBound == nextpid + Cardinality(Forking) <= MaxPid

sys_fork(p) == Syscall(p, "fork") /\ ForkBound /\ UNCHANGED arg
sys_wait(p) == Syscall(p, "wait") /\ UNCHANGED arg
sys_exit(p) == p # initproc /\ Syscall(p, "exit") /\ UNCHANGED arg
sys_kill(p, k) == /\ p # initproc
                  /\ Syscall(p, "kill")
                  /\ arg' = [arg EXCEPT ![p] = k]

exit_killed(p) ==
  /\ At(p, "user")
  /\ plock[p] = None
  /\ killed[p]
  /\ Goto(p, "exit")
  /\ UNCHANGED <<state, pid, parent, killed, chan, plock, wait_lock, pids, i,
                 arg, havekids>>

-----------------------------------------------------------------------------
(* fork *)

\* Mutant: allocpid is called before the slot is known to be free.
allocproc_next_Pid(p) ==
  /\ At(p, "fork")
  /\ i[p] <= NPROC
  /\ plock[i[p]] = None
  /\ state[i[p]] # "UNUSED"
  /\ nextpid' = nextpid + 1
  /\ Advance(p)
  /\ UNCHANGED <<state, pid, parent, killed, chan, plock, wait_lock, pid_lock,
                 gone, pc, arg, havekids>>

\* allocproc: the slot is taken.
allocproc_next(p) ==
  /\ At(p, "fork")
  /\ i[p] <= NPROC
  /\ plock[i[p]] = None
  /\ state[i[p]] # "UNUSED"
  /\ Advance(p)
  /\ UNCHANGED <<state, pid, parent, killed, chan, plock, wait_lock, pids, pc,
                 arg, havekids>>

\* allocproc found no slot: fork returns -1.
fork_full(p) ==
  /\ At(p, "fork")
  /\ i[p] > NPROC
  /\ ReturnToUser(p)
  /\ UNCHANGED <<state, pid, parent, killed, chan, plock, wait_lock, pids>>

\* allocproc found slot q and keeps its lock.
allocproc_found(p) ==
  LET q == i[p] IN
  /\ At(p, "fork")
  /\ q <= NPROC
  /\ plock[q] = None
  /\ state[q] = "UNUSED"
  /\ plock' = [plock EXCEPT ![q] = p]
  /\ Goto(p, "allocpid")
  /\ UNCHANGED <<state, pid, parent, killed, chan, wait_lock, pids, i, arg,
                 havekids>>

\* Mutant: allocpid does not take pid_lock.
allocpid_NoLock(p) ==
  /\ At(p, "allocpid")
  /\ arg' = [arg EXCEPT ![p] = nextpid]
  /\ Goto(p, "allocpid_inc")
  /\ UNCHANGED <<state, pid, parent, killed, chan, plock, wait_lock, pids, i,
                 havekids>>

\* pid = nextpid under pid_lock
allocpid(p) ==
  /\ At(p, "allocpid")
  /\ pid_lock = None
  /\ pid_lock' = p
  /\ arg' = [arg EXCEPT ![p] = nextpid]
  /\ Goto(p, "allocpid_inc")
  /\ UNCHANGED <<state, pid, parent, killed, chan, plock, wait_lock, nextpid,
                 gone, i, havekids>>

\* nextpid = nextpid + 1, the end of allocpid, and the end of np->lock
allocpid_return(p, q) ==
  /\ At(p, "allocpid_inc")
  /\ nextpid' = nextpid + 1
  /\ pid_lock' = None
  /\ plock' = [plock EXCEPT ![q] = None]

\* allocproc and fork fill slot q up to release(&np->lock).
fork_alloc(p) ==
  LET q == i[p] IN
  /\ allocpid_return(p, q)
  /\ pid' = [pid EXCEPT ![q] = arg[p]]
  /\ state' = [state EXCEPT ![q] = "USED"]
  /\ parent' = [parent EXCEPT ![q] = p]
  /\ pc' = [pc EXCEPT ![p] = "fork_parent", ![q] = "user"]
  /\ arg' = [arg EXCEPT ![p] = q]
  /\ UNCHANGED <<killed, chan, wait_lock, gone, i, havekids>>

\* Out of memory in allocproc or uvmcopy: the slot is given back.
fork_nomem(p) ==
  LET q == i[p] IN
  /\ allocpid_return(p, q)
  /\ freeproc(q)
  /\ gone' = gone \cup {arg[p]}
  /\ ReturnToUser(p)
  /\ UNCHANGED wait_lock

\* np->parent = p under wait_lock
fork_parent(p) ==
  /\ At(p, "fork_parent")
  /\ wait_lock = None
  /\ parent' = [parent EXCEPT ![arg[p]] = p]
  /\ Goto(p, "fork_run")
  /\ UNCHANGED <<state, pid, killed, chan, plock, wait_lock, pids, i, arg,
                 havekids>>

fork_run(p) ==
  /\ At(p, "fork_run")
  /\ plock[arg[p]] = None
  /\ state' = [state EXCEPT ![arg[p]] = "RUNNABLE"]
  /\ ReturnToUser(p)
  /\ UNCHANGED <<pid, parent, killed, chan, plock, wait_lock, pids>>

-----------------------------------------------------------------------------
(* exit *)

exit_lock(p) ==
  /\ At(p, "exit")
  /\ wait_lock = None
  /\ wait_lock' = p
  /\ Goto(p, "reparent")
  /\ UNCHANGED <<state, pid, parent, killed, chan, plock, pids, i, arg,
                 havekids>>

\* The child of p that comes first in the table.
FirstChild(p, c) == parent[c] = p /\ \A d \in Slot : parent[d] = p => c <= d

\* Mutant: init is not woken for the children it inherits.
reparent_NoWakeup(p) ==
  /\ At(p, "reparent")
  /\ \E c \in Slot : /\ FirstChild(p, c)
                    /\ parent' = [parent EXCEPT ![c] = initproc]
  /\ UNCHANGED <<state, pid, killed, chan, plock, wait_lock, pids, pc, i,
                 arg, havekids>>

\* reparent: the next child in the table goes to init, then wakeup(initproc).
reparent(p) ==
  /\ At(p, "reparent")
  /\ \E c \in Slot : /\ FirstChild(p, c)
                    /\ parent' = [parent EXCEPT ![c] = initproc]
  /\ Goto(p, "wakeup_init")
  /\ arg' = [arg EXCEPT ![p] = initproc]
  /\ Restart(p)
  /\ UNCHANGED <<state, pid, killed, chan, plock, wait_lock, pids, havekids>>

\* Mutant: exit leaves children behind.
reparent_done_Skip(p) ==
  /\ At(p, "reparent")
  /\ Goto(p, "wakeup_parent")
  /\ arg' = [arg EXCEPT ![p] = parent[p]]
  /\ Restart(p)
  /\ UNCHANGED <<state, pid, parent, killed, chan, plock, wait_lock, pids,
                 havekids>>

\* Mutant: exit does not wake its parent.
reparent_done_NoWakeup(p) ==
  /\ At(p, "reparent")
  /\ \A c \in Slot : parent[c] # p
  /\ Goto(p, "zombie")
  /\ UNCHANGED <<state, pid, parent, killed, chan, plock, wait_lock, pids, i,
                 arg, havekids>>

\* reparent is done: wakeup(p->parent).
reparent_done(p) ==
  /\ At(p, "reparent")
  /\ \A c \in Slot : parent[c] # p
  /\ Goto(p, "wakeup_parent")
  /\ arg' = [arg EXCEPT ![p] = parent[p]]
  /\ Restart(p)
  /\ UNCHANGED <<state, pid, parent, killed, chan, plock, wait_lock, pids,
                 havekids>>

\* One iteration of wakeup, over slot q.
wakeup(p) ==
  LET q == i[p] IN
  /\ At(p, "wakeup_init") \/ At(p, "wakeup_parent")
  /\ q <= NPROC
  /\ q # p => plock[q] = None
  /\ state' = [state EXCEPT ![q] =
                 IF q # p /\ @ = "SLEEPING" /\ chan[q] = arg[p]
                 THEN "RUNNABLE" ELSE @]
  /\ Advance(p)
  /\ UNCHANGED <<pid, parent, killed, chan, plock, wait_lock, pids, pc, arg,
                 havekids>>

wakeup_done(p) ==
  /\ i[p] > NPROC
  /\ \/ At(p, "wakeup_init") /\ Goto(p, "reparent")
     \/ At(p, "wakeup_parent") /\ Goto(p, "zombie")
  /\ Restart(p)
  /\ arg' = [arg EXCEPT ![p] = None]
  /\ UNCHANGED <<state, pid, parent, killed, chan, plock, wait_lock, pids,
                 havekids>>

exit_zombie(p) ==
  /\ At(p, "zombie")
  /\ plock[p] = None
  /\ plock' = [plock EXCEPT ![p] = p]
  /\ state' = [state EXCEPT ![p] = "ZOMBIE"]
  /\ wait_lock' = None
  /\ Goto(p, "sched")
  /\ UNCHANGED <<pid, parent, killed, chan, pids, i, arg, havekids>>

\* sched() has switched to the scheduler's stack, which releases p->lock.
exit_sched(p) ==
  /\ pc[p] = "sched"
  /\ plock' = [plock EXCEPT ![p] = None]
  /\ Goto(p, "none")
  /\ UNCHANGED <<state, pid, parent, killed, chan, wait_lock, pids, i, arg,
                 havekids>>

-----------------------------------------------------------------------------
(* wait *)

wait_acquire(p) ==
  /\ At(p, "wait")
  /\ wait_lock = None
  /\ wait_lock' = p
  /\ Restart(p)
  /\ havekids' = [havekids EXCEPT ![p] = FALSE]
  /\ Goto(p, "wait_scan")
  /\ UNCHANGED <<state, pid, parent, killed, chan, plock, pids, arg>>

\* The slot holds no child, or one that has not exited.
wait_next(p) ==
  LET c == i[p] IN
  /\ At(p, "wait_scan")
  /\ c <= NPROC
  /\ parent[c] = p => plock[c] = None /\ state[c] # "ZOMBIE"
  /\ havekids' = [havekids EXCEPT ![p] = @ \/ parent[c] = p]
  /\ Advance(p)
  /\ UNCHANGED <<state, pid, parent, killed, chan, plock, wait_lock, pids, pc,
                 arg>>

\* Mutant: the child may still be in exit() or swtch().
wait_found_NoLock(p, c) ==
  /\ At(p, "wait_scan")
  /\ c <= NPROC
  /\ parent[c] = p
  /\ state[c] = "ZOMBIE"

\* Mutant: any zombie will do.
wait_found_Any(p, c) ==
  /\ At(p, "wait_scan")
  /\ c <= NPROC
  /\ plock[c] = None
  /\ state[c] = "ZOMBIE"

\* The slot holds an exited child, off its stack since p->lock is free.
wait_found(p, c) ==
  /\ At(p, "wait_scan")
  /\ c <= NPROC
  /\ parent[c] = p
  /\ plock[c] = None
  /\ state[c] = "ZOMBIE"

wait_reap(p) ==
  LET c == i[p] IN
  /\ wait_found(p, c)
  /\ freeproc(c)
  /\ gone' = gone \cup {pid[c]}
  /\ wait_lock' = None
  /\ ReturnToUser(p)
  /\ UNCHANGED <<plock, nextpid, pid_lock>>

\* Mutant: the child is freed although its status could not be copied.
wait_badaddr_Free(p) ==
  LET c == i[p] IN
  /\ wait_found(p, c)
  /\ p # initproc
  /\ freeproc(c)
  /\ wait_lock' = None
  /\ ReturnToUser(p)
  /\ UNCHANGED <<plock, pids>>

\* copyout of the exit status fails; init passes a null address.
wait_badaddr(p) ==
  LET c == i[p] IN
  /\ wait_found(p, c)
  /\ p # initproc
  /\ wait_lock' = None
  /\ ReturnToUser(p)
  /\ UNCHANGED <<state, pid, parent, killed, chan, plock, pids>>

\* No children, or killed: wait returns -1.
wait_fail(p) ==
  /\ At(p, "wait_scan")
  /\ i[p] > NPROC
  /\ havekids[p] => plock[p] = None
  /\ ~havekids[p] \/ killed[p]
  /\ wait_lock' = None
  /\ ReturnToUser(p)
  /\ UNCHANGED <<state, pid, parent, killed, chan, plock, pids>>

\* killed(p) has returned 0 and released p->lock: p is going to sleep.
wait_check(p) ==
  /\ At(p, "wait_scan")
  /\ i[p] > NPROC
  /\ plock[p] = None
  /\ havekids[p] /\ ~killed[p]
  /\ Goto(p, "wait_sleep")
  /\ UNCHANGED <<state, pid, parent, killed, chan, plock, wait_lock, pids, i,
                 arg, havekids>>

\* sleep(p, &wait_lock)
wait_sleep(p) ==
  /\ At(p, "wait_sleep")
  /\ plock[p] = None
  /\ state' = [state EXCEPT ![p] = "SLEEPING"]
  /\ chan' = [chan EXCEPT ![p] = p]
  /\ wait_lock' = None
  /\ Goto(p, "sleep")
  /\ UNCHANGED <<pid, parent, killed, plock, pids, i, arg, havekids>>

-----------------------------------------------------------------------------
(* kill, and the scheduler *)

\* One iteration of kill.
kill(p) ==
  LET q == i[p] IN
  /\ At(p, "kill")
  /\ q <= NPROC
  /\ plock[q] = None
  /\ IF pid[q] = arg[p]
     THEN /\ killed' = [killed EXCEPT ![q] = TRUE]
          /\ state' = [state EXCEPT ![q] = IF @ = "SLEEPING" THEN "RUNNABLE"
                                                             ELSE @]
          /\ ReturnToUser(p)
     ELSE /\ Advance(p)
          /\ UNCHANGED <<killed, state, pc, arg, havekids>>
  /\ UNCHANGED <<pid, parent, chan, plock, wait_lock, pids>>

kill_notfound(p) ==
  /\ At(p, "kill")
  /\ i[p] > NPROC
  /\ ReturnToUser(p)
  /\ UNCHANGED <<state, pid, parent, killed, chan, plock, wait_lock, pids>>

\* scheduler() runs p, which releases p->lock in forkret or at the end of
\* sleep, and in the latter goes on to reacquire wait_lock.
schedule(p) ==
  /\ state[p] = "RUNNABLE"
  /\ plock[p] = None
  /\ state' = [state EXCEPT ![p] = "RUNNING"]
  /\ chan' = [chan EXCEPT ![p] = None]
  /\ pc' = [pc EXCEPT ![p] = IF @ = "sleep" THEN "wait" ELSE @]
  /\ UNCHANGED <<pid, parent, killed, plock, wait_lock, pids, i, arg, havekids>>

-----------------------------------------------------------------------------
\* The steps of p inside the kernel.
Step(p) ==
  \/ exit_killed(p)
  \/ allocproc_next(p) \/ allocproc_found(p) \/ fork_full(p) \/ allocpid(p)
  \/ fork_alloc(p) \/ fork_nomem(p) \/ fork_parent(p) \/ fork_run(p)
  \/ exit_lock(p) \/ reparent(p) \/ reparent_done(p) \/ wakeup_done(p)
  \/ wakeup(p) \/ exit_zombie(p) \/ exit_sched(p)
  \/ wait_acquire(p) \/ wait_next(p) \/ wait_reap(p) \/ wait_badaddr(p)
  \/ wait_fail(p) \/ wait_check(p) \/ wait_sleep(p)
  \/ kill(p) \/ kill_notfound(p)
  \/ schedule(p)

Next ==
  \E p \in Slot : \/ Step(p)
                  \/ sys_fork(p) \/ sys_wait(p) \/ sys_exit(p)
                  \/ \E k \in KillPids : sys_kill(p, k)

Spec == Init /\ [][Next]_vars

\* Acquisitions of wait_lock and pid_lock.
Acquire(p) ==
  exit_lock(p) \/ wait_acquire(p) \/ fork_parent(p) \/ allocpid(p)

\* The scheduler runs every runnable process, a CPU that spins on one of them
\* gets it at last, and init goes back to wait() (user/init.c:39-52).  Nothing
\* obliges a user program to make any call.
FairSpec ==
  /\ Spec
  /\ \A p \in Slot : WF_vars(Step(p)) /\ SF_vars(Acquire(p))
  /\ SF_vars(sys_wait(initproc))

-----------------------------------------------------------------------------
(* Properties *)

Alive == {"RUNNABLE", "RUNNING", "SLEEPING"}

\* No lost wakeup between exit and wait: outside wait_lock, no process sleeps
\* in wait() while one of its children, own or inherited through reparent, is
\* a zombie (proc.c:340, proc.c:376 and proc.c:435).
NoZombieMissed ==
  wait_lock = None =>
    \A c \in Slot :
      state[c] = "ZOMBIE" /\ parent[c] # None => state[parent[c]] # "SLEEPING"

\* A slot is free only when the thread that ran in it is off its kernel stack
\* ("make sure the child isn't still in exit() or swtch()", proc.c:406).
FreedOffStack == \A p \in Slot : state[p] = "UNUSED" => pc[p] = "none"

\* Outside wait_lock every process but init has a living parent, so that
\* somebody can collect it; exit leaves no child behind (proc.c:332-343).
ParentAlive ==
  wait_lock = None =>
    \A c \in Slot \ {initproc} :
      state[c] # "UNUSED" => parent[c] # None /\ state[parent[c]] \in Alive

\* Two processes never share a pid, and a process in use has one
\* (proc.c:92-103, proc.c:165).
UniquePids ==
  \A p \in Slot :
    state[p] # "UNUSED" => pid[p] # 0 /\ \A q \in Slot \ {p} : pid[q] # pid[p]

\* No child gets lost: every pid that allocpid has given out belongs to one
\* process of the table until wait has reported it, or until its fork has
\* failed, and to none after that; a wait that cannot copy the status out
\* leaves the child for another wait (proc.c:92-103, proc.c:286-289 and
\* proc.c:409-423).
PidsAccounted ==
  LET InUse == {pid[p] : p \in {q \in Slot : state[q] # "UNUSED"}} IN
  InUse \cap gone = {} /\ InUse \cup gone = 1 .. nextpid - 1

\* A zombie leaves the table only through the wait() of its parent, under
\* wait_lock (proc.c:404-423).
ReapedByParent ==
  [][\A c \in Slot :
       state[c] = "ZOMBIE" /\ state'[c] # "ZOMBIE" =>
         state'[c] = "UNUSED" /\ wait_lock = parent[c]]_vars

\* init collects every zombie that is its child, own or inherited.
OrphansReaped ==
  \A c \in Slot :
    state[c] = "ZOMBIE" /\ parent[c] = initproc ~> state[c] = "UNUSED"

\* kill() takes effect: the victim exits (proc.c:584-586, 597).
KillDelivered ==
  \A p \in Slot : killed[p] ~> state[p] \in {"ZOMBIE", "UNUSED"}

\* kill() marks only processes that exist (proc.c:584): a slot that is not in
\* use is not marked killed.
UnusedNotKilled == \A p \in Slot : state[p] = "UNUSED" => ~killed[p]
=============================================================================
