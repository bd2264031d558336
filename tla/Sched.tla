------------------------------- MODULE Sched -------------------------------
(***************************************************************************)
(* Threads on several CPUs: the scheduler, swtch, sched, yield, sleep and  *)
(* wakeup of kernel/proc.c, the spin-locks with their interrupt nesting of *)
(* kernel/spinlock.c, timer interrupts through kerneltrap (kernel/trap.c)  *)
(* and, as the client that sleeps and wakes, one sleep-lock of             *)
(* kernel/sleeplock.c that every process locks and unlocks again and again.*)
(*                                                                         *)
(* An action of a CPU is what it does up to the loop of an acquire, that   *)
(* loop with the assignments after it up to the next acquire or release, a *)
(* release, or one swtch.                                                  *)
(***************************************************************************)
EXTENDS Integers

CONSTANTS Cpu,     \* the CPUs
          Cpu0,    \* the one with cpuid() = 0, which runs clockintr
          NoCpu,   \* lk->cpu of a free lock
          NPROC    \* number of processes

ASSUME CpuAssumption == Cpu0 \in Cpu /\ NoCpu \notin Cpu
ASSUME ProcAssumption == NPROC \in Nat \ {0}

Proc == 1 .. NPROC
None == 0                \* the null pointer
L == 1                   \* the address of the sleep-lock, as a channel
lk == 0                  \* the spin-lock inside the sleep-lock
tickslock == NPROC + 1
Lock == 0 .. NPROC + 1   \* p is the lock of process p
NoLock == -1

VARIABLES
  owner,     \* lk->cpu of the spin-locks
  cpu,       \* struct cpu, with the interrupt-enable bit of sstatus as sie
  spin,      \* the lock in whose acquire the CPU spins
  scan,      \* p in scheduler()
  spc,       \* where the scheduler is; "swtched" while a process runs
  state,     \* p->state
  chan,      \* p->chan
  pc,        \* where the process is in the kernel
  intena,    \* local variable of sched()
  resume,    \* where the process was when the timer interrupted it
  wi,        \* loop variable of the wakeup in releasesleep
  clk,       \* where clockintr is
  ci,        \* loop variable of the wakeup in clockintr
  locked,    \* the sleep-lock's locked and pid
  holder,
  inside,    \* processes between acquiresleep and releasesleep
  panicked

scheduling == <<scan, spc>>
process == <<state, chan, pc, intena, resume, wi>>
clock == <<clk, ci>>
sleeplock == <<locked, holder, inside>>
vars == <<owner, cpu, spin, scheduling, process, clock, sleeplock, panicked>>

\* Where the timer may interrupt a process: its own code, the acquire of the
\* sleep-lock's spin-lock before its push_off, and that at the end of sleep.
Interruptible == {"run", "acquiresleep", "sleep_lk", "releasesleep"}

TypeOK ==
  /\ owner \in [Lock -> Cpu \cup {NoCpu}]
  /\ cpu \in [Cpu -> [proc : 0 .. NPROC, noff : 0 .. 2, intena : BOOLEAN,
                      sie : BOOLEAN]]
  /\ spin \in [Cpu -> Lock \cup {NoLock}]
  /\ scan \in [Cpu -> 1 .. NPROC + 1]
  /\ spc \in [Cpu -> {"scan", "check", "swtched", "back", "devintr"}]
  /\ state \in [Proc -> {"RUNNABLE", "RUNNING", "SLEEPING"}]
  /\ chan \in [Proc -> {None, L}]
  /\ pc \in [Proc -> {"forkret", "test", "sleep", "release_lk", "sleep_mark",
                      "sleep_sched", "sleep_tail", "got", "wakeup", "devintr",
                      "yield", "yield_sched", "yield_tail", "trapret"}
                     \cup Interruptible]
  /\ intena \in [Proc -> BOOLEAN]
  /\ resume \in [Proc -> Interruptible]
  /\ wi \in [Proc -> 1 .. NPROC + 1]
  /\ clk \in {"idle", "acquire", "wakeup"}
  /\ ci \in 1 .. NPROC + 1
  /\ locked \in BOOLEAN
  /\ holder \in 0 .. NPROC
  /\ inside \subseteq Proc
  /\ panicked \in BOOLEAN

\* Every process is new and has never run.
Init ==
  /\ owner = [l \in Lock |-> NoCpu]
  /\ cpu = [c \in Cpu |-> [proc |-> None, noff |-> 0, intena |-> FALSE,
                           sie |-> TRUE]]
  /\ spin = [c \in Cpu |-> NoLock]
  /\ scan = [c \in Cpu |-> 1]
  /\ spc = [c \in Cpu |-> "scan"]
  /\ state = [p \in Proc |-> "RUNNABLE"]
  /\ chan = [p \in Proc |-> None]
  /\ pc = [p \in Proc |-> "forkret"]
  /\ intena = [p \in Proc |-> FALSE]
  /\ resume = [p \in Proc |-> "run"]
  /\ wi = [p \in Proc |-> 1]
  /\ clk = "idle"
  /\ ci = 1
  /\ locked = FALSE
  /\ holder = None
  /\ inside = {}
  /\ panicked = FALSE

\* The process p that runs on CPU c.
On(p, c) == spc[c] = "swtched" /\ cpu[c].proc = p
At(p, c, l) == pc[p] = l /\ On(p, c)
Goto(p, l) == pc' = [pc EXCEPT ![p] = l]

-----------------------------------------------------------------------------
(* Spin-locks *)

\* push_off and pop_off on a struct cpu
push_off(r) == [r EXCEPT !.noff = @ + 1,
                         !.intena = IF r.noff = 0 THEN r.sie ELSE @,
                         !.sie = FALSE]
\* Mutant: pop_off does not count down.
pop_off_NoCount(r) == [r EXCEPT !.sie = (r.noff = 1 /\ r.intena)]

pop_off(r) == [r EXCEPT !.noff = @ - 1, !.sie = (r.noff = 1 /\ r.intena)]

\* The next thing CPU c does is acquire(l).
Acquires(c, l) ==
  \/ spc[c] = "scan" /\ l = scan[c] /\ l \in Proc
  \/ c = Cpu0 /\ clk = "acquire" /\ l = tickslock
  \/ c = Cpu0 /\ clk = "wakeup" /\ l = ci /\ l \in Proc \ {cpu[c].proc}
  \/ LET p == cpu[c].proc IN
     /\ spc[c] = "swtched"
     /\ \/ pc[p] \in {"acquiresleep", "sleep_lk", "releasesleep"} /\ l = lk
        \/ pc[p] \in {"sleep", "yield"} /\ l = p
        \/ pc[p] = "wakeup" /\ l = wi[p] /\ l \in Proc \ {p}

\* acquire(l) up to its loop: push_off, and the panic if c holds l already.
acquire_spin(c, l) ==
  /\ spin[c] = NoLock
  /\ Acquires(c, l)
  /\ spin' = [spin EXCEPT ![c] = l]
  /\ cpu' = [cpu EXCEPT ![c] = push_off(@)]
  /\ panicked' = (owner[l] = c)
  /\ UNCHANGED <<owner, scheduling, process, clock, sleeplock>>

\* The loop ends: the swap has found l free.
acquire(c, l) ==
  /\ spin[c] = l
  /\ owner[l] = NoCpu
  /\ owner' = [owner EXCEPT ![l] = c]
  /\ spin' = [spin EXCEPT ![c] = NoLock]
  /\ UNCHANGED <<cpu, panicked>>

\* The panics of pop_off, and of release(l) with the pop_off in it.
pop_off_panics(c) == cpu[c].sie \/ cpu[c].noff < 1
release_panics(c, l) == owner[l] # c \/ pop_off_panics(c)

\* release(l), after which the code leaves r in struct cpu.
release_to(c, l, r) ==
  /\ owner' = [owner EXCEPT ![l] = NoCpu]
  /\ cpu' = [cpu EXCEPT ![c] = r]
  /\ panicked' = release_panics(c, l)
  /\ UNCHANGED spin

release(c, l) == release_to(c, l, pop_off(cpu[c]))

\* acquire(l), after acquire_spin, and release(l) in one step.
acquire_release(c, l) ==
  /\ spin[c] = l
  /\ owner[l] = NoCpu
  /\ spin' = [spin EXCEPT ![c] = NoLock]
  /\ cpu' = [cpu EXCEPT ![c] = pop_off(@)]
  /\ panicked' = pop_off_panics(c)
  /\ UNCHANGED owner

-----------------------------------------------------------------------------
(* scheduler() on CPU c *)

\* The outer loop.
scheduler_intr_on(c) ==
  /\ spc[c] = "scan"
  /\ scan[c] > NPROC
  /\ scan' = [scan EXCEPT ![c] = 1]
  /\ cpu' = [cpu EXCEPT ![c].sie = TRUE]
  /\ UNCHANGED <<owner, spin, spc, process, clock, sleeplock, panicked>>

scheduler_acquire(c) ==
  /\ spc[c] = "scan"
  /\ scan[c] <= NPROC
  /\ acquire(c, scan[c])
  /\ spc' = [spc EXCEPT ![c] = "check"]
  /\ UNCHANGED <<scan, process, clock, sleeplock>>

\* Mutant: sched does not restore intena.
scheduler_swtch_CpuIntena(c) ==
  LET p == scan[c] IN
  /\ spc[c] = "check"
  /\ state[p] = "RUNNABLE"
  /\ state' = [state EXCEPT ![p] = "RUNNING"]
  /\ cpu' = [cpu EXCEPT ![c].proc = p]
  /\ spc' = [spc EXCEPT ![c] = "swtched"]
  /\ UNCHANGED <<owner, spin, scan, chan, pc, intena, resume, wi, clock,
                 sleeplock, panicked>>

\* Switch to the chosen process, which comes back from swtch in sched and
\* restores its intena, or starts in forkret.
scheduler_swtch(c) ==
  LET p == scan[c] IN
  /\ spc[c] = "check"
  /\ state[p] = "RUNNABLE"
  /\ state' = [state EXCEPT ![p] = "RUNNING"]
  /\ cpu' = [cpu EXCEPT ![c].proc = p,
                        ![c].intena = IF pc[p] = "forkret" THEN @
                                                           ELSE intena[p]]
  /\ spc' = [spc EXCEPT ![c] = "swtched"]
  /\ UNCHANGED <<owner, spin, scan, chan, pc, intena, resume, wi, clock,
                 sleeplock, panicked>>

scheduler_skip(c) ==
  /\ spc[c] = "check"
  /\ state[scan[c]] # "RUNNABLE"
  /\ release(c, scan[c])
  /\ scan' = [scan EXCEPT ![c] = @ + 1]
  /\ spc' = [spc EXCEPT ![c] = "scan"]
  /\ UNCHANGED <<process, clock, sleeplock>>

\* Mutant: the scan starts again from the first process.
scheduler_back_First(c) ==
  /\ spc[c] = "back"
  /\ release_to(c, scan[c], [pop_off(cpu[c]) EXCEPT !.proc = None])
  /\ scan' = [scan EXCEPT ![c] = 1]
  /\ spc' = [spc EXCEPT ![c] = "scan"]
  /\ UNCHANGED <<process, clock, sleeplock>>

\* The process has switched back.
scheduler_back(c) ==
  /\ spc[c] = "back"
  /\ release_to(c, scan[c], [pop_off(cpu[c]) EXCEPT !.proc = None])
  /\ scan' = [scan EXCEPT ![c] = @ + 1]
  /\ spc' = [spc EXCEPT ![c] = "scan"]
  /\ UNCHANGED <<process, clock, sleeplock>>

-----------------------------------------------------------------------------
(* The process p that runs on CPU c *)

\* sched(): its four checks, then swtch to the scheduler.
sched(p, c) ==
  /\ panicked' = \/ owner[p] # c
                 \/ cpu[c].noff # 1
                 \/ state[p] = "RUNNING"
                 \/ cpu[c].sie
  /\ intena' = [intena EXCEPT ![p] = cpu[c].intena]
  /\ spc' = [spc EXCEPT ![c] = "back"]
  /\ UNCHANGED <<owner, cpu, spin, scan, clock, sleeplock>>

\* forkret releases p->lock and goes to user space, where interrupts are on.
forkret(p, c) ==
  /\ At(p, c, "forkret")
  /\ release_to(c, p, [pop_off(cpu[c]) EXCEPT !.sie = TRUE])
  /\ Goto(p, "run")
  /\ UNCHANGED <<scheduling, state, chan, intena, resume, wi, clock, sleeplock>>

\* p calls acquiresleep or releasesleep.
Call(p, c) ==
  /\ At(p, c, "run")
  /\ Goto(p, IF p \in inside THEN "releasesleep" ELSE "acquiresleep")
  /\ inside' = inside \ {p}
  /\ UNCHANGED <<owner, cpu, spin, scheduling, state, chan, intena, resume, wi,
                 clock, locked, holder, panicked>>

acquiresleep(p, c) ==
  /\ At(p, c, "acquiresleep")
  /\ acquire(c, lk)
  /\ Goto(p, "test")
  /\ UNCHANGED <<scheduling, state, chan, intena, resume, wi, clock, sleeplock>>

\* Mutant: lk->locked is not tested.
acquiresleep_test_NoWait(p, c) ==
  /\ At(p, c, "test")
  /\ Goto(p, "got")
  /\ locked' = TRUE
  /\ holder' = p
  /\ UNCHANGED <<owner, cpu, spin, scheduling, state, chan, intena, resume, wi,
                 clock, inside, panicked>>

\* while (lk->locked)
acquiresleep_test(p, c) ==
  /\ At(p, c, "test")
  /\ \/ locked /\ Goto(p, "sleep") /\ UNCHANGED <<locked, holder>>
     \/ ~locked /\ Goto(p, "got") /\ locked' = TRUE /\ holder' = p
  /\ UNCHANGED <<owner, cpu, spin, scheduling, state, chan, intena, resume, wi,
                 clock, inside, panicked>>

acquiresleep_return(p, c) ==
  /\ At(p, c, "got")
  /\ release(c, lk)
  /\ Goto(p, "run")
  /\ inside' = inside \cup {p}
  /\ UNCHANGED <<scheduling, state, chan, intena, resume, wi, clock, locked,
                 holder>>

\* sleep: acquire(&p->lock), release(lk), then the state and sched().
sleep(p, c) ==
  /\ At(p, c, "sleep")
  /\ acquire(c, p)
  /\ Goto(p, "release_lk")
  /\ UNCHANGED <<scheduling, state, chan, intena, resume, wi, clock, sleeplock>>

\* Mutant: lk is kept while sleeping.
sleep_release_Keep(p, c) ==
  /\ At(p, c, "release_lk")
  /\ Goto(p, "sleep_mark")
  /\ UNCHANGED <<owner, cpu, spin, scheduling, state, chan, intena, resume, wi,
                 clock, sleeplock, panicked>>

sleep_release(p, c) ==
  /\ At(p, c, "release_lk")
  /\ release(c, lk)
  /\ Goto(p, "sleep_mark")
  /\ UNCHANGED <<scheduling, state, chan, intena, resume, wi, clock, sleeplock>>

sleep_mark(p, c) ==
  /\ At(p, c, "sleep_mark")
  /\ chan' = [chan EXCEPT ![p] = L]
  /\ state' = [state EXCEPT ![p] = "SLEEPING"]
  /\ Goto(p, "sleep_sched")
  /\ UNCHANGED <<owner, cpu, spin, scheduling, intena, resume, wi, clock,
                 sleeplock, panicked>>

sleep_sched(p, c) ==
  /\ At(p, c, "sleep_sched")
  /\ sched(p, c)
  /\ Goto(p, "sleep_tail")
  /\ UNCHANGED <<state, chan, resume, wi>>

\* Mutant: p->lock is kept until lk has been acquired.
sleep_tail_Keep(p, c) ==
  /\ At(p, c, "sleep_tail")
  /\ chan' = [chan EXCEPT ![p] = None]
  /\ Goto(p, "sleep_lk")
  /\ UNCHANGED <<owner, cpu, spin, scheduling, state, intena, resume, wi, clock,
                 sleeplock, panicked>>

\* Tidy up.
sleep_tail(p, c) ==
  /\ At(p, c, "sleep_tail")
  /\ chan' = [chan EXCEPT ![p] = None]
  /\ release(c, p)
  /\ Goto(p, "sleep_lk")
  /\ UNCHANGED <<scheduling, state, intena, resume, wi, clock, sleeplock>>

\* Reacquire lk and return to the loop of acquiresleep.
sleep_lk(p, c) ==
  /\ At(p, c, "sleep_lk")
  /\ acquire(c, lk)
  /\ Goto(p, "test")
  /\ UNCHANGED <<scheduling, state, chan, intena, resume, wi, clock, sleeplock>>

releasesleep(p, c) ==
  /\ At(p, c, "releasesleep")
  /\ acquire(c, lk)
  /\ locked' = FALSE
  /\ holder' = None
  /\ wi' = [wi EXCEPT ![p] = 1]
  /\ Goto(p, "wakeup")
  /\ UNCHANGED <<scheduling, state, chan, intena, resume, clock, inside>>

\* The lock of q in an iteration of wakeup, taken and given back unless q is
\* the caller.
wakeup_lock(c, q) ==
  \/ q = cpu[c].proc /\ UNCHANGED <<owner, cpu, spin, panicked>>
  \/ q # cpu[c].proc /\ acquire_release(c, q)

\* Mutant: a process whose lock is taken is passed over.
wakeup_Try(p, c) ==
  LET q == wi[p] IN
  /\ At(p, c, "wakeup")
  /\ q <= NPROC
  /\ q # p => spin[c] = q
  /\ state' = [state EXCEPT ![q] =
                 IF /\ owner[q] = NoCpu
                    /\ q # p /\ @ = "SLEEPING" /\ chan[q] = L
                 THEN "RUNNABLE" ELSE @]
  /\ wi' = [wi EXCEPT ![p] = @ + 1]
  /\ spin' = [spin EXCEPT ![c] = NoLock]
  /\ cpu' = [cpu EXCEPT ![c] = IF q = p THEN @ ELSE pop_off(@)]
  /\ UNCHANGED <<owner, scheduling, chan, pc, intena, resume, clock, sleeplock,
                 panicked>>

\* One iteration of wakeup(L).
wakeup(p, c) ==
  LET q == wi[p] IN
  /\ At(p, c, "wakeup")
  /\ q <= NPROC
  /\ wakeup_lock(c, q)
  /\ state' = [state EXCEPT ![q] =
                 IF q # p /\ @ = "SLEEPING" /\ chan[q] = L THEN "RUNNABLE"
                                                              ELSE @]
  /\ wi' = [wi EXCEPT ![p] = @ + 1]
  /\ UNCHANGED <<scheduling, chan, pc, intena, resume, clock, sleeplock>>

releasesleep_return(p, c) ==
  /\ At(p, c, "wakeup")
  /\ wi[p] > NPROC
  /\ release(c, lk)
  /\ wi' = [wi EXCEPT ![p] = 1]
  /\ Goto(p, "run")
  /\ UNCHANGED <<scheduling, state, chan, intena, resume, clock, sleeplock>>

-----------------------------------------------------------------------------
(* Timer interrupts: kerneltrap, devintr and clockintr *)

\* The hardware turns interrupts off; devintr calls clockintr on CPU 0.
interrupt(c) ==
  /\ cpu[c].sie
  /\ cpu' = [cpu EXCEPT ![c].sie = FALSE]
  /\ clk' = IF c = Cpu0 THEN "acquire" ELSE clk
  /\ UNCHANGED <<owner, spin, scan, state, chan, intena, wi, ci, sleeplock,
                 panicked>>

\* While p runs, in the kernel or in user space.
timer(p, c) ==
  /\ On(p, c)
  /\ interrupt(c)
  /\ resume' = [resume EXCEPT ![p] = pc[p]]
  /\ Goto(p, "devintr")
  /\ UNCHANGED spc

\* While the scheduler runs. Its interrupt changes nothing on other CPUs.
timer_scheduler ==
  /\ spc[Cpu0] = "scan"
  /\ interrupt(Cpu0)
  /\ spc' = [spc EXCEPT ![Cpu0] = "devintr"]
  /\ UNCHANGED <<pc, resume>>

clockintr ==
  /\ clk = "acquire"
  /\ acquire(Cpu0, tickslock)
  /\ clk' = "wakeup"
  /\ UNCHANGED <<scheduling, process, ci, sleeplock>>

\* One iteration of wakeup(&ticks); no process of this module sleeps there.
clockintr_wakeup ==
  /\ clk = "wakeup"
  /\ ci <= NPROC
  /\ wakeup_lock(Cpu0, ci)
  /\ ci' = ci + 1
  /\ UNCHANGED <<scheduling, process, clk, sleeplock>>

clockintr_return ==
  /\ clk = "wakeup"
  /\ ci > NPROC
  /\ release(Cpu0, tickslock)
  /\ clk' = "idle"
  /\ ci' = 1
  /\ UNCHANGED <<scheduling, process, sleeplock>>

devintr_done(c) == c = Cpu0 => clk = "idle"

\* Back in kerneltrap, which yields for a running process.
kerneltrap_yield(p, c) ==
  /\ At(p, c, "devintr")
  /\ devintr_done(c)
  /\ Goto(p, IF state[p] = "RUNNING" THEN "yield" ELSE "trapret")
  /\ UNCHANGED <<owner, cpu, spin, scheduling, state, chan, intena, resume, wi,
                 clock, sleeplock, panicked>>

\* The scheduler has no process to yield for: kerneltrap returns.
scheduler_trapret(c) ==
  /\ spc[c] = "devintr"
  /\ devintr_done(c)
  /\ cpu' = [cpu EXCEPT ![c].sie = TRUE]
  /\ spc' = [spc EXCEPT ![c] = "scan"]
  /\ UNCHANGED <<owner, spin, scan, process, clock, sleeplock, panicked>>

\* Mutant: yield does not take p->lock.
yield_NoLock(p, c) ==
  /\ At(p, c, "yield")
  /\ spin[c] = p
  /\ spin' = [spin EXCEPT ![c] = NoLock]
  /\ cpu' = [cpu EXCEPT ![c] = pop_off(@)]
  /\ state' = [state EXCEPT ![p] = "RUNNABLE"]
  /\ Goto(p, "yield_sched")
  /\ UNCHANGED <<owner, scheduling, chan, intena, resume, wi, clock, sleeplock,
                 panicked>>

yield(p, c) ==
  /\ At(p, c, "yield")
  /\ acquire(c, p)
  /\ state' = [state EXCEPT ![p] = "RUNNABLE"]
  /\ Goto(p, "yield_sched")
  /\ UNCHANGED <<scheduling, chan, intena, resume, wi, clock, sleeplock>>

yield_sched(p, c) ==
  /\ At(p, c, "yield_sched")
  /\ sched(p, c)
  /\ Goto(p, "yield_tail")
  /\ UNCHANGED <<state, chan, resume, wi>>

yield_tail(p, c) ==
  /\ At(p, c, "yield_tail")
  /\ release(c, p)
  /\ Goto(p, "trapret")
  /\ UNCHANGED <<scheduling, state, chan, intena, resume, wi, clock, sleeplock>>

\* kerneltrap restores sepc and sstatus and returns to the interrupted code.
trapret(p, c) ==
  /\ At(p, c, "trapret")
  /\ cpu' = [cpu EXCEPT ![c].sie = TRUE]
  /\ Goto(p, resume[p])
  /\ resume' = [resume EXCEPT ![p] = "run"]
  /\ UNCHANGED <<owner, spin, scheduling, state, chan, intena, wi, clock,
                 sleeplock, panicked>>

-----------------------------------------------------------------------------
Scheduler(c) ==
  \/ scheduler_intr_on(c) \/ scheduler_acquire(c) \/ scheduler_swtch(c)
  \/ scheduler_skip(c) \/ scheduler_back(c) \/ scheduler_trapret(c)

Thread(p, c) ==
  \/ forkret(p, c) \/ Call(p, c)
  \/ acquiresleep(p, c) \/ acquiresleep_test(p, c) \/ acquiresleep_return(p, c)
  \/ sleep(p, c) \/ sleep_release(p, c) \/ sleep_mark(p, c)
  \/ sleep_sched(p, c) \/ sleep_tail(p, c) \/ sleep_lk(p, c)
  \/ releasesleep(p, c) \/ wakeup(p, c) \/ releasesleep_return(p, c)
  \/ kerneltrap_yield(p, c) \/ yield(p, c) \/ yield_sched(p, c)
  \/ yield_tail(p, c) \/ trapret(p, c)

Clock == clockintr \/ clockintr_wakeup \/ clockintr_return

Next ==
  \/ \E c \in Cpu, l \in Lock : acquire_spin(c, l)
  \/ \E c \in Cpu : Scheduler(c)
  \/ \E p \in Proc, c \in Cpu : Thread(p, c) \/ timer(p, c)
  \/ timer_scheduler
  \/ Clock

Spec == Init /\ [][Next]_vars

\* What CPU c does unless the timer interrupts it, the ends of its spinning,
\* and what the scheduler and a process do where the timer may interrupt them.
Cycle(c) ==
  \/ \E l \in Lock : acquire_spin(c, l)
  \/ Scheduler(c)
  \/ \E p \in Proc : Thread(p, c)
  \/ c = Cpu0 /\ Clock
Spin(c) == spin[c] # NoLock /\ Cycle(c)
Scan(c) ==
  \/ scheduler_intr_on(c)
  \/ spc[c] = "scan" /\ \E l \in Proc : acquire_spin(c, l)
Own(p) ==
  \E c \in Cpu : \/ Call(p, c)
                 \/ /\ On(p, c) /\ pc[p] \in Interruptible
                    /\ acquire_spin(c, lk)

\* A CPU does not stop, the timer keeps ticking, a CPU that spins for a lock
\* gets it if the lock is free again and again, and the scheduler, and a
\* process that is given a CPU again and again, get something done between two
\* ticks.
Fairness ==
  /\ \A c \in Cpu : /\ WF_vars(Cycle(c))
                   /\ SF_vars(Spin(c))
                   /\ SF_vars(Scan(c))
                   /\ SF_vars(\E p \in Proc : timer(p, c))
  /\ \A p \in Proc : SF_vars(Own(p))

FairSpec == Spec /\ Fairness

-----------------------------------------------------------------------------
(* Properties *)

\* The sleep-lock excludes: one process at most is between acquiresleep and
\* releasesleep, and it is the one the lock names (sleeplock.c:21-41).
SleepLockExcludes ==
  \A p \in inside : locked /\ holder = p /\ inside = {p}

\* A kernel stack is used by one CPU at a time, although a process that sleeps
\* or yields is marked so before it has left its stack (proc.c:459-471 and
\* proc.c:549-556: p->lock is held across swtch).
OneCpuPerStack ==
  \A p \in Proc, c \in Cpu :
    On(p, c) => /\ state[p] = "RUNNING" \/ owner[p] = c
                /\ \A d \in Cpu \ {c} : ~On(p, d)

\* No wakeup is lost: while nobody is inside the sleep-lock's spin-lock, a
\* process sleeps on the sleep-lock only if somebody has it (proc.c:542-547).
NoLostWakeup ==
  owner[lk] = NoCpu =>
    \A p \in Proc : state[p] = "SLEEPING" => chan[p] = L /\ locked

\* None of the checks of acquire, release, pop_off and sched fails.
NoPanic == ~panicked

\* From the interrupt to the return from the trap, through yield, a CPU runs
\* with interrupts off, so that sepc and sstatus are not overwritten, and the
\* interrupted code then runs with interrupts on, as does the code around
\* sleep, whatever ran on the CPU in between: intena belongs to the thread
\* (proc.c:476-482 and trap.c:143-160).
InterruptsRestored ==
  \A c \in Cpu :
    /\ spc[c] = "devintr" => ~cpu[c].sie
    /\ \A p \in Proc : On(p, c) =>
         /\ pc[p] \in {"devintr", "trapret"} => ~cpu[c].sie
         /\ pc[p] \in Interruptible /\ spin[c] = NoLock => cpu[c].sie

\* CPUs never spin in a circle, each for a lock that another of them holds, or
\* one of them for its own: sleep gives p->lock back before it reacquires lk,
\* releasesleep and clockintr take the process locks inside theirs, one after
\* the other, and an interrupt finds no lock held (spinlock.c:21-34,
\* proc.c:537-564, proc.c:568-582 and trap.c:163-170).
NoSpinCycle ==
  \A S \in SUBSET Cpu \ {{}} :
    \E c \in S : spin[c] = NoLock \/ owner[spin[c]] \notin S

\* Every process that is runnable, or sleeps on the sleep-lock, runs again: the
\* scheduler goes round the table (proc.c:446-474) and releasesleep wakes every
\* sleeper (sleeplock.c:33-41).
EveryProcessRuns ==
  \A p \in Proc : state[p] # "RUNNING" ~> state[p] = "RUNNING"
=============================================================================
