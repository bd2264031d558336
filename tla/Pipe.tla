-------------------------------- MODULE Pipe --------------------------------
(***************************************************************************)
(* One pipe (kernel/pipe.c) shared by the processes that inherited its two *)
(* ends, from pipealloc to the kfree of pipeclose, with the reference      *)
(* counting of fileclose (kernel/file.c) that decides when an end closes   *)
(* and with kill().                                                        *)
(*                                                                         *)
(* An action is one iteration of the loops of pipewrite or piperead, run   *)
(* with pi->lock held, or what happens between two holders of the lock.    *)
(* sleep() is atomic, but killed() releases its lock before sleep() starts *)
(* so that the check and the sleep are two actions.  nread and nwrite are  *)
(* unsigned and wrap around at UINT.                                       *)
(***************************************************************************)
EXTENDS Integers, Sequences

CONSTANTS Reader,     \* processes that hold the read end
          Writer,     \* processes that hold the write end
          NoProc,     \* nobody
          Killable,   \* processes that kill() may name
          Byte,       \* the values of a byte
          PIPESIZE,
          UINT,       \* number of values of an unsigned int
          MaxCount    \* bound: the largest count passed to read and write

ASSUME ProcAssumption ==
  Reader \cap Writer = {} /\ NoProc \notin Reader \cup Writer
\* 512 divides 2^32 and is smaller.
ASSUME SizeAssumption ==
  /\ PIPESIZE \in Nat \ {0}
  /\ UINT \in Nat
  /\ PIPESIZE < UINT
  /\ UINT % PIPESIZE = 0
  /\ MaxCount \in Nat \ {0}

Proc == Reader \cup Writer

VARIABLES
  data, nread, nwrite, readopen, writeopen,  \* struct pipe
  lock,    \* the process that holds pi->lock
  freed,   \* the page of the pipe was given to kfree
  refs,    \* processes whose file descriptor refers to the pipe's files
  killed,  \* p->killed
  pc,      \* where each process is
  n, i,    \* the argument and the loop variable of pipewrite and piperead
  ch       \* local variable of piperead

vars == <<data, nread, nwrite, readopen, writeopen, lock, freed, refs, killed,
          pc, n, i, ch>>

TypeOK ==
  /\ data \in [0 .. PIPESIZE - 1 -> Byte]
  /\ nread \in 0 .. UINT - 1
  /\ nwrite \in 0 .. UINT - 1
  /\ readopen \in BOOLEAN
  /\ writeopen \in BOOLEAN
  /\ lock \in Proc \cup {NoProc}
  /\ freed \in BOOLEAN
  /\ refs \subseteq Proc
  /\ killed \in [Proc -> BOOLEAN]
  /\ pc \in [Proc -> {"user", "acquire", "loop", "copy", "sleep", "asleep",
                      "pipeclose", "closed"}]
  /\ n \in [Proc -> 0 .. MaxCount]
  /\ i \in [Proc -> 0 .. MaxCount]
  /\ ch \in [Reader -> Byte]

\* pipealloc has succeeded and fork has copied the descriptors.
Init ==
  /\ \E b \in Byte : /\ data = [k \in 0 .. PIPESIZE - 1 |-> b]
                     /\ ch = [p \in Reader |-> b]
  /\ nread = 0
  /\ nwrite = 0
  /\ readopen = TRUE
  /\ writeopen = TRUE
  /\ lock = NoProc
  /\ freed = FALSE
  /\ refs = Proc
  /\ killed = [p \in Proc |-> FALSE]
  /\ pc = [p \in Proc |-> "user"]
  /\ n = [p \in Proc |-> 0]
  /\ i = [p \in Proc |-> 0]

\* Mutant: one byte too many.
Full_OffByOne == nwrite = (nread + PIPESIZE + 1) % UINT

Full == nwrite = (nread + PIPESIZE) % UINT
Empty == nread = nwrite

\* wakeup(&pi->nread) and wakeup(&pi->nwrite): readers sleep on the one,
\* writers on the other.
wakeup(S, f) == [p \in Proc |-> IF p \in S /\ f[p] = "asleep" THEN "acquire"
                                                              ELSE f[p]]

\* release(&pi->lock) and return to user space, after a wakeup of S.
Return(p, S) ==
  /\ lock' = NoProc
  /\ pc' = wakeup(S, [pc EXCEPT ![p] = "user"])
  /\ n' = [n EXCEPT ![p] = 0]
  /\ i' = [i EXCEPT ![p] = 0]

-----------------------------------------------------------------------------
\* read() or write() of k bytes; a killed process makes no more calls.
Call(p, k) ==
  /\ pc[p] = "user"
  /\ p \in refs
  /\ ~killed[p]
  /\ pc' = [pc EXCEPT ![p] = "acquire"]
  /\ n' = [n EXCEPT ![p] = k]
  /\ UNCHANGED <<data, nread, nwrite, readopen, writeopen, lock, freed, refs,
                 killed, i, ch>>

\* acquire(&pi->lock), also the one at the end of sleep().
acquire(p) ==
  /\ pc[p] = "acquire"
  /\ lock = NoProc
  /\ lock' = p
  /\ pc' = [pc EXCEPT ![p] = "loop"]
  /\ UNCHANGED <<data, nread, nwrite, readopen, writeopen, freed, refs, killed,
                 n, i, ch>>

\* sleep(chan, &pi->lock)
sleep(p) ==
  /\ pc[p] = "sleep"
  /\ lock' = NoProc
  /\ pc' = [pc EXCEPT ![p] = "asleep"]
  /\ UNCHANGED <<data, nread, nwrite, readopen, writeopen, freed, refs, killed,
                 n, i, ch>>

-----------------------------------------------------------------------------
(* pipewrite *)

\* Mutant: the loop runs once too often.
WriteGoesOn_OffByOne(p) == i[p] <= n[p] /\ readopen /\ ~killed[p]

WriteGoesOn(p) == i[p] < n[p] /\ readopen /\ ~killed[p]

pipewrite_fail(p) ==
  /\ p \in Writer /\ pc[p] = "loop"
  /\ i[p] < n[p]
  /\ ~readopen \/ killed[p]
  /\ Return(p, {})
  /\ UNCHANGED <<data, nread, nwrite, readopen, writeopen, freed, refs, killed,
                 ch>>

pipewrite_full(p) ==
  /\ p \in Writer /\ pc[p] = "loop"
  /\ WriteGoesOn(p)
  /\ Full
  /\ pc' = wakeup(Reader, [pc EXCEPT ![p] = "sleep"])
  /\ UNCHANGED <<data, nread, nwrite, readopen, writeopen, lock, freed, refs,
                 killed, n, i, ch>>

pipewrite_put(p, b) ==
  /\ p \in Writer /\ pc[p] = "loop"
  /\ WriteGoesOn(p)
  /\ ~Full
  /\ data' = [data EXCEPT ![nwrite % PIPESIZE] = b]
  /\ nwrite' = (nwrite + 1) % UINT
  /\ i' = [i EXCEPT ![p] = @ + 1]
  /\ UNCHANGED <<nread, readopen, writeopen, lock, freed, refs, killed, pc, n,
                 ch>>

\* Mutant: the readers are not woken.
pipewrite_return_NoWakeup(p) ==
  /\ p \in Writer /\ pc[p] = "loop"
  /\ i[p] = n[p] \/ (WriteGoesOn(p) /\ ~Full)
  /\ Return(p, {})
  /\ UNCHANGED <<data, nread, nwrite, readopen, writeopen, freed, refs, killed,
                 ch>>

\* The loop is over, or copyin fails and breaks out of it.
pipewrite_return(p) ==
  /\ p \in Writer /\ pc[p] = "loop"
  /\ i[p] = n[p] \/ (WriteGoesOn(p) /\ ~Full)
  /\ Return(p, Reader)
  /\ UNCHANGED <<data, nread, nwrite, readopen, writeopen, freed, refs, killed,
                 ch>>

-----------------------------------------------------------------------------
(* piperead *)

piperead_killed(p) ==
  /\ p \in Reader /\ pc[p] = "loop"
  /\ Empty /\ writeopen
  /\ killed[p]
  /\ Return(p, {})
  /\ UNCHANGED <<data, nread, nwrite, readopen, writeopen, freed, refs, killed,
                 ch>>

piperead_empty(p) ==
  /\ p \in Reader /\ pc[p] = "loop"
  /\ Empty /\ writeopen
  /\ ~killed[p]
  /\ pc' = [pc EXCEPT ![p] = "sleep"]
  /\ UNCHANGED <<data, nread, nwrite, readopen, writeopen, lock, freed, refs,
                 killed, n, i, ch>>

piperead_ready(p) ==
  /\ p \in Reader /\ pc[p] = "loop"
  /\ ~(Empty /\ writeopen)
  /\ pc' = [pc EXCEPT ![p] = "copy"]
  /\ UNCHANGED <<data, nread, nwrite, readopen, writeopen, lock, freed, refs,
                 killed, n, i, ch>>

\* The byte leaves the pipe before copyout.
TakeByte(p) ==
  /\ p \in Reader /\ pc[p] = "copy"
  /\ i[p] < n[p]
  /\ ~Empty
  /\ ch' = [ch EXCEPT ![p] = data[nread % PIPESIZE]]
  /\ nread' = (nread + 1) % UINT

piperead_get(p) ==
  /\ TakeByte(p)
  /\ i' = [i EXCEPT ![p] = @ + 1]
  /\ UNCHANGED <<data, nwrite, readopen, writeopen, lock, freed, refs, killed,
                 pc, n>>

\* copyout fails and breaks out of the loop.
piperead_fault(p) ==
  /\ TakeByte(p)
  /\ Return(p, Writer)
  /\ UNCHANGED <<data, nwrite, readopen, writeopen, freed, refs, killed>>

\* Mutant: the writers are not woken.
piperead_return_NoWakeup(p) ==
  /\ p \in Reader /\ pc[p] = "copy"
  /\ i[p] = n[p] \/ Empty
  /\ Return(p, {})
  /\ UNCHANGED <<data, nread, nwrite, readopen, writeopen, freed, refs, killed,
                 ch>>

piperead_return(p) ==
  /\ p \in Reader /\ pc[p] = "copy"
  /\ i[p] = n[p] \/ Empty
  /\ Return(p, Writer)
  /\ UNCHANGED <<data, nread, nwrite, readopen, writeopen, freed, refs, killed,
                 ch>>

-----------------------------------------------------------------------------
(* Closing, and kill *)

\* fileclose of p's descriptor: the last reference to an end closes it.
fileclose(p) ==
  LET end == IF p \in Reader THEN Reader ELSE Writer IN
  /\ pc[p] = "user"
  /\ p \in refs
  /\ refs' = refs \ {p}
  /\ pc' = [pc EXCEPT ![p] = IF refs' \cap end = {} THEN "pipeclose"
                                                    ELSE "closed"]
  /\ UNCHANGED <<data, nread, nwrite, readopen, writeopen, lock, freed, killed,
                 n, i, ch>>

\* Mutant: the page is freed when the first end closes.
pipeclose_FreeEarly(p) ==
  /\ pc[p] = "pipeclose"
  /\ lock = NoProc
  /\ readopen' = (readopen /\ p \in Writer)
  /\ writeopen' = (writeopen /\ p \in Reader)
  /\ pc' = wakeup(IF p \in Writer THEN Reader ELSE Writer,
                  [pc EXCEPT ![p] = "closed"])
  /\ freed' = (~readopen' \/ ~writeopen')
  /\ UNCHANGED <<data, nread, nwrite, lock, refs, killed, n, i, ch>>

\* Mutant: nobody is woken.
pipeclose_NoWakeup(p) ==
  /\ pc[p] = "pipeclose"
  /\ lock = NoProc
  /\ readopen' = (readopen /\ p \in Writer)
  /\ writeopen' = (writeopen /\ p \in Reader)
  /\ pc' = [pc EXCEPT ![p] = "closed"]
  /\ freed' = (~readopen' /\ ~writeopen')
  /\ UNCHANGED <<data, nread, nwrite, lock, refs, killed, n, i, ch>>

pipeclose(p) ==
  /\ pc[p] = "pipeclose"
  /\ lock = NoProc
  /\ readopen' = (readopen /\ p \in Writer)
  /\ writeopen' = (writeopen /\ p \in Reader)
  /\ pc' = wakeup(IF p \in Writer THEN Reader ELSE Writer,
                  [pc EXCEPT ![p] = "closed"])
  /\ freed' = (~readopen' /\ ~writeopen')
  /\ UNCHANGED <<data, nread, nwrite, lock, refs, killed, n, i, ch>>

\* kill() of p, which wakes it if it sleeps.
kill(p) ==
  /\ p \in Killable
  /\ pc[p] # "closed"
  /\ ~killed[p]
  /\ killed' = [killed EXCEPT ![p] = TRUE]
  /\ pc' = [pc EXCEPT ![p] = IF @ = "asleep" THEN "acquire" ELSE @]
  /\ UNCHANGED <<data, nread, nwrite, readopen, writeopen, lock, freed, refs, n,
                 i, ch>>

-----------------------------------------------------------------------------
\* The steps of p inside the kernel.
Step(p) ==
  \/ sleep(p)
  \/ pipewrite_fail(p) \/ pipewrite_full(p) \/ pipewrite_return(p)
  \/ \E b \in Byte : pipewrite_put(p, b)
  \/ piperead_killed(p) \/ piperead_empty(p) \/ piperead_ready(p)
  \/ piperead_get(p) \/ piperead_fault(p) \/ piperead_return(p)

\* Both ends are closed by everybody.
Done == (\A p \in Proc : pc[p] = "closed") /\ UNCHANGED vars

Next ==
  \/ Done
  \/ \E p \in Proc :
       \/ \E k \in 0 .. MaxCount : Call(p, k)
       \/ acquire(p) \/ Step(p) \/ fileclose(p) \/ pipeclose(p) \/ kill(p)

Spec == Init /\ [][Next]_vars

\* A process that holds pi->lock goes on, one that spins on it gets it at last,
\* and a killed process exits, which closes its descriptor.
FairSpec ==
  /\ Spec
  /\ \A p \in Proc :
       /\ WF_vars(Step(p))
       /\ SF_vars(acquire(p) \/ pipeclose(p))
       /\ WF_vars(killed[p] /\ fileclose(p))

-----------------------------------------------------------------------------
(* Properties *)

\* nwrite - nread in unsigned arithmetic.
Used == (nwrite - nread) % UINT

\* The bytes in the ring, oldest first.
Contents == [k \in 1 .. Used |-> data[(nread + k - 1) % PIPESIZE]]

BQ == INSTANCE ByteQueue WITH queue <- Contents, Capacity <- PIPESIZE

\* The ring with wrapping counters is a bounded FIFO queue: no byte is lost,
\* repeated, reordered or overwritten, also when nread and nwrite wrap around
\* (pipe.c:88, 95, 113 and 123).
PipeIsQueue == BQ!Spec

\* A reader sleeps only while there is nothing to read and somebody may still
\* write: no wakeup of readers is lost (pipe.c:64, 89 and 99).
ReaderNotStranded ==
  lock = NoProc =>
    \A p \in Reader : pc[p] = "asleep" => Empty /\ writeopen

\* A writer sleeps only while the pipe is full and somebody may still read
\* (pipe.c:67 and 127).
WriterNotStranded ==
  lock = NoProc =>
    \A p \in Writer : pc[p] = "asleep" => Full /\ readopen

\* Once the page of the pipe is freed no process is inside, or on its way into,
\* the code that uses it, and it is not freed again (pipe.c:69-71).
NoUseAfterFree ==
  freed => \A p \in Proc : pc[p] = "closed"

\* Once the other end is closed, a read or write under way returns: a reader
\* sees end of file, a writer an error (pipe.c:84 and 113).
ClosedEndReturns ==
  \A p \in Proc :
    (pc[p] \notin {"user", "closed"} /\ IF p \in Reader THEN ~writeopen
                                                        ELSE ~readopen)
      ~> pc[p] \in {"user", "closed"}
=============================================================================
