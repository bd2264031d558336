-------------------------------- MODULE Log --------------------------------
(***************************************************************************)
(* The redo log of the file system: kernel/log.c, with the part of the     *)
(* buffer cache (kernel/bio.c) it depends on: a modified block lives only  *)
(* in the cache until it is installed, and stays there because log_write   *)
(* pins it.                                                                *)
(*                                                                         *)
(* An action is what one holder of log.lock does before it releases the    *)
(* lock or sleeps, or one synchronous disk write of commit() or of         *)
(* recover_from_log().  sleep() and wakeup() on the channel &log are       *)
(* atomic here.  A crash may come between any two actions; it loses the    *)
(* memory and keeps the disk.  The disk writes one block atomically: the   *)
(* header (4 + 4*LOGSIZE bytes) lies within one sector.                    *)
(***************************************************************************)
EXTENDS Integers, Sequences, FiniteSets

CONSTANTS Proc,         \* processes that make file-system calls
          Block,        \* disk blocks outside the log
          Data,         \* contents of a block
          Zero,         \* what mkfs writes to the log's blocks
          Absent,       \* "the block is not in the buffer cache"
          MAXOPBLOCKS,  \* blocks begin_op reserves for a call
          LOGSIZE,      \* length of the header's array of block numbers
          NLOG,         \* log.size: blocks of the log, the header included
          OpBlocks      \* distinct blocks a call really writes, at most

ASSUME ProcAssumption == IsFiniteSet(Proc)
ASSUME DataAssumption == Zero \in Data /\ Absent \notin Data
ASSUME SizeAssumption ==
  /\ MAXOPBLOCKS \in Nat \ {0}
  /\ LOGSIZE \in Nat /\ MAXOPBLOCKS <= LOGSIZE
  /\ NLOG \in Nat \ {0, 1}
  /\ OpBlocks \in Nat

VARIABLES
  \* on disk
  disk,         \* the blocks outside the log, at their home location
  logblk,       \* the data blocks of the log
  hdr,          \* the header block: the block numbers it lists
  \* in memory
  cache,        \* the buffer cache, for the blocks outside the log
  pinned,       \* blocks with a reference taken by bpin
  lh,           \* log.lh
  outstanding,  \* log.outstanding
  committing,   \* log.committing
  pc,           \* where each process is
  tail,         \* loop variable of write_log and install_trans
  boot,         \* where recover_from_log is; "up" when it has returned
  wrote,        \* blocks each running call has written
  panicked      \* panic() was called

diskVars == <<disk, logblk, hdr>>
vars == <<disk, logblk, hdr, cache, pinned, lh, outstanding, committing, pc,
          tail, boot, wrote, panicked>>

LogIndex == 1 .. NLOG - 1

\* The block numbers a header lists.
Listed(h) == {h[i] : i \in DOMAIN h}

\* bread: the cached contents, else those on disk.
bread(b) == IF cache[b] # Absent THEN cache[b] ELSE disk[b]

TypeOK ==
  /\ disk \in [Block -> Data]
  /\ logblk \in [LogIndex -> Data]
  /\ hdr \in Seq(Block) /\ Len(hdr) < NLOG
  /\ cache \in [Block -> Data \cup {Absent}]
  /\ pinned \subseteq Block
  /\ lh \in Seq(Block) /\ Len(lh) < NLOG
  /\ outstanding \in Nat
  /\ committing \in BOOLEAN
  /\ pc \in [Proc -> {"user", "begin_op", "sleep", "op", "write_log",
                      "install_trans", "committed"}]
  /\ tail \in Nat
  /\ boot \in {"read_head", "install_trans", "up"}
  /\ wrote \in [Proc -> SUBSET Block]
  /\ panicked \in BOOLEAN

\* The disk mkfs leaves, and the first boot from it.
Init ==
  /\ disk \in [Block -> Data]
  /\ logblk = [i \in LogIndex |-> Zero]
  /\ hdr = <<>>
  /\ cache = [b \in Block |-> Absent]
  /\ pinned = {}
  /\ lh = <<>>
  /\ outstanding = 0
  /\ committing = FALSE
  /\ pc = [p \in Proc |-> "user"]
  /\ tail = 0
  /\ boot = "read_head"
  /\ wrote = [p \in Proc |-> {}]
  /\ panicked = FALSE

Running == boot = "up" /\ ~panicked

-----------------------------------------------------------------------------
(* The buffer cache, as the log sees it. *)

\* A file-system call reads block b.
ReadBlock(b) ==
  /\ Running
  /\ cache[b] = Absent
  /\ cache' = [cache EXCEPT ![b] = disk[b]]
  /\ UNCHANGED <<disk, logblk, hdr, pinned, lh, outstanding, committing, pc,
                 tail, boot, wrote, panicked>>

\* bget recycles the buffer of b, which nobody references.
Recycle(b) ==
  /\ Running
  /\ cache[b] # Absent
  /\ b \notin pinned
  /\ cache' = [cache EXCEPT ![b] = Absent]
  /\ UNCHANGED <<disk, logblk, hdr, pinned, lh, outstanding, committing, pc,
                 tail, boot, wrote, panicked>>

-----------------------------------------------------------------------------
(* begin_op, log_write, end_op *)

\* wakeup(&log): the sleepers run the loop of begin_op again.
wakeup(f) == [q \in Proc |-> IF f[q] = "sleep" THEN "begin_op" ELSE f[q]]

StartCall(p) ==
  /\ Running
  /\ pc[p] = "user"
  /\ pc' = [pc EXCEPT ![p] = "begin_op"]
  /\ UNCHANGED <<disk, logblk, hdr, cache, pinned, lh, outstanding,
                 committing, tail, boot, wrote, panicked>>

\* Mutant: the call that is beginning is not counted.
MustWait_OffByOne == \/ committing
                     \/ Len(lh) + outstanding * MAXOPBLOCKS > LOGSIZE

\* The conditions under which begin_op sleeps.
MustWait == \/ committing
            \/ Len(lh) + (outstanding + 1) * MAXOPBLOCKS > LOGSIZE

begin_op_sleep(p) ==
  /\ Running
  /\ pc[p] = "begin_op"
  /\ MustWait
  /\ pc' = [pc EXCEPT ![p] = "sleep"]
  /\ UNCHANGED <<disk, logblk, hdr, cache, pinned, lh, outstanding,
                 committing, tail, boot, wrote, panicked>>

begin_op(p) ==
  /\ Running
  /\ pc[p] = "begin_op"
  /\ ~MustWait
  /\ outstanding' = outstanding + 1
  /\ pc' = [pc EXCEPT ![p] = "op"]
  /\ wrote' = [wrote EXCEPT ![p] = {}]
  /\ UNCHANGED <<disk, logblk, hdr, cache, pinned, lh, committing, tail, boot,
                 panicked>>

\* The two panics of log_write.
TooBig == Len(lh) >= LOGSIZE \/ Len(lh) >= NLOG - 1
OutsideTrans == outstanding < 1

\* Mutant: no absorption.
Logged_Again(b) == Append(lh, b)

\* What log_write does to log.lh: a block already listed is absorbed.
Logged(b) == IF b \in Listed(lh) THEN lh ELSE Append(lh, b)

\* Mutant: bpin is forgotten.
log_write_NoPin(p, b, v) ==
  /\ Running
  /\ pc[p] = "op"
  /\ Cardinality(wrote[p] \cup {b}) <= OpBlocks
  /\ wrote' = [wrote EXCEPT ![p] = @ \cup {b}]
  /\ cache' = [cache EXCEPT ![b] = v]
  /\ panicked' = (TooBig \/ OutsideTrans)
  /\ lh' = IF panicked' THEN lh ELSE Logged(b)
  /\ UNCHANGED <<disk, logblk, hdr, pinned, outstanding, committing, pc, tail,
                 boot>>

\* A call writes v to block b: bread, change the data, log_write, brelse, as
\* the comment on log_write asks.  The caller holds the buffer's sleep-lock
\* throughout.  A block already listed is not pinned again.
log_write(p, b, v) ==
  /\ Running
  /\ pc[p] = "op"
  /\ Cardinality(wrote[p] \cup {b}) <= OpBlocks
  /\ wrote' = [wrote EXCEPT ![p] = @ \cup {b}]
  /\ cache' = [cache EXCEPT ![b] = v]
  /\ panicked' = (TooBig \/ OutsideTrans)
  /\ IF panicked'
     THEN UNCHANGED <<lh, pinned>>
     ELSE /\ lh' = Logged(b)
          /\ pinned' = IF b \in Listed(lh) THEN pinned ELSE pinned \cup {b}
  /\ UNCHANGED <<disk, logblk, hdr, outstanding, committing, pc, tail, boot>>

\* Mutant: the wakeup for the space a call gives back is forgotten.
end_op_NoWakeup(p) ==
  /\ Running
  /\ pc[p] = "op"
  /\ outstanding' = outstanding - 1
  /\ panicked' = committing
  /\ IF outstanding' = 0
     THEN /\ committing' = TRUE
          /\ tail' = 0
          /\ pc' = [pc EXCEPT ![p] = "write_log"]
     ELSE /\ pc' = [pc EXCEPT ![p] = "user"]
          /\ UNCHANGED <<committing, tail>>
  /\ UNCHANGED <<disk, logblk, hdr, cache, pinned, lh, boot, wrote>>

end_op(p) ==
  /\ Running
  /\ pc[p] = "op"
  /\ outstanding' = outstanding - 1
  /\ panicked' = committing
  /\ IF outstanding' = 0
     THEN /\ committing' = TRUE
          /\ tail' = 0
          /\ pc' = [pc EXCEPT ![p] = "write_log"]
     ELSE /\ pc' = wakeup([pc EXCEPT ![p] = "user"])
          /\ UNCHANGED <<committing, tail>>
  /\ UNCHANGED <<disk, logblk, hdr, cache, pinned, lh, boot, wrote>>

-----------------------------------------------------------------------------
(* commit, run by the process whose end_op was the last *)

\* commit() with nothing logged.
commit_empty(p) ==
  /\ Running
  /\ pc[p] = "write_log"
  /\ lh = <<>>
  /\ pc' = [pc EXCEPT ![p] = "committed"]
  /\ UNCHANGED <<disk, logblk, hdr, cache, pinned, lh, outstanding,
                 committing, tail, boot, wrote, panicked>>

\* One iteration of write_log.
write_log(p) ==
  /\ Running
  /\ pc[p] = "write_log"
  /\ tail < Len(lh)
  /\ logblk' = [logblk EXCEPT ![tail + 1] = bread(lh[tail + 1])]
  /\ cache' = [cache EXCEPT ![lh[tail + 1]] = bread(lh[tail + 1])]
  /\ tail' = tail + 1
  /\ UNCHANGED <<disk, hdr, pinned, lh, outstanding, committing, pc, boot,
                 wrote, panicked>>

\* Mutant: the header is written before the data blocks of the log.
write_head_Early(p) ==
  /\ Running
  /\ pc[p] = "write_log"
  /\ lh # <<>>
  /\ hdr' = lh
  /\ tail' = 0
  /\ pc' = [pc EXCEPT ![p] = "install_trans"]
  /\ UNCHANGED <<disk, logblk, cache, pinned, lh, outstanding, committing,
                 boot, wrote, panicked>>

\* The first write_head of commit: the commit point.
write_head(p) ==
  /\ Running
  /\ pc[p] = "write_log"
  /\ lh # <<>>
  /\ tail = Len(lh)
  /\ hdr' = lh
  /\ tail' = 0
  /\ pc' = [pc EXCEPT ![p] = "install_trans"]
  /\ UNCHANGED <<disk, logblk, cache, pinned, lh, outstanding, committing,
                 boot, wrote, panicked>>

\* One iteration of install_trans: the data blocks of the log go home.
install_block ==
  /\ tail < Len(lh)
  /\ disk' = [disk EXCEPT ![lh[tail + 1]] = logblk[tail + 1]]
  /\ cache' = [cache EXCEPT ![lh[tail + 1]] = logblk[tail + 1]]
  /\ tail' = tail + 1

\* log.lh.n = 0; write_head()
erase_log ==
  /\ tail = Len(lh)
  /\ lh' = <<>>
  /\ hdr' = <<>>
  /\ tail' = 0

\* install_trans(0), which also takes the pins away.
install_trans(p) ==
  /\ Running
  /\ pc[p] = "install_trans"
  /\ install_block
  /\ pinned' = pinned \ {lh[tail + 1]}
  /\ UNCHANGED <<logblk, hdr, lh, outstanding, committing, pc, boot, wrote,
                 panicked>>

commit_erase(p) ==
  /\ Running
  /\ pc[p] = "install_trans"
  /\ erase_log
  /\ pc' = [pc EXCEPT ![p] = "committed"]
  /\ UNCHANGED <<disk, logblk, cache, pinned, outstanding, committing, boot,
                 wrote, panicked>>

\* Mutant: the wakeup after commit() is forgotten.
end_commit_NoWakeup(p) ==
  /\ Running
  /\ pc[p] = "committed"
  /\ committing' = FALSE
  /\ pc' = [pc EXCEPT ![p] = "user"]
  /\ UNCHANGED <<disk, logblk, hdr, cache, pinned, lh, outstanding, tail,
                 boot, wrote, panicked>>

\* The end of end_op, after commit().
end_commit(p) ==
  /\ Running
  /\ pc[p] = "committed"
  /\ committing' = FALSE
  /\ pc' = wakeup([pc EXCEPT ![p] = "user"])
  /\ UNCHANGED <<disk, logblk, hdr, cache, pinned, lh, outstanding, tail,
                 boot, wrote, panicked>>

-----------------------------------------------------------------------------
(* Crash and recovery *)

\* Power is lost, or a panicked machine is restarted: only the disk survives.
Crash ==
  /\ cache' = [b \in Block |-> Absent]
  /\ pinned' = {}
  /\ lh' = <<>>
  /\ outstanding' = 0
  /\ committing' = FALSE
  /\ pc' = [p \in Proc |-> "user"]
  /\ tail' = 0
  /\ boot' = "read_head"
  /\ wrote' = [p \in Proc |-> {}]
  /\ panicked' = FALSE
  /\ UNCHANGED diskVars

\* initlog and the read_head of recover_from_log.
read_head ==
  /\ boot = "read_head"
  /\ lh' = hdr
  /\ tail' = 0
  /\ boot' = "install_trans"
  /\ UNCHANGED <<disk, logblk, hdr, cache, pinned, outstanding, committing,
                 pc, wrote, panicked>>

\* install_trans(1)
recover_install ==
  /\ boot = "install_trans"
  /\ install_block
  /\ UNCHANGED <<logblk, hdr, pinned, lh, outstanding, committing, pc, boot,
                 wrote, panicked>>

recover_erase ==
  /\ boot = "install_trans"
  /\ erase_log
  /\ boot' = "up"
  /\ UNCHANGED <<disk, logblk, cache, pinned, outstanding, committing, pc,
                 wrote, panicked>>

-----------------------------------------------------------------------------
\* The steps of a process inside begin_op and end_op.
Step(p) ==
  \/ begin_op_sleep(p) \/ begin_op(p) \/ end_op(p)
  \/ commit_empty(p) \/ write_log(p) \/ write_head(p)
  \/ install_trans(p) \/ commit_erase(p) \/ end_commit(p)

Recover == read_head \/ recover_install \/ recover_erase

Next ==
  \/ \E p \in Proc : StartCall(p) \/ Step(p)
  \/ \E p \in Proc, b \in Block, v \in Data : log_write(p, b, v)
  \/ \E b \in Block : ReadBlock(b) \/ Recycle(b)
  \/ Recover
  \/ Crash

Spec == Init /\ [][Next]_vars

\* A process inside the log's code keeps running, a call that has begun ends,
\* and the boot goes on: the scheduler runs every runnable process and the
\* system calls between begin_op and end_op do not block for ever.
FairSpec == Spec /\ WF_vars(Recover) /\ \A p \in Proc : WF_vars(Step(p))

-----------------------------------------------------------------------------
(* Properties *)

\* p runs commit() or is about to clear log.committing.
Committer(p) == pc[p] \in {"write_log", "install_trans", "committed"}

\* The disk d after installing the log blocks l that the header h lists.
Installed(h, l, d) ==
  [b \in Block |-> IF b \in Listed(h)
                   THEN l[CHOOSE i \in DOMAIN h : h[i] = b]
                   ELSE d[b]]

\* What a recovery that starts now leaves on the disk.
Recovered == Installed(hdr, logblk, disk)

\* What reads of the file system return.
View == [b \in Block |-> IF boot = "up" THEN bread(b) ELSE Recovered[b]]

AD == INSTANCE AtomicDisk WITH
        active <- {p \in Proc : pc[p] = "op"},
        mem <- View,
        durable <- Recovered

\* The log implements atomic transactions: the state a recovery would restore
\* changes only at the commit point, when no call is in progress, and then to
\* everything the calls wrote; a crash takes the file system back to it
\* (log.c:10-31, and recover_from_log after a crash at any disk write).
Transactions == AD!Spec

\* No call panics with "too big a transaction", "log_write outside of trans"
\* or "log.committing": what begin_op reserves is enough for what the calls
\* write (log.c:133 against log.c:220).
NoPanic == ~panicked

\* Nobody sleeps in begin_op unless some process is still bound to call
\* wakeup(&log): one inside a call, or the committing one (log.c:131-135
\* against log.c:162 and log.c:172).
SleeperHasWaker ==
  (\E p \in Proc : pc[p] = "sleep") =>
     outstanding > 0 \/ \E p \in Proc : Committer(p)

\* Nobody is left asleep in begin_op once its reasons to wait are gone: the
\* space a call gives back when it ends, like the end of a commit, wakes the
\* sleepers in the same critical section (log.c:131-135 against log.c:157-162
\* and log.c:171-172).
SleeperMustWait == (\E p \in Proc : pc[p] = "sleep") => MustWait

\* A block that a call changed and that is not on disk yet is pinned in the
\* cache until it is installed, so that bget cannot drop the only copy
\* (log.c:231 and log.c:79).
DirtyIsPinned ==
  ~panicked => \A b \in Block : bread(b) # disk[b] => b \in pinned

\* A process that sleeps in begin_op is woken up (log.c:132 and log.c:135
\* against log.c:162 and log.c:172); a restart counts as waking up.
SleeperWakes == \A p \in Proc : pc[p] = "sleep" ~> pc[p] # "sleep"
-----------------------------------------------------------------------------
(* The inductive invariant *)

\* At most one process commits, and only while no call is in progress; with
\* no call and no commit the log is empty; nobody runs before recovery ends.
CallInv ==
  /\ outstanding = Cardinality({p \in Proc : pc[p] = "op"})
  /\ \A p, q \in Proc : Committer(p) /\ Committer(q) => p = q
  /\ committing <=> \E p \in Proc : Committer(p)
  /\ committing => outstanding = 0
  /\ ~committing /\ outstanding = 0 /\ boot = "up" => lh = <<>>
  /\ \A p \in Proc : pc[p] = "committed" => lh = <<>>
  /\ boot # "up" => /\ \A p \in Proc : pc[p] = "user"
                    /\ pinned = {}
                    /\ ~panicked
  /\ SleeperHasWaker

Distinct(h) == \A i, j \in DOMAIN h : h[i] = h[j] => i = j

\* A cached block that differs from the disk is pinned and in the log.
CacheInv ==
  ~panicked => \A b \in Block :
                 bread(b) # disk[b] => b \in pinned /\ b \in Listed(lh)

\* Until a transaction is installed, every block it lists is pinned.
PinInv ==
  boot = "up" /\ (\A p \in Proc : pc[p] # "install_trans") =>
    Listed(lh) \subseteq pinned

\* The on-disk header lists a transaction exactly while it is installed; the
\* copies made so far, to the log and then home, are those of the cache.
TransInv ==
  /\ Distinct(lh) /\ Distinct(hdr)
  /\ \A p \in Proc : pc[p] = "write_log" =>
       /\ tail <= Len(lh)
       /\ \A i \in 1 .. tail : logblk[i] = bread(lh[i])
  /\ \A p \in Proc : pc[p] = "install_trans" =>
       \A i \in DOMAIN lh : logblk[i] = bread(lh[i])
  /\ (boot = "install_trans" \/ \E p \in Proc : pc[p] = "install_trans") =>
       /\ tail <= Len(lh)
       /\ hdr = lh
       /\ \A i \in 1 .. tail : disk[lh[i]] = logblk[i]
  /\ boot = "up" /\ (\A p \in Proc : pc[p] # "install_trans") => hdr = <<>>

\* The conjunction that every step preserves: who may be where, what the cache
\* holds, and how far the transaction has come (log.c as a whole).
IndInv == TypeOK /\ CallInv /\ CacheInv /\ PinInv /\ TransInv
=============================================================================
