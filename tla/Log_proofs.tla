----------------------------- MODULE Log_proofs -----------------------------
(***************************************************************************)
(* Proofs about Log for every set of processes, blocks and contents and    *)
(* every size of the log: the inductive invariant IndInv, and from it that *)
(* modified blocks are pinned, that sleepers have a waker and a reason to  *)
(* sleep, and that the log implements AtomicDisk.                          *)
(***************************************************************************)
EXTENDS Log, FiniteSetTheorems, TLAPS

\* Every step has the SMT solver for up to 30 seconds, unless it says otherwise.
USE SMTT(30)

Active == {p \in Proc : pc[p] = "op"}

\* The processes in a call are finitely many, and outstanding counts them
\* (log.c:137 and log.c:152).
LEMMA ActiveFinite ==
  ASSUME TypeOK, CallInv
  PROVE  /\ IsFiniteSet(Active)
         /\ outstanding = Cardinality(Active)
         /\ \A p \in Active : outstanding > 0
         /\ outstanding = 0 => Active = {}
<1>1. Active \subseteq Proc
  BY Zenon DEF Active
<1>2. IsFiniteSet(Active)
  BY <1>1, ProcAssumption, FS_Subset, Zenon
<1>3. outstanding = Cardinality(Active)
  BY Zenon DEF CallInv, Active
<1>4. outstanding = 0 <=> Active = {}
  BY <1>2, <1>3, FS_EmptySet, Zenon
<1>5. outstanding \in Nat
  BY Zenon DEF TypeOK
<1> QED
  BY <1>2, <1>3, <1>4, <1>5

\* Every step keeps the variables in their types; end_op does not take
\* outstanding below zero and log_write stays within the log's blocks.
LEMMA TypeStep ==
  ASSUME IndInv, [Next]_vars
  PROVE  TypeOK'
<1> USE DEF IndInv
<1>1. CASE UNCHANGED vars
  BY <1>1, Zenon DEF TypeOK, vars
<1>2. ASSUME NEW p \in Proc, StartCall(p) PROVE TypeOK'
  BY <1>2, Zenon DEF TypeOK, StartCall
<1>3. ASSUME NEW p \in Proc, begin_op_sleep(p) PROVE TypeOK'
  BY <1>3, Zenon DEF TypeOK, begin_op_sleep
<1>4. ASSUME NEW p \in Proc, begin_op(p) PROVE TypeOK'
  BY <1>4 DEF TypeOK, begin_op
<1>5. ASSUME NEW p \in Proc, end_op(p) PROVE TypeOK'
  <2>1. outstanding > 0
    BY <1>5, ActiveFinite, Zenon DEF end_op, Active
  <2>2. /\ outstanding' \in Nat
        /\ tail' \in Nat
        /\ pc' \in [Proc -> {"user", "begin_op", "sleep", "op", "write_log",
                            "install_trans", "committed"}]
    BY <1>5, <2>1 DEF TypeOK, end_op, wakeup
  <2>3. committing' \in BOOLEAN /\ panicked' \in BOOLEAN
    BY <1>5, Zenon DEF TypeOK, end_op
  <2> QED
    BY <1>5, <2>2, <2>3, Zenon DEF TypeOK, end_op
<1>6. ASSUME NEW p \in Proc, NEW b \in Block, NEW v \in Data, log_write(p, b, v)
      PROVE TypeOK'
  <2>1. lh' \in Seq(Block) /\ Len(lh') < NLOG
    <3>1. CASE panicked'
      BY <1>6, <3>1, Zenon DEF TypeOK, log_write
    <3>2. CASE ~panicked'
      <4>1. ~TooBig /\ lh' = Logged(b)
        BY <1>6, <3>2, Zenon DEF log_write
      <4>2. Len(lh) < NLOG - 1
        BY <4>1, SizeAssumption DEF TypeOK, TooBig
      <4> QED
        BY <4>1, <4>2, SizeAssumption DEF TypeOK, Logged
    <3> QED
      BY <3>1, <3>2, Zenon
  <2>2. panicked' \in BOOLEAN
    BY <1>6, Zenon DEF log_write, TooBig, OutsideTrans
  <2>3. pinned' \subseteq Block
    BY <1>6, Zenon DEF TypeOK, log_write
  <2> QED
    BY <1>6, <2>1, <2>2, <2>3, Zenon DEF TypeOK, log_write
<1>7. ASSUME NEW p \in Proc, commit_empty(p) PROVE TypeOK'
  BY <1>7, Zenon DEF TypeOK, commit_empty
<1>8. ASSUME NEW p \in Proc, write_log(p) PROVE TypeOK'
  <2>1. tail + 1 \in DOMAIN lh /\ tail + 1 \in LogIndex
    BY <1>8, SizeAssumption DEF TypeOK, write_log, LogIndex
  <2>2. lh[tail + 1] \in Block /\ bread(lh[tail + 1]) \in Data
    BY <2>1 DEF TypeOK, bread
  <2> QED
    BY <1>8, <2>1, <2>2 DEF TypeOK, write_log
<1>9. ASSUME NEW p \in Proc, write_head(p) PROVE TypeOK'
  BY <1>9, Zenon DEF TypeOK, write_head
<1>10. ASSUME install_block
       PROVE  /\ lh[tail + 1] \in Block
              /\ disk' \in [Block -> Data]
              /\ cache' \in [Block -> Data \cup {Absent}]
              /\ tail' \in Nat
  <2>1. tail + 1 \in DOMAIN lh /\ tail + 1 \in LogIndex
    BY <1>10, SizeAssumption DEF TypeOK, install_block, LogIndex
  <2>2. lh[tail + 1] \in Block /\ logblk[tail + 1] \in Data
    BY <2>1 DEF TypeOK
  <2> QED
    BY <1>10, <2>1, <2>2 DEF TypeOK, install_block
<1>11. ASSUME NEW p \in Proc, install_trans(p) PROVE TypeOK'
  BY <1>10, <1>11, Zenon DEF TypeOK, install_trans
<1>12. ASSUME NEW p \in Proc, commit_erase(p) PROVE TypeOK'
  BY <1>12, SizeAssumption DEF TypeOK, commit_erase, erase_log
<1>13. ASSUME NEW p \in Proc, end_commit(p) PROVE TypeOK'
  BY <1>13, Zenon DEF TypeOK, end_commit, wakeup
<1>14. ASSUME NEW b \in Block, ReadBlock(b) PROVE TypeOK'
  BY <1>14, Zenon DEF TypeOK, ReadBlock
<1>15. ASSUME NEW b \in Block, Recycle(b) PROVE TypeOK'
  BY <1>15, Zenon DEF TypeOK, Recycle
<1>16. CASE read_head
  BY <1>16, Zenon DEF TypeOK, read_head
<1>17. CASE recover_install
  BY <1>10, <1>17, Zenon DEF TypeOK, recover_install
<1>18. CASE recover_erase
  BY <1>18, SizeAssumption DEF TypeOK, recover_erase, erase_log
<1>19. CASE Crash
  <2>1. /\ cache' \in [Block -> Data \cup {Absent}]
        /\ wrote' \in [Proc -> SUBSET Block]
        /\ lh' \in Seq(Block) /\ Len(lh') < NLOG
    BY <1>19, SizeAssumption DEF Crash
  <2> QED
    BY <1>19, <2>1, Zenon DEF TypeOK, Crash, diskVars
<1> QED
  BY <1>1, <1>2, <1>3, <1>4, <1>5, <1>6, <1>7, <1>8, <1>9, <1>11, <1>12,
     <1>13, <1>14, <1>15, <1>16, <1>17, <1>18, <1>19, Zenon
  DEF Next, Step, Recover

\* log_write either panics before it touches the log or records the block and
\* pins it if it is new (log.c:220-233); it never clears an earlier panic.
LEMMA LogWriteCases ==
  ASSUME NEW p \in Proc, NEW b \in Block, NEW v \in Data, log_write(p, b, v)
  PROVE  \/ panicked' /\ lh' = lh /\ pinned' = pinned
         \/ /\ ~panicked' /\ ~TooBig /\ ~OutsideTrans
            /\ lh' = Logged(b)
            /\ pinned' = IF b \in Listed(lh) THEN pinned ELSE pinned \cup {b}
BY Zenon DEF log_write

\* Nothing commits while a call is in progress (log.c:153-156).
LEMMA CallExcludesCommit ==
  ASSUME IndInv, NEW p \in Proc, pc[p] = "op"
  PROVE  ~committing /\ \A q \in Proc : ~Committer(q)
<1>1. outstanding > 0 /\ outstanding \in Nat
  BY ActiveFinite, Zenon DEF IndInv, TypeOK, Active
<1>2. outstanding # 0
  BY <1>1
<1> QED
  BY <1>2, Zenon DEF IndInv, CallInv

\* A block that log_write absorbs is pinned already (log.c:225-231).
LEMMA LogWritePins ==
  ASSUME IndInv, NEW p \in Proc, NEW b \in Block, NEW v \in Data,
         log_write(p, b, v), ~panicked'
  PROVE  lh' = Logged(b) /\ pinned' = pinned \cup {b}
<1>1. boot = "up" /\ pc[p] = "op"
  BY Zenon DEF log_write, Running
<1>2. \A q \in Proc : pc[q] # "install_trans"
  BY <1>1, CallExcludesCommit, Zenon DEF Committer
<1>3. Listed(lh) \subseteq pinned
  BY <1>1, <1>2, Zenon DEF IndInv, PinInv
<1>4. lh' = Logged(b)
      /\ pinned' = IF b \in Listed(lh) THEN pinned ELSE pinned \cup {b}
  BY LogWriteCases, Zenon
<1>5. CASE b \in Listed(lh)
  BY <1>3, <1>4, <1>5, Zenon
<1>6. CASE b \notin Listed(lh)
  BY <1>4, <1>6, Zenon
<1> QED
  BY <1>5, <1>6, Zenon

\* Two calls never end into the same commit, and nobody sleeps in begin_op
\* without a process that will wake it (log.c:126-175).
LEMMA CallStep ==
  ASSUME IndInv, [Next]_vars
  PROVE  CallInv'
<1> USE DEF IndInv
<1>a. /\ IsFiniteSet(Active)
      /\ outstanding = Cardinality(Active)
      /\ \A p \in Active : outstanding > 0
      /\ outstanding = 0 => Active = {}
      /\ outstanding \in Nat
  BY ActiveFinite, Zenon DEF TypeOK
<1>1. CASE UNCHANGED vars
  BY <1>1, Zenon DEF CallInv, SleeperHasWaker, Committer, vars
<1>2. ASSUME NEW p \in Proc, StartCall(p) PROVE CallInv'
  <2>1. Active' = Active
    BY <1>2, Zenon DEF StartCall, Active, TypeOK
  <2> QED
    BY <1>2, <2>1, <1>a, Zenon
    DEF CallInv, SleeperHasWaker, Committer, StartCall, Running, Active, TypeOK
<1>3. ASSUME NEW p \in Proc, begin_op_sleep(p) PROVE CallInv'
  <2>1. Active' = Active
    BY <1>3, Zenon DEF begin_op_sleep, Active, TypeOK
  <2>2. outstanding > 0 \/ \E q \in Proc : Committer(q)
    <3>1. CASE committing
      BY <3>1, Zenon DEF CallInv
    <3>2. CASE ~committing /\ outstanding = 0
      <4>1. Len(lh) = 0
        BY <1>3, <3>2, Zenon DEF CallInv, begin_op_sleep, Running
      <4>2. Len(lh) + (outstanding + 1) * MAXOPBLOCKS = MAXOPBLOCKS
        BY <4>1, <3>2, SizeAssumption
      <4> QED
        BY <1>3, <3>2, <4>2, SizeAssumption DEF begin_op_sleep, MustWait
    <3> QED
      BY <3>1, <3>2, <1>a
  <2> QED
    BY <1>3, <2>1, <2>2, <1>a, Zenon
    DEF CallInv, SleeperHasWaker, Committer, begin_op_sleep, Running, Active,
        TypeOK
<1>4. ASSUME NEW p \in Proc, begin_op(p) PROVE CallInv'
  <2>1. Active' = Active \cup {p} /\ p \notin Active
    BY <1>4, Zenon DEF begin_op, Active, TypeOK
  <2>2. outstanding' = Cardinality(Active')
    BY <2>1, <1>a, <1>4, FS_AddElement, Zenon DEF begin_op
  <2>3. ~committing
    BY <1>4, Zenon DEF begin_op, MustWait
  <2> QED
    BY <1>4, <2>2, <2>3, <1>a
    DEF CallInv, SleeperHasWaker, Committer, begin_op, Running, Active, TypeOK
<1>5. ASSUME NEW p \in Proc, end_op(p) PROVE CallInv'
  <2>1. Active' = Active \ {p} /\ p \in Active
    BY <1>5, Zenon DEF end_op, Active, TypeOK, wakeup
  <2>2. outstanding' = Cardinality(Active')
    BY <2>1, <1>a, <1>5, FS_RemoveElement, Zenon DEF end_op
  <2>3. ~committing /\ \A q \in Proc : ~Committer(q)
    BY <2>1, <1>a, Zenon DEF CallInv
  <2>4. CASE outstanding' = 0
    BY <1>5, <2>2, <2>3, <2>4, <1>a
    DEF CallInv, SleeperHasWaker, Committer, end_op, Running, Active, TypeOK
  <2>5. CASE outstanding' # 0
    <3>1. committing' = committing /\ boot' = "up"
      BY <1>5, <2>5, Zenon DEF end_op, Running
    <3>2. \A q \in Proc : ~Committer(q)' /\ pc'[q] # "sleep"
      BY <1>5, <2>3, <2>5, Zenon DEF end_op, wakeup, TypeOK, Committer
    <3> QED
      BY <2>2, <2>3, <2>5, <3>1, <3>2, Zenon
      DEF CallInv, SleeperHasWaker, Committer, Active
  <2> QED
    BY <2>4, <2>5, Zenon
<1>6. ASSUME NEW p \in Proc, NEW b \in Block, NEW v \in Data, log_write(p, b, v)
      PROVE CallInv'
  <2>1. Active' = Active /\ p \in Active
    BY <1>6, Zenon DEF log_write, Active
  <2>2. outstanding > 0 /\ ~committing /\ \A q \in Proc : ~Committer(q)
    BY <2>1, <1>a, Zenon DEF CallInv
  <2> QED
    BY <1>6, <2>1, <2>2, <1>a, Zenon
    DEF CallInv, SleeperHasWaker, Committer, log_write, Running, Active, TypeOK
<1>7. ASSUME NEW p \in Proc, commit_empty(p) PROVE CallInv'
  <2>1. Active' = Active
    BY <1>7, Zenon DEF commit_empty, Active, TypeOK
  <2> QED
    BY <1>7, <2>1, <1>a, Zenon
    DEF CallInv, SleeperHasWaker, Committer, commit_empty, Running, Active,
        TypeOK
<1>8. ASSUME NEW p \in Proc, write_log(p) PROVE CallInv'
  BY <1>8, Zenon DEF CallInv, SleeperHasWaker, Committer, write_log, Running
<1>9. ASSUME NEW p \in Proc, write_head(p) PROVE CallInv'
  <2>1. Active' = Active
    BY <1>9, Zenon DEF write_head, Active, TypeOK
  <2> QED
    BY <1>9, <2>1, <1>a, Zenon
    DEF CallInv, SleeperHasWaker, Committer, write_head, Running, Active,
        TypeOK
<1>10. ASSUME NEW p \in Proc, install_trans(p) PROVE CallInv'
  BY <1>10, Zenon DEF CallInv, SleeperHasWaker, Committer, install_trans,
               install_block, Running
<1>11. ASSUME NEW p \in Proc, commit_erase(p) PROVE CallInv'
  <2>1. Active' = Active
    BY <1>11, Zenon DEF commit_erase, Active, TypeOK
  <2> QED
    BY <1>11, <2>1, <1>a, Zenon
    DEF CallInv, SleeperHasWaker, Committer, commit_erase, erase_log, Running,
        Active, TypeOK
<1>12. ASSUME NEW p \in Proc, end_commit(p) PROVE CallInv'
  <2>1. Active' = Active
    BY <1>12, Zenon DEF end_commit, Active, TypeOK, wakeup
  <2>2. \A q \in Proc : ~Committer(q)' /\ pc'[q] # "sleep"
    BY <1>12, Zenon DEF CallInv, Committer, end_commit, wakeup, TypeOK
  <2> QED
    BY <1>12, <2>1, <2>2, <1>a, Zenon
    DEF CallInv, SleeperHasWaker, Committer, end_commit, Running, Active,
        TypeOK
<1>13. ASSUME NEW b \in Block, ReadBlock(b) PROVE CallInv'
  BY <1>13, Zenon DEF CallInv, SleeperHasWaker, Committer, ReadBlock
<1>14. ASSUME NEW b \in Block, Recycle(b) PROVE CallInv'
  BY <1>14, Zenon DEF CallInv, SleeperHasWaker, Committer, Recycle
<1>15. CASE read_head
  BY <1>15, Zenon DEF CallInv, SleeperHasWaker, Committer, read_head
<1>16. CASE recover_install
  BY <1>16, Zenon DEF CallInv, SleeperHasWaker, Committer, recover_install
<1>17. CASE recover_erase
  BY <1>17, Zenon DEF CallInv, SleeperHasWaker, Committer, recover_erase, erase_log
<1>18. CASE Crash
  <2>1. Active' = {} /\ outstanding' = 0
    BY <1>18, Zenon DEF Crash, Active
  <2>2. outstanding' = Cardinality(Active')
    BY <2>1, FS_EmptySet, Zenon
  <2> QED
    BY <1>18, <2>2, Zenon DEF CallInv, SleeperHasWaker, Committer, Crash, Active
<1> QED
  BY <1>1, <1>2, <1>3, <1>4, <1>5, <1>6, <1>7, <1>8, <1>9, <1>10, <1>11, <1>12,
     <1>13, <1>14, <1>15, <1>16, <1>17, <1>18, Zenon
  DEF Next, Step, Recover

\* Reading a block in or recycling an unpinned buffer does not change what
\* bread returns (bio.c: bget).
LEMMA BreadStable ==
  ASSUME IndInv, NEW b \in Block, ReadBlock(b) \/ Recycle(b), NEW c \in Block
  PROVE  bread(c)' = bread(c)
<1>1. CASE ReadBlock(b)
  BY <1>1, DataAssumption, Zenon DEF ReadBlock, bread, IndInv, TypeOK
<1>2. CASE Recycle(b)
  <2>1. bread(b) = disk[b]
    BY <1>2, Zenon DEF Recycle, Running, IndInv, CacheInv
  <2> QED
    BY <1>2, <2>1, DataAssumption, Zenon DEF Recycle, bread, IndInv, TypeOK
<1> QED
  BY <1>1, <1>2, Zenon

\* One iteration of install_trans: the block's home and its buffer get the
\* log's copy, and nothing else changes (log.c:73-82).
LEMMA InstallBlock ==
  ASSUME IndInv, install_block, NEW h, h = lh[tail + 1]
  PROVE  /\ tail + 1 \in DOMAIN lh
         /\ h \in Block
         /\ logblk[tail + 1] \in Data
         /\ disk'[h] = logblk[tail + 1]
         /\ bread(h)' = logblk[tail + 1]
         /\ \A c \in Block \ {h} : disk'[c] = disk[c] /\ bread(c)' = bread(c)
<1>1. tail + 1 \in DOMAIN lh /\ tail + 1 \in LogIndex
  BY SizeAssumption DEF IndInv, TypeOK, install_block, LogIndex
<1>2. h \in Block /\ logblk[tail + 1] \in Data
  BY <1>1 DEF IndInv, TypeOK
<1> QED
  BY <1>1, <1>2, DataAssumption, Zenon DEF IndInv, TypeOK, install_block, bread

\* What log_write leaves in the cache.
LEMMA LogWriteBread ==
  ASSUME IndInv, NEW p \in Proc, NEW b \in Block, NEW v \in Data,
         log_write(p, b, v), NEW c \in Block
  PROVE  bread(c)' = IF c = b THEN v ELSE bread(c)
BY DataAssumption, Zenon DEF log_write, bread, IndInv, TypeOK

\* Appending a block to a header.
LEMMA ListedAppend ==
  ASSUME NEW h \in Seq(Block), NEW b \in Block
  PROVE  Listed(Append(h, b)) = Listed(h) \cup {b}
<1>a. DOMAIN h = 1 .. Len(h) /\ Len(h) \in Nat
  OBVIOUS
<1>b. DOMAIN Append(h, b) = 1 .. Len(h) + 1
  BY <1>a
<1>c. \A i \in 1 .. Len(h) : Append(h, b)[i] = h[i]
  BY <1>a
<1>d. Append(h, b)[Len(h) + 1] = b
  BY <1>a
<1>1. ASSUME NEW i \in DOMAIN Append(h, b)
      PROVE  Append(h, b)[i] \in Listed(h) \cup {b}
  <2>1. CASE i = Len(h) + 1
    BY <2>1, <1>d, Zenon
  <2>2. CASE i # Len(h) + 1
    <3>1. i \in DOMAIN h
      BY <1>a, <1>b, <2>2
    <3> QED
      BY <3>1, <1>a, <1>c, Zenon DEF Listed
  <2> QED
    BY <2>1, <2>2, Zenon
<1>2. Listed(Append(h, b)) \subseteq Listed(h) \cup {b}
  BY <1>1, Zenon DEF Listed
<1>3. Listed(h) \cup {b} \subseteq Listed(Append(h, b))
  BY <1>a, <1>b, <1>c, <1>d DEF Listed
<1> QED
  BY <1>2, <1>3, Zenon

\* log_write lists the block, whether it is new or absorbed.
LEMMA ListedLogged ==
  ASSUME lh \in Seq(Block), NEW b \in Block
  PROVE  Listed(Logged(b)) = Listed(lh) \cup {b}
<1>1. CASE b \in Listed(lh)
  BY <1>1, Zenon DEF Logged
<1>2. CASE b \notin Listed(lh)
  BY <1>2, ListedAppend, Zenon DEF Logged
<1> QED
  BY <1>1, <1>2, Zenon

\* A buffer that differs from the disk stays pinned and logged until
\* install_trans has written it home.
LEMMA CacheStep ==
  ASSUME IndInv, [Next]_vars
  PROVE  CacheInv'
<1> USE DEF IndInv
<1>1. CASE UNCHANGED vars
  BY <1>1, Zenon DEF CacheInv, bread, Listed, vars
<1>2. ASSUME NEW p \in Proc, StartCall(p) PROVE CacheInv'
  BY <1>2, Zenon DEF CacheInv, bread, Listed, StartCall
<1>3. ASSUME NEW p \in Proc, begin_op_sleep(p) PROVE CacheInv'
  BY <1>3, Zenon DEF CacheInv, bread, Listed, begin_op_sleep
<1>4. ASSUME NEW p \in Proc, begin_op(p) PROVE CacheInv'
  BY <1>4, Zenon DEF CacheInv, bread, Listed, begin_op
<1>5. ASSUME NEW p \in Proc, end_op(p) PROVE CacheInv'
  BY <1>5, Zenon DEF CacheInv, bread, Listed, end_op, Running
<1>6. ASSUME NEW p \in Proc, NEW b \in Block, NEW v \in Data, log_write(p, b, v)
      PROVE CacheInv'
  <2>1. CASE panicked'
    BY <2>1, Zenon DEF CacheInv
  <2>2. CASE ~panicked'
    <3>1. lh' = Logged(b) /\ pinned' = pinned \cup {b}
      BY <1>6, <2>2, LogWritePins, Zenon
    <3>2. Listed(lh') = Listed(lh) \cup {b}
      BY <3>1, ListedLogged, Zenon DEF TypeOK
    <3>3. ~panicked /\ disk' = disk
      BY <1>6, Zenon DEF log_write, Running
    <3> QED
      BY <1>6, <3>1, <3>2, <3>3, LogWriteBread, Zenon DEF CacheInv, Listed
  <2> QED
    BY <2>1, <2>2, Zenon
<1>7. ASSUME NEW p \in Proc, commit_empty(p) PROVE CacheInv'
  BY <1>7, Zenon DEF CacheInv, bread, Listed, commit_empty
<1>8. ASSUME NEW p \in Proc, write_log(p) PROVE CacheInv'
  <2>1. lh[tail + 1] \in Block
    BY <1>8 DEF TypeOK, write_log
  <2> QED
    BY <1>8, <2>1, DataAssumption, Zenon
    DEF CacheInv, bread, Listed, write_log, TypeOK
<1>9. ASSUME NEW p \in Proc, write_head(p) PROVE CacheInv'
  BY <1>9, Zenon DEF CacheInv, bread, Listed, write_head
<1>10. ASSUME NEW p \in Proc, install_trans(p) PROVE CacheInv'
  <2>1. install_block /\ lh' = lh /\ pinned' = pinned \ {lh[tail + 1]}
        /\ panicked' = panicked
    BY <1>10, Zenon DEF install_trans
  <2>2. PICK h : h = lh[tail + 1]
    BY Zenon
  <2> QED
    BY <2>1, <2>2, InstallBlock, Zenon DEF CacheInv, Listed
<1>11. ASSUME NEW p \in Proc, commit_erase(p) PROVE CacheInv'
  <2>1. /\ tail = Len(lh) /\ cache' = cache /\ disk' = disk /\ ~panicked
        /\ pc[p] = "install_trans"
    BY <1>11, Zenon DEF commit_erase, erase_log, Running
  <2>2. \A i \in DOMAIN lh : disk[lh[i]] = bread(lh[i])
    BY <2>1 DEF TransInv, TypeOK
  <2>3. \A b \in Block : bread(b) = disk[b]
    BY <2>1, <2>2, Zenon DEF CacheInv, Listed
  <2> QED
    BY <2>1, <2>3, Zenon DEF CacheInv, bread
<1>12. ASSUME NEW p \in Proc, end_commit(p) PROVE CacheInv'
  BY <1>12, Zenon DEF CacheInv, bread, Listed, end_commit
<1>13. ASSUME NEW b \in Block, ReadBlock(b) PROVE CacheInv'
  BY <1>13, BreadStable, Zenon DEF CacheInv, Listed, ReadBlock
<1>14. ASSUME NEW b \in Block, Recycle(b) PROVE CacheInv'
  BY <1>14, BreadStable, Zenon DEF CacheInv, Listed, Recycle
<1>15. CASE read_head
  BY <1>15, Zenon DEF CacheInv, CallInv, bread, Listed, read_head
<1>16. CASE recover_install
  <2>1. install_block /\ lh' = lh /\ pinned' = pinned /\ panicked' = panicked
        /\ pinned = {} /\ ~panicked
    BY <1>16, Zenon DEF recover_install, CallInv
  <2>2. PICK h : h = lh[tail + 1]
    BY Zenon
  <2> QED
    BY <2>1, <2>2, InstallBlock, Zenon DEF CacheInv, Listed
<1>17. CASE recover_erase
  <2>1. cache' = cache /\ disk' = disk /\ pinned = {} /\ ~panicked
    BY <1>17, Zenon DEF recover_erase, CallInv
  <2> QED
    BY <2>1, Zenon DEF CacheInv, bread
<1>18. CASE Crash
  BY <1>18, Zenon DEF CacheInv, bread, Crash
<1> QED
  BY <1>1, <1>2, <1>3, <1>4, <1>5, <1>6, <1>7, <1>8, <1>9, <1>10,
     <1>11, <1>12, <1>13, <1>14, <1>15, <1>16, <1>17, <1>18, Zenon
  DEF Next, Step, Recover

\* An empty header lists nothing.
LEMMA ListedEmpty == Listed(<<>>) = {}
BY DEF Listed

\* What a transaction lists stays pinned until install_trans starts.
LEMMA PinStep ==
  ASSUME IndInv, [Next]_vars
  PROVE  PinInv'
<1> USE DEF IndInv
<1>s. ASSUME UNCHANGED <<lh, pinned, boot>>,
             \A q \in Proc : pc[q] = "install_trans" =>
                             pc'[q] = "install_trans"
      PROVE  PinInv'
  BY <1>s, Zenon DEF PinInv, Listed
<1>e. ASSUME lh' = <<>> PROVE PinInv'
  BY <1>e, ListedEmpty, Zenon DEF PinInv
<1>1. CASE UNCHANGED vars
  BY <1>1, <1>s, Zenon DEF vars
<1>2. ASSUME NEW p \in Proc,
             \/ StartCall(p) \/ begin_op_sleep(p) \/ begin_op(p)
             \/ commit_empty(p) \/ write_log(p)
      PROVE  PinInv'
  <2>1. UNCHANGED <<lh, pinned, boot>>
    BY <1>2, Zenon
    DEF StartCall, begin_op_sleep, begin_op, commit_empty, write_log
  <2>2. \A q \in Proc : pc[q] = "install_trans" => pc'[q] = "install_trans"
    BY <1>2, Zenon
    DEF StartCall, begin_op_sleep, begin_op, commit_empty, write_log, TypeOK
  <2> QED
    BY <2>1, <2>2, <1>s, Zenon
<1>3. ASSUME NEW p \in Proc, end_op(p) \/ end_commit(p) PROVE PinInv'
  <2>1. UNCHANGED <<lh, pinned, boot>>
    BY <1>3, Zenon DEF end_op, end_commit
  <2>2. \A q \in Proc : pc[q] = "install_trans" => pc'[q] = "install_trans"
    BY <1>3, Zenon DEF end_op, end_commit, wakeup, TypeOK
  <2> QED
    BY <2>1, <2>2, <1>s, Zenon
<1>4. ASSUME NEW p \in Proc, NEW b \in Block, NEW v \in Data, log_write(p, b, v)
      PROVE PinInv'
  <2>1. pc' = pc /\ boot' = boot
    BY <1>4, Zenon DEF log_write
  <2>2. CASE panicked'
    BY <1>4, <2>1, <2>2, <1>s, LogWriteCases, Zenon
  <2>3. CASE ~panicked'
    <3>1. lh' = Logged(b) /\ pinned' = pinned \cup {b}
      BY <1>4, <2>3, LogWritePins, Zenon
    <3>2. Listed(lh') = Listed(lh) \cup {b}
      BY <3>1, ListedLogged, Zenon DEF TypeOK
    <3> QED
      BY <2>1, <3>1, <3>2, Zenon DEF PinInv, Listed
  <2> QED
    BY <2>2, <2>3, Zenon
<1>5. ASSUME NEW p \in Proc, write_head(p) \/ install_trans(p) PROVE PinInv'
  <2>1. pc'[p] = "install_trans"
    BY <1>5, Zenon DEF write_head, install_trans, TypeOK
  <2> QED
    BY <2>1, Zenon DEF PinInv
<1>6. ASSUME NEW p \in Proc, commit_erase(p) PROVE PinInv'
  BY <1>6, <1>e, Zenon DEF commit_erase, erase_log
<1>7. ASSUME NEW b \in Block, ReadBlock(b) \/ Recycle(b) PROVE PinInv'
  BY <1>7, <1>s, Zenon DEF ReadBlock, Recycle
<1>8. CASE read_head \/ recover_install
  BY <1>8, Zenon DEF read_head, recover_install, PinInv
<1>9. CASE recover_erase \/ Crash
  BY <1>9, <1>e, Zenon DEF recover_erase, erase_log, Crash
<1> QED
  BY <1>1, <1>2, <1>3, <1>4, <1>5, <1>6, <1>7, <1>8, <1>9, Zenon
  DEF Next, Step, Recover

\* Log absorption: log_write lists no block twice (log.c:225-233).
LEMMA LoggedDistinct ==
  ASSUME NEW b \in Block, lh \in Seq(Block), Distinct(lh)
  PROVE  Distinct(Logged(b))
<1>1. CASE b \in Listed(lh)
  BY <1>1, Zenon DEF Logged
<1>2. CASE b \notin Listed(lh)
  <2>1. /\ DOMAIN Append(lh, b) = 1 .. Len(lh) + 1
        /\ \A i \in 1 .. Len(lh) : Append(lh, b)[i] = lh[i]
        /\ Append(lh, b)[Len(lh) + 1] = b
        /\ DOMAIN lh = 1 .. Len(lh) /\ Len(lh) \in Nat
    OBVIOUS
  <2>2. \A i \in 1 .. Len(lh) : lh[i] # b
    BY <1>2, <2>1, Zenon DEF Listed
  <2> QED
    BY <1>2, <2>1, <2>2 DEF Logged, Distinct
<1> QED
  BY <1>1, <1>2, Zenon

\* A step that leaves the disk, the cache, the log and the commit phases as
\* they are keeps TransInv.
LEMMA TransFrame ==
  ASSUME IndInv,
         UNCHANGED <<disk, logblk, hdr, cache, lh, tail, boot>>,
         \A q \in Proc : /\ pc'[q] = "write_log" => pc[q] = "write_log"
                         /\ pc'[q] = "install_trans" <=> pc[q] = "install_trans"
  PROVE  TransInv'
BY Zenon DEF IndInv, TransInv, Distinct, bread

\* The copies made by write_log and install_trans agree with the cache, and
\* the on-disk header lists them exactly while they are installed.
LEMMA TransStep ==
  ASSUME IndInv, [Next]_vars
  PROVE  TransInv'
<1> USE DEF IndInv
<1>a. /\ \A p \in Active : \A q \in Proc : ~Committer(q)
      /\ \A p, q \in Proc : Committer(p) /\ Committer(q) => p = q
      /\ \A p \in Proc : boot = "up" \/ ~Committer(p)
      /\ \A p \in Proc : pc[p] \in {"write_log", "install_trans"} => Committer(p)
  BY ActiveFinite, Zenon DEF CallInv, Committer
<1>1. CASE UNCHANGED vars
  BY <1>1, TransFrame, Zenon DEF vars
<1>2. ASSUME NEW p \in Proc, StartCall(p) PROVE TransInv'
  BY <1>2, TransFrame, Zenon DEF StartCall, TypeOK
<1>3. ASSUME NEW p \in Proc, begin_op_sleep(p) PROVE TransInv'
  BY <1>3, TransFrame, Zenon DEF begin_op_sleep, TypeOK
<1>4. ASSUME NEW p \in Proc, begin_op(p) PROVE TransInv'
  BY <1>4, TransFrame, Zenon DEF begin_op, TypeOK
<1>5. ASSUME NEW p \in Proc, end_op(p) PROVE TransInv'
  <2>1. \A q \in Proc : ~Committer(q)
    BY <1>5, <1>a, Zenon DEF end_op, Active
  <2>2. CASE outstanding' = 0
    <3>1. \A q \in Proc : pc'[q] # "install_trans"
      BY <1>5, <2>1, <2>2, <1>a, Zenon DEF end_op, TypeOK
    <3>2. \A q \in Proc : pc[q] # "install_trans"
      BY <2>1, <1>a, Zenon
    <3>3. tail' = 0
      BY <1>5, <2>2, Zenon DEF end_op
    <3> QED
      BY <1>5, <3>1, <3>2, <3>3
      DEF end_op, Running, TransInv, Distinct, TypeOK
  <2>3. CASE outstanding' # 0
    BY <1>5, <2>1, <2>3, <1>a, TransFrame, Zenon DEF end_op, wakeup, TypeOK
  <2> QED
    BY <2>2, <2>3, Zenon
<1>6. ASSUME NEW p \in Proc, NEW b \in Block, NEW v \in Data, log_write(p, b, v)
      PROVE TransInv'
  <2>1. \A q \in Proc : pc[q] \notin {"write_log", "install_trans"}
    BY <1>6, <1>a, Zenon DEF log_write, Active
  <2>2. Distinct(lh')
    BY <1>6, LogWriteCases, LoggedDistinct, Zenon DEF TransInv, TypeOK
  <2> QED
    BY <1>6, <2>1, <2>2, ZenonT(30) DEF log_write, Running, TransInv, Distinct
<1>7. ASSUME NEW p \in Proc, commit_empty(p) PROVE TransInv'
  BY <1>7, TransFrame, Zenon DEF commit_empty, TypeOK
<1>8. ASSUME NEW p \in Proc, write_log(p) PROVE TransInv'
  <2>1. /\ tail + 1 \in DOMAIN lh /\ tail + 1 \in LogIndex
        /\ lh[tail + 1] \in Block /\ bread(lh[tail + 1]) \in Data
        /\ tail' = tail + 1 /\ tail + 1 <= Len(lh) /\ tail \in Nat
    BY <1>8, SizeAssumption DEF TypeOK, write_log, LogIndex, bread
  <2>2. \A c \in Block : bread(c)' = bread(c)
    BY <1>8, <2>1, DataAssumption, Zenon DEF TypeOK, write_log, bread
  <2>3. \A q \in Proc : pc[q] # "install_trans"
    BY <1>8, <1>a, Zenon DEF write_log, Committer
  <2>4. \A i \in 1 .. tail : logblk'[i] = logblk[i]
    BY <1>8, <2>1 DEF write_log, TypeOK, LogIndex
  <2>5. logblk'[tail + 1] = bread(lh[tail + 1])
    BY <1>8, <2>1, Zenon DEF write_log, TypeOK
  <2>6. \A i \in 1 .. tail' : logblk'[i] = bread(lh[i])
    <3>1. \A i \in 1 .. tail : logblk[i] = bread(lh[i])
      BY <1>8, Zenon DEF TransInv, write_log
    <3>2. \A i \in 1 .. tail' : i \in 1 .. tail \/ i = tail + 1
      BY <2>1
    <3> QED
      BY <2>4, <2>5, <3>1, <3>2, Zenon
  <2>7. \A i \in 1 .. tail' : lh[i] \in Block
    BY <2>1 DEF TypeOK
  <2>8. \A i \in 1 .. tail' : logblk'[i] = bread(lh[i])'
    BY <1>8, <2>2, <2>6, <2>7, Zenon DEF write_log
  <2> QED
    BY <1>8, <2>1, <2>3, <2>8, Zenon
    DEF TransInv, Distinct, write_log, Running
<1>9. ASSUME NEW p \in Proc, write_head(p) PROVE TransInv'
  <2>1. \A i \in DOMAIN lh : logblk[i] = bread(lh[i])
    BY <1>9 DEF TransInv, write_head, TypeOK
  <2>2. \A q \in Proc : pc'[q] # "write_log"
    BY <1>9, <1>a, Zenon DEF write_head, TypeOK, Committer
  <2>3. pc'[p] = "install_trans"
    BY <1>9, Zenon DEF write_head, TypeOK
  <2> QED
    BY <1>9, <2>1, <2>2, <2>3
    DEF TransInv, Distinct, write_head, Running, bread, TypeOK
<1>10. ASSUME install_block, UNCHANGED <<logblk, hdr, lh, pc, boot>>,
              boot = "install_trans" \/ \E p \in Proc : pc[p] = "install_trans"
       PROVE  TransInv'
  <2>1. PICK h : h = lh[tail + 1]
    BY Zenon
  <2>2. /\ tail + 1 \in DOMAIN lh /\ tail \in Nat
        /\ h \in Block
        /\ disk'[h] = logblk[tail + 1]
        /\ bread(h)' = logblk[tail + 1]
        /\ \A c \in Block \ {h} : disk'[c] = disk[c] /\ bread(c)' = bread(c)
        /\ tail' = tail + 1 /\ tail' <= Len(lh)
    BY <1>10, <2>1, InstallBlock DEF TypeOK, install_block
  <2>3. \A i \in DOMAIN lh : lh[i] \in Block /\ (lh[i] = h => i = tail + 1)
    BY <2>1, <2>2 DEF TypeOK, TransInv, Distinct
  <2>4. \A i \in 1 .. tail' : disk'[lh[i]] = logblk[i]
    <3>1. \A i \in 1 .. tail : i \in DOMAIN lh /\ i # tail + 1
      BY <2>2 DEF TypeOK
    <3>2. \A i \in 1 .. tail : disk'[lh[i]] = logblk[i]
      BY <1>10, <2>2, <2>3, <3>1, Zenon DEF TransInv
    <3> QED
      BY <2>1, <2>2, <3>2
  <2>5. ASSUME NEW q \in Proc, pc[q] = "install_trans", NEW i \in DOMAIN lh
        PROVE  logblk[i] = bread(lh[i])'
    <3>1. CASE i = tail + 1
      BY <1>10, <2>1, <2>2, <3>1, Zenon
    <3>2. CASE i # tail + 1
      <4>1. bread(lh[i])' = bread(lh[i])
        BY <1>10, <2>2, <2>3, <3>2, Zenon
      <4> QED
        BY <2>5, <4>1, Zenon DEF TransInv
    <3> QED
      BY <3>1, <3>2, Zenon
  <2>6. \A q \in Proc : pc[q] # "write_log"
    BY <1>10, <1>a, Zenon DEF Committer
  <2> QED
    BY <1>10, <2>2, <2>4, <2>5, <2>6, Zenon DEF TransInv, Distinct
<1>11. ASSUME NEW p \in Proc, install_trans(p) PROVE TransInv'
  BY <1>10, <1>11, Zenon DEF install_trans
<1>12. ASSUME NEW p \in Proc, commit_erase(p) PROVE TransInv'
  <2>1. \A q \in Proc : pc'[q] \notin {"write_log", "install_trans"}
    BY <1>12, <1>a, Zenon DEF commit_erase, TypeOK, Committer
  <2> QED
    BY <1>12, <2>1
    DEF commit_erase, erase_log, Running, TransInv, Distinct
<1>13. ASSUME NEW p \in Proc, end_commit(p) PROVE TransInv'
  BY <1>13, TransFrame, Zenon DEF end_commit, wakeup, TypeOK
<1>14. ASSUME NEW b \in Block, ReadBlock(b) \/ Recycle(b) PROVE TransInv'
  <2>1. \A c \in Block : bread(c)' = bread(c)
    BY <1>14, BreadStable, Zenon
  <2>2. \A i \in DOMAIN lh : lh[i] \in Block
    BY DEF TypeOK
  <2>3. UNCHANGED <<disk, logblk, hdr, lh, tail, boot, pc>>
    BY <1>14, Zenon DEF ReadBlock, Recycle
  <2>4. \A i \in DOMAIN lh : bread(lh[i])' = bread(lh[i])
    BY <2>1, <2>2, <2>3, Zenon
  <2>5. tail <= Len(lh) => \A i \in 1 .. tail : i \in DOMAIN lh
    BY DEF TypeOK
  <2>6. Distinct(lh') /\ Distinct(hdr')
    BY <2>3, Zenon DEF TransInv, Distinct
  <2>7. \A q \in Proc : pc'[q] = "write_log" =>
          tail' <= Len(lh') /\ \A i \in 1 .. tail' : logblk'[i] = bread(lh[i])'
    BY <2>3, <2>4, <2>5, Zenon DEF TransInv
  <2>8. \A q \in Proc : pc'[q] = "install_trans" =>
          \A i \in DOMAIN lh' : logblk'[i] = bread(lh[i])'
    BY <2>3, <2>4, Zenon DEF TransInv
  <2> QED
    BY <2>3, <2>6, <2>7, <2>8, Zenon DEF TransInv
<1>15. CASE read_head
  BY <1>15, <1>a DEF read_head, TransInv, Distinct, TypeOK
<1>16. CASE recover_install
  BY <1>10, <1>16, Zenon DEF recover_install
<1>17. CASE recover_erase
  <2>1. lh' = <<>> /\ hdr' = <<>> /\ boot' = "up" /\ pc' = pc
    BY <1>17, Zenon DEF recover_erase, erase_log
  <2>2. \A q \in Proc : pc[q] = "user"
    BY <1>17, Zenon DEF recover_erase, CallInv
  <2>3. Distinct(<<>>)
    BY DEF Distinct
  <2> QED
    BY <2>1, <2>2, <2>3, Zenon DEF TransInv, Distinct
<1>18. CASE Crash
  <2>1. /\ lh' = <<>> /\ hdr' = hdr /\ boot' = "read_head"
        /\ \A q \in Proc : pc'[q] = "user"
    BY <1>18, Zenon DEF Crash, diskVars
  <2>2. Distinct(<<>>)
    BY DEF Distinct
  <2>3. Distinct(lh') /\ Distinct(hdr')
    BY <2>1, <2>2, Zenon DEF TransInv, Distinct
  <2> QED
    BY <2>1, <2>3, Zenon DEF TransInv
<1> QED
  BY <1>1, <1>2, <1>3, <1>4, <1>5, <1>6, <1>7, <1>8, <1>9, <1>11,
     <1>12, <1>13, <1>14, <1>15, <1>16, <1>17, <1>18, Zenon
  DEF Next, Step, Recover

-----------------------------------------------------------------------------
(* The theorems *)

\* The disk mkfs leaves satisfies the invariant.
LEMMA InitIndInv == Init => IndInv
<1> SUFFICES ASSUME Init PROVE IndInv
  BY Zenon
<1>1. TypeOK
  <2>1. /\ logblk \in [LogIndex -> Data]
        /\ hdr \in Seq(Block) /\ Len(hdr) < NLOG
        /\ lh \in Seq(Block) /\ Len(lh) < NLOG
    BY DataAssumption, SizeAssumption DEF Init
  <2>2. /\ cache \in [Block -> Data \cup {Absent}]
        /\ wrote \in [Proc -> SUBSET Block]
    BY Zenon DEF Init
  <2> QED
    BY <2>1, <2>2, Zenon DEF Init, TypeOK
<1>2. {p \in Proc : pc[p] = "op"} = {}
  BY Zenon DEF Init
<1>3. CallInv
  BY <1>2, FS_EmptySet, Zenon DEF Init, CallInv, SleeperHasWaker, Committer
<1>4. CacheInv
  BY Zenon DEF Init, CacheInv, bread
<1>5. TransInv
  BY DEF Init, TransInv, Distinct
<1>6. PinInv
  BY Zenon DEF Init, PinInv
<1> QED
  BY <1>1, <1>3, <1>4, <1>5, <1>6, Zenon DEF IndInv

\* IndInv holds in every reachable state, whatever the processes, blocks and
\* log sizes and wherever crashes come.
THEOREM LogInvariant == Spec => []IndInv
<1>1. IndInv /\ [Next]_vars => IndInv'
  BY TypeStep, CallStep, CacheStep, PinStep, TransStep, Zenon DEF IndInv
<1> QED
  BY <1>1, InitIndInv, PTL DEF Spec

\* The variables keep their types: in particular neither the in-memory nor
\* the on-disk header outgrows the log's data blocks.
THEOREM LogTypeCorrect == Spec => []TypeOK
<1>1. IndInv => TypeOK
  BY Zenon DEF IndInv
<1> QED
  BY <1>1, LogInvariant, PTL

\* The only copy of a modified block is always pinned in the buffer cache.
THEOREM LogDirtyIsPinned == Spec => []DirtyIsPinned
<1>1. IndInv => DirtyIsPinned
  BY Zenon DEF IndInv, CacheInv, DirtyIsPinned
<1> QED
  BY <1>1, LogInvariant, PTL

\* No process sleeps in begin_op without one that will call wakeup(&log).
THEOREM LogSleeperHasWaker == Spec => []SleeperHasWaker
<1>1. IndInv => SleeperHasWaker
  BY Zenon DEF IndInv, CallInv
<1> QED
  BY <1>1, LogInvariant, PTL

\* A step that takes away the reason to sleep also wakes the sleepers.
LEMMA SleeperStep ==
  ASSUME IndInv, SleeperMustWait, [Next]_vars
  PROVE  SleeperMustWait'
<1> USE DEF IndInv
<1>s. ASSUME UNCHANGED <<committing, outstanding, lh>>,
             \A q \in Proc : pc'[q] = "sleep" => pc[q] = "sleep"
      PROVE  SleeperMustWait'
  BY <1>s, Zenon DEF SleeperMustWait, MustWait
<1>n. ASSUME \A q \in Proc : pc'[q] # "sleep" PROVE SleeperMustWait'
  BY <1>n, Zenon DEF SleeperMustWait
<1>c. ASSUME committing' PROVE SleeperMustWait'
  BY <1>c, Zenon DEF SleeperMustWait, MustWait
<1>1. CASE UNCHANGED vars
  BY <1>1, <1>s, Zenon DEF vars
<1>2. ASSUME NEW p \in Proc, StartCall(p) PROVE SleeperMustWait'
  BY <1>2, <1>s, Zenon DEF StartCall, TypeOK
<1>3. ASSUME NEW p \in Proc, begin_op_sleep(p) PROVE SleeperMustWait'
  BY <1>3, Zenon DEF begin_op_sleep, SleeperMustWait, MustWait
<1>4. ASSUME NEW p \in Proc, begin_op(p) PROVE SleeperMustWait'
  <2>1. \A q \in Proc : pc[q] # "sleep"
    BY <1>4, Zenon DEF begin_op, SleeperMustWait
  <2> QED
    BY <1>4, <1>n, <2>1, Zenon DEF begin_op, TypeOK
<1>5. ASSUME NEW p \in Proc, end_op(p) PROVE SleeperMustWait'
  <2>1. CASE outstanding' = 0
    BY <1>5, <1>c, <2>1, Zenon DEF end_op
  <2>2. CASE outstanding' # 0
    <3>1. \A q \in Proc : pc'[q] # "sleep"
      BY <1>5, <2>2, Zenon DEF end_op, wakeup, TypeOK
    <3> QED
      BY <3>1, <1>n, Zenon
  <2> QED
    BY <2>1, <2>2, Zenon
<1>6. ASSUME NEW p \in Proc, NEW b \in Block, NEW v \in Data, log_write(p, b, v)
      PROVE SleeperMustWait'
  <2> DEFINE K == (outstanding + 1) * MAXOPBLOCKS
  <2>1. pc' = pc /\ UNCHANGED <<outstanding, committing>>
    BY <1>6, Zenon DEF log_write
  <2>2. K' = K /\ K \in Int
    BY <2>1, SizeAssumption DEF TypeOK
  <2>3. Len(lh') >= Len(lh) /\ Len(lh) \in Nat /\ Len(lh') \in Nat
    <3>1. lh \in Seq(Block) /\ (lh' = lh \/ lh' = Append(lh, b))
      BY <1>6, LogWriteCases, Zenon DEF Logged, TypeOK
    <3> QED
      BY <3>1
  <2>4. LOGSIZE \in Int
    BY SizeAssumption
  <2>5. Len(lh) + K > LOGSIZE => Len(lh') + K' > LOGSIZE
    <3> HIDE DEF K
    <3> QED
      BY <2>2, <2>3, <2>4
  <2> QED
    BY <2>1, <2>5, Zenon DEF SleeperMustWait, MustWait
<1>7. ASSUME NEW p \in Proc,
             \/ commit_empty(p) \/ write_log(p) \/ write_head(p)
             \/ install_trans(p) \/ commit_erase(p)
      PROVE  SleeperMustWait'
  <2>1. Committer(p) /\ committing' = committing
    BY <1>7, Zenon
    DEF commit_empty, write_log, write_head, install_trans, commit_erase,
        Committer
  <2>2. committing'
    BY <2>1, Zenon DEF CallInv
  <2> QED
    BY <2>2, <1>c, Zenon
<1>8. ASSUME NEW p \in Proc, end_commit(p) PROVE SleeperMustWait'
  <2>1. \A q \in Proc : pc'[q] # "sleep"
    BY <1>8, Zenon DEF end_commit, wakeup, TypeOK
  <2> QED
    BY <2>1, <1>n, Zenon
<1>9. ASSUME NEW b \in Block, ReadBlock(b) \/ Recycle(b)
      PROVE  SleeperMustWait'
  BY <1>9, <1>s, Zenon DEF ReadBlock, Recycle
<1>10. CASE read_head \/ recover_install \/ recover_erase
  <2>1. boot # "up" /\ pc' = pc
    BY <1>10, Zenon DEF read_head, recover_install, recover_erase
  <2> QED
    BY <2>1, <1>n, Zenon DEF CallInv
<1>11. CASE Crash
  BY <1>11, <1>n, Zenon DEF Crash
<1> QED
  BY <1>1, <1>2, <1>3, <1>4, <1>5, <1>6, <1>7, <1>8, <1>9, <1>10, <1>11, Zenon
  DEF Next, Step, Recover

\* No process sleeps in begin_op when it could go on: every step that frees
\* log space or ends a commit also wakes the sleepers.
THEOREM LogSleeperMustWait == Spec => []SleeperMustWait
<1>1. Init => SleeperMustWait
  BY Zenon DEF Init, SleeperMustWait
<1>2. IndInv /\ SleeperMustWait /\ [Next]_vars => SleeperMustWait'
  BY SleeperStep, Zenon
<1> QED
  BY <1>1, <1>2, LogInvariant, PTL DEF Spec

\* Installing a header without repetitions copies each log block to the home
\* the header gives it and leaves the other blocks alone.
LEMMA InstalledAt ==
  ASSUME NEW h \in Seq(Block), Distinct(h), NEW l, NEW d
  PROVE  /\ \A i \in DOMAIN h : Installed(h, l, d)[h[i]] = l[i]
         /\ \A b \in Block \ Listed(h) : Installed(h, l, d)[b] = d[b]
<1>1. ASSUME NEW i \in DOMAIN h PROVE Installed(h, l, d)[h[i]] = l[i]
  <2>1. h[i] \in Block /\ h[i] \in Listed(h)
    BY DEF Listed
  <2>2. (CHOOSE j \in DOMAIN h : h[j] = h[i]) = i
    BY Zenon DEF Distinct
  <2> QED
    BY <2>1, <2>2, Zenon DEF Installed
<1>2. ASSUME NEW b \in Block \ Listed(h) PROVE Installed(h, l, d)[b] = d[b]
  BY Zenon DEF Installed
<1> QED
  BY <1>1, <1>2, Zenon

\* What the blocks that the header lists held before does not matter.
LEMMA InstalledFrame ==
  ASSUME NEW h, NEW l, NEW d, NEW e,
         \A b \in Block \ Listed(h) : d[b] = e[b]
  PROVE  Installed(h, l, d) = Installed(h, l, e)
BY DEF Installed

\* An empty header installs nothing.
LEMMA InstalledEmpty ==
  ASSUME NEW l, NEW d \in [Block -> Data]
  PROVE  Installed(<<>>, l, d) = d
<1>1. Listed(<<>>) = {}
  BY DEF Listed
<1> QED
  BY <1>1, Zenon DEF Installed

\* Each step of the log is a step of AtomicDisk or changes nothing there.
LEMMA TransactionsStep ==
  ASSUME IndInv, TypeOK', [Next]_vars
  PROVE  [AD!Next]_(AD!vars)
<1> USE DEF IndInv
<1>a. /\ Recovered = [b \in Block |-> Recovered[b]]
      /\ Recovered' = [b \in Block |-> Recovered'[b]]
      /\ View = [b \in Block |-> View[b]]
      /\ View' = [b \in Block |-> View'[b]]
  <2>1. Recovered = [b \in Block |-> Recovered[b]]
    BY DEF Recovered, Installed
  <2>2. Recovered' = [b \in Block |-> Recovered'[b]]
    BY DEF Recovered, Installed
  <2>3. View = [b \in Block |-> View[b]]
    BY Zenon DEF View
  <2>4. View' = [b \in Block |-> View'[b]]
    BY Zenon DEF View
  <2> QED
    BY <2>1, <2>2, <2>3, <2>4, Zenon
<1>b. \A b \in Block : View[b] = IF boot = "up" THEN bread(b) ELSE Recovered[b]
  BY Zenon DEF View
<1>c. \A b \in Block :
        View'[b] = IF boot' = "up" THEN bread(b)' ELSE Recovered'[b]
  BY Zenon DEF View
<1>d. Active = {p \in Proc : pc[p] = "op"}
  BY Zenon DEF Active
<1>s. ASSUME Active' = Active, Recovered' = Recovered, View' = View
      PROVE  UNCHANGED AD!vars
  BY <1>s, Zenon DEF AD!vars, Active
<1>1. CASE UNCHANGED vars
  <2>1. Active' = Active /\ Recovered' = Recovered /\ View' = View
    BY <1>1, Zenon DEF Active, Recovered, View, bread, vars
  <2> QED
    BY <2>1, <1>s, Zenon
<1>2. ASSUME NEW p \in Proc, \/ StartCall(p) \/ begin_op_sleep(p)
                             \/ commit_empty(p) \/ end_commit(p)
      PROVE  UNCHANGED AD!vars
  <2>1. UNCHANGED <<disk, logblk, hdr, cache, boot>>
    BY <1>2, Zenon DEF StartCall, begin_op_sleep, commit_empty, end_commit
  <2>2. Active' = Active
    BY <1>2, Zenon
    DEF StartCall, begin_op_sleep, commit_empty, end_commit, wakeup, Active,
        TypeOK
  <2>3. Recovered' = Recovered /\ View' = View
    BY <2>1, Zenon DEF Recovered, View, bread
  <2> QED
    BY <2>2, <2>3, <1>s, Zenon
<1>3. ASSUME NEW p \in Proc, begin_op(p) PROVE AD!Begin(p)
  <2>1. Active' = Active \cup {p} /\ p \notin Active
    BY <1>3 DEF begin_op, Active, TypeOK
  <2>2. Recovered' = Recovered /\ View' = View
    BY <1>3, Zenon DEF begin_op, Recovered, View, bread
  <2> QED
    BY <2>1, <2>2, Zenon DEF AD!Begin, Active
<1>4. ASSUME NEW p \in Proc, end_op(p) PROVE AD!End(p)
  <2>1. Active' = Active \ {p} /\ p \in Active
    BY <1>4, Zenon DEF end_op, Active, TypeOK, wakeup
  <2>2. Recovered' = Recovered /\ View' = View
    BY <1>4, Zenon DEF end_op, Recovered, View, bread
  <2> QED
    BY <2>1, <2>2, Zenon DEF AD!End, Active
<1>5. ASSUME NEW p \in Proc, NEW b \in Block, NEW v \in Data, log_write(p, b, v)
      PROVE  AD!Write(p, b, v)
  <2>1. Active' = Active /\ p \in Active
    BY <1>5, Zenon DEF log_write, Active
  <2>2. Recovered' = Recovered
    BY <1>5, Zenon DEF log_write, Recovered
  <2>3. \A c \in Block : View'[c] = IF c = b THEN v ELSE View[c]
    BY <1>5, <1>b, <1>c, LogWriteBread, ZenonT(30) DEF log_write, Running
  <2>4. View' = [View EXCEPT ![b] = v]
    BY <2>3, <1>a, Zenon
  <2> QED
    BY <2>1, <2>2, <2>4, Zenon DEF AD!Write, Active
<1>6. ASSUME NEW p \in Proc, write_log(p) PROVE UNCHANGED AD!vars
  <2>1. \A q \in Proc : pc[q] # "install_trans"
    BY <1>6, Zenon DEF write_log, CallInv, Committer
  <2>2. hdr = <<>> /\ hdr' = <<>> /\ disk' = disk
    BY <1>6, <2>1, Zenon DEF write_log, Running, TransInv
  <2>3. Recovered' = Recovered
    BY <2>2, InstalledEmpty, Zenon DEF Recovered, TypeOK
  <2>4. lh[tail + 1] \in Block /\ bread(lh[tail + 1]) \in Data
    <3>1. tail + 1 \in DOMAIN lh
      BY <1>6 DEF write_log, TypeOK
    <3>2. \A c \in Block : bread(c) \in Data
      BY Zenon DEF TypeOK, bread
    <3>3. lh[tail + 1] \in Block
      BY <3>1 DEF TypeOK
    <3> QED
      BY <3>2, <3>3, Zenon
  <2>5. \A c \in Block : bread(c)' = bread(c)
    BY <1>6, <2>4, DataAssumption, Zenon DEF TypeOK, write_log, bread
  <2>6. View' = View
    BY <1>6, <2>3, <2>5, Zenon DEF View, write_log
  <2>7. Active' = Active
    BY <1>6, Zenon DEF write_log, Active
  <2> QED
    BY <2>3, <2>6, <2>7, <1>s, Zenon
<1>7. ASSUME NEW p \in Proc, write_head(p) PROVE AD!Commit
  <2>1. Active' = {} /\ Active = {}
    BY <1>7, ActiveFinite, Zenon DEF write_head, CallInv, Committer, Active, TypeOK
  <2>2. /\ boot = "up" /\ boot' = "up" /\ ~panicked /\ hdr' = lh /\ lh' = lh
        /\ UNCHANGED <<disk, cache, logblk>>
    BY <1>7, Zenon DEF write_head, Running
  <2>a. Recovered' = Installed(lh, logblk, disk)
    BY <2>2, Zenon DEF Recovered
  <2>b. lh \in Seq(Block) /\ Distinct(lh)
    BY Zenon DEF TypeOK, TransInv
  <2>3. \A i \in DOMAIN lh : Recovered'[lh[i]] = bread(lh[i])
    <3>1. \A i \in DOMAIN lh : logblk[i] = bread(lh[i])
      BY <1>7 DEF TransInv, write_head, TypeOK
    <3>2. \A i \in DOMAIN lh : Recovered'[lh[i]] = logblk[i]
      BY <2>a, <2>b, InstalledAt
    <3> QED
      BY <3>1, <3>2, Zenon
  <2>4. \A b \in Block \ Listed(lh) : Recovered'[b] = bread(b)
    <3>1. \A b \in Block \ Listed(lh) : bread(b) = disk[b]
      BY <2>2, Zenon DEF CacheInv
    <3>2. \A b \in Block \ Listed(lh) : Recovered'[b] = disk[b]
      BY <2>a, <2>b, InstalledAt
    <3> QED
      BY <3>1, <3>2, Zenon
  <2>5. \A b \in Block : Recovered'[b] = bread(b)
    BY <2>3, <2>4, Zenon DEF Listed
  <2>6. \A b \in Block : bread(b)' = bread(b)
    BY <2>2, Zenon DEF bread
  <2>7. View' = View
    BY <1>a, <1>b, <1>c, <2>2, <2>6
  <2>8. Recovered' = View
    BY <1>a, <1>b, <2>2, <2>5
  <2> QED
    BY <2>1, <2>7, <2>8, Zenon DEF AD!Commit, Active
<1>8. ASSUME NEW p \in Proc, install_trans(p) PROVE UNCHANGED AD!vars
  <2>1. PICK h : h = lh[tail + 1]
    BY Zenon
  <2>2. install_block /\ hdr = lh /\ hdr' = hdr /\ logblk' = logblk
        /\ boot' = boot
    BY <1>8, Zenon DEF install_trans, TransInv
  <2>3. /\ tail + 1 \in DOMAIN lh
        /\ h \in Block /\ h \in Listed(hdr)
        /\ bread(h)' = logblk[tail + 1]
        /\ \A c \in Block \ {h} : disk'[c] = disk[c] /\ bread(c)' = bread(c)
    BY <2>1, <2>2, InstallBlock, Zenon DEF Listed
  <2>4. Recovered' = Recovered
    <3>1. \A c \in Block \ Listed(hdr) : disk'[c] = disk[c]
      BY <2>3, Zenon
    <3> QED
      BY <2>2, <3>1, InstalledFrame, Zenon DEF Recovered
  <2>5. bread(h) = logblk[tail + 1]
    BY <1>8, <2>1, <2>3, Zenon DEF TransInv, install_trans
  <2>6. \A c \in Block : bread(c)' = bread(c)
    BY <2>3, <2>5, Zenon
  <2>7. View' = View
    BY <2>2, <2>4, <2>6, Zenon DEF View
  <2>8. Active' = Active
    BY <1>8, Zenon DEF install_trans, Active
  <2> QED
    BY <2>4, <2>7, <2>8, <1>s, Zenon
<1>9. ASSUME hdr = lh, tail = Len(lh),
             \A i \in 1 .. tail : disk[lh[i]] = logblk[i],
             hdr' = <<>>, disk' = disk
      PROVE  Recovered' = Recovered /\ Recovered' = disk
  <2>1. Recovered' = disk
    BY <1>9, InstalledEmpty, Zenon DEF Recovered, TypeOK
  <2>2. \A i \in DOMAIN lh : Recovered[lh[i]] = disk[lh[i]]
    BY <1>9, InstalledAt DEF Recovered, TransInv, TypeOK
  <2>3. \A b \in Block \ Listed(lh) : Recovered[b] = disk[b]
    BY <1>9, InstalledAt DEF Recovered, TransInv, TypeOK
  <2>4. \A b \in Block : Recovered[b] = disk[b]
    BY <2>2, <2>3 DEF Listed
  <2> QED
    BY <1>a, <2>1, <2>4, Zenon DEF TypeOK
<1>10. ASSUME NEW p \in Proc, commit_erase(p) PROVE UNCHANGED AD!vars
  <2>1. Recovered' = Recovered
    BY <1>9, <1>10, Zenon DEF commit_erase, erase_log, TransInv
  <2>2. View' = View
    BY <2>1, <1>10, Zenon DEF commit_erase, View, bread
  <2>3. Active' = Active
    BY <1>10, Zenon DEF commit_erase, Active, TypeOK
  <2> QED
    BY <2>1, <2>2, <2>3, <1>s, Zenon
<1>11. ASSUME NEW b \in Block, ReadBlock(b) \/ Recycle(b)
       PROVE  UNCHANGED AD!vars
  <2>1. UNCHANGED <<disk, logblk, hdr, boot, pc>>
    BY <1>11, Zenon DEF ReadBlock, Recycle
  <2>2. \A c \in Block : bread(c)' = bread(c)
    BY <1>11, BreadStable, Zenon
  <2>3. Active' = Active /\ Recovered' = Recovered
    BY <2>1, Zenon DEF Active, Recovered
  <2>4. View' = View
    BY <2>1, <2>2, <2>3, Zenon DEF View
  <2> QED
    BY <2>3, <2>4, <1>s, Zenon
<1>12. CASE read_head
  <2>1. /\ UNCHANGED <<disk, logblk, hdr, pc>>
        /\ boot # "up" /\ boot' # "up"
    BY <1>12, Zenon DEF read_head
  <2>2. Active' = Active /\ Recovered' = Recovered
    BY <2>1, Zenon DEF Active, Recovered
  <2>3. View' = View
    BY <2>1, <2>2, Zenon DEF View
  <2> QED
    BY <2>2, <2>3, <1>s, Zenon
<1>13. CASE recover_install
  <2>1. PICK h : h = lh[tail + 1]
    BY Zenon
  <2>2. install_block /\ hdr = lh /\ hdr' = hdr /\ logblk' = logblk
        /\ boot # "up" /\ boot' = boot
    BY <1>13, Zenon DEF recover_install, TransInv
  <2>3. /\ tail + 1 \in DOMAIN lh
        /\ h \in Block /\ h \in Listed(hdr)
        /\ \A c \in Block \ {h} : disk'[c] = disk[c]
    BY <2>1, <2>2, InstallBlock, Zenon DEF Listed
  <2>4. Recovered' = Recovered
    <3>1. \A c \in Block \ Listed(hdr) : disk'[c] = disk[c]
      BY <2>3, Zenon
    <3> QED
      BY <2>2, <3>1, InstalledFrame, Zenon DEF Recovered
  <2>5. View' = View
    BY <2>2, <2>4, Zenon DEF View
  <2>6. Active' = Active
    BY <1>13, Zenon DEF recover_install, Active
  <2> QED
    BY <2>4, <2>5, <2>6, <1>s, Zenon
<1>14. CASE recover_erase
  <2>1. Recovered' = Recovered /\ Recovered' = disk
    BY <1>9, <1>14, Zenon DEF recover_erase, erase_log, TransInv
  <2>2. /\ boot # "up" /\ boot' = "up" /\ UNCHANGED <<disk, cache>>
        /\ ~panicked /\ pinned = {}
    BY <1>14, Zenon DEF recover_erase, CallInv
  <2>3. \A b \in Block : bread(b)' = disk[b]
    BY <2>2, Zenon DEF CacheInv, bread
  <2>4. \A b \in Block : View'[b] = View[b]
    BY <1>b, <1>c, <2>1, <2>2, <2>3, Zenon
  <2>5. View' = View
    BY <1>a, <2>4, Zenon
  <2>6. Active' = Active
    BY <1>14, Zenon DEF recover_erase, Active
  <2> QED
    BY <2>1, <2>5, <2>6, <1>s, Zenon
<1>15. CASE Crash
  <2>1. Active' = {} /\ Recovered' = Recovered /\ boot' # "up"
    BY <1>15, Zenon DEF Crash, diskVars, Active, Recovered
  <2>2. \A b \in Block : View'[b] = Recovered[b]
    BY <1>c, <2>1, Zenon
  <2>3. View' = Recovered
    BY <1>a, <2>2, Zenon
  <2>4. AD!Crash
    BY <2>1, <2>3, Zenon DEF AD!Crash, Active
  <2> QED
    BY <2>4, Zenon DEF AD!Next
<1> QED
  BY <1>1, <1>2, <1>3, <1>4, <1>5, <1>6, <1>7, <1>8, <1>10, <1>11,
     <1>12, <1>13, <1>14, <1>15, Zenon
  DEF Next, Step, Recover, AD!Next

\* The log implements atomic, crash-safe transactions.
THEOREM LogTransactions == Spec => Transactions
<1>1. Init => AD!Init
  <2> SUFFICES ASSUME Init PROVE AD!Init
    BY Zenon
  <2>1. Recovered = disk
    BY InstalledEmpty, Zenon DEF Init, Recovered
  <2>2. View = Recovered
    BY Zenon DEF Init, View, Recovered, Installed
  <2> QED
    BY <2>1, <2>2, Zenon DEF Init, AD!Init
<1>2. IndInv /\ IndInv' /\ [Next]_vars => [AD!Next]_(AD!vars)
  BY TransactionsStep, Zenon DEF IndInv
<1> QED
  BY <1>1, <1>2, LogInvariant, PTL DEF Spec, Transactions, AD!Spec
=============================================================================
