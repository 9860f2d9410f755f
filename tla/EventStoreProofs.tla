-------------------------- MODULE EventStoreProofs --------------------------
(***************************************************************************)
(* Theorems about EventStore for every set of processes, keys and branches *)
(* and for every number of partitions, crashes, power losses and failing   *)
(* fsyncs: its types, what the lock and the checks of an append guarantee, *)
(* what faults can take from a session, and the refinement of DurableLog.  *)
(***************************************************************************)
EXTENDS EventStore, FiniteSetTheorems, TLAPS

-----------------------------------------------------------------------------
(* Type correctness *)

\* A tail repair keeps a subset of the lines.
LEMMA RepairType ==
  ASSUME TypeOK, RepairTail
  PROVE  /\ disk' \subseteq disk /\ disk' \subseteq LineType /\ IsFiniteSet(disk')
         /\ tail' \in [1 .. MaxParts -> Tails]
         /\ synced' \subseteq disk'
         /\ doubtful' \subseteq disk'
<1>1. CASE Damaged
  <2>1. disk' = disk \ Orphan
    BY <1>1 DEF RepairTail, Repaired
  <2>2. IsFiniteSet(disk')
    BY <2>1, FS_Subset DEF TypeOK
  <2>3. tail' \in [1 .. MaxParts -> Tails]
    BY <1>1 DEF RepairTail, CleanTail, TypeOK, Tails
  <2>4. synced' \subseteq disk' /\ doubtful' \subseteq disk'
    BY <1>1 DEF RepairTail, Durable, TypeOK
  <2> QED
    BY <2>1, <2>2, <2>3, <2>4 DEF TypeOK
<1>2. CASE ~Damaged
  BY <1>2 DEF RepairTail, TypeOK
<1> QED
  BY <1>1, <1>2

\* The line an accepted event becomes is a line.
LEMMA NewLineType ==
  ASSUME TypeOK, NEW p \in Proc
  PROVE  NewLine(p) \in LineType
<1>1. Cardinality(disk) \in Nat
  BY FS_CardinalityType DEF TypeOK
<1>2. FirstFile \in Nat /\ op[p] \in OpType
  BY ParamAssumption DEF FirstFile, TypeOK
<1> QED
  BY <1>1, <1>2 DEF NewLine, LineOf, LineType, OpType

\* Every step of every process, and every fault, keeps the types.
THEOREM TypeCorrect == Spec => []TypeOK
<1>1. Init => TypeOK
  <2> SUFFICES ASSUME Init PROVE TypeOK
    OBVIOUS
  <2>1. IsFiniteSet(disk)
    BY FS_EmptySet DEF Init
  <2>2. op \in [Proc -> OpType]
    BY DEF Init, NoOp, OpType, Kinds, Branch
  <2>3. tail \in [1 .. MaxParts -> Tails] /\ nparts \in 0 .. MaxParts
    BY ParamAssumption DEF Init, Tails
  <2> QED
    BY <2>1, <2>2, <2>3 DEF Init, TypeOK, PcStates
<1>2. TypeOK /\ [Next]_vars => TypeOK'
  <2> SUFFICES ASSUME TypeOK, [Next]_vars PROVE TypeOK'
    OBVIOUS
  <2> USE ParamAssumption
  <2>a. NoOp \in OpType
    BY DEF NoOp, OpType, Kinds, Branch
  <2>b. ASSUME NEW p \in Proc, Leave(p)
        PROVE  /\ lock' \in Proc \cup {NoProc}
               /\ pc' \in [Proc -> PcStates]
               /\ op' \in [Proc -> OpType]
    BY <2>a, <2>b DEF TypeOK, Leave, Goto, PcStates
  <2>c. ASSUME FsyncFails
        PROVE  faults' \in [crash : Nat, power : Nat, fsync : Nat]
    BY <2>c DEF TypeOK, FsyncFails
  <2>d. FirstFile \in 1 .. MaxParts
    BY DEF FirstFile, TypeOK
  <2>1. ASSUME NEW p \in Proc, CreateSession(p) PROVE TypeOK'
    BY <2>1, <2>a DEF CreateSession, Begin, Goto, TypeOK, PcStates, diskVars, ackVars
  <2>2. ASSUME NEW p \in Proc, StartAppend(p) PROVE TypeOK'
    <3>1. PICK o \in OpType : Begin(p, o)
      <4>1. Seqs(disk) \subseteq Nat
        BY DEF Seqs, TypeOK, LineType
      <4> QED
        BY <2>2, <4>1 DEF StartAppend, BeginPlain, BeginCreate, BeginActivate,
                          OpType, Kinds, Branch
    <3> QED
      BY <2>2, <3>1 DEF StartAppend, Begin, Goto, TypeOK, PcStates, diskVars, ackVars
  <2>3. ASSUME NEW p \in Proc, ReadCorrupt(p) PROVE TypeOK'
    BY <2>3 DEF ReadCorrupt, Quarantine, TypeOK, procVars, ackVars
  <2>4. ASSUME NEW p \in Proc, GiveUp(p) PROVE TypeOK'
    BY <2>4, <2>b DEF GiveUp, TypeOK, diskVars, ackVars
  <2>5. ASSUME NEW p \in Proc, AcquireCorrupt(p) PROVE TypeOK'
    BY <2>5, <2>b DEF AcquireCorrupt, Quarantine, TypeOK, ackVars
  <2>6. ASSUME NEW p \in Proc, AcquireRepairError(p) PROVE TypeOK'
    <3>1. IsFiniteSet(disk') /\ disk' \subseteq LineType
      BY <2>6, FS_Subset DEF AcquireRepairError, Repaired, TypeOK
    <3>2. tail' \in [1 .. MaxParts -> Tails]
      BY <2>6 DEF AcquireRepairError, CleanTail, TypeOK, Tails
    <3>3. synced' \subseteq disk' /\ doubtful' \subseteq disk'
      BY <2>6 DEF AcquireRepairError
    <3> QED
      BY <2>6, <2>b, <2>c, <3>1, <3>2, <3>3 DEF AcquireRepairError, TypeOK, ackVars
  <2>7. ASSUME NEW p \in Proc, Acquire(p) PROVE TypeOK'
    <3>1. RepairTail
      BY <2>7 DEF Acquire
    <3>2. deduped' \subseteq LineType
      BY <2>7 DEF Acquire, Deduplicate, Refuse, Accept, Repaired, TypeOK
    <3>3. /\ lock' \in Proc \cup {NoProc}
          /\ pc' \in [Proc -> PcStates]
          /\ op' \in [Proc -> OpType]
      BY <2>7, <2>b DEF Acquire, Deduplicate, Refuse, Accept, Goto, TypeOK, PcStates
    <3> QED
      BY <2>7, <3>1, <3>2, <3>3, RepairType DEF Acquire, TypeOK
  <2>8. ASSUME NEW p \in Proc, Rotate(p) PROVE TypeOK'
    <3>1. nparts' \in 0 .. MaxParts
      BY <2>8 DEF Rotate, TypeOK
    <3>2. CASE Goto(p, "rotated") /\ UNCHANGED <<lock, op, healthy, faults>>
      BY <2>8, <3>1, <3>2 DEF Rotate, Goto, TypeOK, PcStates, ackVars
    <3>3. CASE /\ FsyncFails
               /\ healthy' = [healthy EXCEPT ![p] = FALSE]
               /\ Leave(p)
      BY <2>8, <2>b, <2>c, <3>1, <3>3 DEF Rotate, TypeOK, ackVars
    <3> QED
      BY <2>8, <3>2, <3>3 DEF Rotate
  <2>9. ASSUME NEW p \in Proc, Write(p) PROVE TypeOK'
    <3>1. IsFiniteSet(disk') /\ disk' \subseteq LineType
      BY <2>9, NewLineType, FS_AddElement DEF Write, TypeOK
    <3> QED
      BY <2>9, <2>d, <3>1 DEF Write, Goto, TypeOK, PcStates, ackVars
  <2>10. ASSUME NEW p \in Proc, WriteError(p) PROVE TypeOK'
    <3>1. tail' \in [1 .. MaxParts -> Tails] /\ doubtful' \subseteq disk
      BY <2>10 DEF WriteError, LinesOf, TypeOK, Tails
    <3>2. /\ faults' \in [crash : Nat, power : Nat, fsync : Nat]
          /\ healthy' \in [Proc -> BOOLEAN]
      BY <2>10, <2>c DEF WriteError, TypeOK
    <3> QED
      BY <2>10, <2>b, <2>d, <3>1, <3>2 DEF WriteError, TypeOK, ackVars
  <2>11. ASSUME NEW p \in Proc, Fsync(p) PROVE TypeOK'
    BY <2>11 DEF Fsync, Durable, Goto, TypeOK, PcStates, ackVars
  <2>12. ASSUME NEW p \in Proc, FsyncError(p) PROVE TypeOK'
    BY <2>12, <2>b, <2>c DEF FsyncError, LinesOf, TypeOK, ackVars
  <2>13. ASSUME NEW p \in Proc, Return(p) PROVE TypeOK'
    BY <2>13, <2>b DEF Return, TypeOK, diskVars
  <2>14. ASSUME NEW p \in Proc, Rebuild(p) PROVE TypeOK'
    <3>1. CASE RepairTail /\ UNCHANGED <<nparts, quarantined>>
      BY <2>14, <3>1, RepairType DEF Rebuild, TypeOK, procVars, ackVars
    <3>2. CASE Quarantine
      BY <2>14, <3>2 DEF Rebuild, Quarantine, TypeOK, procVars, ackVars
    <3> QED
      BY <2>14, <3>1, <3>2 DEF Rebuild
  <2>15. ASSUME NEW p \in Proc, Crash(p) PROVE TypeOK'
    <3>1. tail' \in [1 .. MaxParts -> Tails] /\ nparts' \in 0 .. MaxParts
      BY <2>15, <2>d DEF Crash, TypeOK, Tails
    <3>a. faults' = [faults EXCEPT !.crash = @ + 1] /\ healthy' = [healthy EXCEPT ![p] = TRUE]
      BY <2>15, Zenon DEF Crash
    <3>b. faults' \in [crash : Nat, power : Nat, fsync : Nat]
      BY <3>a DEF TypeOK
    <3>2. healthy' \in [Proc -> BOOLEAN]
      BY <3>a DEF TypeOK
    <3>3. Leave(p) /\ UNCHANGED <<disk, synced, doubtful, quarantined, ackVars>>
      BY <2>15 DEF Crash
    <3>4. /\ lock' \in Proc \cup {NoProc}
          /\ pc' \in [Proc -> PcStates]
          /\ op' \in [Proc -> OpType]
      BY <2>b, <3>3
    <3>5. /\ disk' = disk /\ synced' = synced /\ doubtful' = doubtful
          /\ quarantined' = quarantined /\ committed' = committed /\ deduped' = deduped
      BY <3>3 DEF ackVars
    <3>6. /\ disk' \subseteq LineType /\ IsFiniteSet(disk')
          /\ synced' \subseteq disk' /\ doubtful' \subseteq disk' /\ quarantined' \in BOOLEAN
          /\ committed' \subseteq LineType /\ deduped' \subseteq LineType
      BY <3>5 DEF TypeOK
    <3> QED
      BY <3>1, <3>b, <3>2, <3>4, <3>6, Zenon DEF TypeOK
  <2>16. ASSUME PowerLoss PROVE TypeOK'
    <3>1. PICK lost \in SUBSET (disk \ synced) :
            /\ disk' = disk \ lost
            /\ doubtful' = doubtful \ lost
            /\ \E rest \in [Unsettled(lost) -> Tails] :
                 tail' = [n \in 1 .. MaxParts |->
                            IF n \in Unsettled(lost) THEN rest[n] ELSE tail[n]]
      BY <2>16 DEF PowerLoss
    <3>2. IsFiniteSet(disk')
      BY <3>1, FS_Subset DEF TypeOK
    <3>3. tail' \in [1 .. MaxParts -> Tails]
      BY <3>1 DEF TypeOK
    <3>4. synced' \subseteq disk' /\ doubtful' \subseteq disk' /\ disk' \subseteq LineType
      BY <2>16, <3>1 DEF PowerLoss, TypeOK
    <3> QED
      BY <2>16, <2>a, <3>2, <3>3, <3>4 DEF PowerLoss, TypeOK, PcStates, ackVars
  <2>17. CASE UNCHANGED vars
    BY <2>17 DEF vars, TypeOK
  <2> QED
    BY <2>1, <2>2, <2>3, <2>4, <2>5, <2>6, <2>7, <2>8, <2>9, <2>10, <2>11,
       <2>12, <2>13, <2>14, <2>15, <2>16, <2>17 DEF Next, Step
<1> QED
  BY <1>1, <1>2, PTL DEF Spec

-----------------------------------------------------------------------------
(* Contiguous logs *)

\* A contiguous log grows to a contiguous log.
LEMMA AppendContiguous ==
  ASSUME NEW D, IsFiniteSet(D), Contiguous(D),
         NEW e, e.seq = Cardinality(D) + 1
  PROVE  /\ e \notin D
         /\ Contiguous(D \cup {e})
         /\ \A f \in D : f.seq \in 1 .. Cardinality(D)
<1>1. Cardinality(D) \in Nat
  BY FS_CardinalityType
<1>2. \A f \in D : f.seq \in 1 .. Cardinality(D)
  BY DEF Contiguous, Seqs
<1>3. e \notin D
  BY <1>1, <1>2
<1>4. Cardinality(D \cup {e}) = Cardinality(D) + 1
  BY <1>3, FS_AddElement
<1>5. Seqs(D \cup {e}) = Seqs(D) \cup {Cardinality(D) + 1}
  BY DEF Seqs
<1>6. 1 .. (Cardinality(D) + 1) = (1 .. Cardinality(D)) \cup {Cardinality(D) + 1}
  BY <1>1
<1> QED
  BY <1>2, <1>3, <1>4, <1>5, <1>6 DEF Contiguous

\* Nothing of a contiguous log is out of sequence.
LEMMA NoOrphan ==
  ASSUME TypeOK, Contiguous(disk)
  PROVE  Orphan = {} /\ Repaired = disk
<1>1. Cardinality(disk) \in Nat
  BY FS_CardinalityType DEF TypeOK
<1>2. \A e \in disk : e.seq \in 1 .. Cardinality(disk)
  BY DEF Contiguous, Seqs
<1>3. Orphan = {}
  BY <1>1, <1>2 DEF Orphan
<1> QED
  BY <1>3 DEF Repaired

\* A repair leaves the contiguous log that was read.
LEMMA RepairContiguous ==
  ASSUME TypeOK, Repairable, RepairTail
  PROVE  disk' = Repaired /\ Contiguous(Repaired)
<1>1. disk' = Repaired
  BY DEF RepairTail, Damaged, Repaired
<1>2. CASE Contiguous(disk)
  BY <1>1, <1>2, NoOrphan
<1>3. CASE ~Contiguous(disk)
  BY <1>1, <1>3 DEF Repairable, Repaired
<1> QED
  BY <1>1, <1>2, <1>3

-----------------------------------------------------------------------------
(* The invariant *)

LogInv == WriterExclusive /\ Numbering /\ UniqueKeys /\ BranchChain

\* What all lines have in common, some of them have.
LEMMA SubsetShape ==
  ASSUME UniqueKeys, BranchChain, \A e, f \in disk : e.seq = f.seq => e = f,
         disk' \subseteq disk
  PROVE  /\ UniqueKeys' /\ BranchChain'
         /\ \A e, f \in disk' : e.seq = f.seq => e = f
BY DEF UniqueKeys, BranchChain

\* Between its decision and its return only the lock holder changes the log.
LEMMA QuietStep ==
  ASSUME WriterExclusive, disk' = disk,
         \A p \in Proc : pc'[p] \in {"locked", "rotated", "written", "synced"} =>
           /\ pc[p] \in {"locked", "rotated", "written", "synced"}
           /\ pc'[p] \in {"locked", "rotated"} => pc[p] \in {"locked", "rotated"}
           /\ op'[p] = op[p]
           /\ lock' = lock
  PROVE  WriterExclusive'
BY DEF WriterExclusive, Contiguous, Seqs, Duplicate, KeyOf, Acceptable, IsHead, Known

\* A power loss count never goes down, and only PowerLoss raises it.
LEMMA PowerCount ==
  ASSUME TypeOK, Next
  PROVE  /\ faults'.power = 0 => faults.power = 0
         /\ ~PowerLoss => faults'.power = faults.power
<1>1. ASSUME FsyncFails PROVE faults'.power = faults.power
  BY <1>1 DEF FsyncFails, TypeOK
<1>2. ASSUME NEW p \in Proc, Step(p) PROVE faults'.power = faults.power
  BY <1>1, <1>2 DEF Step, GiveUp, AcquireCorrupt, AcquireRepairError, Acquire, Rotate,
                    Write, WriteError, Fsync, FsyncError, Return
<1>3. ASSUME NEW p \in Proc, Crash(p) PROVE faults'.power = faults.power
  <2>1. faults' = [faults EXCEPT !.crash = @ + 1]
    BY <1>3, Zenon DEF Crash
  <2> QED
    BY <2>1 DEF TypeOK
<1>4. ASSUME PowerLoss PROVE faults'.power = faults.power + 1 /\ faults.power \in Nat
  BY <1>4 DEF PowerLoss, TypeOK
<1>5. ASSUME NEW p \in Proc,
             CreateSession(p) \/ StartAppend(p) \/ ReadCorrupt(p) \/ Rebuild(p)
      PROVE  faults'.power = faults.power
  BY <1>5 DEF CreateSession, StartAppend, ReadCorrupt, Rebuild
<1>6. CASE PowerLoss
  BY <1>4, <1>6
<1>7. CASE ~PowerLoss
  BY <1>2, <1>3, <1>5, <1>7 DEF Next
<1> QED
  BY <1>6, <1>7

\* The line that is written has a new number and a new key, and stands behind
\* the head of its branch.
LEMMA WriteShape ==
  ASSUME TypeOK, LogInv, NEW p \in Proc, Write(p)
  PROVE  /\ Contiguous(disk')
         /\ \A e, f \in disk' : e.seq = f.seq => e = f
         /\ UniqueKeys' /\ BranchChain'
<1> DEFINE x == NewLine(p)
           n == Cardinality(disk)
<1>1. /\ n \in Nat /\ x.seq = n + 1
      /\ x.branch = op[p].branch /\ x.parent = op[p].parent
      /\ KeyOf(x) = KeyOf(op[p])
  BY FS_CardinalityType DEF TypeOK, NewLine, LineOf, KeyOf
<1>2. Contiguous(disk) /\ ~Duplicate(disk, op[p]) /\ Acceptable(disk, op[p])
  BY DEF LogInv, WriterExclusive, Write, AtWrite
<1>3. disk' = disk \cup {x}
  BY DEF Write
<1>4. /\ Contiguous(disk \cup {x})
      /\ \A f \in disk : f.seq \in 1 .. n
  BY <1>1, <1>2, AppendContiguous DEF TypeOK
<1>5. \A e, f \in disk' : e.seq = f.seq => e = f
  BY <1>1, <1>3, <1>4 DEF LogInv, Numbering
<1>6. UniqueKeys'
  <2>1. \A f \in disk : KeyOf(f) # KeyOf(x)
    BY <1>1, <1>2 DEF Duplicate
  <2> QED
    BY <1>3, <2>1 DEF UniqueKeys, LogInv
<1>7. BranchChain'
  <2> SUFFICES ASSUME NEW e \in disk', NEW f \in disk',
                      e.branch = f.branch, e.seq < f.seq
               PROVE  e.seq <= f.parent /\ f.parent < f.seq
    BY DEF BranchChain
  <2>1. CASE f \in disk
    <3>1. e # x
      BY <1>1, <1>4, <2>1
    <3> QED
      BY <1>3, <2>1, <3>1 DEF LogInv, BranchChain
  <2>2. CASE f = x
    <3>1. e \in disk
      BY <1>1, <1>3, <2>2
    <3>2. IsHead(disk, op[p].branch, op[p].parent)
      BY <1>2, <3>1 DEF Acceptable
    <3>3. PICK h \in disk : /\ h.seq = op[p].parent
                            /\ \A g \in disk : g.branch = op[p].branch => g.seq <= op[p].parent
      BY <1>1, <2>2, <3>1, <3>2 DEF IsHead
    <3> QED
      BY <1>1, <1>4, <2>2, <3>1, <3>3
  <2> QED
    BY <1>3, <2>1, <2>2
<1> QED
  BY <1>3, <1>4, <1>5, <1>6, <1>7

\* A tail repair preserves the shape of the log.
LEMMA RepairShape ==
  ASSUME TypeOK, LogInv, Repairable, RepairTail, faults'.power = faults.power
  PROVE  disk' = Repaired /\ Contiguous(disk') /\ Numbering' /\ UniqueKeys' /\ BranchChain'
<1>1. disk' = Repaired /\ Contiguous(Repaired)
  BY RepairContiguous
<1>2. disk' \subseteq disk
  BY <1>1 DEF Repaired
<1> QED
  BY <1>1, <1>2, SubsetShape DEF LogInv, Numbering

\* The session lock serialises append, and the log keeps its shape: one event
\* for a key, one chain for a branch, numbers that are unique and contiguous.
LEMMA LogInvStep == TypeOK /\ LogInv /\ [Next]_vars => LogInv'
<1> SUFFICES ASSUME TypeOK, LogInv, [Next]_vars PROVE LogInv'
  OBVIOUS
<1> DEFINE Same == disk' = disk /\ faults'.power = faults.power
<1>a. ASSUME Same PROVE Numbering' /\ UniqueKeys' /\ BranchChain'
  BY <1>a DEF LogInv, Numbering, UniqueKeys, BranchChain, Contiguous, Seqs
<1>b. ASSUME NEW p \in Proc, Leave(p), disk' = disk PROVE WriterExclusive'
  <2>1. \A q \in Proc : pc'[q] \in {"locked", "rotated", "written", "synced"} =>
          q # p /\ pc[q] = pc'[q] /\ op'[q] = op[q]
    BY <1>b DEF Leave, Goto, TypeOK, PcStates
  <2>2. \A q \in Proc : pc'[q] \in {"locked", "rotated", "written", "synced"} => lock' = lock
    BY <1>b, <2>1 DEF Leave, LogInv, WriterExclusive
  <2> QED
    BY <1>b, <2>1, <2>2, QuietStep DEF LogInv
<1>c. ASSUME lock = NoProc PROVE \A q \in Proc : pc[q] \notin {"locked", "rotated", "written", "synced"}
  BY <1>c, ParamAssumption DEF LogInv, WriterExclusive
<1>d. ASSUME NEW p \in Proc, Leave(p), lock = NoProc PROVE WriterExclusive'
  BY <1>c, <1>d DEF Leave, Goto, TypeOK, PcStates, WriterExclusive
<1>p. ASSUME Next, ~PowerLoss PROVE faults'.power = faults.power
  BY <1>p, PowerCount
<1>1. ASSUME NEW p \in Proc, CreateSession(p) \/ StartAppend(p) PROVE LogInv'
  <2>1. Same /\ lock' = lock
    BY <1>1 DEF CreateSession, StartAppend, diskVars
  <2>2. PICK o : Begin(p, o)
    BY <1>1 DEF CreateSession, StartAppend, BeginPlain, BeginCreate, BeginActivate
  <2>3. WriterExclusive'
    BY <2>1, <2>2, QuietStep DEF Begin, Goto, TypeOK, PcStates, LogInv
  <2> QED
    BY <1>a, <2>1, <2>3 DEF LogInv
<1>2. ASSUME NEW p \in Proc, ReadCorrupt(p) PROVE LogInv'
  BY <1>a, <1>2, QuietStep DEF ReadCorrupt, Quarantine, procVars, LogInv
<1>3. ASSUME NEW p \in Proc, GiveUp(p) PROVE LogInv'
  BY <1>a, <1>b, <1>3 DEF GiveUp, diskVars, LogInv
<1>4. ASSUME NEW p \in Proc, AcquireCorrupt(p) PROVE LogInv'
  BY <1>a, <1>b, <1>4 DEF AcquireCorrupt, Quarantine, LogInv
<1>5. ASSUME NEW p \in Proc, AcquireRepairError(p) PROVE LogInv'
  <2>1. disk' = Repaired /\ Leave(p) /\ lock = NoProc /\ Repairable
    BY <1>5 DEF AcquireRepairError
  <2>2. faults'.power = faults.power
    BY <1>5 DEF AcquireRepairError, FsyncFails, TypeOK
  <2>3. disk' \subseteq disk
    BY <2>1 DEF Repaired
  <2>4. Contiguous(disk) => disk' = disk
    BY <2>1, NoOrphan
  <2>5. UniqueKeys' /\ BranchChain' /\ \A e, f \in disk' : e.seq = f.seq => e = f
    BY <2>3, SubsetShape DEF LogInv, Numbering
  <2>6. Numbering'
    BY <2>2, <2>4, <2>5 DEF Numbering, LogInv, Contiguous, Seqs
  <2> QED
    BY <1>d, <2>1, <2>5, <2>6 DEF LogInv
<1>6. ASSUME NEW p \in Proc, Acquire(p) PROVE LogInv'
  <2>1. /\ Repairable /\ RepairTail /\ lock = NoProc /\ faults'.power = faults.power
        /\ Deduplicate(p) \/ Refuse(p) \/ Accept(p)
    BY <1>6 DEF Acquire
  <2>2. disk' = Repaired /\ Contiguous(disk') /\ Numbering' /\ UniqueKeys' /\ BranchChain'
    BY <2>1, RepairShape
  <2>3. CASE Deduplicate(p) \/ Refuse(p)
    BY <1>d, <2>1, <2>2, <2>3 DEF Deduplicate, Refuse, LogInv
  <2>4. CASE Accept(p)
    <3>1. /\ lock' = p /\ op' = op
          /\ \A q \in Proc : pc'[q] \in {"locked", "rotated", "written", "synced"} => q = p
      BY <1>c, <2>1, <2>4 DEF Accept, Goto, TypeOK, PcStates
    <3>2. ~Duplicate(disk', op'[p]) /\ Acceptable(disk', op'[p])
      BY <2>2, <2>4, <3>1 DEF Accept
    <3>3. WriterExclusive'
      BY <2>2, <3>1, <3>2 DEF WriterExclusive, Contiguous, Seqs, Duplicate, KeyOf,
                              Acceptable, IsHead, Known
    <3> QED
      BY <2>2, <3>3 DEF LogInv
  <2> QED
    BY <2>1, <2>3, <2>4
<1>7. ASSUME NEW p \in Proc, Rotate(p) PROVE LogInv'
  <2>1. Same
    BY <1>7, PowerCount DEF Rotate, FsyncFails, TypeOK
  <2>2. CASE Goto(p, "rotated") /\ UNCHANGED <<lock, op, healthy, faults>>
    <3>1. pc[p] = "locked"
      BY <1>7 DEF Rotate
    <3> QED
      BY <1>a, <2>1, <2>2, <3>1, QuietStep DEF Goto, TypeOK, PcStates, LogInv
  <2>3. CASE Leave(p)
    BY <1>a, <1>b, <2>1, <2>3 DEF LogInv
  <2> QED
    BY <1>7, <2>2, <2>3 DEF Rotate
<1>8. ASSUME NEW p \in Proc, Write(p) PROVE LogInv'
  <2>1. lock = p /\ lock' = lock /\ op' = op /\ faults' = faults
    BY <1>8 DEF Write, AtWrite, LogInv, WriterExclusive
  <2>2. \A q \in Proc : pc'[q] \in {"locked", "rotated", "written", "synced"} =>
          q = p /\ pc'[q] = "written"
    BY <1>8, <2>1 DEF Write, Goto, LogInv, WriterExclusive, TypeOK, PcStates
  <2>3. WriterExclusive'
    BY <2>1, <2>2 DEF WriterExclusive
  <2> QED
    BY <1>8, <2>3, WriteShape DEF LogInv, Numbering
<1>9. ASSUME NEW p \in Proc, WriteError(p) PROVE LogInv'
  <2>1. Same
    BY <1>9 DEF WriteError, FsyncFails, TypeOK
  <2> QED
    BY <1>a, <1>b, <1>9, <2>1 DEF WriteError, LogInv
<1>10. ASSUME NEW p \in Proc, Fsync(p) PROVE LogInv'
  BY <1>a, <1>10, QuietStep DEF Fsync, Goto, TypeOK, PcStates, LogInv
<1>11. ASSUME NEW p \in Proc, FsyncError(p) PROVE LogInv'
  <2>1. Same
    BY <1>11 DEF FsyncError, FsyncFails, TypeOK
  <2> QED
    BY <1>a, <1>b, <1>11, <2>1 DEF FsyncError, LogInv
<1>12. ASSUME NEW p \in Proc, Return(p) PROVE LogInv'
  BY <1>a, <1>b, <1>12 DEF Return, diskVars, LogInv
<1>13. ASSUME NEW p \in Proc, Rebuild(p) PROVE LogInv'
  <2>1. lock = NoProc /\ UNCHANGED <<procVars, ackVars, faults>>
    BY <1>13 DEF Rebuild
  <2>2. WriterExclusive'
    BY <1>c, <2>1 DEF WriterExclusive, procVars
  <2>3. CASE Repairable /\ RepairTail
    BY <2>1, <2>2, <2>3, RepairShape DEF LogInv
  <2>4. CASE Quarantine
    BY <1>a, <2>1, <2>2, <2>4 DEF Quarantine, LogInv
  <2> QED
    BY <1>13, <2>3, <2>4 DEF Rebuild
<1>14. ASSUME NEW p \in Proc, Crash(p) PROVE LogInv'
  <2>1. faults' = [faults EXCEPT !.crash = @ + 1] /\ Leave(p) /\ disk' = disk
    BY <1>14, Zenon DEF Crash
  <2>2. faults'.power = faults.power
    BY <2>1 DEF TypeOK
  <2> QED
    BY <1>a, <1>b, <2>1, <2>2 DEF LogInv
<1>15. ASSUME PowerLoss PROVE LogInv'
  <2>1. disk' \subseteq disk /\ pc' = [p \in Proc |-> "idle"]
    BY <1>15 DEF PowerLoss
  <2>2. faults'.power # 0
    BY <1>15 DEF PowerLoss, TypeOK
  <2>3. WriterExclusive'
    BY <2>1 DEF WriterExclusive
  <2>4. UniqueKeys' /\ BranchChain' /\ \A e, f \in disk' : e.seq = f.seq => e = f
    BY <2>1, SubsetShape DEF LogInv, Numbering
  <2> QED
    BY <2>2, <2>3, <2>4 DEF LogInv, Numbering
<1>16. CASE UNCHANGED vars
  BY <1>a, <1>16, QuietStep DEF vars, LogInv
<1> QED
  BY <1>1, <1>2, <1>3, <1>4, <1>5, <1>6, <1>7, <1>8, <1>9, <1>10, <1>11, <1>12,
     <1>13, <1>14, <1>15, <1>16 DEF Next, Step

\* The initial log is empty.
LEMMA LogInvInit == Init => LogInv
<1> SUFFICES ASSUME Init PROVE LogInv
  OBVIOUS
<1>1. disk = {} /\ Seqs(disk) = {} /\ Cardinality(disk) = 0
  BY FS_EmptySet DEF Init, Seqs
<1>2. Contiguous(disk)
  BY <1>1 DEF Contiguous
<1>3. WriterExclusive
  BY DEF Init, WriterExclusive
<1> QED
  BY <1>1, <1>2, <1>3 DEF LogInv, Numbering, UniqueKeys, BranchChain

\* The invariant holds in every state.
THEOREM LogWellFormed == Spec => []LogInv
BY TypeCorrect, LogInvInit, LogInvStep, PTL DEF Spec

\* The session lock serialises append.
THEOREM LockSerialises == Spec => []WriterExclusive
<1>1. LogInv => WriterExclusive
  BY DEF LogInv
<1> QED
  BY <1>1, LogWellFormed, PTL

\* No fact enters twice.
THEOREM KeysUnique == Spec => []UniqueKeys
<1>1. LogInv => UniqueKeys
  BY DEF LogInv
<1> QED
  BY <1>1, LogWellFormed, PTL

\* No branch gets two events behind one parent.
THEOREM BranchesLinear == Spec => []BranchChain
<1>1. LogInv => BranchChain
  BY DEF LogInv
<1> QED
  BY <1>1, LogWellFormed, PTL

\* Numbers are unique, and contiguous without a power loss.
THEOREM NumbersContiguous == Spec => []Numbering
<1>1. LogInv => Numbering
  BY DEF LogInv
<1> QED
  BY <1>1, LogWellFormed, PTL

-----------------------------------------------------------------------------
(* Process crashes alone *)

\* Until the first power loss no line is unreadable.
CrashInv ==
  faults.power = 0 => ~quarantined /\ \A n \in 1 .. MaxParts : tail[n] # "bad"

\* Without a power loss every read succeeds, with repair and without.
LEMMA CrashReadable ==
  ASSUME TypeOK, LogInv, CrashInv, faults.power = 0
  PROVE  Readable /\ Repairable
<1>1. 1 .. nparts \subseteq 1 .. MaxParts
  BY ParamAssumption DEF TypeOK
<1> QED
  BY <1>1 DEF CrashInv, LogInv, Numbering, Readable, Repairable

LEMMA CrashInvStep == TypeOK /\ LogInv /\ CrashInv /\ [Next]_vars => CrashInv'
<1> SUFFICES ASSUME TypeOK, LogInv, CrashInv, [Next]_vars, faults'.power = 0
             PROVE  ~quarantined' /\ \A n \in 1 .. MaxParts : tail'[n] # "bad"
  BY DEF CrashInv
<1>1. CASE UNCHANGED vars
  BY <1>1 DEF vars, CrashInv
<1>2. CASE Next
  <2>1. faults.power = 0
    BY <1>2, PowerCount
  <2>2. /\ ~quarantined /\ (\A n \in 1 .. MaxParts : tail[n] # "bad")
        /\ Readable /\ Repairable
    BY <2>1, CrashReadable DEF CrashInv
  <2>3. ~PowerLoss
    BY <2>1 DEF PowerLoss, TypeOK
  <2>4. ASSUME RepairTail PROVE \A n \in 1 .. MaxParts : tail'[n] # "bad"
    BY <2>2, <2>4 DEF RepairTail, CleanTail, TypeOK
  <2>5. ASSUME tail' = [tail EXCEPT ![FirstFile] = "torn"]
        PROVE  \A n \in 1 .. MaxParts : tail'[n] # "bad"
    BY <2>2, <2>5 DEF TypeOK
  <2>6. ASSUME NEW p \in Proc, Step(p) PROVE ~quarantined' /\ \A n \in 1 .. MaxParts : tail'[n] # "bad"
    <3>1. CASE GiveUp(p) \/ Rotate(p) \/ Write(p) \/ Fsync(p) \/ FsyncError(p) \/ Return(p)
      BY <2>2, <3>1 DEF GiveUp, Rotate, Write, Fsync, FsyncError, Return, diskVars
    <3>2. CASE AcquireCorrupt(p)
      BY <2>2, <3>2 DEF AcquireCorrupt
    <3>3. CASE AcquireRepairError(p)
      BY <2>2, <3>3 DEF AcquireRepairError, CleanTail, TypeOK
    <3>4. CASE Acquire(p)
      BY <2>2, <2>4, <3>4 DEF Acquire
    <3>5. CASE WriteError(p)
      BY <2>2, <2>5, <3>5 DEF WriteError
    <3> QED
      BY <2>6, <3>1, <3>2, <3>3, <3>4, <3>5 DEF Step
  <2>7. ASSUME NEW p \in Proc, CreateSession(p) \/ StartAppend(p) \/ ReadCorrupt(p)
        PROVE  ~quarantined' /\ \A n \in 1 .. MaxParts : tail'[n] # "bad"
    BY <2>2, <2>7 DEF CreateSession, StartAppend, ReadCorrupt, diskVars
  <2>8. ASSUME NEW p \in Proc, Rebuild(p)
        PROVE  ~quarantined' /\ \A n \in 1 .. MaxParts : tail'[n] # "bad"
    BY <2>2, <2>4, <2>8 DEF Rebuild
  <2>9. ASSUME NEW p \in Proc, Crash(p)
        PROVE  ~quarantined' /\ \A n \in 1 .. MaxParts : tail'[n] # "bad"
    <3>1. /\ quarantined' = quarantined
          /\ tail' = tail \/ tail' = [tail EXCEPT ![FirstFile] = "torn"]
      BY <2>9, Zenon DEF Crash
    <3> QED
      BY <2>2, <2>5, <3>1
  <2> QED
    BY <1>2, <2>3, <2>6, <2>7, <2>8, <2>9 DEF Next
<1> QED
  BY <1>1, <1>2

\* Process crashes, at any step and however many, never make a session
\* unreadable.
THEOREM CrashesHarmless == Spec => []CrashNeverQuarantines
<1>1. Init => CrashInv
  BY DEF Init, CrashInv
<1>2. CrashInv => CrashNeverQuarantines
  BY DEF CrashInv, CrashNeverQuarantines
<1> QED
  BY <1>1, <1>2, CrashInvStep, TypeCorrect, LogWellFormed, PTL DEF Spec

\* Without a power loss no complete line ever disappears.
THEOREM LinesStay == Spec => OnlyPowerLossForgets
<1>1. ASSUME TypeOK, LogInv, [Next]_vars PROVE [faults'.power = 0 => disk \subseteq disk']_vars
  <2> SUFFICES ASSUME Next, faults'.power = 0 PROVE disk \subseteq disk'
    BY <1>1
  <2>1. faults.power = 0 /\ ~PowerLoss
    BY <1>1, PowerCount DEF PowerLoss, TypeOK
  <2>2. Repaired = disk
    BY <1>1, <2>1, NoOrphan DEF LogInv, Numbering
  <2>3. ASSUME RepairTail PROVE disk' = disk
    BY <2>2, <2>3 DEF RepairTail
  <2>4. ASSUME NEW p \in Proc, Step(p) PROVE disk \subseteq disk'
    BY <2>2, <2>3, <2>4 DEF Step, GiveUp, AcquireCorrupt, Quarantine, AcquireRepairError, Acquire,
         Rotate, Write, WriteError, Fsync, FsyncError, Return, diskVars
  <2>5. ASSUME NEW p \in Proc, CreateSession(p) \/ StartAppend(p) \/ ReadCorrupt(p) \/ Rebuild(p)
        PROVE  disk \subseteq disk'
    BY <2>3, <2>5 DEF CreateSession, StartAppend, ReadCorrupt, Rebuild, Quarantine, diskVars
  <2>6. ASSUME NEW p \in Proc, Crash(p) PROVE disk' = disk
    BY <2>6, Zenon DEF Crash
  <2> QED
    BY <2>1, <2>4, <2>5, <2>6 DEF Next
<1> QED
  BY <1>1, TypeCorrect, LogWellFormed, PTL DEF Spec, OnlyPowerLossForgets

-----------------------------------------------------------------------------
(* Power losses *)

\* One partition, and every fsync so far succeeded.
Calm == nparts <= 1 /\ faults.fsync = 0

\* The lines that no power loss can take are the first lines.
Prefix == \A e \in synced : \A n \in 1 .. e.seq : \E f \in synced : f.seq = n

\* While it is calm: no line is doubtful, the confirmed lines are durable, the
\* durable lines are the first ones, and after its fsync all of the log is.
SyncInv ==
  /\ \A e \in disk : e.part \in 1 .. nparts
  /\ \A p \in Proc : pc[p] \in {"written", "synced"} => Contiguous(disk)
  /\ Calm => /\ doubtful = {}
             /\ committed \subseteq synced
             /\ Prefix
             /\ \A p \in Proc : pc[p] = "synced" => synced = disk

\* The lines of a contiguous log are the first lines.
LEMMA ContiguousPrefix ==
  ASSUME NEW D, IsFiniteSet(D), Contiguous(D)
  PROVE  \A e \in D : \A n \in 1 .. e.seq : \E f \in D : f.seq = n
<1>1. Cardinality(D) \in Nat
  BY FS_CardinalityType
<1>2. \A e \in D : e.seq \in 1 .. Cardinality(D)
  BY DEF Contiguous, Seqs
<1>3. \A n \in 1 .. Cardinality(D) : \E f \in D : f.seq = n
  BY DEF Contiguous, Seqs
<1> QED
  BY <1>1, <1>2, <1>3

\* A line that a repair cuts off was never durable.
LEMMA OrphanVolatile ==
  ASSUME TypeOK, Repairable, Prefix
  PROVE  synced \subseteq Repaired
<1>1. CASE Contiguous(disk)
  BY <1>1, NoOrphan DEF TypeOK
<1>2. CASE ~Contiguous(disk)
  <2>1. PICK e \in disk : Orphan = {e} /\ Contiguous(disk \ {e})
    BY <1>2 DEF Repairable
  <2> DEFINE m == Cardinality(disk \ {e})
  <2>2. IsFiniteSet(disk \ {e}) /\ m \in Nat /\ Cardinality(disk) = m + 1
    <3>1. IsFiniteSet(disk) /\ IsFiniteSet(disk \ {e})
      BY FS_RemoveElement DEF TypeOK
    <3>2. m \in Nat /\ Cardinality(disk) \in Nat
      BY <3>1, FS_CardinalityType
    <3>3. m = Cardinality(disk) - 1
      BY <3>1, FS_RemoveElement
    <3> QED
      BY <3>1, <3>2, <3>3
  <2>3. e.seq \in Nat /\ e.seq > m + 1
    <3>1. e \in Orphan
      BY <2>1
    <3> QED
      BY <2>2, <3>1 DEF Orphan, TypeOK, LineType
  <2>4. \A f \in disk \ {e} : f.seq \in 1 .. m
    BY <2>1 DEF Contiguous, Seqs
  <2>5. e \notin synced
    <3>1. SUFFICES ASSUME e \in synced PROVE FALSE
      OBVIOUS
    <3>2. m + 1 \in 1 .. e.seq
      BY <2>2, <2>3
    <3>3. PICK f \in synced : f.seq = m + 1
      BY <3>1, <3>2 DEF Prefix
    <3>4. f \in disk /\ f # e
      BY <2>2, <2>3, <3>3 DEF TypeOK
    <3>5. f.seq \in 1 .. m
      BY <2>4, <3>4
    <3> QED
      BY <2>2, <3>3, <3>5
  <2> QED
    BY <2>1, <2>5 DEF Repaired, TypeOK
<1> QED
  BY <1>1, <1>2

\* While it is calm, a repair loses no durable line and makes all of the log durable.
LEMMA RepairDurable ==
  ASSUME TypeOK, SyncInv, Calm, Repairable, RepairTail
  PROVE  /\ synced \subseteq disk' /\ synced \subseteq synced'
         /\ doubtful' = {}
         /\ Damaged => synced' = disk'
         /\ ~Damaged => synced' = synced
<1>1. synced \subseteq Repaired
  BY OrphanVolatile DEF SyncInv
<1>2. disk' = Repaired
  BY RepairContiguous
<1>3. CASE Damaged
  <2>1. synced' = Durable(Repaired, nparts) /\ doubtful' = doubtful \cap Repaired
    BY <1>3 DEF RepairTail
  <2>2. \A e \in Repaired : e.part = nparts
    BY DEF SyncInv, Calm, Repaired, TypeOK
  <2> QED
    BY <1>1, <1>2, <1>3, <2>1, <2>2 DEF Durable, SyncInv
<1>4. CASE ~Damaged
  BY <1>1, <1>2, <1>4 DEF RepairTail, SyncInv
<1> QED
  BY <1>3, <1>4

\* A step that leaves the lines alone and moves nobody to or through an fsync.
LEMMA SyncQuiet ==
  ASSUME TypeOK, SyncInv, disk' = disk, synced' = synced, nparts' \in Nat, nparts' >= nparts,
         Calm' => Calm /\ doubtful' = doubtful /\ committed' = committed,
         \A p \in Proc : pc'[p] \in {"written", "synced"} => pc'[p] = pc[p]
  PROVE  SyncInv'
<1>1. 1 .. nparts \subseteq 1 .. nparts' /\ Contiguous(disk) = Contiguous(disk')
  BY ParamAssumption DEF TypeOK
<1>2. Prefix => Prefix'
  BY DEF Prefix
<1> QED
  BY <1>1, <1>2 DEF SyncInv

LEMMA SyncInvStep == TypeOK /\ LogInv /\ SyncInv /\ [Next]_vars => SyncInv'
<1> SUFFICES ASSUME TypeOK, LogInv, SyncInv, [Next]_vars PROVE SyncInv'
  OBVIOUS
<1> USE ParamAssumption
<1>a. ASSUME NEW p \in Proc, Leave(p)
      PROVE  \A q \in Proc : pc'[q] \in {"written", "synced"} => q # p /\ pc'[q] = pc[q]
  BY <1>a DEF Leave, Goto, TypeOK, PcStates
<1>b. ASSUME FsyncFails PROVE ~Calm'
  BY <1>b DEF FsyncFails, Calm, TypeOK
<1>c. nparts \in Nat /\ FirstFile \in Nat /\ FirstFile >= nparts /\ (nparts # 0 => FirstFile = nparts)
  BY DEF FirstFile, TypeOK
<1>d. ASSUME lock = NoProc PROVE \A q \in Proc : pc[q] \notin {"written", "synced"}
  BY <1>d DEF LogInv, WriterExclusive
<1>1. ASSUME NEW p \in Proc, CreateSession(p) \/ StartAppend(p) PROVE SyncInv'
  <2>1. /\ UNCHANGED <<disk, nparts, tail, synced, doubtful, quarantined, faults, committed>>
        /\ \E o : Begin(p, o)
    BY <1>1 DEF CreateSession, StartAppend, BeginPlain, BeginCreate, BeginActivate, diskVars, ackVars
  <2>2. \A q \in Proc : pc'[q] \in {"written", "synced"} => pc'[q] = pc[q]
    BY <2>1 DEF Begin, Goto, TypeOK, PcStates
  <2> QED
    BY <1>c, <2>1, <2>2, SyncQuiet DEF Calm
<1>2. ASSUME NEW p \in Proc, ReadCorrupt(p) PROVE SyncInv'
  BY <1>c, <1>2, SyncQuiet DEF ReadCorrupt, Quarantine, procVars, ackVars, Calm
<1>3. ASSUME NEW p \in Proc, GiveUp(p) PROVE SyncInv'
  BY <1>a, <1>c, <1>3, SyncQuiet DEF GiveUp, diskVars, ackVars, Calm
<1>4. ASSUME NEW p \in Proc, AcquireCorrupt(p) PROVE SyncInv'
  BY <1>a, <1>c, <1>4, SyncQuiet DEF AcquireCorrupt, Quarantine, ackVars, Calm
<1>5. ASSUME NEW p \in Proc, AcquireRepairError(p) PROVE SyncInv'
  <2>1. Leave(p) /\ lock = NoProc /\ nparts' = nparts /\ disk' = Repaired /\ FsyncFails
    BY <1>5 DEF AcquireRepairError
  <2> QED
    BY <1>a, <1>b, <1>d, <2>1 DEF SyncInv, Repaired
<1>6. ASSUME NEW p \in Proc, Repairable, RepairTail, nparts' = nparts,
             faults' = faults, committed' = committed,
             \A q \in Proc : pc'[q] \notin {"written", "synced"}
      PROVE  SyncInv'
  <2>1. disk' = Repaired /\ Contiguous(disk')
    BY <1>6, RepairContiguous
  <2>2. IsFiniteSet(disk')
    BY <1>6, RepairType
  <2>3. ASSUME Calm
        PROVE  doubtful' = {} /\ committed' \subseteq synced' /\ Prefix'
    <3>1. /\ synced \subseteq synced' /\ doubtful' = {}
          /\ Damaged => synced' = disk'
          /\ ~Damaged => synced' = synced
      BY <1>6, <2>3, RepairDurable
    <3>2. CASE Damaged
      BY <1>6, <2>1, <2>2, <2>3, <3>1, <3>2, ContiguousPrefix DEF Prefix, SyncInv
    <3>3. CASE ~Damaged
      BY <1>6, <2>3, <3>1, <3>3 DEF Prefix, SyncInv
    <3> QED
      BY <3>2, <3>3
  <2> QED
    BY <1>6, <2>1, <2>3 DEF SyncInv, Repaired, Calm
<1>7. ASSUME NEW p \in Proc, Acquire(p) PROVE SyncInv'
  <2>1. /\ lock = NoProc /\ Repairable /\ RepairTail
        /\ UNCHANGED <<nparts, committed, faults>>
        /\ Deduplicate(p) \/ Refuse(p) \/ Accept(p)
    BY <1>7 DEF Acquire
  <2>2. \A q \in Proc : pc'[q] \notin {"written", "synced"}
    BY <1>d, <2>1 DEF Deduplicate, Refuse, Accept, Leave, Goto, TypeOK, PcStates
  <2> QED
    BY <1>6, <2>1, <2>2
<1>8. ASSUME NEW p \in Proc, Rotate(p) PROVE SyncInv'
  <2>1. /\ nparts' = nparts + 1 /\ disk' = disk /\ synced' = synced
        /\ nparts \in 1 .. MaxParts - 1
    BY <1>8 DEF Rotate
  <2>2. ~Calm' /\ nparts' \in Nat /\ nparts' >= nparts
    BY <2>1 DEF Calm
  <2>3. \A q \in Proc : pc'[q] \in {"written", "synced"} => pc'[q] = pc[q]
    BY <1>8 DEF Rotate, Leave, Goto, TypeOK, PcStates
  <2> QED
    BY <2>1, <2>2, <2>3, SyncQuiet
<1>9. ASSUME NEW p \in Proc, Write(p) PROVE SyncInv'
  <2>1. /\ disk' = disk \cup {NewLine(p)} /\ nparts' = FirstFile
        /\ Goto(p, "written") /\ UNCHANGED <<synced, doubtful, committed, faults>>
    BY <1>9 DEF Write, ackVars
  <2>2. Contiguous(disk')
    BY <1>9, WriteShape
  <2>3. \A e \in disk' : e.part \in 1 .. nparts'
    <3>1. NewLine(p).part = FirstFile
      BY DEF NewLine, LineOf
    <3>2. FirstFile \in 1 .. FirstFile
      BY DEF FirstFile, TypeOK
    <3> QED
      BY <1>c, <2>1, <3>1, <3>2 DEF SyncInv
  <2>4. Calm' => Calm
    BY <1>c, <2>1 DEF Calm
  <2>5. lock = p
    BY <1>9 DEF Write, AtWrite, LogInv, WriterExclusive
  <2>6. \A q \in Proc : pc'[q] # "synced"
    BY <1>9, <2>1, <2>5 DEF Goto, TypeOK, PcStates, LogInv, WriterExclusive
  <2> QED
    BY <2>1, <2>2, <2>3, <2>4, <2>6 DEF SyncInv, Prefix
<1>10. ASSUME NEW p \in Proc, WriteError(p) PROVE SyncInv'
  <2>1. /\ nparts' = FirstFile /\ Leave(p)
        /\ UNCHANGED <<disk, synced, committed>>
        /\ FsyncFails \/ UNCHANGED <<doubtful, faults>>
    BY <1>10 DEF WriteError, ackVars
  <2>2. Calm' => Calm /\ doubtful' = doubtful
    BY <1>b, <1>c, <2>1 DEF Calm
  <2> QED
    BY <1>a, <1>c, <2>1, <2>2, SyncQuiet
<1>11. ASSUME NEW p \in Proc, Fsync(p) PROVE SyncInv'
  <2>1. /\ UNCHANGED <<disk, nparts, doubtful, committed, faults>>
        /\ pc[p] = "written" /\ Goto(p, "synced") /\ synced' = Durable(disk, nparts)
    BY <1>11 DEF Fsync, ackVars
  <2>2. Contiguous(disk)
    BY <2>1 DEF SyncInv
  <2>3. ASSUME Calm PROVE synced' = disk
    BY <2>1, <2>3 DEF SyncInv, Calm, Durable, TypeOK
  <2>4. ASSUME Calm PROVE Prefix'
    BY <2>1, <2>2, <2>3, <2>4, ContiguousPrefix DEF Prefix, TypeOK
  <2>5. Calm' => Calm /\ committed' \subseteq synced' /\ doubtful' = {}
    BY <2>1, <2>3 DEF Calm, SyncInv, TypeOK
  <2> QED
    BY <2>1, <2>2, <2>3, <2>4, <2>5 DEF SyncInv
<1>12. ASSUME NEW p \in Proc, FsyncError(p) PROVE SyncInv'
  <2>1. Leave(p) /\ FsyncFails /\ UNCHANGED <<disk, nparts, synced>>
    BY <1>12 DEF FsyncError
  <2> QED
    BY <1>a, <1>b, <1>c, <2>1, SyncQuiet
<1>13. ASSUME NEW p \in Proc, Return(p) PROVE SyncInv'
  <2>1. /\ pc[p] = "synced" /\ Leave(p) /\ UNCHANGED <<disk, nparts, synced, doubtful, faults>>
        /\ committed' \subseteq committed \cup disk
    BY <1>13 DEF Return, diskVars
  <2>2. Calm' => Calm /\ committed' \subseteq synced'
    BY <2>1 DEF Calm, SyncInv
  <2> QED
    BY <1>a, <2>1, <2>2 DEF SyncInv, Prefix
<1>14. ASSUME NEW p \in Proc, Rebuild(p) PROVE SyncInv'
  <2>1. lock = NoProc /\ UNCHANGED <<pc, committed, faults>>
    BY <1>14 DEF Rebuild, procVars, ackVars
  <2>2. CASE Repairable /\ RepairTail /\ nparts' = nparts
    BY <1>6, <1>d, <2>1, <2>2
  <2>3. CASE Quarantine
    BY <1>c, <2>1, <2>3, SyncQuiet DEF Quarantine, Calm
  <2> QED
    BY <1>14, <2>2, <2>3 DEF Rebuild
<1>15. ASSUME NEW p \in Proc, Crash(p) PROVE SyncInv'
  <2>1. /\ faults' = [faults EXCEPT !.crash = @ + 1] /\ Leave(p)
        /\ UNCHANGED <<disk, synced, doubtful, committed>>
        /\ nparts' = nparts \/ nparts' = FirstFile
    BY <1>15, Zenon DEF Crash, ackVars
  <2>2. faults'.fsync = faults.fsync
    BY <2>1 DEF TypeOK
  <2>3. Calm' => Calm
    BY <1>c, <2>1, <2>2 DEF Calm
  <2> QED
    BY <1>a, <1>c, <2>1, <2>3, SyncQuiet
<1>16. ASSUME PowerLoss PROVE SyncInv'
  <2>1. /\ disk' \subseteq disk /\ doubtful' \subseteq doubtful
        /\ UNCHANGED <<nparts, synced, committed>> /\ pc' = [p \in Proc |-> "idle"]
    BY <1>16 DEF PowerLoss, ackVars
  <2>2. faults'.fsync = faults.fsync
    BY <1>16 DEF PowerLoss, TypeOK
  <2> QED
    BY <2>1, <2>2 DEF SyncInv, Calm, Prefix
<1>17. CASE UNCHANGED vars
  BY <1>c, <1>17, SyncQuiet DEF vars, Calm
<1> QED
  BY <1>1, <1>2, <1>3, <1>4, <1>5, <1>7, <1>8, <1>9, <1>10, <1>11, <1>12, <1>13,
     <1>14, <1>15, <1>16, <1>17 DEF Next, Step

\* What append returned survives every crash and every power loss, within one
\* partition and while fsync works.
THEOREM CommitsDurable == Spec => []CommittedDurable
<1>1. Init => SyncInv
  BY DEF Init, SyncInv, Prefix
<1>2. TypeOK /\ SyncInv => CommittedDurable
  BY DEF SyncInv, CommittedDurable, Calm, TypeOK
<1> QED
  BY <1>1, <1>2, SyncInvStep, TypeCorrect, LogWellFormed, PTL DEF Spec

-----------------------------------------------------------------------------
(* The store implements the atomic log *)

\* With one partition and without fsync errors it is always calm.
LEMMA AlwaysCalm ==
  ASSUME MaxParts = 1, MaxFsyncErrors = 0
  PROVE  Spec => []Calm
<1>1. Init => Calm
  BY DEF Init, Calm
<1>2. TypeOK /\ TypeOK' /\ Calm /\ [Next]_vars => Calm'
  <2> SUFFICES ASSUME TypeOK, TypeOK', Calm, [Next]_vars PROVE Calm'
    OBVIOUS
  <2>1. nparts' <= 1
    BY DEF TypeOK
  <2>2. ~FsyncFails
    BY DEF FsyncFails, Calm
  <2>3. ASSUME NEW p \in Proc, Step(p) PROVE faults' = faults
    BY <2>2, <2>3 DEF Step, GiveUp, AcquireCorrupt, AcquireRepairError, Acquire, Rotate,
                      Write, WriteError, Fsync, FsyncError, Return
  <2>4. ASSUME NEW p \in Proc,
               CreateSession(p) \/ StartAppend(p) \/ ReadCorrupt(p) \/ Rebuild(p)
        PROVE  faults' = faults
    BY <2>4 DEF CreateSession, StartAppend, ReadCorrupt, Rebuild
  <2>5. ASSUME NEW p \in Proc, Crash(p) PROVE faults'.fsync = faults.fsync
    <3>1. faults' = [faults EXCEPT !.crash = @ + 1]
      BY <2>5, Zenon DEF Crash
    <3> QED
      BY <3>1 DEF TypeOK
  <2>6. ASSUME PowerLoss PROVE faults'.fsync = faults.fsync
    BY <2>6 DEF PowerLoss, TypeOK
  <2>7. CASE UNCHANGED vars
    BY <2>7 DEF vars, Calm
  <2> QED
    BY <2>1, <2>3, <2>4, <2>5, <2>6, <2>7 DEF Next, Calm
<1> QED
  BY <1>1, <1>2, TypeCorrect, PTL DEF Spec

\* Every step of the store is a step of the atomic log: a write enters an event,
\* a return promises it, a repair and a power loss forget what was not promised.
LEMMA RefineStep ==
  ASSUME TypeOK, LogInv, SyncInv, SyncInv', Calm, Calm', [Next]_vars
  PROVE  [Promised!Next]_Promised!vars
<1> USE DEF Promised!Next, Promised!vars
<1>1. ASSUME disk' = disk, committed' = committed PROVE [Promised!Next]_Promised!vars
  BY <1>1
<1>2. ASSUME Repairable, RepairTail, committed' = committed PROVE [Promised!Next]_Promised!vars
  <2>1. disk' \subseteq disk
    BY <1>2, RepairContiguous DEF Repaired
  <2>2. committed \subseteq disk'
    BY <1>2, RepairDurable DEF SyncInv
  <2> QED
    BY <1>2, <2>1, <2>2 DEF Promised!Forget
<1>3. ASSUME NEW p \in Proc, Write(p) PROVE [Promised!Next]_Promised!vars
  <2> DEFINE e == NewLine(p)
  <2>1. e \in disk' /\ disk' = disk \cup {e} /\ committed' = committed
    BY <1>3 DEF Write, ackVars
  <2>2. /\ e.seq = Cardinality(disk) + 1 /\ e.kind = op[p].kind /\ e.name = op[p].name
        /\ e.fork = op[p].fork /\ e.branch = op[p].branch /\ e.parent = op[p].parent
    BY DEF NewLine, LineOf
  <2>3. ~Duplicate(disk, op[p]) /\ Acceptable(disk, op[p])
    BY <1>3 DEF Write, AtWrite, LogInv, WriterExclusive
  <2>4. ~Promised!Duplicate(disk, e)
    BY <2>2, <2>3 DEF Duplicate, Promised!Duplicate, KeyOf, Promised!KeyOf
  <2>5. Promised!Acceptable(disk, e)
    BY <2>2, <2>3 DEF Acceptable, Promised!Acceptable, IsHead, Promised!IsHead,
                      Known, Promised!Known, Seqs, Promised!Seqs
  <2>6. e.seq \notin Promised!Seqs(disk) /\ Promised!Seqs(disk') = 1 .. e.seq
    <3>1. Contiguous(disk)
      BY <1>3 DEF Write, AtWrite, LogInv, WriterExclusive
    <3>2. e \notin disk /\ Contiguous(disk \cup {e}) /\ \A f \in disk : f.seq \in 1 .. Cardinality(disk)
      BY <2>2, <3>1, AppendContiguous DEF TypeOK
    <3>3. Cardinality(disk \cup {e}) = Cardinality(disk) + 1 /\ Cardinality(disk) \in Nat
      BY <3>2, FS_AddElement, FS_CardinalityType DEF TypeOK
    <3>4. Seqs(disk') = 1 .. e.seq
      BY <2>1, <2>2, <3>2, <3>3 DEF Contiguous
    <3> QED
      BY <2>2, <3>2, <3>3, <3>4 DEF Seqs, Promised!Seqs
  <2> HIDE DEF e
  <2> QED
    BY <2>1, <2>4, <2>5, <2>6 DEF Promised!Enter
<1>4. ASSUME NEW p \in Proc, Return(p) PROVE [Promised!Next]_Promised!vars
  BY <1>4 DEF Return, diskVars, Promised!Promise
<1>5. ASSUME PowerLoss PROVE [Promised!Next]_Promised!vars
  <2>1. disk' \subseteq disk /\ synced' = synced /\ committed' = committed
    BY <1>5 DEF PowerLoss, ackVars
  <2>2. synced \subseteq disk'
    BY <1>5 DEF PowerLoss, TypeOK
  <2>3. committed \subseteq disk'
    BY <2>2 DEF SyncInv
  <2> QED
    BY <2>1, <2>3 DEF Promised!Forget
<1>6. ASSUME NEW p \in Proc, Crash(p) PROVE disk' = disk /\ committed' = committed
  BY <1>6, Zenon DEF Crash, ackVars
<1>7. ASSUME NEW p \in Proc, AcquireRepairError(p) PROVE FALSE
  BY <1>7 DEF AcquireRepairError, FsyncFails, Calm, TypeOK
<1>8. ASSUME NEW p \in Proc, Step(p), ~Write(p), ~Return(p) PROVE [Promised!Next]_Promised!vars
  <2>1. CASE Acquire(p)
    BY <1>2, <2>1 DEF Acquire
  <2>2. CASE GiveUp(p) \/ AcquireCorrupt(p) \/ Rotate(p) \/ WriteError(p) \/ Fsync(p) \/ FsyncError(p)
    BY <1>1, <2>2 DEF GiveUp, AcquireCorrupt, Quarantine, Rotate, WriteError, Fsync, FsyncError,
                      diskVars, ackVars
  <2> QED
    BY <1>7, <1>8, <2>1, <2>2 DEF Step
<1>9. ASSUME NEW p \in Proc, CreateSession(p) \/ StartAppend(p) \/ ReadCorrupt(p)
      PROVE  disk' = disk /\ committed' = committed
  BY <1>9 DEF CreateSession, StartAppend, ReadCorrupt, Quarantine, diskVars, ackVars
<1>10. ASSUME NEW p \in Proc, Rebuild(p) PROVE [Promised!Next]_Promised!vars
  BY <1>1, <1>2, <1>10 DEF Rebuild, Quarantine, ackVars
<1>11. CASE UNCHANGED vars
  BY <1>1, <1>11 DEF vars
<1> QED
  BY <1>1, <1>3, <1>4, <1>5, <1>6, <1>8, <1>9, <1>10, <1>11 DEF Next

\* With one partition and a working fsync, files, locks, crashes and power
\* losses together are the atomic log.
THEOREM StoreImplementsLog ==
  ASSUME MaxParts = 1, MaxFsyncErrors = 0
  PROVE  Spec => ImplementsDurableLog
<1>1. Init => Promised!Init
  BY DEF Init, Promised!Init
<1>2. Init => SyncInv
  BY DEF Init, SyncInv, Prefix
<1>3. Spec => []SyncInv
  BY <1>2, SyncInvStep, TypeCorrect, LogWellFormed, PTL DEF Spec
<1>4. Spec => []Calm
  BY AlwaysCalm
<1>5. TypeOK /\ LogInv /\ SyncInv /\ SyncInv' /\ Calm /\ Calm' /\ [Next]_vars
        => [Promised!Next]_Promised!vars
  BY RefineStep
<1> QED
  BY <1>1, <1>3, <1>4, <1>5, TypeCorrect, LogWellFormed, PTL
     DEF Spec, ImplementsDurableLog, Promised!Spec
=============================================================================
