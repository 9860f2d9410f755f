----------------------------- MODULE EventStore -----------------------------
(***************************************************************************)
(* LocalSessionEventStore on one session: the files of the session, the    *)
(* processes that append to them under the session's flock, and what       *)
(* process crashes, power losses and failing fsyncs do to them.            *)
(*                                                                         *)
(* An append is the steps at which something else can happen: the read     *)
(* that yields the expected parent (no lock), the locked read with tail    *)
(* repair and the decision, the rotation, the write, the fsync and the     *)
(* return.  Bytes are abstracted: a partition is the lines it holds and    *)
(* the state of what follows the last of them.                             *)
(***************************************************************************)
EXTENDS EventLog

CONSTANTS
  Proc,            \* processes sharing the data directory
  NoProc,          \* the session lock is free
  PartMaxEvents,   \* partition_max_events
  MaxParts,        \* bound: partitions of the session
  MaxCrashes,      \* bound: process crashes
  MaxPowerLosses,  \* bound: power losses
  MaxFsyncErrors   \* bound: failing fsyncs

ASSUME ParamAssumption ==
  /\ NoProc \notin Proc
  /\ PartMaxEvents \in Nat /\ PartMaxEvents >= 2
  /\ MaxParts \in Nat \ {0}
  /\ MaxCrashes \in Nat
  /\ MaxPowerLosses \in Nat
  /\ MaxFsyncErrors \in Nat

VARIABLES
  \* the disk
  disk,        \* the complete valid lines of all partitions
  nparts,      \* partition files that exist
  tail,        \* what follows the last line of each partition
  synced,      \* lines that no power loss can take
  doubtful,    \* lines whose fsync failed: the kernel may have dropped them
  quarantined, \* the quarantine marker of the session exists
  \* the processes
  lock,        \* holder of the session's exclusive flock
  pc,          \* where each process is in append
  op,          \* the event it appends
  healthy,     \* ~ _unhealthy_reason
  \* history
  committed,   \* lines whose own append returned
  deduped,     \* lines returned as the result of a repeated append
  faults       \* injected faults so far

diskVars == <<disk, nparts, tail, synced, doubtful, quarantined>>
procVars == <<lock, pc, op, healthy>>
ackVars  == <<committed, deduped>>
vars     == <<disk, nparts, tail, synced, doubtful, quarantined,
              lock, pc, op, healthy, committed, deduped, faults>>

PcStates == {"idle", "waiting", "locked", "rotated", "written", "synced"}

\* A partial line is "torn"; a terminated line that fails its checksum is "bad".
Tails == {"clean", "torn", "bad"}

NoOp == [kind |-> "header", name |-> Main, fork |-> 0, branch |-> Main, parent |-> 0]

TypeOK ==
  /\ disk \subseteq LineType /\ IsFiniteSet(disk)
  /\ nparts \in 0 .. MaxParts
  /\ tail \in [1 .. MaxParts -> Tails]
  /\ synced \subseteq disk
  /\ doubtful \subseteq disk
  /\ quarantined \in BOOLEAN
  /\ lock \in Proc \cup {NoProc}
  /\ pc \in [Proc -> PcStates]
  /\ op \in [Proc -> OpType]
  /\ healthy \in [Proc -> BOOLEAN]
  /\ committed \subseteq LineType
  /\ deduped \subseteq LineType
  /\ faults \in [crash : Nat, power : Nat, fsync : Nat]

Init ==
  /\ disk = {} /\ nparts = 0 /\ tail = [n \in 1 .. MaxParts |-> "clean"]
  /\ synced = {} /\ doubtful = {} /\ quarantined = FALSE
  /\ lock = NoProc
  /\ pc = [p \in Proc |-> "idle"]
  /\ op = [p \in Proc |-> NoOp]
  /\ healthy = [p \in Proc |-> TRUE]
  /\ committed = {} /\ deduped = {}
  /\ faults = [crash |-> 0, power |-> 0, fsync |-> 0]

-----------------------------------------------------------------------------
(* Files *)

LinesOf(n) == {e \in disk : e.part = n}
LastTail == IF nparts = 0 THEN "clean" ELSE tail[nparts]
FirstFile == IF nparts = 0 THEN 1 ELSE nparts

\* The last partition's last line when it is the only line out of sequence.
Orphan == {e \in disk : e.part = nparts /\ e.seq > Cardinality(disk)}

\* Mutant of Readable: a partial last line is an error for a reader too.
ReadableStrict ==
  /\ Contiguous(disk)
  /\ \A n \in 1 .. nparts : tail[n] = "clean"

\* _read_path without repair fails on a bad line or a hole, wherever it is.
Readable ==
  /\ Contiguous(disk)
  /\ \A n \in 1 .. nparts : tail[n] # "bad"

\* With repair, it accepts an invalid last line of the last partition.
Repairable ==
  /\ \A n \in 1 .. nparts : n # nparts => tail[n] # "bad"
  /\ \/ Contiguous(disk)
     \/ /\ LastTail # "bad"
        /\ \E e \in disk : Orphan = {e} /\ Contiguous(disk \ {e})

Repaired == disk \ Orphan
Damaged == LastTail # "clean" \/ Orphan # {}

\* An fsync of partition n makes durable what the kernel still holds of it.
Durable(D, n) == (synced \cap D) \cup ({e \in D : e.part = n} \ doubtful)

CleanTail == [tail EXCEPT ![FirstFile] = "clean"]

\* Mutant of RepairTail: the offset is one line too low.
RepairTailGreedy ==
  IF Damaged
  THEN /\ disk' = {e \in Repaired : e.seq < Cardinality(Repaired)}
       /\ tail' = CleanTail
       /\ UNCHANGED <<synced, doubtful>>
  ELSE UNCHANGED <<disk, tail, synced, doubtful>>

\* _repair_tail, when there is something to cut: ftruncate, fsync.
RepairTail ==
  IF Damaged
  THEN /\ disk' = Repaired
       /\ tail' = CleanTail
       /\ synced' = Durable(Repaired, nparts)
       /\ doubtful' = doubtful \cap Repaired
  ELSE UNCHANGED <<disk, tail, synced, doubtful>>

\* _quarantine_session
Quarantine ==
  /\ quarantined' = TRUE
  /\ UNCHANGED <<disk, nparts, tail, synced, doubtful>>

FsyncFails ==
  /\ faults.fsync < MaxFsyncErrors
  /\ faults' = [faults EXCEPT !.fsync = @ + 1]

-----------------------------------------------------------------------------
(* Steps of append *)

Goto(p, s) == pc' = [pc EXCEPT ![p] = s]

\* Mutant of Leave: an error path keeps the lock.
LeaveLocked(p) ==
  /\ Goto(p, "idle")
  /\ UNCHANGED lock
  /\ op' = [op EXCEPT ![p] = NoOp]

\* append returns or raises: the with-blocks release the lock.
Leave(p) ==
  /\ Goto(p, "idle")
  /\ lock' = IF lock = p THEN NoProc ELSE lock
  /\ op' = [op EXCEPT ![p] = NoOp]

\* _assert_healthy and _assert_not_quarantined of the read and of append.
Admitted(p) == pc[p] = "idle" /\ healthy[p] /\ ~quarantined

Begin(p, o) == Goto(p, "waiting") /\ op' = [op EXCEPT ![p] = o]

\* _append: an event on the active branch, behind the head just read.
BeginPlain(p) ==
  \E k \in Key, b \in Branch, h \in Seqs(disk) :
    /\ IsActive(disk, b) /\ IsHead(disk, b, h)
    /\ Begin(p, [kind |-> "plain", name |-> k, fork |-> 0, branch |-> b, parent |-> h])

\* create_branch: fork a new branch at any event, announced on a source branch.
BeginCreate(p) ==
  \E n \in Fork, b \in Branch, f \in Seqs(disk), h \in Seqs(disk) :
    /\ IsHead(disk, b, h)
    /\ Begin(p, [kind |-> "created", name |-> n, fork |-> f, branch |-> b, parent |-> h])

\* activate_branch
BeginActivate(p) ==
  \E b \in Branch, h \in Seqs(disk) :
    /\ IsHead(disk, b, h)
    /\ Begin(p, [kind |-> "activated", name |-> b, fork |-> 0, branch |-> b, parent |-> h])

\* create_session: the header is appended without reading first; ensure_session
\* calls it for a session it read as empty.
CreateSession(p) ==
  /\ Admitted(p)
  /\ Begin(p, NoOp)
  /\ UNCHANGED <<diskVars, lock, healthy, ackVars, faults>>

\* The lock-free read of the head, then append up to the session lock.
StartAppend(p) ==
  /\ Admitted(p) /\ Readable
  /\ BeginPlain(p) \/ BeginCreate(p) \/ BeginActivate(p)
  /\ UNCHANGED <<diskVars, lock, healthy, ackVars, faults>>

\* A lock-free read that meets an invalid line quarantines the session.
ReadCorrupt(p) ==
  /\ Admitted(p) /\ ~Readable
  /\ Quarantine
  /\ UNCHANGED <<procVars, ackVars, faults>>

\* Nothing was read yet: the disk is nearly full (StorageCapacityError), or the
\* scope gate or the session lock stays taken until the deadline (StoreBusy).
GiveUp(p) ==
  /\ pc[p] = "waiting"
  /\ Leave(p)
  /\ UNCHANGED <<diskVars, healthy, ackVars, faults>>

\* The locked read quarantines what it cannot repair.
AcquireCorrupt(p) ==
  /\ pc[p] = "waiting" /\ lock = NoProc /\ ~Repairable
  /\ Quarantine
  /\ Leave(p)
  /\ UNCHANGED <<healthy, ackVars, faults>>

\* The fsync of the tail repair fails: truncated, unhealthy, StoreUnhealthy.
AcquireRepairError(p) ==
  /\ pc[p] = "waiting" /\ lock = NoProc /\ Repairable /\ Damaged
  /\ FsyncFails
  /\ disk' = Repaired /\ tail' = CleanTail
  /\ synced' = synced \cap Repaired
  /\ doubtful' = (doubtful \cap Repaired) \cup ({e \in Repaired : e.part = nparts} \ synced)
  /\ healthy' = [healthy EXCEPT ![p] = FALSE]
  /\ Leave(p)
  /\ UNCHANGED <<nparts, quarantined, ackVars>>

\* The locked read, the tail repair and the decision on what was read: the
\* event is already there, or it is refused, or it will be written.
Deduplicate(p) ==
  /\ Duplicate(Repaired, op[p])
  /\ deduped' = deduped \cup {e \in Repaired : KeyOf(e) = KeyOf(op[p])}
  /\ Leave(p)

Refuse(p) ==
  /\ ~Duplicate(Repaired, op[p]) /\ ~Acceptable(Repaired, op[p])
  /\ Leave(p)
  /\ UNCHANGED deduped

\* Mutant of Accept: the lock is released between the decision and the write.
AcceptUnlocked(p) ==
  /\ ~Duplicate(Repaired, op[p]) /\ Acceptable(Repaired, op[p])
  /\ UNCHANGED lock /\ Goto(p, "locked")
  /\ UNCHANGED <<op, deduped>>

Accept(p) ==
  /\ ~Duplicate(Repaired, op[p]) /\ Acceptable(Repaired, op[p])
  /\ lock' = p /\ Goto(p, "locked")
  /\ UNCHANGED <<op, deduped>>

Acquire(p) ==
  /\ pc[p] = "waiting" /\ lock = NoProc /\ Repairable
  /\ RepairTail
  /\ Deduplicate(p) \/ Refuse(p) \/ Accept(p)
  /\ UNCHANGED <<nparts, quarantined, healthy, committed, faults>>

\* _active_partition_path: the active file reached the event limit, or the line
\* does not fit its byte limit (which any line may do).  The new file exists
\* before its directory is fsynced; the old file is not fsynced.
Rotate(p) ==
  /\ pc[p] = "locked" /\ nparts \in 1 .. MaxParts - 1
  /\ nparts' = nparts + 1
  /\ \/ Goto(p, "rotated") /\ UNCHANGED <<lock, op, healthy, faults>>
     \/ /\ FsyncFails
        /\ healthy' = [healthy EXCEPT ![p] = FALSE]
        /\ Leave(p)
  /\ UNCHANGED <<disk, tail, synced, doubtful, quarantined, ackVars>>

MustRotate == /\ nparts \in 1 .. MaxParts - 1
              /\ Cardinality(LinesOf(nparts)) >= PartMaxEvents

AtWrite(p) == pc[p] = "rotated" \/ (pc[p] = "locked" /\ ~MustRotate)

\* Mutant of NewLine: numbering starts again in every partition.
NewLineRestarted(p) == LineOf(op[p], Cardinality(LinesOf(FirstFile)) + 1, FirstFile)

\* seq is the number of events read plus one, across all partitions.
NewLine(p) == LineOf(op[p], Cardinality(disk) + 1, FirstFile)

\* _write_all wrote the whole line.
Write(p) ==
  /\ AtWrite(p)
  /\ disk' = disk \cup {NewLine(p)}
  /\ nparts' = FirstFile
  /\ Goto(p, "written")
  /\ UNCHANGED <<tail, synced, doubtful, quarantined, lock, op, healthy, ackVars, faults>>

\* os.write failed: the rollback truncates, unless it fails in its turn and
\* leaves a partial line; a failing fsync of the rollback is StoreUnhealthy.
WriteError(p) ==
  /\ AtWrite(p)
  /\ nparts' = FirstFile
  /\ Leave(p)
  /\ \/ UNCHANGED <<tail, doubtful, healthy, faults>>
     \/ /\ tail' = [tail EXCEPT ![FirstFile] = "torn"]
        /\ UNCHANGED <<doubtful, healthy, faults>>
     \/ /\ FsyncFails
        /\ healthy' = [healthy EXCEPT ![p] = FALSE]
        /\ doubtful' = doubtful \cup (LinesOf(FirstFile) \ synced)
        /\ UNCHANGED tail
  /\ UNCHANGED <<disk, synced, quarantined, ackVars>>

\* Mutant of Fsync: the file is closed without fsync.
FsyncSkipped(p) ==
  /\ pc[p] = "written"
  /\ Goto(p, "synced")
  /\ UNCHANGED <<disk, nparts, tail, synced, doubtful, quarantined, lock, op, healthy, ackVars, faults>>

\* The commit fsync of the file and of its directory.
Fsync(p) ==
  /\ pc[p] = "written"
  /\ synced' = Durable(disk, nparts)
  /\ Goto(p, "synced")
  /\ UNCHANGED <<disk, nparts, tail, doubtful, quarantined, lock, op, healthy, ackVars, faults>>

\* The commit fsync fails: the line stays in the file, nothing is confirmed.
FsyncError(p) ==
  /\ pc[p] = "written"
  /\ FsyncFails
  /\ doubtful' = doubtful \cup (LinesOf(nparts) \ synced)
  /\ healthy' = [healthy EXCEPT ![p] = FALSE]
  /\ Leave(p)
  /\ UNCHANGED <<disk, nparts, tail, synced, quarantined, ackVars>>

\* Projections and parts manifest are written, append returns.  A manifest that
\* cannot be written raises instead: durable, but not confirmed.
Return(p) ==
  /\ pc[p] = "synced"
  /\ \/ committed' = committed \cup {e \in disk : KeyOf(e) = KeyOf(op[p])}
     \/ /\ nparts > 1
        /\ UNCHANGED committed
  /\ Leave(p)
  /\ UNCHANGED <<diskVars, healthy, deduped, faults>>

\* rebuild_projections: the locked read with repair, on demand.
Rebuild(p) ==
  /\ pc[p] = "idle" /\ healthy[p] /\ lock = NoProc
  /\ \/ Repairable /\ RepairTail /\ UNCHANGED <<nparts, quarantined>>
     \/ ~Repairable /\ Quarantine
  /\ UNCHANGED <<procVars, ackVars, faults>>

-----------------------------------------------------------------------------
(* Faults *)

\* A process dies and starts again: its flock is gone, what it wrote stays.
\* In the middle of a write it leaves a partial line.
Crash(p) ==
  /\ pc[p] # "idle" \/ ~healthy[p]
  /\ faults.crash < MaxCrashes
  /\ faults' = [faults EXCEPT !.crash = @ + 1]
  /\ healthy' = [healthy EXCEPT ![p] = TRUE]
  /\ Leave(p)
  /\ \/ UNCHANGED <<nparts, tail>>
     \/ /\ AtWrite(p)
        /\ nparts' = FirstFile
        /\ tail' = [tail EXCEPT ![FirstFile] = "torn"]
  /\ UNCHANGED <<disk, synced, doubtful, quarantined, ackVars>>

\* Partitions where a power loss can leave rubbish behind the last line.
Unsettled(lost) ==
  {n \in 1 .. nparts : \/ \E e \in lost : e.part = n
                       \/ /\ n = nparts
                          /\ \E p \in Proc : pc[p] \in {"locked", "rotated"}}

\* All processes stop at once and the page cache is gone: of the lines that no
\* fsync covered, any may be lost.
PowerLoss ==
  /\ faults.power < MaxPowerLosses
  /\ faults' = [faults EXCEPT !.power = @ + 1]
  /\ \E lost \in SUBSET (disk \ synced) :
       /\ disk' = disk \ lost
       /\ doubtful' = doubtful \ lost
       /\ \E rest \in [Unsettled(lost) -> Tails] :
            tail' = [n \in 1 .. MaxParts |-> IF n \in Unsettled(lost) THEN rest[n] ELSE tail[n]]
  /\ lock' = NoProc
  /\ pc' = [p \in Proc |-> "idle"]
  /\ op' = [p \in Proc |-> NoOp]
  /\ healthy' = [p \in Proc |-> TRUE]
  /\ UNCHANGED <<nparts, synced, quarantined, ackVars>>

-----------------------------------------------------------------------------
Step(p) ==
  \/ GiveUp(p)
  \/ AcquireCorrupt(p)
  \/ AcquireRepairError(p)
  \/ Acquire(p)
  \/ Rotate(p)
  \/ Write(p)
  \/ WriteError(p)
  \/ Fsync(p)
  \/ FsyncError(p)
  \/ Return(p)

Next ==
  \/ \E p \in Proc : \/ CreateSession(p)
                     \/ StartAppend(p)
                     \/ ReadCorrupt(p)
                     \/ Step(p)
                     \/ Rebuild(p)
                     \/ Crash(p)
  \/ PowerLoss

Spec == Init /\ [][Next]_vars

\* A process that is inside append keeps running: nothing in append waits
\* without a deadline.
FairSpec == Spec /\ \A p \in Proc : WF_vars(Step(p))

-----------------------------------------------------------------------------
(* Properties *)

\* The session lock serialises append: only its holder is past the decision,
\* and the decision it made still holds when it writes.
WriterExclusive ==
  \A p \in Proc :
    /\ pc[p] \in {"locked", "rotated", "written", "synced"} => lock = p
    /\ pc[p] \in {"locked", "rotated"} =>
         /\ Contiguous(disk)
         /\ ~Duplicate(disk, op[p])
         /\ Acceptable(disk, op[p])

\* One fact, one event: however often, from whichever process and around
\* whichever crash an event is appended, its idempotency key is in the log once.
UniqueKeys == \A e, f \in disk : KeyOf(e) = KeyOf(f) => e = f

\* No double head: on every branch an event's parent is the event before it on
\* that branch, so an append that used a stale head never got in.
BranchChain ==
  \A e, f \in disk : e.branch = f.branch /\ e.seq < f.seq => e.seq <= f.parent /\ f.parent < f.seq

\* seq is assigned under the lock and never reused: numbers are unique, and they
\* are 1, 2, 3, ... as long as no power loss took lines.
Numbering ==
  /\ \A e, f \in disk : e.seq = f.seq => e = f
  /\ faults.power = 0 => Contiguous(disk)

\* An event whose append returned survives everything, within one partition and
\* while fsync works.
CommittedDurable ==
  nparts <= 1 /\ faults.fsync = 0 => committed \subseteq disk

\* Process crashes alone, at any step, never make a session unreadable.
CrashNeverQuarantines == faults.power = 0 => ~quarantined

\* Without a power loss no complete line ever disappears: rollback and tail
\* repair only remove what was never a line.
OnlyPowerLossForgets == [][faults'.power = 0 => disk \subseteq disk']_vars

\* The files, locks and crashes together are the atomic log of DurableLog.
Promised == INSTANCE DurableLog WITH entries <- disk, promised <- committed
ImplementsDurableLog == Promised!Spec

\* "Only a successful fsync confirms the commit to the caller": whatever append
\* returned, also as the result of a repeated append, survives a power loss.
AckedDurable == nparts <= 1 /\ faults.fsync = 0 => deduped \subseteq disk

\* "Rotation fsyncs the current partition": a partition is only opened behind
\* lines that no power loss can take.
RotationSettled == [][nparts' > nparts => LinesOf(nparts) \subseteq synced]_vars

\* Only corruption before the last line closes a session: a damaged last line is
\* cut off instead.
TailNeverQuarantines == [][~quarantined /\ quarantined' => ~Repairable]_vars

\* Whoever holds the session lock lets go of it.
LockReleased == lock # NoProc ~> lock = NoProc
=============================================================================
