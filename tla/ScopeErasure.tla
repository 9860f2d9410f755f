---------------------------- MODULE ScopeErasure ----------------------------
(***************************************************************************)
(* Erasing a visibility scope of the session store, and the blobs that     *)
(* events refer to.  Writers append under a shared lock of the scope's     *)
(* gate; an eraser takes the gate exclusively, moves the scope directory   *)
(* aside and lists its sessions as erased.  An intent file announces the   *)
(* eraser; a guard that finds an old one finishes what a dead eraser left. *)
(* A blob is stored before the event that refers to it, under a shared     *)
(* lock that excludes the collection of blobs.                             *)
(*                                                                         *)
(* Locks are flocks: they are derived from where the processes are, and a  *)
(* process that dies releases them.                                        *)
(***************************************************************************)
EXTENDS Integers, FiniteSets

CONSTANTS
  Scope,       \* visibility scopes of one tenant
  Proc,        \* processes: writers, and
  Eraser,      \* those that erase scopes and collect blobs
  Blob,        \* contents that are too large for an event
  MaxGen,      \* bound: generations of a conversation's session id
  MaxFaults    \* bound: crashes, failing file operations, unreadable files

ASSUME ErasureAssumption ==
  /\ Scope # {} /\ Eraser \subseteq Proc /\ MaxGen \in Nat /\ MaxFaults \in Nat

\* A session id is the conversation's preferred one or a later generation.
Gen == 0 .. MaxGen

VARIABLES
  live,    \* sessions with a file in the scope directory
  refs,    \* blobs that the events of a session refer to
  rotten,  \* sessions whose file has a line that cannot be parsed
  trash,   \* sessions in directories that an eraser moved aside
  aside,   \* sessions with index files or quarantine copies
  tomb,    \* sessions listed as erased
  intent,  \* the intent file: missing, or written so long ago
  blobs,   \* stored blobs
  old,     \* stored blobs past the grace period
  pc, job, \* where each process is, and its local variables
  faults,  \* faults so far
  gone     \* history: sessions that an eraser moved aside

disk == <<live, refs, rotten, trash, aside, tomb, intent, blobs, old>>
vars == <<disk, pc, job, faults, gone>>

\* Places with the gate held shared, held exclusively by an eraser or by a
\* guard that finishes a stale intent, and with the collection lock held.
Shared    == {"append"}
Erasing   == {"rename", "strip", "list", "purge"}
Finishing == {"flist", "fpurge", "fstrip", "fdrop"}
Places == {"idle", "guard", "gate", "drop", "collect", "sweep"}
            \cup Shared \cup Erasing \cup Finishing

JobType == [scope : Scope, gen : Gen, blob : SUBSET Blob, done : BOOLEAN, kept : SUBSET Blob]

TypeOK ==
  /\ live \in [Scope -> SUBSET Gen] /\ refs \in [Scope -> [Gen -> SUBSET Blob]]
  /\ rotten \in [Scope -> SUBSET Gen] /\ trash \in [Scope -> SUBSET Gen]
  /\ aside \in [Scope -> SUBSET Gen] /\ tomb \in [Scope -> SUBSET Gen]
  /\ intent \in [Scope -> {"none", "fresh", "stale"}]
  /\ blobs \subseteq Blob /\ old \subseteq blobs
  /\ pc \in [Proc -> Places] /\ job \in [Proc -> JobType]
  /\ faults \in 0 .. MaxFaults /\ gone \in [Scope -> SUBSET Gen]

NoJob == [scope |-> CHOOSE s \in Scope : TRUE, gen |-> 0, blob |-> {}, done |-> FALSE, kept |-> {}]

Init ==
  /\ live = [s \in Scope |-> {}] /\ rotten = live /\ trash = live
  /\ aside = live /\ tomb = live /\ gone = live
  /\ refs = [s \in Scope |-> [g \in Gen |-> {}]]
  /\ intent = [s \in Scope |-> "none"]
  /\ blobs = {} /\ old = {} /\ faults = 0
  /\ pc = [p \in Proc |-> "idle"] /\ job = [p \in Proc |-> NoJob]

-----------------------------------------------------------------------------
(* Locks *)

At(p, place) == pc[p] = place
Goto(p, place) == pc' = [pc EXCEPT ![p] = place]
Done(p) == Goto(p, "idle") /\ job' = [job EXCEPT ![p] = NoJob]
On(p) == job[p].scope

GateShared(s)    == \E q \in Proc : pc[q] \in Shared /\ On(q) = s
GateExclusive(s) == \E q \in Proc : pc[q] \in Erasing \cup Finishing /\ On(q) = s
GateFree(s)      == ~GateShared(s) /\ ~GateExclusive(s)

\* A writer with a blob holds the collection lock from storing the blob to
\* the append of its event, also while it finishes a stale intent.

\* Mutant of CollectShared: the writer does not take the collection lock.
CollectSharedNot == FALSE
CollectShared == \E q \in Proc : /\ pc[q] \in {"guard"} \cup Shared \cup Finishing
                                 /\ job[q].blob # {}
CollectExclusive == \E q \in Proc : At(q, "sweep")

-----------------------------------------------------------------------------
(* append *)

\* resolve_session_id: the first generation that is not listed as erased.
Resolve(s) == CHOOSE g \in Gen \ tomb[s] : \A h \in Gen \ tomb[s] : g <= h

\* _put_blob_locked: a blob that is there already is taken as it is, its age
\* included.
PutBlob(B) == blobs' = blobs \cup B

\* append, up to the scope guard, for a session that was resolved now or
\* earlier.
Store(p) == \E s \in Scope, g \in Gen, B \in {{}} \cup {{b} : b \in Blob} :
  /\ p \notin Eraser /\ At(p, "idle") /\ Gen \ tomb[s] # {} /\ g <= Resolve(s)
  /\ B # {} => ~CollectExclusive
  /\ PutBlob(B)
  /\ job' = [job EXCEPT ![p] = [NoJob EXCEPT !.scope = s, !.gen = g, !.blob = B]]
  /\ Goto(p, "guard")
  /\ UNCHANGED <<live, refs, rotten, trash, aside, tomb, intent, old, faults, gone>>

\* _scope_guard: the gate is taken shared unless a deletion is pending.
Enter(p) ==
  /\ At(p, "guard") /\ ~GateExclusive(On(p)) /\ intent[On(p)] = "none"
  /\ Goto(p, "append") /\ UNCHANGED <<disk, job, faults, gone>>

\* StoreBusy: a pending deletion that cannot be finished now, or a gate that
\* is not free in time.
Busy(p) == LET s == On(p) IN
  /\ At(p, "guard")
  /\ GateExclusive(s) \/ intent[s] = "fresh" \/ (intent[s] = "stale" /\ ~GateFree(s))
  /\ Done(p) /\ UNCHANGED <<disk, faults, gone>>

\* Under the gate: an event needs its session's file, unless it is the header,
\* which carries no blob and creates file and directory.

\* Mutant of Acceptable: the list of erased sessions is not read.
AcceptableUnlisted(s, g, B) == g \notin rotten[s] /\ (g \in live[s] \/ B = {})
Acceptable(s, g, B) ==
  /\ g \notin tomb[s] /\ g \notin rotten[s]
  /\ g \in live[s] \/ B = {}

\* _refresh_projections: head and index files, rebuilt from the events.
Indexed(s, g) == aside' = [aside EXCEPT ![s] = @ \cup {g}]

\* The event, then its projections.
Write(p) == LET s == On(p)  g == job[p].gen IN
  /\ At(p, "append") /\ Acceptable(s, g, job[p].blob)
  /\ live' = [live EXCEPT ![s] = @ \cup {g}]
  /\ refs' = [refs EXCEPT ![s][g] = @ \cup job[p].blob]
  /\ Indexed(s, g) /\ Done(p)
  /\ UNCHANGED <<rotten, trash, tomb, intent, blobs, old, faults, gone>>

\* SessionErased, CorruptSessionLog or InvariantViolation.
Refuse(p) ==
  /\ At(p, "append") /\ ~Acceptable(On(p), job[p].gen, job[p].blob)
  /\ Done(p) /\ UNCHANGED <<disk, faults, gone>>

-----------------------------------------------------------------------------
(* erase_scope *)

\* The intent is written before the gate is asked for.
Request(p) == \E s \in Scope :
  /\ p \in Eraser /\ At(p, "idle")
  /\ intent' = [intent EXCEPT ![s] = "fresh"]
  /\ job' = [job EXCEPT ![p] = [NoJob EXCEPT !.scope = s]]
  /\ Goto(p, "gate")
  /\ UNCHANGED <<live, refs, rotten, trash, aside, tomb, blobs, old, faults, gone>>

Acquire(p) ==
  /\ At(p, "gate") /\ GateFree(On(p))
  /\ Goto(p, "rename") /\ UNCHANGED <<disk, job, faults, gone>>
GiveUp(p) ==
  /\ At(p, "gate") /\ ~GateFree(On(p))
  /\ Goto(p, "drop") /\ UNCHANGED <<disk, job, faults, gone>>

\* The scope directory moves aside; its sessions are no longer readable.
Rename(p) == LET s == On(p) IN
  /\ At(p, "rename")
  /\ live' = [live EXCEPT ![s] = {}] /\ trash' = [trash EXCEPT ![s] = @ \cup live[s]]
  /\ gone' = [gone EXCEPT ![s] = @ \cup live[s]]
  /\ Goto(p, "strip")
  /\ UNCHANGED <<refs, rotten, aside, tomb, intent, blobs, old, job, faults>>

\* Index files and quarantine copies of the scope are removed.
Strip(p) ==
  /\ At(p, "strip") /\ aside' = [aside EXCEPT ![On(p)] = {}] /\ Goto(p, "list")
  /\ UNCHANGED <<live, refs, rotten, trash, tomb, intent, blobs, old, job, faults, gone>>

ListErased(s) == tomb' = [tomb EXCEPT ![s] = @ \cup trash[s]]
EmptyTrash(s) ==
  /\ trash' = [trash EXCEPT ![s] = {}] /\ rotten' = [rotten EXCEPT ![s] = @ \ trash[s]]
  /\ refs' = [refs EXCEPT ![s] = [g \in Gen |-> IF g \in trash[s] THEN {} ELSE @[g]]]

List(p) ==
  /\ At(p, "list") /\ ListErased(On(p)) /\ Goto(p, "purge")
  /\ UNCHANGED <<live, refs, rotten, trash, aside, intent, blobs, old, job, faults, gone>>
Purge(p) ==
  /\ At(p, "purge") /\ EmptyTrash(On(p)) /\ Goto(p, "drop")
  /\ job' = [job EXCEPT ![p].done = TRUE]
  /\ UNCHANGED <<live, aside, tomb, intent, blobs, old, faults, gone>>

\* finally, after the gate is released: the intent goes when the erase is
\* done or when the scope directory is still there.

Releasable(p) == job[p].done \/ live[On(p)] # {}
Drop(p) ==
  /\ At(p, "drop")
  /\ intent' = IF Releasable(p) THEN [intent EXCEPT ![On(p)] = "none"] ELSE intent
  /\ IF job[p].done THEN Goto(p, "collect") /\ UNCHANGED job ELSE Done(p)
  /\ UNCHANGED <<live, refs, rotten, trash, aside, tomb, blobs, old, faults, gone>>

-----------------------------------------------------------------------------
(* _clear_stale_erase_intent: a guard finds an intent past its timeout *)

\* The gate is tried once.  Without a scope directory and with directories
\* moved aside the erase is finished; otherwise only the intent goes.

\* Mutant of Unfinished: the intent is only removed.
UnfinishedNever(s) == FALSE
Unfinished(s) == live[s] = {} /\ trash[s] # {}
Clear(p) ==
  /\ At(p, "guard") /\ intent[On(p)] = "stale" /\ GateFree(On(p))
  /\ Goto(p, IF Unfinished(On(p)) THEN "flist" ELSE "fdrop")
  /\ UNCHANGED <<disk, job, faults, gone>>

FinishList(p) ==
  /\ At(p, "flist") /\ ListErased(On(p)) /\ Goto(p, "fpurge")
  /\ UNCHANGED <<live, refs, rotten, trash, aside, intent, blobs, old, job, faults, gone>>
FinishPurge(p) ==
  /\ At(p, "fpurge") /\ EmptyTrash(On(p)) /\ Goto(p, "fstrip")
  /\ UNCHANGED <<live, aside, tomb, intent, blobs, old, job, faults, gone>>
FinishStrip(p) ==
  /\ At(p, "fstrip") /\ aside' = [aside EXCEPT ![On(p)] = {}] /\ Goto(p, "fdrop")
  /\ UNCHANGED <<live, refs, rotten, trash, tomb, intent, blobs, old, job, faults, gone>>
FinishDrop(p) ==
  /\ At(p, "fdrop") /\ intent' = [intent EXCEPT ![On(p)] = "none"] /\ Goto(p, "guard")
  /\ UNCHANGED <<live, refs, rotten, trash, aside, tomb, blobs, old, job, faults, gone>>

-----------------------------------------------------------------------------
(* collect_blobs *)

Referred(s, G) == UNION {refs[s][g] : g \in G}

\* _referenced_blob_hashes: every session of the tenant, moved aside or not.
\* A line that cannot be parsed ends the scan of its file, so any part of
\* what such a file refers to may be missed.
Found    == UNION {Referred(s, Gen \ rotten[s]) : s \in Scope}
Doubtful == UNION {Referred(s, rotten[s]) : s \in Scope}
Marks == {Found \cup R : R \in SUBSET Doubtful}

\* The collection that ends an erase has no grace period.
Mark(p) == \E marked \in Marks :
  /\ At(p, "collect") \/ (At(p, "idle") /\ p \in Eraser)
  /\ ~CollectShared /\ ~CollectExclusive
  /\ job' = [job EXCEPT ![p] = [NoJob EXCEPT
               !.kept = IF At(p, "collect") THEN marked ELSE marked \cup (blobs \ old)]]
  /\ Goto(p, "sweep") /\ UNCHANGED <<disk, faults, gone>>

Sweep(p) ==
  /\ At(p, "sweep") /\ Done(p)
  /\ blobs' = blobs \cap job[p].kept /\ old' = old \cap job[p].kept
  /\ UNCHANGED <<live, refs, rotten, trash, aside, tomb, intent, faults, gone>>
CollectBusy(p) ==
  /\ At(p, "collect") /\ (CollectShared \/ CollectExclusive)
  /\ Done(p) /\ UNCHANGED <<disk, faults, gone>>

-----------------------------------------------------------------------------
(* Time and faults *)

\* The wait for the gate is short against the timeout of an intent.
IntentAges == \E s \in Scope :
  /\ intent[s] = "fresh" /\ \A p \in Proc : On(p) = s => pc[p] \notin {"gate", "drop"}
  /\ intent' = [intent EXCEPT ![s] = "stale"]
  /\ UNCHANGED <<live, refs, rotten, trash, aside, tomb, blobs, old, pc, job, faults, gone>>
BlobsAge ==
  /\ old # blobs /\ old' = blobs
  /\ UNCHANGED <<live, refs, rotten, trash, aside, tomb, intent, blobs, pc, job, faults, gone>>

Fault == faults < MaxFaults /\ faults' = faults + 1
Crash(p) ==
  /\ Fault /\ pc[p] # "idle" /\ Done(p) /\ UNCHANGED <<disk, gone>>
\* An OSError between the gate and the end of the erase.
Fail(p) ==
  /\ Fault /\ pc[p] \in Erasing /\ Goto(p, "drop") /\ UNCHANGED <<disk, job, gone>>
\* A line in the middle of a file becomes unreadable.
Rot == \E s \in Scope : \E g \in live[s] \ rotten[s] :
  /\ Fault /\ rotten' = [rotten EXCEPT ![s] = @ \cup {g}]
  /\ UNCHANGED <<live, refs, trash, aside, tomb, intent, blobs, old, pc, job, gone>>

Append(p) == Store(p) \/ Enter(p) \/ Busy(p) \/ Write(p) \/ Refuse(p)
Erase(p)  == Acquire(p) \/ GiveUp(p) \/ Rename(p) \/ Strip(p) \/ List(p) \/ Purge(p) \/ Drop(p)
Finish(p) == Clear(p) \/ FinishList(p) \/ FinishPurge(p) \/ FinishStrip(p) \/ FinishDrop(p)
Collect(p) == Mark(p) \/ Sweep(p) \/ CollectBusy(p)
Steps(p)  == Append(p) \/ Erase(p) \/ Finish(p) \/ Collect(p)

Next == \/ \E p \in Proc : Steps(p) \/ Request(p) \/ Crash(p) \/ Fail(p)
        \/ IntentAges \/ BlobsAge \/ Rot

\* Processes that run go on, an intent grows old, and messages keep arriving.
Fairness == /\ \A p \in Proc : WF_vars(Append(p) \/ Erase(p) \/ Finish(p))
            /\ WF_vars(IntentAges)
Spec == Init /\ [][Next]_vars /\ Fairness

-----------------------------------------------------------------------------
(* Properties *)

\* A session that is listed as erased never has a file again, whatever dies or
\* fails: an append that resolved its session before the erase is refused.
ListedStaysErased == \A s \in Scope : tomb[s] \cap live[s] = {}

\* A blob that an event of a readable session refers to is stored: collecting
\* never takes a blob that a writer found in place, however old it was.
ReferencedKept == \A s \in Scope : \A g \in live[s] \ rotten[s] : refs[s][g] \subseteq blobs

\* When an eraser died after it moved the scope directory aside, its intent is
\* still there and no writer is inside the gate, a later guard lists the
\* sessions as erased.
Abandoned(s) == live[s] = {} /\ trash[s] # {} /\ intent[s] # "none" /\ ~GateShared(s)
ErasureFinishes == \A s \in Scope : Abandoned(s) ~> (trash[s] \subseteq tomb[s])

\* A session that an eraser moved aside never accepts an event again (docs/22
\* section 6.3: a deletion stops deleted sessions from being revived).  A guard
\* that clears an old intent can remove the new one of an eraser that waits;
\* when that eraser dies after its rename, nothing lists its sessions.
ErasedStaysErased == \A s \in Scope : gone[s] \cap live[s] = {}
=============================================================================
