------------------------------ MODULE Migration ------------------------------
(***************************************************************************)
(* The offline migration of the session logs from hashed event ids to      *)
(* sequence numbers.  A run copies the data root to a new backup, stages a *)
(* migrated copy beside every file of every session, replaces the files    *)
(* one by one, rebuilds and reads every session, and puts the files back   *)
(* when anything fails.  Only after that are blobs removed that no file    *)
(* was found to refer to.  Putting back, collecting and cleaning up can    *)
(* fail themselves, the process can die at any point, and nothing repeats  *)
(* or undoes a run that died or failed.                                    *)
(*                                                                         *)
(* A file holds its old records, or (as the code stages them) all migrated *)
(* records of its session, or it is torn: a beginning of its old records,  *)
(* which a copy that was cut off has left.  Old records keep requests and  *)
(* results in blobs that migrated ones refer to only when they are too     *)
(* large for a record.                                                     *)
(***************************************************************************)
EXTENDS Integers, FiniteSets

CONSTANTS
  Session,   \* session ids
  Large,     \* sessions with a request or result too large for a record
  MaxParts,  \* bound: files of a session
  MaxRuns,   \* bound: runs
  MaxFaults  \* bound: deaths and failing calls

VARIABLES
  parts,       \* the number of files of a session
  files,       \* what a file holds
  temps,       \* files with a staged copy beside them
  blobs,       \* blobs: those of old records, and those of migrated ones
  quarantined, \* sessions that a reader found corrupt
  backup,      \* the copy that the last run made
  pc,          \* where the run is
  run,         \* the run's own lists
  outcome,     \* how the last run ended
  unread,      \* history: files that could not be read when references were collected
  runs,        \* runs so far
  faults       \* injected faults so far

vars == <<parts, files, temps, blobs, quarantined, backup, pc, run, outcome, unread, runs,
          faults>>

Versions == {"old", "new", "torn"}
Slots == Session \X (1 .. MaxParts)
Files(s) == {f \in Slots : f[1] = s /\ f[2] <= parts[s]}
AllFiles == UNION {Files(s) : s \in Session}
Blobs == Versions \X Session

\* undirected: a file was replaced whose directory could not be synced; halfway:
\* putting the files back failed; verified: every session was rebuilt and read;
\* live: the blobs that the files were found to refer to.
NoRun == [todo |-> {}, staged |-> {}, replaced |-> {}, undirected |-> FALSE,
          halfway |-> FALSE, verified |-> FALSE, live |-> {}]
RunType == [todo : SUBSET Session, staged : SUBSET Slots, replaced : SUBSET Slots,
            undirected : BOOLEAN, halfway : BOOLEAN, verified : BOOLEAN, live : SUBSET Blobs]

TypeOK ==
  /\ parts \in [Session -> 1 .. MaxParts] /\ files \in [Slots -> Versions]
  /\ temps \subseteq AllFiles /\ blobs \subseteq Blobs /\ quarantined \subseteq Session
  /\ backup \in [files : [Slots -> Versions], blobs : SUBSET Blobs]
  /\ pc \in {"off", "stage", "replace", "verify", "restore", "scan", "collect", "cleanup"}
  /\ run \in RunType /\ outcome \in {"none", "running", "done", "raised", "died"}
  /\ unread \subseteq Slots
  /\ runs \in 0 .. MaxRuns /\ faults \in 0 .. MaxFaults

OldFiles == [f \in Slots |-> "old"]
OldBlobs == {"old"} \X Session

Init ==
  /\ parts \in [Session -> 1 .. MaxParts] /\ files = OldFiles /\ temps = {}
  /\ blobs = OldBlobs /\ quarantined = {} /\ backup = [files |-> OldFiles, blobs |-> OldBlobs]
  /\ pc = "off" /\ run = NoRun /\ outcome = "none" /\ unread = {} /\ runs = 0 /\ faults = 0

Fault == faults < MaxFaults /\ faults' = faults + 1
Goto(place) == pc' = place

\* The blobs that a file of a version refers to, a torn one those of old records.
Refers(version, s) ==
  CASE version \in {"old", "torn"} -> {<<"old", s>>}
    [] version = "new" -> IF s \in Large THEN {<<"new", s>>} ELSE {}

\* _referenced_blobs: a file that cannot be read, or read to its end, is passed
\* over in silence, with the references that were not reached.
Referenced(missed) == UNION {Refers(files[f], f[1]) : f \in AllFiles \ missed}

-----------------------------------------------------------------------------
(* migrate *)

Begin ==
  /\ pc = "off" /\ runs < MaxRuns /\ runs' = runs + 1
  /\ backup' = [files |-> files, blobs |-> blobs]
  /\ run' = [NoRun EXCEPT !.todo = Session] /\ outcome' = "running" /\ Goto("stage")
  /\ UNCHANGED <<parts, files, temps, blobs, quarantined, unread, faults>>

\* _read_v1_session: records of the old form, numbered without a hole.  A torn
\* file passes if it happens to end with a record.
OldForm(s) == \A f \in Files(s) : files[f] \in {"old", "torn"}
Spoilt(s) == \E f \in Files(s) : files[f] \in {"new", "torn"}

\* _transform_record: references become numbers, and what an old blob holds is
\* cleaned and put into the record, or into a new blob.
Transformed(s) == blobs' = blobs \cup Refers("new", s)

Staged(s) == Files(s) \subseteq run.staged
Staging == {s \in Session \ run.todo : ~Staged(s)}

\* One session after the other is read and transformed.
Read(s) ==
  /\ pc = "stage" /\ s \in run.todo /\ Staging = {} /\ OldForm(s)
  /\ Transformed(s) /\ run' = [run EXCEPT !.todo = @ \ {s}]
  /\ UNCHANGED <<parts, files, temps, quarantined, backup, pc, outcome, unread, runs, faults>>
Stage(f) ==
  /\ pc = "stage" /\ \E s \in Staging : f \in Files(s) \ run.staged
  /\ f \notin temps /\ temps' = temps \cup {f}
  /\ run' = [run EXCEPT !.staged = @ \cup {f}]
  /\ UNCHANGED <<parts, files, blobs, quarantined, backup, pc, outcome, unread, runs, faults>>

\* A session that is not of the old form, a copy that an earlier run left, or
\* a failure (whose unfinished copy stays) ends the run before any change.
StageRaises ==
  /\ pc = "stage" /\ Goto("cleanup")
  /\ \/ /\ Staging = {} /\ \E s \in run.todo : Spoilt(s)
        /\ UNCHANGED <<temps, faults>>
     \/ /\ \E s \in Staging : (Files(s) \cap temps) \ run.staged # {} /\ UNCHANGED <<temps, faults>>
     \/ \E s \in Staging : \E f \in Files(s) \ run.staged : Fault /\ temps' = temps \cup {f}
     \/ Fault /\ UNCHANGED temps
  /\ UNCHANGED <<parts, files, blobs, quarantined, backup, run, outcome, unread, runs>>
AllStaged ==
  /\ pc = "stage" /\ run.todo = {} /\ Staging = {} /\ Goto("replace")
  /\ UNCHANGED <<parts, files, temps, blobs, quarantined, backup, run, outcome, unread, runs, faults>>

Replaced(f) == files' = [files EXCEPT ![f] = "new"] /\ temps' = temps \ {f}
Replace(f) ==
  /\ pc = "replace" /\ f \in AllFiles \ run.replaced
  /\ Replaced(f) /\ run' = [run EXCEPT !.replaced = @ \cup {f}]
  /\ Goto(IF run'.replaced = AllFiles THEN "verify" ELSE "replace")
  /\ UNCHANGED <<parts, blobs, quarantined, backup, outcome, unread, runs, faults>>

\* The file cannot be replaced; or it was, and then its directory cannot be
\* synced: the file is not on the list of those to put back.
ReplaceRaises(f) ==
  /\ pc = "replace" /\ f \in AllFiles \ run.replaced /\ Fault /\ Goto("restore")
  /\ \/ UNCHANGED <<files, temps, run>>
     \/ Replaced(f) /\ run' = [run EXCEPT !.undirected = TRUE]
  /\ UNCHANGED <<parts, blobs, quarantined, backup, outcome, unread, runs>>

\* Every session is rebuilt and read.  The files of a rotated one repeat its
\* numbers, so a reader quarantines it.
Verify ==
  /\ pc = "verify" /\ (\A s \in Session : parts[s] = 1) /\ Goto("scan")
  /\ run' = [run EXCEPT !.verified = TRUE]
  /\ UNCHANGED <<parts, files, temps, blobs, quarantined, backup, outcome, unread, runs, faults>>
VerifyRaises ==
  /\ pc = "verify" /\ Goto("restore")
  /\ \/ \E s \in Session : /\ parts[s] > 1 /\ quarantined' = quarantined \cup {s}
                           /\ UNCHANGED faults
     \/ Fault /\ UNCHANGED quarantined
  /\ UNCHANGED <<parts, files, temps, blobs, backup, run, outcome, unread, runs>>

\* The files that were replaced are copied back, then sidecars and indexes.

\* Mutant of Restore: the first file ends it.
RestoreOne == LET f == CHOOSE f \in run.replaced : TRUE IN
  /\ pc = "restore" /\ Goto("cleanup")
  /\ files' = IF run.replaced = {} THEN files ELSE [files EXCEPT ![f] = backup.files[f]]
  /\ UNCHANGED <<parts, temps, blobs, quarantined, backup, run, outcome, unread, runs, faults>>
Restore ==
  /\ pc = "restore"
  /\ \/ /\ run.replaced = {} /\ Goto("cleanup") /\ UNCHANGED <<files, run>>
     \/ \E f \in run.replaced :
          /\ files' = [files EXCEPT ![f] = backup.files[f]]
          /\ run' = [run EXCEPT !.replaced = @ \ {f}] /\ UNCHANGED pc
  /\ UNCHANGED <<parts, temps, blobs, quarantined, backup, outcome, unread, runs, faults>>

\* A copy is cut off: its target was emptied first.
Torn == \E f \in run.replaced : files' = [files EXCEPT ![f] = "torn"]

\* A file cannot be copied back, or a sidecar or index after the files.
RestoreRaises ==
  /\ pc = "restore" /\ Fault /\ Goto("cleanup") /\ (UNCHANGED files \/ Torn)
  /\ run' = [run EXCEPT !.halfway = (run.replaced # {})]
  /\ UNCHANGED <<parts, temps, blobs, quarantined, backup, outcome, unread, runs>>

\* The references of all files are collected, but for a file that fails.
Scan == \E missed \in {{}} \cup {{f} : f \in AllFiles} :
  /\ pc = "scan" /\ Goto("collect") /\ (IF missed = {} THEN UNCHANGED faults ELSE Fault)
  /\ unread' = unread \cup missed /\ run' = [run EXCEPT !.live = Referenced(missed)]
  /\ UNCHANGED <<parts, files, temps, blobs, quarantined, backup, outcome, runs>>

\* Blobs that are not among them are unlinked one by one.
Collect ==
  /\ pc = "collect"
  /\ \/ /\ blobs \subseteq run.live /\ outcome' = "done" /\ Goto("cleanup") /\ UNCHANGED blobs
     \/ \E b \in blobs \ run.live : blobs' = blobs \ {b} /\ UNCHANGED <<pc, outcome>>
  /\ UNCHANGED <<parts, files, temps, quarantined, backup, run, unread, runs, faults>>

\* Another failure here (a line that is no text, a blob that cannot be unlinked)
\* ends the run, and nothing is put back.
CollectRaises ==
  /\ pc \in {"scan", "collect"} /\ Fault /\ Goto("cleanup")
  /\ UNCHANGED <<parts, files, temps, blobs, quarantined, backup, run, outcome, unread, runs>>

\* The copies that are left are unlinked, or one of them cannot be.
Cleanup ==
  /\ pc = "cleanup" /\ Goto("off")
  /\ \/ /\ temps' = temps \ run.staged /\ UNCHANGED faults
        /\ outcome' = IF outcome = "done" THEN "done" ELSE "raised"
     \/ /\ Fault /\ outcome' = "raised"
        /\ \E f \in temps \cap run.staged, T \in SUBSET run.staged : temps' = temps \ (T \ {f})
  /\ UNCHANGED <<parts, files, blobs, quarantined, backup, run, unread, runs>>

Die ==
  /\ pc # "off" /\ Fault /\ Goto("off") /\ outcome' = "died"
  /\ UNCHANGED files \/ (pc = "restore" /\ Torn)
  /\ UNCHANGED <<parts, temps, blobs, quarantined, backup, run, unread, runs>>

Next == \/ Begin \/ StageRaises \/ AllStaged \/ Verify \/ VerifyRaises \/ Restore
        \/ RestoreRaises \/ Scan \/ Collect \/ CollectRaises \/ Cleanup \/ Die
        \/ \E s \in Session : Read(s)
        \/ \E f \in Slots : Stage(f) \/ Replace(f) \/ ReplaceRaises(f)

Spec == Init /\ [][Next]_vars

-----------------------------------------------------------------------------
(* Properties *)

\* A run that ends by itself migrated every session or changed none: when it is
\* done every file is migrated, when it has raised before all sessions were
\* verified every file is what it was, and afterwards every file is migrated.
\* Excepted are a run that failed in putting the files back, and a file whose
\* directory could not be synced.  Whatever happened, also a death at any point,
\* no file has lost a blob it refers to, unless it could not be read when the
\* references were collected.
AllOrNothing ==
  /\ outcome = "raised" /\ ~run.verified /\ ~run.undirected /\ ~run.halfway =>
       files = backup.files
  /\ outcome = "done" \/ (outcome = "raised" /\ run.verified) =>
       \A f \in AllFiles : files[f] = "new"
  /\ \A f \in AllFiles \ unread : Refers(files[f], f[1]) \subseteq blobs

\* What docs/27, section 3, says of the migration: it removes blobs that no log
\* refers to.  Not so for a file that could not be read (Migration_unread.cfg).
OnlyUnreferencedRemoved == Referenced({}) \subseteq blobs
=============================================================================
