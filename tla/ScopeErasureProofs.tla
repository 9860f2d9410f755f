------------------------- MODULE ScopeErasureProofs -------------------------
(***************************************************************************)
(* The safety properties of ScopeErasure, for any scopes, processes and    *)
(* blobs and any number of faults; the last one as long as no process is   *)
(* about to remove the intent of an eraser beside it.                      *)
(*                                                                         *)
(* A listed session has no file, because a scope has no file from the      *)
(* moment its directory moves aside until the gate is released, and the    *)
(* gate excludes every writer so long.  A blob that an event refers to is  *)
(* stored, because a writer's blob is there from the moment it is stored,  *)
(* and a collection keeps what any readable session refers to and runs     *)
(* beside no writer that carries a blob.                                   *)
(***************************************************************************)
EXTENDS ScopeErasure, TLAPS

USE ErasureAssumption

\* What a process remembers.
LEMMA JobTypes ==
  /\ NoJob \in JobType /\ NoJob.blob = {}
  /\ \A s \in Scope, g \in Gen, B \in SUBSET Blob :
       [NoJob EXCEPT !.scope = s, !.gen = g, !.blob = B] \in JobType
  /\ \A s \in Scope : [NoJob EXCEPT !.scope = s] \in JobType
  /\ \A K \in SUBSET Blob : [NoJob EXCEPT !.kept = K] \in JobType
  /\ \A j \in JobType : [j EXCEPT !.done = TRUE] \in JobType
  /\ \A j \in JobType : /\ j.scope \in Scope /\ j.gen \in Gen /\ j.blob \in SUBSET Blob
                        /\ j.done \in BOOLEAN /\ j.kept \in SUBSET Blob
<1>1. (CHOOSE s \in Scope : TRUE) \in Scope /\ 0 \in Gen
  BY DEF Gen
<1> QED
  BY <1>1 DEF NoJob, JobType

\* What a writer remembers that has stored its blob, if it has one.
LEMMA StoreJob ==
  ASSUME NEW s \in Scope, NEW g \in Gen, NEW B \in {{}} \cup {{b} : b \in Blob}
  PROVE  LET j == [NoJob EXCEPT !.scope = s, !.gen = g, !.blob = B]
         IN j \in JobType /\ j.blob = B /\ j.scope = s
<1>1. B \in SUBSET Blob
  OBVIOUS
<1>2. [NoJob EXCEPT !.scope = s, !.gen = g, !.blob = B] \in JobType
  BY <1>1, JobTypes
<1> QED
  BY <1>2 DEF NoJob

\* What a collection finds covers what the readable files refer to.
LEMMA MarksCover ==
  ASSUME TypeOK, NEW marked \in Marks
  PROVE  /\ marked \in SUBSET Blob
         /\ \A s \in Scope : \A g \in Gen \ rotten[s] : refs[s][g] \subseteq marked
<1>1. PICK R \in SUBSET Doubtful : marked = Found \cup R
  BY DEF Marks
<1>2. ASSUME NEW s \in Scope, NEW G \in SUBSET Gen, NEW b \in Referred(s, G) PROVE b \in Blob
  <2>1. PICK g \in G : b \in refs[s][g]
    BY <1>2 DEF Referred
  <2>2. g \in Gen
    BY <2>1
  <2>3. refs[s][g] \in SUBSET Blob
    BY <2>2 DEF TypeOK
  <2> QED
    BY <2>1, <2>3
<1>3. ASSUME NEW b, b \in marked PROVE b \in Blob
  <2>1. \A s \in Scope : rotten[s] \in SUBSET Gen /\ Gen \ rotten[s] \in SUBSET Gen
    BY DEF TypeOK
  <2>2. CASE b \in R
    <3>1. PICK s \in Scope : b \in Referred(s, rotten[s])
      BY <2>2 DEF Doubtful
    <3> QED
      BY <1>2, <2>1, <3>1
  <2>3. CASE b \in Found
    <3>1. PICK s \in Scope : b \in Referred(s, Gen \ rotten[s])
      BY <2>3 DEF Found
    <3> QED
      BY <1>2, <2>1, <3>1
  <2> QED
    BY <1>1, <1>3, <2>2, <2>3
<1>4. ASSUME NEW s \in Scope, NEW g \in Gen \ rotten[s], NEW b \in refs[s][g] PROVE b \in marked
  <2>1. b \in Referred(s, Gen \ rotten[s])
    BY <1>4 DEF Referred
  <2>2. b \in Found
    BY <2>1 DEF Found
  <2> QED
    BY <1>1, <2>2
<1> QED
  BY <1>3, <1>4

\* Every step keeps the types.
LEMMA TypeStep == TypeOK /\ [Next]_vars => TypeOK'
<1> SUFFICES ASSUME TypeOK, [Next]_vars PROVE TypeOK'
  OBVIOUS
<1> USE DEF TypeOK
<1>1. ASSUME NEW p \in Proc, Store(p) PROVE TypeOK'
  <2>1. PICK s \in Scope, g \in Gen, B \in {{}} \cup {{b} : b \in Blob} :
          /\ blobs' = blobs \cup B
          /\ job' = [job EXCEPT ![p] = [NoJob EXCEPT !.scope = s, !.gen = g, !.blob = B]]
    BY <1>1 DEF Store, PutBlob
  <2>2. B \in SUBSET Blob
    OBVIOUS
  <2>3. job' \in [Proc -> JobType]
    BY <2>1, <2>2, JobTypes
  <2> QED
    BY <1>1, <2>1, <2>2, <2>3 DEF Store, PutBlob, Goto, Places
<1>2. ASSUME NEW p \in Proc, Enter(p) PROVE TypeOK'
  BY <1>2 DEF Enter, disk, At, Goto, On, Places, Shared, Erasing, Finishing
<1>3. ASSUME NEW p \in Proc, Busy(p) PROVE TypeOK'
  BY JobTypes, <1>3 DEF Busy, Done, disk, At, Goto, On, Places, Shared, Erasing, Finishing
<1>4. ASSUME NEW p \in Proc, Write(p) PROVE TypeOK'
  <2>1. On(p) \in Scope /\ job[p].gen \in Gen /\ job[p].blob \in SUBSET Blob
    BY JobTypes DEF On
  <2>2. refs' \in [Scope -> [Gen -> SUBSET Blob]]
    BY <1>4, <2>1 DEF Write, Indexed
  <2>3. live' \in [Scope -> SUBSET Gen] /\ aside' \in [Scope -> SUBSET Gen]
    BY <1>4, <2>1 DEF Write, Indexed
  <2> QED
    BY <1>4, <2>2, <2>3, JobTypes DEF Write, Indexed, Done, Goto, Places
<1>5. ASSUME NEW p \in Proc, Refuse(p) PROVE TypeOK'
  BY JobTypes, <1>5 DEF Refuse, disk, At, Goto, Done, On, Places, Shared, Erasing, Finishing
<1>6. ASSUME NEW p \in Proc, Acquire(p) PROVE TypeOK'
  BY <1>6 DEF Acquire, disk, At, Goto, On, Places, Shared, Erasing, Finishing
<1>7. ASSUME NEW p \in Proc, GiveUp(p) PROVE TypeOK'
  BY <1>7 DEF GiveUp, disk, At, Goto, On, Places, Shared, Erasing, Finishing
<1>8. ASSUME NEW p \in Proc, Rename(p) PROVE TypeOK'
  BY <1>8 DEF Rename, At, Goto, On, Places, Shared, Erasing, Finishing
<1>9. ASSUME NEW p \in Proc, Strip(p) PROVE TypeOK'
  BY <1>9 DEF Strip, At, Goto, On, Places, Shared, Erasing, Finishing
<1>10. ASSUME NEW p \in Proc, List(p) PROVE TypeOK'
  BY <1>10 DEF List, ListErased, At, Goto, On, Places, Shared, Erasing, Finishing
<1>11. ASSUME NEW p \in Proc, Purge(p) PROVE TypeOK'
  BY JobTypes, <1>11 DEF Purge, EmptyTrash, At, Goto, On, Places, Shared, Erasing, Finishing
<1>12. ASSUME NEW p \in Proc, Drop(p) PROVE TypeOK'
  BY JobTypes, <1>12 DEF Drop, Done, Releasable, At, Goto, On, Places, Shared, Erasing,
       Finishing
<1>13. ASSUME NEW p \in Proc, Clear(p) PROVE TypeOK'
  BY <1>13 DEF Clear, Unfinished, disk, At, Goto, On, Places, Shared, Erasing, Finishing
<1>14. ASSUME NEW p \in Proc, FinishList(p) PROVE TypeOK'
  BY <1>14 DEF FinishList, ListErased, At, Goto, On, Places, Shared, Erasing, Finishing
<1>15. ASSUME NEW p \in Proc, FinishPurge(p) PROVE TypeOK'
  BY <1>15 DEF FinishPurge, EmptyTrash, At, Goto, On, Places, Shared, Erasing, Finishing
<1>16. ASSUME NEW p \in Proc, FinishStrip(p) PROVE TypeOK'
  BY <1>16 DEF FinishStrip, At, Goto, On, Places, Shared, Erasing, Finishing
<1>17. ASSUME NEW p \in Proc, FinishDrop(p) PROVE TypeOK'
  BY <1>17 DEF FinishDrop, At, Goto, On, Places, Shared, Erasing, Finishing
<1>18. ASSUME NEW p \in Proc, Mark(p) PROVE TypeOK'
  <2>1. PICK marked \in Marks :
          job' = [job EXCEPT ![p] = [NoJob EXCEPT
                    !.kept = IF At(p, "collect") THEN marked ELSE marked \cup (blobs \ old)]]
    BY <1>18 DEF Mark
  <2>2. marked \in SUBSET Blob
    BY <2>1, MarksCover
  <2>3. job' \in [Proc -> JobType]
    BY <2>1, <2>2, JobTypes
  <2> QED
    BY <1>18, <2>3 DEF Mark, Goto, disk, Places
<1>19. ASSUME NEW p \in Proc, Sweep(p) PROVE TypeOK'
  BY JobTypes, <1>19 DEF Sweep, At, Goto, Done, Places, Shared, Erasing, Finishing
<1>20. ASSUME NEW p \in Proc, CollectBusy(p) PROVE TypeOK'
  BY JobTypes, <1>20 DEF CollectBusy, disk, At, Goto, Done, Places, Shared, Erasing, Finishing
<1>21. ASSUME NEW p \in Proc, Request(p) PROVE TypeOK'
  <2>1. PICK s \in Scope : /\ intent' = [intent EXCEPT ![s] = "fresh"]
                          /\ job' = [job EXCEPT ![p] = [NoJob EXCEPT !.scope = s]]
    BY <1>21 DEF Request
  <2>2. job' \in [Proc -> JobType]
    BY <2>1, JobTypes
  <2> QED
    BY <1>21, <2>1, <2>2 DEF Request, Goto, Places
<1>22. ASSUME NEW p \in Proc, Crash(p) PROVE TypeOK'
  <2>1. faults' \in 0 .. MaxFaults
    BY <1>22 DEF Crash, Fault
  <2> QED
    BY <1>22, <2>1, JobTypes DEF Crash, Done, Goto, disk, Places
<1>23. ASSUME NEW p \in Proc, Fail(p) PROVE TypeOK'
  <2>1. faults' \in 0 .. MaxFaults
    BY <1>23 DEF Fail, Fault
  <2> QED
    BY <1>23, <2>1, JobTypes DEF Fail, Goto, disk, Places
<1>24. ASSUME IntentAges PROVE TypeOK'
  BY <1>24 DEF IntentAges, On, Places, Shared, Erasing, Finishing
<1>25. ASSUME BlobsAge PROVE TypeOK'
  BY <1>25 DEF BlobsAge, Places, Shared, Erasing, Finishing
<1>26. ASSUME Rot PROVE TypeOK'
  <2>1. faults' \in 0 .. MaxFaults
    BY <1>26 DEF Rot, Fault
  <2> QED
    BY <1>26, <2>1 DEF Rot
<1>27. CASE UNCHANGED vars
  BY <1>27 DEF vars, disk
<1> QED
  BY <1>1, <1>2, <1>3, <1>4, <1>5, <1>6, <1>7, <1>8, <1>9, <1>10, <1>11, <1>12, <1>13,
     <1>14, <1>15, <1>16, <1>17, <1>18, <1>19, <1>20, <1>21, <1>22, <1>23, <1>24, <1>25,
     <1>26, <1>27
  DEF Next, Steps, Append, Erase, Finish, Collect

-----------------------------------------------------------------------------
(* The invariant *)

Exclusive == Erasing \cup Finishing
Carrying == {"guard"} \cup Shared \cup Finishing

\* Whoever holds a gate exclusively is alone inside it.
GateApart == \A p, q \in Proc :
  p # q /\ pc[p] \in Exclusive /\ pc[q] \in Shared \cup Exclusive => On(p) # On(q)

\* From the rename to the end of the erase the scope has no files.
MovedAside == \A p \in Proc :
  pc[p] \in {"strip", "list", "purge", "flist", "fpurge", "fstrip"} => live[On(p)] = {}

\* A collection has no other beside it, and no writer with a blob.
CollectApart == \A p, q \in Proc : At(p, "sweep") =>
  /\ q # p => ~At(q, "sweep")
  /\ pc[q] \in Carrying => job[q].blob = {}

\* The blob that a writer stored is there until its event is.
Carried == \A p \in Proc : pc[p] \in Carrying => job[p].blob \subseteq blobs

\* A collection keeps what the readable files refer to, moved aside or not.
Kept == \A p \in Proc : At(p, "sweep") =>
  \A s \in Scope : \A g \in Gen \ rotten[s] : refs[s][g] \subseteq job[p].kept
Stored == \A s \in Scope : \A g \in Gen \ rotten[s] : refs[s][g] \subseteq blobs

\* The inductive invariant.
IInv == /\ TypeOK /\ ListedStaysErased /\ GateApart /\ MovedAside
        /\ CollectApart /\ Carried /\ Kept /\ Stored

\* Every step keeps listed sessions erased: a file needs an append under the
\* gate that finds the session unlisted, and a list is extended while the
\* scope has no file.
LEMMA ListedStaysErasedStep == IInv /\ [Next]_vars => ListedStaysErased'
<1> SUFFICES ASSUME IInv, [Next]_vars PROVE ListedStaysErased'
  OBVIOUS
<1> USE DEF IInv
<1>1. ASSUME NEW p \in Proc, Write(p) PROVE ListedStaysErased'
  BY <1>1, JobTypes DEF Write, Indexed, Acceptable, ListedStaysErased, TypeOK, On
<1>2. ASSUME NEW p \in Proc, Rename(p) PROVE ListedStaysErased'
  BY <1>2, JobTypes DEF Rename, ListedStaysErased, TypeOK, On
<1>3. ASSUME NEW p \in Proc, List(p) \/ FinishList(p) PROVE ListedStaysErased'
  <2>1. live[On(p)] = {} /\ live' = live
    BY <1>3 DEF List, FinishList, MovedAside, At
  <2>2. \A s \in Scope : s # On(p) => tomb'[s] = tomb[s]
    BY <1>3 DEF List, FinishList, ListErased, TypeOK
  <2> QED
    BY <2>1, <2>2 DEF ListedStaysErased
<1>4. CASE UNCHANGED <<live, tomb>>
  BY <1>4 DEF ListedStaysErased
<1>5. \/ \E p \in Proc : Write(p) \/ Rename(p) \/ List(p) \/ FinishList(p)
      \/ UNCHANGED <<live, tomb>>
  <2>1. ASSUME NEW p \in Proc, Append(p) PROVE Write(p) \/ UNCHANGED <<live, tomb>>
    BY <2>1 DEF Append, Store, PutBlob, Enter, Busy, Refuse, disk
  <2>2. ASSUME NEW p \in Proc, Erase(p)
        PROVE  Rename(p) \/ List(p) \/ UNCHANGED <<live, tomb>>
    BY <2>2 DEF Erase, Acquire, GiveUp, Strip, Purge, Drop, disk
  <2>3. ASSUME NEW p \in Proc, Finish(p) PROVE FinishList(p) \/ UNCHANGED <<live, tomb>>
    BY <2>3 DEF Finish, Clear, FinishPurge, FinishStrip, FinishDrop, disk
  <2>4. ASSUME NEW p \in Proc, Collect(p) PROVE UNCHANGED <<live, tomb>>
    BY <2>4 DEF Collect, Mark, Sweep, CollectBusy, disk
  <2>5. ASSUME NEW p \in Proc, Request(p) \/ Crash(p) \/ Fail(p)
        PROVE  UNCHANGED <<live, tomb>>
    BY <2>5 DEF Request, Crash, Fail, disk
  <2>6. CASE IntentAges \/ BlobsAge \/ Rot \/ UNCHANGED vars
    BY <2>6 DEF IntentAges, BlobsAge, Rot, vars, disk
  <2> QED
    BY <2>1, <2>2, <2>3, <2>4, <2>5, <2>6 DEF Next, Steps
<1> QED
  BY <1>1, <1>2, <1>3, <1>4, <1>5

\* Every step keeps the gate exclusive: it is taken when it is free.
LEMMA GateApartStep == IInv /\ [Next]_vars => GateApart'
<1> SUFFICES ASSUME IInv, [Next]_vars PROVE GateApart'
  OBVIOUS
<1> USE DEF IInv
<1>1. ASSUME NEW p \in Proc, Store(p) PROVE GateApart'
  <2>1. PICK s \in Scope, g \in Gen, B \in {{}} \cup {{b} : b \in Blob} :
          /\ B # {} => ~CollectExclusive
          /\ blobs' = blobs \cup B
          /\ job' = [job EXCEPT ![p] = [NoJob EXCEPT !.scope = s, !.gen = g, !.blob = B]]
    BY <1>1 DEF Store, PutBlob
  <2> DEFINE j == [NoJob EXCEPT !.scope = s, !.gen = g, !.blob = B]
  <2>2. j \in JobType /\ j.blob = B /\ j.scope = s
    BY StoreJob
  <2> HIDE DEF j
  <2>3. job' = [job EXCEPT ![p] = j]
    BY <2>1 DEF j
  <2>4. pc' = [pc EXCEPT ![p] = "guard"]
    BY <1>1 DEF Store, PutBlob, Goto
  <2> QED
    BY <2>1, <2>2, <2>3, <2>4 DEF GateApart, Exclusive, TypeOK, At, On, Shared, Erasing,
       Finishing, CollectExclusive
<1>2. ASSUME NEW p \in Proc, Enter(p) PROVE GateApart'
  BY <1>2 DEF Enter, GateExclusive, GateApart, Exclusive, TypeOK, At, Goto, On, disk, Shared,
       Erasing, Finishing
<1>3. ASSUME NEW p \in Proc, Busy(p) PROVE GateApart'
  BY JobTypes, <1>3 DEF Busy, GateApart, Exclusive, TypeOK, At, Goto, Done, On, disk, Shared,
       Erasing, Finishing
<1>4. ASSUME NEW p \in Proc, Write(p) PROVE GateApart'
  BY JobTypes, <1>4 DEF Write, Indexed, Acceptable, GateApart, Exclusive, TypeOK, At, Goto, Done,
           On,
       Shared, Erasing, Finishing
<1>5. ASSUME NEW p \in Proc, Refuse(p) PROVE GateApart'
  BY JobTypes, <1>5 DEF Refuse, GateApart, Exclusive, TypeOK, At, Goto, Done, On, disk,
       Shared, Erasing, Finishing
<1>6. ASSUME NEW p \in Proc, Acquire(p) PROVE GateApart'
  BY <1>6 DEF Acquire, GateFree, GateShared, GateExclusive, GateApart, Exclusive, TypeOK, At,
       Goto, On, disk, Shared, Erasing, Finishing
<1>7. ASSUME NEW p \in Proc, GiveUp(p) PROVE GateApart'
  BY <1>7 DEF GiveUp, GateApart, Exclusive, TypeOK, At, Goto, On, disk, Shared, Erasing,
       Finishing
<1>8. ASSUME NEW p \in Proc, Rename(p) PROVE GateApart'
  <2>1. At(p, "rename") /\ pc' = [pc EXCEPT ![p] = "strip"] /\ job' = job
    BY <1>8 DEF Rename, Goto
  <2> QED
    BY <2>1 DEF GateApart, Exclusive, TypeOK, At, On, Shared, Erasing, Finishing
<1>9. ASSUME NEW p \in Proc, Strip(p) PROVE GateApart'
  <2>1. At(p, "strip") /\ pc' = [pc EXCEPT ![p] = "list"] /\ job' = job
    BY <1>9 DEF Strip, Goto
  <2> QED
    BY <2>1 DEF GateApart, Exclusive, TypeOK, At, On, Shared, Erasing, Finishing
<1>10. ASSUME NEW p \in Proc, List(p) PROVE GateApart'
  BY <1>10 DEF List, ListErased, GateApart, Exclusive, TypeOK, At, Goto, On, Shared, Erasing,
       Finishing
<1>11. ASSUME NEW p \in Proc, Purge(p) PROVE GateApart'
  BY JobTypes, <1>11 DEF Purge, EmptyTrash, GateApart, Exclusive, TypeOK, At, Goto, On,
       Shared, Erasing, Finishing
<1>12. ASSUME NEW p \in Proc, Drop(p) PROVE GateApart'
  <2>1. PICK place \in {"collect", "idle"} : pc' = [pc EXCEPT ![p] = place]
    BY <1>12 DEF Drop, Goto, Done
  <2>2. PICK j \in JobType : job' = [job EXCEPT ![p] = j]
    <3>1. job' = [job EXCEPT ![p] = job[p]] \/ job' = [job EXCEPT ![p] = NoJob]
      BY <1>12 DEF Drop, Done, TypeOK
    <3>2. job[p] \in JobType
      BY DEF TypeOK
    <3> QED
      BY <3>1, <3>2, JobTypes
  <2> QED
    BY <2>1, <2>2 DEF GateApart, Exclusive, TypeOK, On, Shared, Erasing, Finishing
<1>13. ASSUME NEW p \in Proc, Clear(p) PROVE GateApart'
  BY <1>13 DEF Clear, Unfinished, GateFree, GateShared, GateExclusive, GateApart, Exclusive,
       TypeOK, At, Goto, On, disk, Shared, Erasing, Finishing
<1>14. ASSUME NEW p \in Proc, FinishList(p) PROVE GateApart'
  <2>1. At(p, "flist") /\ pc' = [pc EXCEPT ![p] = "fpurge"] /\ job' = job
    BY <1>14 DEF FinishList, Goto
  <2> QED
    BY <2>1 DEF GateApart, Exclusive, TypeOK, At, On, Shared, Erasing, Finishing
<1>15. ASSUME NEW p \in Proc, FinishPurge(p) PROVE GateApart'
  <2>1. At(p, "fpurge") /\ pc' = [pc EXCEPT ![p] = "fstrip"] /\ job' = job
    BY <1>15 DEF FinishPurge, Goto
  <2> QED
    BY <2>1 DEF GateApart, Exclusive, TypeOK, At, On, Shared, Erasing, Finishing
<1>16. ASSUME NEW p \in Proc, FinishStrip(p) PROVE GateApart'
  BY <1>16 DEF FinishStrip, GateApart, Exclusive, TypeOK, At, Goto, On, Shared, Erasing,
       Finishing
<1>17. ASSUME NEW p \in Proc, FinishDrop(p) PROVE GateApart'
  BY <1>17 DEF FinishDrop, GateApart, Exclusive, TypeOK, At, Goto, On, Shared, Erasing,
       Finishing
<1>18. ASSUME NEW p \in Proc, Mark(p) PROVE GateApart'
  <2>1. pc' = [pc EXCEPT ![p] = "sweep"] /\ ~CollectShared /\ ~CollectExclusive
    BY <1>18 DEF Mark, Goto
  <2>2. PICK marked \in Marks :
          job' = [job EXCEPT ![p] = [NoJob EXCEPT
                    !.kept = IF At(p, "collect") THEN marked ELSE marked \cup (blobs \ old)]]
    BY <1>18 DEF Mark
  <2>3. PICK j : job' = [job EXCEPT ![p] = j] /\ marked \subseteq j.kept
    <3> DEFINE j == [NoJob EXCEPT
                      !.kept = IF At(p, "collect") THEN marked ELSE marked \cup (blobs \ old)]
    <3>1. marked \subseteq j.kept
      BY DEF NoJob
    <3>2. job' = [job EXCEPT ![p] = j]
      BY <2>2
    <3> QED
      BY <3>1, <3>2
  <2>4. \A s \in Scope : \A g \in Gen \ rotten[s] : refs[s][g] \subseteq marked
    BY <2>2, MarksCover
  <2>5. UNCHANGED <<refs, rotten, blobs>>
    BY <1>18 DEF Mark, disk
  <2> QED
    BY <2>1, <2>3, <2>4, <2>5 DEF GateApart, Exclusive, TypeOK, At, On, Shared, Erasing,
       Finishing, CollectShared, CollectExclusive
<1>19. ASSUME NEW p \in Proc, Sweep(p) PROVE GateApart'
  BY JobTypes, <1>19 DEF Sweep, GateApart, Exclusive, TypeOK, At, Goto, Done, On, Shared,
       Erasing, Finishing
<1>20. ASSUME NEW p \in Proc, CollectBusy(p) PROVE GateApart'
  BY JobTypes, <1>20 DEF CollectBusy, GateApart, Exclusive, TypeOK, At, Goto, Done, On, disk,
       Shared, Erasing, Finishing
<1>21. ASSUME NEW p \in Proc, Request(p) PROVE GateApart'
  <2>1. pc' = [pc EXCEPT ![p] = "gate"]
    BY <1>21 DEF Request, Goto
  <2>2. PICK j \in JobType : job' = [job EXCEPT ![p] = j]
    BY <1>21, JobTypes DEF Request
  <2>3. UNCHANGED <<live, refs, rotten, trash, tomb, blobs>>
    BY <1>21 DEF Request
  <2> QED
    BY <2>1, <2>2, <2>3 DEF GateApart, Exclusive, TypeOK, At, On, Shared, Erasing, Finishing
<1>22. ASSUME NEW p \in Proc, Crash(p) PROVE GateApart'
  BY JobTypes, <1>22 DEF Crash, GateApart, Exclusive, TypeOK, Goto, Done, On, disk, Shared,
       Erasing, Finishing
<1>23. ASSUME NEW p \in Proc, Fail(p) PROVE GateApart'
  BY <1>23 DEF Fail, GateApart, Exclusive, TypeOK, Goto, On, disk, Shared, Erasing, Finishing
<1>24. ASSUME IntentAges PROVE GateApart'
  BY <1>24 DEF IntentAges, GateApart, Exclusive, TypeOK, On, Shared, Erasing, Finishing
<1>25. ASSUME BlobsAge PROVE GateApart'
  BY <1>25 DEF BlobsAge, GateApart, Exclusive, TypeOK, On, Shared, Erasing, Finishing
<1>26. ASSUME Rot PROVE GateApart'
  BY <1>26 DEF Rot, GateApart, Exclusive, TypeOK, On, Shared, Erasing, Finishing
<1>27. CASE UNCHANGED vars
  BY <1>27 DEF vars, GateApart, Exclusive, TypeOK, On, disk, Shared, Erasing, Finishing
<1> QED
  BY <1>1, <1>2, <1>3, <1>4, <1>5, <1>6, <1>7, <1>8, <1>9, <1>10, <1>11, <1>12, <1>13,
     <1>14, <1>15, <1>16, <1>17, <1>18, <1>19, <1>20, <1>21, <1>22, <1>23, <1>24, <1>25,
     <1>26, <1>27
  DEF Next, Steps, Append, Erase, Finish, Collect

\* Every step keeps a scope without files from the rename to the release.
LEMMA MovedAsideStep == IInv /\ [Next]_vars => MovedAside'
<1> SUFFICES ASSUME IInv, [Next]_vars PROVE MovedAside'
  OBVIOUS
<1> USE DEF IInv
<1>1. ASSUME NEW p \in Proc, Store(p) PROVE MovedAside'
  BY JobTypes, <1>1 DEF Store, PutBlob, CollectExclusive, MovedAside, GateApart, Exclusive,
           TypeOK, At,
       Goto, On, Shared, Erasing, Finishing
<1>2. ASSUME NEW p \in Proc, Enter(p) PROVE MovedAside'
  BY <1>2 DEF Enter, GateExclusive, MovedAside, GateApart, Exclusive, TypeOK, At, Goto, On,
       disk, Shared, Erasing, Finishing
<1>3. ASSUME NEW p \in Proc, Busy(p) PROVE MovedAside'
  BY JobTypes, <1>3 DEF Busy, MovedAside, GateApart, Exclusive, TypeOK, At, Goto, Done, On,
       disk, Shared, Erasing, Finishing
<1>4. ASSUME NEW p \in Proc, Write(p) PROVE MovedAside'
  BY JobTypes, <1>4 DEF Write, Indexed, Acceptable, MovedAside, GateApart, Exclusive, TypeOK, At,
           Goto,
       Done, On, Shared, Erasing, Finishing
<1>5. ASSUME NEW p \in Proc, Refuse(p) PROVE MovedAside'
  BY JobTypes, <1>5 DEF Refuse, MovedAside, GateApart, Exclusive, TypeOK, At, Goto, Done, On,
       disk, Shared, Erasing, Finishing
<1>6. ASSUME NEW p \in Proc, Acquire(p) PROVE MovedAside'
  BY <1>6 DEF Acquire, GateFree, GateShared, GateExclusive, MovedAside, GateApart, Exclusive,
       TypeOK, At, Goto, On, disk, Shared, Erasing, Finishing
<1>7. ASSUME NEW p \in Proc, GiveUp(p) PROVE MovedAside'
  BY <1>7 DEF GiveUp, MovedAside, GateApart, Exclusive, TypeOK, At, Goto, On, disk, Shared,
       Erasing, Finishing
<1>8. ASSUME NEW p \in Proc, Rename(p) PROVE MovedAside'
  <2>1. /\ live' = [live EXCEPT ![On(p)] = {}] /\ job' = job
        /\ pc' = [pc EXCEPT ![p] = "strip"]
    BY <1>8 DEF Rename, Goto
  <2>2. \A q \in Proc : On(q) \in Scope /\ On(q)' = On(q)
    BY <2>1, JobTypes DEF TypeOK, On
  <2> QED
    BY <2>1, <2>2 DEF MovedAside, TypeOK
<1>9. ASSUME NEW p \in Proc, Strip(p) PROVE MovedAside'
  BY <1>9 DEF Strip, MovedAside, GateApart, Exclusive, TypeOK, At, Goto, On, Shared, Erasing,
       Finishing
<1>10. ASSUME NEW p \in Proc, List(p) PROVE MovedAside'
  BY <1>10 DEF List, ListErased, MovedAside, GateApart, Exclusive, TypeOK, At, Goto, On,
       Shared, Erasing, Finishing
<1>11. ASSUME NEW p \in Proc, Purge(p) PROVE MovedAside'
  BY JobTypes, <1>11 DEF Purge, EmptyTrash, MovedAside, GateApart, Exclusive, TypeOK, At,
       Goto, On, Shared, Erasing, Finishing
<1>12. ASSUME NEW p \in Proc, Drop(p) PROVE MovedAside'
  BY JobTypes, <1>12 DEF Drop, Releasable, MovedAside, GateApart, Exclusive, TypeOK, At, Goto,
       Done, On, Shared, Erasing, Finishing
<1>13. ASSUME NEW p \in Proc, Clear(p) PROVE MovedAside'
  BY <1>13 DEF Clear, Unfinished, GateFree, GateShared, GateExclusive, MovedAside, GateApart,
       Exclusive, TypeOK, At, Goto, On, disk, Shared, Erasing, Finishing
<1>14. ASSUME NEW p \in Proc, FinishList(p) PROVE MovedAside'
  BY <1>14 DEF FinishList, ListErased, MovedAside, GateApart, Exclusive, TypeOK, At, Goto, On,
       Shared, Erasing, Finishing
<1>15. ASSUME NEW p \in Proc, FinishPurge(p) PROVE MovedAside'
  BY <1>15 DEF FinishPurge, EmptyTrash, MovedAside, GateApart, Exclusive, TypeOK, At, Goto,
       On, Shared, Erasing, Finishing
<1>16. ASSUME NEW p \in Proc, FinishStrip(p) PROVE MovedAside'
  BY <1>16 DEF FinishStrip, MovedAside, GateApart, Exclusive, TypeOK, At, Goto, On, Shared,
       Erasing, Finishing
<1>17. ASSUME NEW p \in Proc, FinishDrop(p) PROVE MovedAside'
  BY <1>17 DEF FinishDrop, MovedAside, GateApart, Exclusive, TypeOK, At, Goto, On, Shared,
       Erasing, Finishing
<1>18. ASSUME NEW p \in Proc, Mark(p) PROVE MovedAside'
  BY JobTypes, <1>18 DEF Mark, Marks, Referred, CollectShared, CollectExclusive, MovedAside,
       GateApart, Exclusive, TypeOK, At, Goto, On, disk, Shared, Erasing, Finishing
<1>19. ASSUME NEW p \in Proc, Sweep(p) PROVE MovedAside'
  BY JobTypes, <1>19 DEF Sweep, MovedAside, GateApart, Exclusive, TypeOK, At, Goto, Done, On,
       Shared, Erasing, Finishing
<1>20. ASSUME NEW p \in Proc, CollectBusy(p) PROVE MovedAside'
  BY JobTypes, <1>20 DEF CollectBusy, MovedAside, GateApart, Exclusive, TypeOK, At, Goto,
       Done, On, disk, Shared, Erasing, Finishing
<1>21. ASSUME NEW p \in Proc, Request(p) PROVE MovedAside'
  <2>1. pc' = [pc EXCEPT ![p] = "gate"]
    BY <1>21 DEF Request, Goto
  <2>2. PICK j \in JobType : job' = [job EXCEPT ![p] = j]
    BY <1>21, JobTypes DEF Request
  <2>3. UNCHANGED <<live, refs, rotten, trash, tomb, blobs>>
    BY <1>21 DEF Request
  <2> QED
    BY <2>1, <2>2, <2>3 DEF MovedAside, GateApart, Exclusive, TypeOK, At, On, Shared,
       Erasing, Finishing
<1>22. ASSUME NEW p \in Proc, Crash(p) PROVE MovedAside'
  BY JobTypes, <1>22 DEF Crash, MovedAside, GateApart, Exclusive, TypeOK, Goto, Done, On,
       disk, Shared, Erasing, Finishing
<1>23. ASSUME NEW p \in Proc, Fail(p) PROVE MovedAside'
  BY <1>23 DEF Fail, MovedAside, GateApart, Exclusive, TypeOK, Goto, On, disk, Shared,
       Erasing, Finishing
<1>24. ASSUME IntentAges PROVE MovedAside'
  BY <1>24 DEF IntentAges, MovedAside, GateApart, Exclusive, TypeOK, On, Shared, Erasing,
       Finishing
<1>25. ASSUME BlobsAge PROVE MovedAside'
  BY <1>25 DEF BlobsAge, MovedAside, GateApart, Exclusive, TypeOK, On, Shared, Erasing,
       Finishing
<1>26. ASSUME Rot PROVE MovedAside'
  BY <1>26 DEF Rot, MovedAside, GateApart, Exclusive, TypeOK, On, Shared, Erasing, Finishing
<1>27. CASE UNCHANGED vars
  BY <1>27 DEF vars, MovedAside, GateApart, Exclusive, TypeOK, On, disk, Shared, Erasing,
       Finishing
<1> QED
  BY <1>1, <1>2, <1>3, <1>4, <1>5, <1>6, <1>7, <1>8, <1>9, <1>10, <1>11, <1>12, <1>13,
     <1>14, <1>15, <1>16, <1>17, <1>18, <1>19, <1>20, <1>21, <1>22, <1>23, <1>24, <1>25,
     <1>26, <1>27
  DEF Next, Steps, Append, Erase, Finish, Collect

\* Every step keeps collections apart from each other and from blobs on
\* their way into an event.
LEMMA CollectApartStep == IInv /\ [Next]_vars => CollectApart'
<1> SUFFICES ASSUME IInv, [Next]_vars PROVE CollectApart'
  OBVIOUS
<1> USE DEF IInv
<1>1. ASSUME NEW p \in Proc, Store(p) PROVE CollectApart'
  <2>1. PICK s \in Scope, g \in Gen, B \in {{}} \cup {{b} : b \in Blob} :
          /\ B # {} => ~CollectExclusive
          /\ blobs' = blobs \cup B
          /\ job' = [job EXCEPT ![p] = [NoJob EXCEPT !.scope = s, !.gen = g, !.blob = B]]
    BY <1>1 DEF Store, PutBlob
  <2> DEFINE j == [NoJob EXCEPT !.scope = s, !.gen = g, !.blob = B]
  <2>2. j \in JobType /\ j.blob = B /\ j.scope = s
    BY StoreJob
  <2> HIDE DEF j
  <2>3. job' = [job EXCEPT ![p] = j]
    BY <2>1 DEF j
  <2>4. pc' = [pc EXCEPT ![p] = "guard"]
    BY <1>1 DEF Store, PutBlob, Goto
  <2> QED
    BY <2>1, <2>2, <2>3, <2>4 DEF CollectApart, Carrying, TypeOK, At, On, Shared,
       Erasing, Finishing, CollectExclusive
<1>2. ASSUME NEW p \in Proc, Enter(p) PROVE CollectApart'
  BY <1>2 DEF Enter, GateExclusive, CollectApart, Carrying, TypeOK, At, Goto, On, disk,
       Shared, Erasing, Finishing
<1>3. ASSUME NEW p \in Proc, Busy(p) PROVE CollectApart'
  BY JobTypes, <1>3 DEF Busy, CollectApart, Carrying, TypeOK, At, Goto, Done, On, disk,
       Shared, Erasing, Finishing
<1>4. ASSUME NEW p \in Proc, Write(p) PROVE CollectApart'
  BY JobTypes, <1>4 DEF Write, Indexed, Acceptable, CollectApart, Carrying, TypeOK, At, Goto,
           Done, On,
       Shared, Erasing, Finishing
<1>5. ASSUME NEW p \in Proc, Refuse(p) PROVE CollectApart'
  BY JobTypes, <1>5 DEF Refuse, CollectApart, Carrying, TypeOK, At, Goto, Done, On, disk,
       Shared, Erasing, Finishing
<1>6. ASSUME NEW p \in Proc, Acquire(p) PROVE CollectApart'
  BY <1>6 DEF Acquire, GateFree, GateShared, GateExclusive, CollectApart, Carrying, TypeOK,
       At, Goto, On, disk, Shared, Erasing, Finishing
<1>7. ASSUME NEW p \in Proc, GiveUp(p) PROVE CollectApart'
  BY <1>7 DEF GiveUp, CollectApart, Carrying, TypeOK, At, Goto, On, disk, Shared, Erasing,
       Finishing
<1>8. ASSUME NEW p \in Proc, Rename(p) PROVE CollectApart'
  BY <1>8 DEF Rename, CollectApart, Carrying, TypeOK, At, Goto, On, Shared, Erasing, Finishing
<1>9. ASSUME NEW p \in Proc, Strip(p) PROVE CollectApart'
  BY <1>9 DEF Strip, CollectApart, Carrying, TypeOK, At, Goto, On, Shared, Erasing, Finishing
<1>10. ASSUME NEW p \in Proc, List(p) PROVE CollectApart'
  BY <1>10 DEF List, ListErased, CollectApart, Carrying, TypeOK, At, Goto, On, Shared,
       Erasing, Finishing
<1>11. ASSUME NEW p \in Proc, Purge(p) PROVE CollectApart'
  BY JobTypes, <1>11 DEF Purge, EmptyTrash, CollectApart, Carrying, TypeOK, At, Goto, On,
       Shared, Erasing, Finishing
<1>12. ASSUME NEW p \in Proc, Drop(p) PROVE CollectApart'
  <2>1. At(p, "drop") /\ pc' \in {[pc EXCEPT ![p] = "collect"], [pc EXCEPT ![p] = "idle"]}
    BY <1>12 DEF Drop, Goto, Done
  <2>2. job' \in {job, [job EXCEPT ![p] = NoJob]}
    BY <1>12 DEF Drop, Done
  <2>3. pc'[p] \in {"collect", "idle"} /\ \A q \in Proc \ {p} : pc'[q] = pc[q]
    BY <2>1 DEF TypeOK
  <2>4. \A q \in Proc \ {p} : job'[q] = job[q]
    BY <2>2 DEF TypeOK
  <2>5. \A q \in Proc : pc'[q] = "sweep" \/ pc'[q] \in Carrying => q # p
    BY <2>3 DEF Carrying, Shared, Finishing
  <2> QED
    BY <2>3, <2>4, <2>5 DEF CollectApart, At
<1>13. ASSUME NEW p \in Proc, Clear(p) PROVE CollectApart'
  BY <1>13 DEF Clear, Unfinished, GateFree, GateShared, GateExclusive, CollectApart, Carrying,
       TypeOK, At, Goto, On, disk, Shared, Erasing, Finishing
<1>14. ASSUME NEW p \in Proc, FinishList(p) PROVE CollectApart'
  BY <1>14 DEF FinishList, ListErased, CollectApart, Carrying, TypeOK, At, Goto, On, Shared,
       Erasing, Finishing
<1>15. ASSUME NEW p \in Proc, FinishPurge(p) PROVE CollectApart'
  BY <1>15 DEF FinishPurge, EmptyTrash, CollectApart, Carrying, TypeOK, At, Goto, On, Shared,
       Erasing, Finishing
<1>16. ASSUME NEW p \in Proc, FinishStrip(p) PROVE CollectApart'
  BY <1>16 DEF FinishStrip, CollectApart, Carrying, TypeOK, At, Goto, On, Shared, Erasing,
       Finishing
<1>17. ASSUME NEW p \in Proc, FinishDrop(p) PROVE CollectApart'
  BY <1>17 DEF FinishDrop, CollectApart, Carrying, TypeOK, At, Goto, On, Shared, Erasing,
       Finishing
<1>18. ASSUME NEW p \in Proc, Mark(p) PROVE CollectApart'
  <2>1. pc' = [pc EXCEPT ![p] = "sweep"] /\ ~CollectShared /\ ~CollectExclusive
    BY <1>18 DEF Mark, Goto
  <2>2. PICK marked \in Marks :
          job' = [job EXCEPT ![p] = [NoJob EXCEPT
                    !.kept = IF At(p, "collect") THEN marked ELSE marked \cup (blobs \ old)]]
    BY <1>18 DEF Mark
  <2>3. PICK j : job' = [job EXCEPT ![p] = j] /\ marked \subseteq j.kept
    <3> DEFINE j == [NoJob EXCEPT
                      !.kept = IF At(p, "collect") THEN marked ELSE marked \cup (blobs \ old)]
    <3>1. marked \subseteq j.kept
      BY DEF NoJob
    <3>2. job' = [job EXCEPT ![p] = j]
      BY <2>2
    <3> QED
      BY <3>1, <3>2
  <2>4. \A s \in Scope : \A g \in Gen \ rotten[s] : refs[s][g] \subseteq marked
    BY <2>2, MarksCover
  <2>5. UNCHANGED <<refs, rotten, blobs>>
    BY <1>18 DEF Mark, disk
  <2> QED
    BY <2>1, <2>3, <2>4, <2>5 DEF CollectApart, Carrying, TypeOK, At, On, Shared,
       Erasing, Finishing, CollectShared, CollectExclusive
<1>19. ASSUME NEW p \in Proc, Sweep(p) PROVE CollectApart'
  BY JobTypes, <1>19 DEF Sweep, CollectApart, Carrying, TypeOK, At, Goto, Done, Shared,
       Erasing, Finishing
<1>20. ASSUME NEW p \in Proc, CollectBusy(p) PROVE CollectApart'
  BY JobTypes, <1>20 DEF CollectBusy, CollectApart, Carrying, TypeOK, At, Goto, Done, disk,
       Shared, Erasing, Finishing
<1>21. ASSUME NEW p \in Proc, Request(p) PROVE CollectApart'
  <2>1. pc' = [pc EXCEPT ![p] = "gate"]
    BY <1>21 DEF Request, Goto
  <2>2. PICK j \in JobType : job' = [job EXCEPT ![p] = j]
    BY <1>21, JobTypes DEF Request
  <2>3. UNCHANGED <<live, refs, rotten, trash, tomb, blobs>>
    BY <1>21 DEF Request
  <2> QED
    BY <2>1, <2>2, <2>3 DEF CollectApart, Carrying, TypeOK, At, On, Shared, Erasing, Finishing
<1>22. ASSUME NEW p \in Proc, Crash(p) PROVE CollectApart'
  BY JobTypes, <1>22 DEF Crash, CollectApart, Carrying, TypeOK, At, Goto, Done, disk, Shared,
       Erasing, Finishing
<1>23. ASSUME NEW p \in Proc, Fail(p) PROVE CollectApart'
  BY <1>23 DEF Fail, CollectApart, Carrying, TypeOK, At, Goto, disk, Shared, Erasing, Finishing
<1>24. ASSUME IntentAges PROVE CollectApart'
  BY <1>24 DEF IntentAges, CollectApart, Carrying, TypeOK, At, On, Shared, Erasing, Finishing
<1>25. ASSUME BlobsAge PROVE CollectApart'
  BY <1>25 DEF BlobsAge, CollectApart, Carrying, TypeOK, At, Shared, Erasing, Finishing
<1>26. ASSUME Rot PROVE CollectApart'
  BY <1>26 DEF Rot, CollectApart, Carrying, TypeOK, At, Shared, Erasing, Finishing
<1>27. CASE UNCHANGED vars
  BY <1>27 DEF vars, CollectApart, Carrying, TypeOK, At, disk, Shared, Erasing, Finishing
<1> QED
  BY <1>1, <1>2, <1>3, <1>4, <1>5, <1>6, <1>7, <1>8, <1>9, <1>10, <1>11, <1>12, <1>13,
     <1>14, <1>15, <1>16, <1>17, <1>18, <1>19, <1>20, <1>21, <1>22, <1>23, <1>24, <1>25,
     <1>26, <1>27
  DEF Next, Steps, Append, Erase, Finish, Collect

\* Every step keeps the blob that a writer stored: no collection runs.
LEMMA CarriedStep == IInv /\ [Next]_vars => Carried'
<1> SUFFICES ASSUME IInv, [Next]_vars PROVE Carried'
  OBVIOUS
<1> USE DEF IInv
<1>1. ASSUME NEW p \in Proc, Store(p) PROVE Carried'
  <2>1. PICK s \in Scope, g \in Gen, B \in {{}} \cup {{b} : b \in Blob} :
          /\ B # {} => ~CollectExclusive
          /\ blobs' = blobs \cup B
          /\ job' = [job EXCEPT ![p] = [NoJob EXCEPT !.scope = s, !.gen = g, !.blob = B]]
    BY <1>1 DEF Store, PutBlob
  <2> DEFINE j == [NoJob EXCEPT !.scope = s, !.gen = g, !.blob = B]
  <2>2. j \in JobType /\ j.blob = B /\ j.scope = s
    BY StoreJob
  <2> HIDE DEF j
  <2>3. job' = [job EXCEPT ![p] = j]
    BY <2>1 DEF j
  <2>4. pc' = [pc EXCEPT ![p] = "guard"]
    BY <1>1 DEF Store, PutBlob, Goto
  <2> QED
    BY <2>1, <2>2, <2>3, <2>4 DEF Carried, Carrying, CollectApart, TypeOK, At, On,
       Shared, Erasing, Finishing, CollectExclusive
<1>2. ASSUME NEW p \in Proc, Enter(p) PROVE Carried'
  BY <1>2 DEF Enter, GateExclusive, Carried, Carrying, CollectApart, TypeOK, At, Goto, On,
       disk, Shared, Erasing, Finishing
<1>3. ASSUME NEW p \in Proc, Busy(p) PROVE Carried'
  BY JobTypes, <1>3 DEF Busy, Carried, Carrying, CollectApart, TypeOK, At, Goto, Done, On,
       disk, Shared, Erasing, Finishing
<1>4. ASSUME NEW p \in Proc, Write(p) PROVE Carried'
  BY JobTypes, <1>4 DEF Write, Indexed, Acceptable, Carried, Carrying, CollectApart, TypeOK, At,
           Goto,
       Done, On, Shared, Erasing, Finishing
<1>5. ASSUME NEW p \in Proc, Refuse(p) PROVE Carried'
  BY JobTypes, <1>5 DEF Refuse, Carried, Carrying, CollectApart, TypeOK, At, Goto, Done, On,
       disk, Shared, Erasing, Finishing
<1>6. ASSUME NEW p \in Proc, Acquire(p) PROVE Carried'
  BY <1>6 DEF Acquire, GateFree, GateShared, GateExclusive, Carried, Carrying, CollectApart,
       TypeOK, At, Goto, On, disk, Shared, Erasing, Finishing
<1>7. ASSUME NEW p \in Proc, GiveUp(p) PROVE Carried'
  BY <1>7 DEF GiveUp, Carried, Carrying, CollectApart, TypeOK, At, Goto, On, disk, Shared,
       Erasing, Finishing
<1>8. ASSUME NEW p \in Proc, Rename(p) PROVE Carried'
  BY <1>8 DEF Rename, Carried, Carrying, CollectApart, TypeOK, At, Goto, On, Shared, Erasing,
       Finishing
<1>9. ASSUME NEW p \in Proc, Strip(p) PROVE Carried'
  BY <1>9 DEF Strip, Carried, Carrying, CollectApart, TypeOK, At, Goto, On, Shared, Erasing,
       Finishing
<1>10. ASSUME NEW p \in Proc, List(p) PROVE Carried'
  BY <1>10 DEF List, ListErased, Carried, Carrying, CollectApart, TypeOK, At, Goto, On,
       Shared, Erasing, Finishing
<1>11. ASSUME NEW p \in Proc, Purge(p) PROVE Carried'
  BY JobTypes, <1>11 DEF Purge, EmptyTrash, Carried, Carrying, CollectApart, TypeOK, At, Goto,
       On, Shared, Erasing, Finishing
<1>12. ASSUME NEW p \in Proc, Drop(p) PROVE Carried'
  BY JobTypes, <1>12 DEF Drop, Releasable, Carried, Carrying, CollectApart, TypeOK, At, Goto,
       Done, On, Shared, Erasing, Finishing
<1>13. ASSUME NEW p \in Proc, Clear(p) PROVE Carried'
  BY <1>13 DEF Clear, Unfinished, GateFree, GateShared, GateExclusive, Carried, Carrying,
       CollectApart, TypeOK, At, Goto, On, disk, Shared, Erasing, Finishing
<1>14. ASSUME NEW p \in Proc, FinishList(p) PROVE Carried'
  BY <1>14 DEF FinishList, ListErased, Carried, Carrying, CollectApart, TypeOK, At, Goto, On,
       Shared, Erasing, Finishing
<1>15. ASSUME NEW p \in Proc, FinishPurge(p) PROVE Carried'
  BY <1>15 DEF FinishPurge, EmptyTrash, Carried, Carrying, CollectApart, TypeOK, At, Goto, On,
       Shared, Erasing, Finishing
<1>16. ASSUME NEW p \in Proc, FinishStrip(p) PROVE Carried'
  BY <1>16 DEF FinishStrip, Carried, Carrying, CollectApart, TypeOK, At, Goto, On, Shared,
       Erasing, Finishing
<1>17. ASSUME NEW p \in Proc, FinishDrop(p) PROVE Carried'
  BY <1>17 DEF FinishDrop, Carried, Carrying, CollectApart, TypeOK, At, Goto, On, Shared,
       Erasing, Finishing
<1>18. ASSUME NEW p \in Proc, Mark(p) PROVE Carried'
  BY JobTypes, <1>18 DEF Mark, Marks, Referred, CollectShared, CollectExclusive, Carried,
       Carrying, CollectApart, TypeOK, At, Goto, disk, Shared, Erasing, Finishing
<1>19. ASSUME NEW p \in Proc, Sweep(p) PROVE Carried'
  BY JobTypes, <1>19 DEF Sweep, Carried, Carrying, CollectApart, TypeOK, At, Goto, Done,
       Shared, Erasing, Finishing
<1>20. ASSUME NEW p \in Proc, CollectBusy(p) PROVE Carried'
  BY JobTypes, <1>20 DEF CollectBusy, Carried, Carrying, CollectApart, TypeOK, At, Goto, Done,
       disk, Shared, Erasing, Finishing
<1>21. ASSUME NEW p \in Proc, Request(p) PROVE Carried'
  <2>1. pc' = [pc EXCEPT ![p] = "gate"]
    BY <1>21 DEF Request, Goto
  <2>2. PICK j \in JobType : job' = [job EXCEPT ![p] = j]
    BY <1>21, JobTypes DEF Request
  <2>3. UNCHANGED <<live, refs, rotten, trash, tomb, blobs>>
    BY <1>21 DEF Request
  <2> QED
    BY <2>1, <2>2, <2>3 DEF Carried, Carrying, CollectApart, TypeOK, At, On, Shared,
       Erasing, Finishing
<1>22. ASSUME NEW p \in Proc, Crash(p) PROVE Carried'
  BY JobTypes, <1>22 DEF Crash, Carried, Carrying, CollectApart, TypeOK, At, Goto, Done, disk,
       Shared, Erasing, Finishing
<1>23. ASSUME NEW p \in Proc, Fail(p) PROVE Carried'
  BY <1>23 DEF Fail, Carried, Carrying, CollectApart, TypeOK, At, Goto, disk, Shared, Erasing,
       Finishing
<1>24. ASSUME IntentAges PROVE Carried'
  BY <1>24 DEF IntentAges, Carried, Carrying, CollectApart, TypeOK, At, On, Shared, Erasing,
       Finishing
<1>25. ASSUME BlobsAge PROVE Carried'
  BY <1>25 DEF BlobsAge, Carried, Carrying, CollectApart, TypeOK, At, Shared, Erasing,
       Finishing
<1>26. ASSUME Rot PROVE Carried'
  BY <1>26 DEF Rot, Carried, Carrying, CollectApart, TypeOK, At, Shared, Erasing, Finishing
<1>27. CASE UNCHANGED vars
  BY <1>27 DEF vars, Carried, Carrying, CollectApart, TypeOK, At, disk, Shared, Erasing,
       Finishing
<1> QED
  BY <1>1, <1>2, <1>3, <1>4, <1>5, <1>6, <1>7, <1>8, <1>9, <1>10, <1>11, <1>12, <1>13,
     <1>14, <1>15, <1>16, <1>17, <1>18, <1>19, <1>20, <1>21, <1>22, <1>23, <1>24, <1>25,
     <1>26, <1>27
  DEF Next, Steps, Append, Erase, Finish, Collect

\* Every step keeps what a collection marked up to date: no event with a
\* blob is written while it runs.
LEMMA KeptStep == IInv /\ [Next]_vars => Kept'
<1> SUFFICES ASSUME IInv, [Next]_vars PROVE Kept'
  OBVIOUS
<1> USE DEF IInv
<1>1. ASSUME NEW p \in Proc, Store(p) PROVE Kept'
  BY JobTypes, <1>1 DEF Store, PutBlob, CollectExclusive, Kept, CollectApart, Carrying, TypeOK, At,
       Goto, Shared, Erasing, Finishing
<1>2. ASSUME NEW p \in Proc, Enter(p) PROVE Kept'
  BY <1>2 DEF Enter, GateExclusive, Kept, CollectApart, Carrying, TypeOK, At, Goto, On, disk,
       Shared, Erasing, Finishing
<1>3. ASSUME NEW p \in Proc, Busy(p) PROVE Kept'
  BY JobTypes, <1>3 DEF Busy, Kept, CollectApart, Carrying, TypeOK, At, Goto, Done, On, disk,
       Shared, Erasing, Finishing
<1>4. ASSUME NEW p \in Proc, Write(p) PROVE Kept'
  BY JobTypes, <1>4 DEF Write, Indexed, Acceptable, Kept, CollectApart, Carrying, TypeOK, At, Goto,
       Done, On, Shared, Erasing, Finishing
<1>5. ASSUME NEW p \in Proc, Refuse(p) PROVE Kept'
  BY JobTypes, <1>5 DEF Refuse, Kept, CollectApart, Carrying, TypeOK, At, Goto, Done, On,
       disk, Shared, Erasing, Finishing
<1>6. ASSUME NEW p \in Proc, Acquire(p) PROVE Kept'
  BY <1>6 DEF Acquire, GateFree, GateShared, GateExclusive, Kept, CollectApart, Carrying,
       TypeOK, At, Goto, On, disk, Shared, Erasing, Finishing
<1>7. ASSUME NEW p \in Proc, GiveUp(p) PROVE Kept'
  BY <1>7 DEF GiveUp, Kept, CollectApart, Carrying, TypeOK, At, Goto, On, disk, Shared,
       Erasing, Finishing
<1>8. ASSUME NEW p \in Proc, Rename(p) PROVE Kept'
  BY <1>8 DEF Rename, Kept, CollectApart, Carrying, TypeOK, At, Goto, On, Shared, Erasing,
       Finishing
<1>9. ASSUME NEW p \in Proc, Strip(p) PROVE Kept'
  BY <1>9 DEF Strip, Kept, CollectApart, Carrying, TypeOK, At, Goto, On, Shared, Erasing,
       Finishing
<1>10. ASSUME NEW p \in Proc, List(p) PROVE Kept'
  BY <1>10 DEF List, ListErased, Kept, CollectApart, Carrying, TypeOK, At, Goto, On, Shared,
       Erasing, Finishing
<1>11. ASSUME NEW p \in Proc, Purge(p) PROVE Kept'
  BY JobTypes, <1>11 DEF Purge, EmptyTrash, Kept, CollectApart, Carrying, TypeOK, At, Goto,
       On, Shared, Erasing, Finishing
<1>12. ASSUME NEW p \in Proc, Drop(p) PROVE Kept'
  BY JobTypes, <1>12 DEF Drop, Releasable, Kept, CollectApart, Carrying, TypeOK, At, Goto,
       Done, On, Shared, Erasing, Finishing
<1>13. ASSUME NEW p \in Proc, Clear(p) PROVE Kept'
  BY <1>13 DEF Clear, Unfinished, GateFree, GateShared, GateExclusive, Kept, CollectApart,
       Carrying, TypeOK, At, Goto, On, disk, Shared, Erasing, Finishing
<1>14. ASSUME NEW p \in Proc, FinishList(p) PROVE Kept'
  BY <1>14 DEF FinishList, ListErased, Kept, CollectApart, Carrying, TypeOK, At, Goto, On,
       Shared, Erasing, Finishing
<1>15. ASSUME NEW p \in Proc, FinishPurge(p) PROVE Kept'
  BY <1>15 DEF FinishPurge, EmptyTrash, Kept, CollectApart, Carrying, TypeOK, At, Goto, On,
       Shared, Erasing, Finishing
<1>16. ASSUME NEW p \in Proc, FinishStrip(p) PROVE Kept'
  BY <1>16 DEF FinishStrip, Kept, CollectApart, Carrying, TypeOK, At, Goto, On, Shared,
       Erasing, Finishing
<1>17. ASSUME NEW p \in Proc, FinishDrop(p) PROVE Kept'
  BY <1>17 DEF FinishDrop, Kept, CollectApart, Carrying, TypeOK, At, Goto, On, Shared,
       Erasing, Finishing
<1>18. ASSUME NEW p \in Proc, Mark(p) PROVE Kept'
  <2>1. pc' = [pc EXCEPT ![p] = "sweep"] /\ ~CollectShared /\ ~CollectExclusive
    BY <1>18 DEF Mark, Goto
  <2>2. PICK marked \in Marks :
          job' = [job EXCEPT ![p] = [NoJob EXCEPT
                    !.kept = IF At(p, "collect") THEN marked ELSE marked \cup (blobs \ old)]]
    BY <1>18 DEF Mark
  <2>3. PICK j : job' = [job EXCEPT ![p] = j] /\ marked \subseteq j.kept
    <3> DEFINE j == [NoJob EXCEPT
                      !.kept = IF At(p, "collect") THEN marked ELSE marked \cup (blobs \ old)]
    <3>1. marked \subseteq j.kept
      BY DEF NoJob
    <3>2. job' = [job EXCEPT ![p] = j]
      BY <2>2
    <3> QED
      BY <3>1, <3>2
  <2>4. \A s \in Scope : \A g \in Gen \ rotten[s] : refs[s][g] \subseteq marked
    BY <2>2, MarksCover
  <2>5. UNCHANGED <<refs, rotten, blobs>>
    BY <1>18 DEF Mark, disk
  <2> QED
    BY <2>1, <2>3, <2>4, <2>5 DEF Kept, CollectApart, Carrying, TypeOK, At, On, Shared,
       Erasing, Finishing, CollectShared, CollectExclusive
<1>19. ASSUME NEW p \in Proc, Sweep(p) PROVE Kept'
  BY JobTypes, <1>19 DEF Sweep, Kept, CollectApart, Carrying, TypeOK, At, Goto, Done, Shared,
       Erasing, Finishing
<1>20. ASSUME NEW p \in Proc, CollectBusy(p) PROVE Kept'
  BY JobTypes, <1>20 DEF CollectBusy, Kept, CollectApart, Carrying, TypeOK, At, Goto, Done,
       disk, Shared, Erasing, Finishing
<1>21. ASSUME NEW p \in Proc, Request(p) PROVE Kept'
  <2>1. pc' = [pc EXCEPT ![p] = "gate"]
    BY <1>21 DEF Request, Goto
  <2>2. PICK j \in JobType : job' = [job EXCEPT ![p] = j]
    BY <1>21, JobTypes DEF Request
  <2>3. UNCHANGED <<live, refs, rotten, trash, tomb, blobs>>
    BY <1>21 DEF Request
  <2> QED
    BY <2>1, <2>2, <2>3 DEF Kept, CollectApart, Carrying, TypeOK, At, On, Shared,
       Erasing, Finishing
<1>22. ASSUME NEW p \in Proc, Crash(p) PROVE Kept'
  BY JobTypes, <1>22 DEF Crash, Kept, CollectApart, Carrying, TypeOK, At, Goto, Done, disk,
       Shared, Erasing, Finishing
<1>23. ASSUME NEW p \in Proc, Fail(p) PROVE Kept'
  BY <1>23 DEF Fail, Kept, CollectApart, Carrying, TypeOK, At, Goto, disk, Shared, Erasing,
       Finishing
<1>24. ASSUME IntentAges PROVE Kept'
  BY <1>24 DEF IntentAges, Kept, CollectApart, Carrying, TypeOK, At, On, Shared, Erasing,
       Finishing
<1>25. ASSUME BlobsAge PROVE Kept'
  BY <1>25 DEF BlobsAge, Kept, CollectApart, Carrying, TypeOK, At, Shared, Erasing, Finishing
<1>26. ASSUME Rot PROVE Kept'
  BY <1>26 DEF Rot, Kept, CollectApart, Carrying, TypeOK, At, Shared, Erasing, Finishing
<1>27. CASE UNCHANGED vars
  BY <1>27 DEF vars, Kept, CollectApart, Carrying, TypeOK, At, disk, Shared, Erasing, Finishing
<1> QED
  BY <1>1, <1>2, <1>3, <1>4, <1>5, <1>6, <1>7, <1>8, <1>9, <1>10, <1>11, <1>12, <1>13,
     <1>14, <1>15, <1>16, <1>17, <1>18, <1>19, <1>20, <1>21, <1>22, <1>23, <1>24, <1>25,
     <1>26, <1>27
  DEF Next, Steps, Append, Erase, Finish, Collect

\* Every step keeps the blobs that readable files refer to.
LEMMA StoredStep == IInv /\ [Next]_vars => Stored'
<1> SUFFICES ASSUME IInv, [Next]_vars PROVE Stored'
  OBVIOUS
<1> USE DEF IInv
<1>1. ASSUME NEW p \in Proc, Store(p) PROVE Stored'
  <2>1. blobs \subseteq blobs' /\ refs' = refs /\ rotten' = rotten
    BY <1>1 DEF Store, PutBlob
  <2> QED
    BY <2>1 DEF Stored
<1>2. ASSUME NEW p \in Proc, Write(p) PROVE Stored'
  BY <1>2, JobTypes DEF Write, Indexed, Stored, Carried, Carrying, Shared, TypeOK, At, On
<1>3. ASSUME NEW p \in Proc, Purge(p) \/ FinishPurge(p) PROVE Stored'
  <2> DEFINE s0 == On(p)
  <2>1. /\ refs' = [refs EXCEPT ![s0] = [g \in Gen |-> IF g \in trash[s0] THEN {} ELSE @[g]]]
        /\ rotten' = [rotten EXCEPT ![s0] = @ \ trash[s0]] /\ blobs' = blobs
    BY <1>3 DEF Purge, FinishPurge, EmptyTrash
  <2>2. ASSUME NEW s \in Scope, NEW g \in Gen \ rotten'[s] PROVE refs'[s][g] \subseteq blobs
    <3>1. CASE s # s0
      BY <2>1, <3>1 DEF Stored, TypeOK
    <3>2. CASE s = s0
      <4>1. refs'[s] = [h \in Gen |-> IF h \in trash[s0] THEN {} ELSE refs[s][h]]
        BY <2>1, <3>2 DEF TypeOK
      <4>2. rotten'[s] = rotten[s] \ trash[s0]
        BY <2>1, <3>2 DEF TypeOK
      <4> QED
        BY <4>1, <4>2 DEF Stored
    <3> QED
      BY <3>1, <3>2
  <2> QED
    BY <2>1, <2>2 DEF Stored
<1>4. ASSUME NEW p \in Proc, Sweep(p) PROVE Stored'
  BY <1>4 DEF Sweep, Stored, Kept
<1>5. CASE Rot
  BY <1>5 DEF Rot, Stored, TypeOK
<1>6. CASE UNCHANGED <<refs, rotten, blobs>>
  BY <1>6 DEF Stored
<1>7. \/ \E p \in Proc : Store(p) \/ Write(p) \/ Purge(p) \/ FinishPurge(p) \/ Sweep(p)
      \/ Rot \/ UNCHANGED <<refs, rotten, blobs>>
  BY DEF Next, Steps, Append, Erase, Finish, Collect, Enter, Busy, Refuse, Request, Acquire,
         GiveUp, Rename, Strip, List, Drop, Clear, FinishList, FinishStrip, FinishDrop, Mark,
         CollectBusy, Crash, Fail, IntentAges, BlobsAge, disk, vars
<1> QED
  BY <1>1, <1>2, <1>3, <1>4, <1>5, <1>6, <1>7

\* At the start nothing is stored and every process is idle.
LEMMA InitInv == Init => IInv
<1> SUFFICES ASSUME Init PROVE IInv
  OBVIOUS
<1>1. TypeOK
  <2>1. 0 \in 0 .. MaxFaults
    OBVIOUS
  <2>2. job \in [Proc -> JobType]
    BY JobTypes DEF Init
  <2> QED
    BY <2>1, <2>2 DEF Init, TypeOK, Places
<1>2. ListedStaysErased /\ Stored
  BY DEF Init, ListedStaysErased, Stored
<1>3. GateApart /\ MovedAside /\ CollectApart /\ Carried /\ Kept
  BY DEF Init, GateApart, MovedAside, CollectApart, Carried, Kept, Exclusive, Carrying,
         Erasing, Finishing, Shared, At
<1> QED
  BY <1>1, <1>2, <1>3 DEF IInv

\* Every reachable state satisfies the inductive invariant.
LEMMA AlwaysInv == Spec => []IInv
<1>1. IInv /\ [Next]_vars => IInv'
  BY TypeStep, ListedStaysErasedStep, GateApartStep, MovedAsideStep, CollectApartStep,
     CarriedStep, KeptStep, StoredStep DEF IInv
<1> QED
  BY InitInv, <1>1, PTL DEF Spec

-----------------------------------------------------------------------------
(* The theorems *)

\* The variables keep their types: places, intents, and the fault bound.
THEOREM ErasureTypes == Spec => []TypeOK
<1>1. IInv => TypeOK
  BY DEF IInv
<1> QED
  BY AlwaysInv, <1>1, PTL

\* A session that is listed as erased has no file again, for any number of
\* writers, erasers and faults: append checks the list under the shared gate.
THEOREM ListedErased == Spec => []ListedStaysErased
<1>1. IInv => ListedStaysErased
  BY DEF IInv
<1> QED
  BY AlwaysInv, <1>1, PTL

\* A blob that an event of a readable session refers to is stored, however
\* old the blob was when the event's writer found it in place.
THEOREM BlobsKept == Spec => []ReferencedKept
<1>1. ASSUME IInv PROVE ReferencedKept
  <2>1. \A s \in Scope : live[s] \subseteq Gen
    BY <1>1 DEF IInv, TypeOK
  <2> QED
    BY <1>1, <2>1 DEF IInv, Stored, ReferencedKept
<1> QED
  BY AlwaysInv, <1>1, PTL

-----------------------------------------------------------------------------
(* When an erased session can come back *)

\* No process is about to remove the intent of a scope while an eraser of that
\* scope waits for the gate or works: what ErasedStaysErased breaks on.
Removes(q) == At(q, "fdrop") \/ (At(q, "drop") /\ Releasable(q))
Undisturbed == \A p, q \in Proc :
  p # q /\ On(p) = On(q) /\ pc[p] \in {"gate"} \cup Erasing => ~Removes(q)

\* Everything that was moved aside and not yet deleted is listed.
AllListed(s) == trash[s] \subseteq tomb[s]

\* What an eraser that waits or renames, a writer inside the gate, and whoever
\* deletes or removes an intent can rely on, by place.
OrderedAt(place, j) ==
  /\ place \in {"gate", "rename"} => intent[j.scope] # "none"
  /\ place \in {"append", "purge", "fpurge", "fstrip", "fdrop"} => AllListed(j.scope)
  /\ place \in {"gate"} \cup Erasing => ~j.done
  /\ place = "drop" /\ j.done => AllListed(j.scope)
Ordered == \A q \in Proc : OrderedAt(pc[q], job[q])

\* What was moved aside is listed or waits to be, and as long as something waits
\* the scope has no file and an intent keeps writers out.
Awaited == \A s \in Scope : /\ gone[s] \subseteq tomb[s] \cup trash[s]
                            /\ ~AllListed(s) => live[s] = {} /\ intent[s] # "none"

\* A step of a process leaves the place and the job of the others.
LEMMA OthersStay ==
  ASSUME TypeOK, NEW p \in Proc,
         Steps(p) \/ Request(p) \/ Crash(p) \/ Fail(p)
  PROVE  \A q \in Proc \ {p} : pc'[q] = pc[q] /\ job'[q] = job[q]
<1>1. \A q \in Proc : pc[q] = pc[q] /\ pc \in [Proc -> Places] /\ job \in [Proc -> JobType]
  BY DEF TypeOK
<1>2. ASSUME Append(p) PROVE \A q \in Proc \ {p} : pc'[q] = pc[q] /\ job'[q] = job[q]
  BY <1>1, <1>2 DEF Append, Store, Enter, Busy, Write, Refuse, Goto, Done
<1>3. ASSUME Erase(p) PROVE \A q \in Proc \ {p} : pc'[q] = pc[q] /\ job'[q] = job[q]
  BY <1>1, <1>3 DEF Erase, Acquire, GiveUp, Rename, Strip, List, Purge, Drop, Goto, Done
<1>4. ASSUME Finish(p) PROVE \A q \in Proc \ {p} : pc'[q] = pc[q] /\ job'[q] = job[q]
  BY <1>1, <1>4 DEF Finish, Clear, FinishList, FinishPurge, FinishStrip, FinishDrop, Goto
<1>5. ASSUME Collect(p) PROVE \A q \in Proc \ {p} : pc'[q] = pc[q] /\ job'[q] = job[q]
  BY <1>1, <1>5 DEF Collect, Mark, Sweep, CollectBusy, Goto, Done
<1>6. ASSUME Request(p) \/ Crash(p) \/ Fail(p)
      PROVE  \A q \in Proc \ {p} : pc'[q] = pc[q] /\ job'[q] = job[q]
  BY <1>1, <1>6 DEF Request, Crash, Fail, Goto, Done
<1> QED
  BY <1>2, <1>3, <1>4, <1>5, <1>6 DEF Steps

\* A step that leaves the files, the list and the intents alone.
LEMMA OrderedQuiet ==
  ASSUME IInv, Ordered, Awaited, UNCHANGED <<live, trash, tomb, intent, gone>>,
         \A q \in Proc : OrderedAt(pc[q], job[q]) => OrderedAt(pc'[q], job'[q])
  PROVE  Ordered' /\ Awaited'
<1>1. \A s \in Scope : AllListed(s)' = AllListed(s)
  BY DEF AllListed
<1>2. Awaited'
  BY <1>1 DEF Awaited, AllListed
<1>3. ASSUME NEW q \in Proc PROVE OrderedAt(pc[q], job[q])'
  <2>1. OrderedAt(pc'[q], job'[q])
    BY DEF Ordered
  <2> QED
    BY <2>1 DEF OrderedAt, AllListed
<1> QED
  BY <1>2, <1>3 DEF Ordered

\* The steps of a process that leave those alone.
LEMMA QuietSteps ==
  ASSUME IInv, Ordered, Awaited, NEW p \in Proc,
         \/ Store(p) \/ Enter(p) \/ Busy(p) \/ Refuse(p) \/ Acquire(p) \/ GiveUp(p) \/ Strip(p)
         \/ Clear(p) \/ FinishStrip(p) \/ Collect(p) \/ Crash(p) \/ Fail(p)
  PROVE  Ordered' /\ Awaited'
<1>t. TypeOK /\ pc \in [Proc -> Places] /\ job \in [Proc -> JobType]
  BY DEF IInv, TypeOK
<1>s. On(p) \in Scope /\ OrderedAt(pc[p], job[p])
  BY <1>t, JobTypes DEF On, Ordered
<1>o. \A q \in Proc \ {p} : pc'[q] = pc[q] /\ job'[q] = job[q]
  BY <1>t, OthersStay DEF Steps, Append, Erase, Finish
<1>u. UNCHANGED <<live, trash, tomb, intent, gone>>
  BY DEF Store, PutBlob, Enter, Busy, Refuse, Acquire, GiveUp, Strip, Clear, FinishStrip,
         Collect, Mark, Sweep, CollectBusy, Crash, Fail, disk
<1>1. OrderedAt(pc'[p], job'[p])
  <2>1. CASE Store(p) \/ Busy(p) \/ Refuse(p) \/ Collect(p) \/ Crash(p)
    <3>1. pc'[p] \in {"idle", "guard", "sweep"}
      BY <1>t, <2>1 DEF Store, Busy, Refuse, Collect, Mark, Sweep, CollectBusy, Crash, Goto, Done
    <3> QED
      BY <3>1 DEF OrderedAt, Erasing
  <2>2. CASE Enter(p)
    <3>1. intent[On(p)] = "none" /\ pc'[p] = "append" /\ job'[p] = job[p]
      BY <1>t, <2>2 DEF Enter, Goto
    <3>2. AllListed(On(p))
      BY <1>s, <3>1 DEF Awaited
    <3> QED
      BY <3>1, <3>2 DEF OrderedAt, Erasing, On
  <2>3. CASE Clear(p)
    <3>1. /\ pc'[p] = IF Unfinished(On(p)) THEN "flist" ELSE "fdrop"
          /\ job'[p] = job[p]
      BY <1>t, <2>3 DEF Clear, Goto
    <3>2. ~Unfinished(On(p)) => AllListed(On(p))
      BY <1>s DEF Awaited, Unfinished, AllListed
    <3> QED
      BY <3>1, <3>2 DEF OrderedAt, Erasing, On
  <2>4. CASE Acquire(p) \/ GiveUp(p) \/ Strip(p) \/ FinishStrip(p) \/ Fail(p)
    <3>1. /\ job'[p] = job[p]
          /\ \/ pc[p] = "gate" /\ pc'[p] \in {"rename", "drop"}
             \/ pc[p] = "strip" /\ pc'[p] = "list"
             \/ pc[p] = "fstrip" /\ pc'[p] = "fdrop"
             \/ pc[p] \in Erasing /\ pc'[p] = "drop"
      BY <1>t, <2>4 DEF Acquire, GiveUp, Strip, FinishStrip, Fail, Goto, At
    <3> QED
      BY <1>s, <3>1 DEF OrderedAt, Erasing
  <2> QED
    BY <2>1, <2>2, <2>3, <2>4
<1>2. \A q \in Proc : OrderedAt(pc[q], job[q]) => OrderedAt(pc'[q], job'[q])
  BY <1>o, <1>1
<1> QED
  BY <1>u, <1>2, OrderedQuiet

\* What is listed stays so when a scope's list grows or its trash is emptied.
LEMMA ListSteps ==
  ASSUME IInv, Ordered, Awaited, NEW p \in Proc,
         List(p) \/ FinishList(p) \/ Purge(p) \/ FinishPurge(p)
  PROVE  Ordered' /\ Awaited'
<1> DEFINE s0 == On(p)
<1>t. TypeOK /\ pc \in [Proc -> Places] /\ job \in [Proc -> JobType] /\ s0 \in Scope
      /\ tomb \in [Scope -> SUBSET Gen] /\ trash \in [Scope -> SUBSET Gen]
  BY JobTypes DEF IInv, TypeOK, On
<1>o. \A q \in Proc \ {p} : pc'[q] = pc[q] /\ job'[q] = job[q]
  BY <1>t, OthersStay DEF Steps, Erase, Finish
<1>u. UNCHANGED <<live, intent, gone>>
  BY DEF List, FinishList, Purge, FinishPurge
<1>1. /\ \A s \in Scope : tomb[s] \subseteq tomb'[s] /\ trash'[s] \subseteq trash[s]
      /\ trash'[s0] \subseteq tomb'[s0]
      /\ trash[s0] \subseteq tomb'[s0]
      /\ \A s \in Scope \ {s0} : trash'[s] = trash[s]
  <2>1. CASE List(p) \/ FinishList(p)
    BY <1>t, <2>1 DEF List, FinishList, ListErased
  <2>2. CASE Purge(p) \/ FinishPurge(p)
    <3>1. AllListed(s0)
      BY <2>2 DEF Ordered, OrderedAt, Purge, FinishPurge, At, On
    <3> QED
      BY <1>t, <2>2, <3>1 DEF Purge, FinishPurge, EmptyTrash, AllListed
  <2> QED
    BY <2>1, <2>2
<1>2. \A s \in Scope : AllListed(s) => AllListed(s)'
  BY <1>1 DEF AllListed
<1>3. Awaited'
  <2> SUFFICES ASSUME NEW s \in Scope
               PROVE  /\ gone'[s] \subseteq tomb'[s] \cup trash'[s]
                      /\ ~AllListed(s)' => live'[s] = {} /\ intent'[s] # "none"
    BY DEF Awaited
  <2>1. gone[s] \subseteq tomb[s] \cup trash[s]
        /\ (~AllListed(s) => live[s] = {} /\ intent[s] # "none")
    BY DEF Awaited
  <2>2. gone'[s] \subseteq tomb'[s] \cup trash'[s]
    BY <1>u, <1>1, <2>1
  <2> QED
    BY <1>u, <1>2, <2>1, <2>2
<1>4. ASSUME NEW q \in Proc PROVE OrderedAt(pc[q], job[q])'
  <2>1. OrderedAt(pc[q], job[q]) /\ job[q].scope \in Scope
    BY <1>t, JobTypes DEF Ordered
  <2>2. CASE q # p
    BY <1>o, <1>u, <1>2, <2>1, <2>2 DEF OrderedAt, AllListed
  <2>3. CASE q = p
    <3>1. job'[p].scope = s0 /\ trash'[s0] \subseteq tomb'[s0]
          /\ pc'[p] \in {"purge", "fpurge", "drop", "fstrip"}
          /\ (pc'[p] = "purge" => pc[p] = "list" /\ job'[p] = job[p])
      BY <1>t, <1>1 DEF List, FinishList, Purge, FinishPurge, Goto, At, On, JobType
    <3>2. pc'[p] = "purge" => ~job'[p].done
      BY <2>1, <2>3, <3>1 DEF OrderedAt, Erasing
    <3> QED
      BY <2>3, <3>1, <3>2 DEF OrderedAt, AllListed, Erasing
  <2> QED
    BY <2>2, <2>3
<1> QED
  BY <1>3, <1>4 DEF Ordered

\* The directory moves aside while the intent stands and nobody is inside, so
\* nobody has yet to rely on an old list.
LEMMA RenameStep ==
  ASSUME IInv, Ordered, Awaited, Undisturbed, NEW p \in Proc, Rename(p)
  PROVE  Ordered' /\ Awaited'
<1> DEFINE s0 == On(p)
<1>t. TypeOK /\ pc \in [Proc -> Places] /\ job \in [Proc -> JobType] /\ s0 \in Scope
      /\ GateApart
  BY JobTypes DEF IInv, TypeOK, On
<1>o. \A q \in Proc \ {p} : pc'[q] = pc[q] /\ job'[q] = job[q]
  BY <1>t, OthersStay DEF Steps, Erase
<1>1. /\ UNCHANGED <<tomb, intent, job>> /\ pc[p] = "rename" /\ pc'[p] = "strip"
      /\ live' = [live EXCEPT ![s0] = {}]
      /\ trash' = [trash EXCEPT ![s0] = trash[s0] \cup live[s0]]
      /\ gone' = [gone EXCEPT ![s0] = gone[s0] \cup live[s0]]
  BY <1>t DEF Rename, At, Goto
<1>2. intent[s0] # "none" /\ ~job[p].done
  BY <1>1 DEF Ordered, OrderedAt, Erasing, On
<1>3. Awaited'
  <2> SUFFICES ASSUME NEW s \in Scope
               PROVE  /\ gone'[s] \subseteq tomb'[s] \cup trash'[s]
                      /\ ~AllListed(s)' => live'[s] = {} /\ intent'[s] # "none"
    BY DEF Awaited
  <2>1. gone[s] \subseteq tomb[s] \cup trash[s]
        /\ (~AllListed(s) => live[s] = {} /\ intent[s] # "none")
    BY DEF Awaited
  <2>2. CASE s = s0
    BY <1>t, <1>1, <1>2, <2>1, <2>2 DEF TypeOK
  <2>3. CASE s # s0
    BY <1>t, <1>1, <2>1, <2>3 DEF TypeOK, AllListed
  <2> QED
    BY <2>2, <2>3
<1>4. ASSUME NEW q \in Proc PROVE OrderedAt(pc[q], job[q])'
  <2>1. OrderedAt(pc[q], job[q]) /\ On(q) = job[q].scope /\ job[q].scope \in Scope
    BY <1>t, JobTypes DEF Ordered, On
  <2>2. CASE q = p
    BY <1>1, <1>2, <2>1, <2>2 DEF OrderedAt, Erasing
  <2>3. CASE q # p /\ On(q) = s0
    <3>1. pc[q] \notin {"append", "purge", "fpurge", "fstrip", "fdrop"}
      BY <1>t, <1>1, <2>3 DEF GateApart, Exclusive, Shared, Erasing, Finishing
    <3>2. ~ (pc[q] = "drop" /\ job[q].done)
      BY <1>1, <2>3 DEF Undisturbed, Removes, Releasable, At, Erasing
    <3> QED
      BY <1>o, <1>1, <2>1, <2>3, <3>1, <3>2 DEF OrderedAt
  <2>4. CASE q # p /\ On(q) # s0
    BY <1>t, <1>o, <1>1, <2>1, <2>4 DEF OrderedAt, AllListed, TypeOK
  <2> QED
    BY <2>2, <2>3, <2>4
<1> QED
  BY <1>3, <1>4 DEF Ordered

\* An intent goes when nothing waits to be listed and no eraser counts on it.
LEMMA DropSteps ==
  ASSUME IInv, Ordered, Awaited, Undisturbed, NEW p \in Proc, Drop(p) \/ FinishDrop(p)
  PROVE  Ordered' /\ Awaited'
<1> DEFINE s0 == On(p)
<1>t. TypeOK /\ pc \in [Proc -> Places] /\ job \in [Proc -> JobType] /\ s0 \in Scope
  BY JobTypes DEF IInv, TypeOK, On
<1>o. \A q \in Proc \ {p} : pc'[q] = pc[q] /\ job'[q] = job[q]
  BY <1>t, OthersStay DEF Steps, Erase, Finish
<1>1. UNCHANGED <<live, trash, tomb, gone>> /\ pc'[p] \in {"idle", "guard", "collect"}
  BY <1>t DEF Drop, FinishDrop, Goto, Done
<1>2. \/ intent' = intent
      \/ intent' = [intent EXCEPT ![s0] = "none"] /\ Removes(p)
  BY DEF Drop, FinishDrop, Removes
<1>3. Removes(p) => AllListed(s0)
  BY <1>t DEF Removes, Releasable, Ordered, OrderedAt, Awaited, At, On
<1>4. \A s \in Scope : intent'[s] = intent[s] \/ (intent'[s] = "none" /\ s = s0 /\ Removes(p))
  BY <1>t, <1>2 DEF TypeOK
<1>5. Awaited'
  BY <1>1, <1>3, <1>4 DEF Awaited, AllListed
<1>6. ASSUME NEW q \in Proc PROVE OrderedAt(pc[q], job[q])'
  <2>1. OrderedAt(pc[q], job[q]) /\ On(q) = job[q].scope /\ job[q].scope \in Scope
    BY <1>t, JobTypes DEF Ordered, On
  <2>2. CASE q = p
    BY <1>1, <2>2 DEF OrderedAt, Erasing
  <2>3. CASE q # p
    <3>1. pc[q] \in {"gate", "rename"} => intent'[job[q].scope] = intent[job[q].scope]
      BY <1>4, <2>1, <2>3 DEF Undisturbed, Erasing
    <3> QED
      BY <1>o, <1>1, <2>1, <2>3, <3>1 DEF OrderedAt, AllListed
  <2> QED
    BY <2>2, <2>3
<1> QED
  BY <1>5, <1>6 DEF Ordered

\* A new or an older intent is an intent.
LEMMA IntentSteps ==
  ASSUME IInv, Ordered, Awaited, IntentAges \/ \E p \in Proc : Request(p)
  PROVE  Ordered' /\ Awaited'
<1>t. TypeOK /\ pc \in [Proc -> Places] /\ job \in [Proc -> JobType]
  BY DEF IInv, TypeOK
<1>1. UNCHANGED <<live, trash, tomb, gone>>
  BY DEF IntentAges, Request
<1>2. \A s \in Scope : intent[s] # "none" => intent'[s] # "none"
  BY <1>t DEF IntentAges, Request, TypeOK
<1>3. Awaited'
  BY <1>1, <1>2 DEF Awaited, AllListed
<1>4. ASSUME NEW q \in Proc PROVE OrderedAt(pc[q], job[q])'
  <2>1. OrderedAt(pc[q], job[q]) /\ job[q].scope \in Scope
    BY <1>t, JobTypes DEF Ordered
  <2>2. CASE pc'[q] = pc[q] /\ job'[q] = job[q]
    BY <1>1, <1>2, <2>1, <2>2 DEF OrderedAt, AllListed
  <2>3. ASSUME Request(q) PROVE OrderedAt(pc[q], job[q])'
    <3>1. PICK s \in Scope : /\ intent' = [intent EXCEPT ![s] = "fresh"]
                             /\ job' = [job EXCEPT ![q] = [NoJob EXCEPT !.scope = s]]
                             /\ pc' = [pc EXCEPT ![q] = "gate"]
      BY <2>3 DEF Request, Goto
    <3>2. job'[q].scope = s /\ ~job'[q].done /\ pc'[q] = "gate" /\ intent'[s] = "fresh"
      BY <1>t, <3>1 DEF NoJob, TypeOK
    <3> QED
      BY <3>2 DEF OrderedAt, Erasing
  <2>4. \/ pc'[q] = pc[q] /\ job'[q] = job[q]
        \/ Request(q)
    BY <1>t, OthersStay DEF IntentAges
  <2> QED
    BY <2>2, <2>3, <2>4
<1> QED
  BY <1>3, <1>4 DEF Ordered

\* A writer inside the gate brings back only what was never moved aside.
LEMMA WriteStep ==
  ASSUME IInv, Ordered, Awaited, NEW p \in Proc, Write(p)
  PROVE  Ordered' /\ Awaited'
<1> DEFINE s0 == On(p)
<1>t. TypeOK /\ pc \in [Proc -> Places] /\ job \in [Proc -> JobType] /\ s0 \in Scope
  BY JobTypes DEF IInv, TypeOK, On
<1>o. \A q \in Proc \ {p} : pc'[q] = pc[q] /\ job'[q] = job[q]
  BY <1>t, OthersStay DEF Steps, Append
<1>1. /\ UNCHANGED <<trash, tomb, intent, gone>> /\ pc[p] = "append" /\ pc'[p] = "idle"
      /\ \A s \in Scope \ {s0} : live'[s] = live[s]
  BY <1>t DEF Write, Done, Goto, At, TypeOK
<1>2. AllListed(s0)
  BY <1>1 DEF Ordered, OrderedAt, On
<1>3. Awaited'
  BY <1>1, <1>2 DEF Awaited, AllListed
<1>4. ASSUME NEW q \in Proc PROVE OrderedAt(pc[q], job[q])'
  <2>1. OrderedAt(pc[q], job[q])
    BY DEF Ordered
  <2>2. CASE q = p
    BY <1>1, <2>2 DEF OrderedAt, Erasing
  <2>3. CASE q # p
    BY <1>o, <1>1, <2>1, <2>3 DEF OrderedAt, AllListed
  <2> QED
    BY <2>2, <2>3
<1> QED
  BY <1>3, <1>4 DEF Ordered

\* What ErasedStaysErased rules out needs a process that removes the intent of an
\* eraser beside it: as long as nobody is about to do so while an eraser of the
\* same scope waits or works, a session that was moved aside never accepts an
\* event again, whoever dies or fails between the rename and the list.
THEOREM ErasedStayErasedUndisturbed == Spec /\ []Undisturbed => []ErasedStaysErased
<1>1. Init => Ordered /\ Awaited
  <2> SUFFICES ASSUME Init PROVE Ordered /\ Awaited
    OBVIOUS
  <2>1. \A q \in Proc : pc[q] = "idle"
    BY DEF Init
  <2> QED
    BY <2>1 DEF Init, Ordered, OrderedAt, Awaited, AllListed, Erasing
<1>2. ASSUME IInv, Ordered, Awaited, Undisturbed, [Next]_vars PROVE Ordered' /\ Awaited'
  <2>1. ASSUME NEW p \in Proc, Append(p) PROVE Ordered' /\ Awaited'
    BY <1>2, <2>1, QuietSteps, WriteStep DEF Append
  <2>2. ASSUME NEW p \in Proc, Erase(p) PROVE Ordered' /\ Awaited'
    BY <1>2, <2>2, QuietSteps, RenameStep, ListSteps, DropSteps DEF Erase
  <2>3. ASSUME NEW p \in Proc, Finish(p) PROVE Ordered' /\ Awaited'
    BY <1>2, <2>3, QuietSteps, ListSteps, DropSteps DEF Finish
  <2>4. ASSUME NEW p \in Proc, Collect(p) \/ Crash(p) \/ Fail(p) PROVE Ordered' /\ Awaited'
    BY <1>2, <2>4, QuietSteps
  <2>5. CASE IntentAges \/ \E p \in Proc : Request(p)
    BY <1>2, <2>5, IntentSteps
  <2>6. CASE BlobsAge \/ Rot \/ UNCHANGED vars
    <3>1. UNCHANGED <<live, trash, tomb, intent, gone, pc, job>>
      BY <2>6 DEF BlobsAge, Rot, vars, disk
    <3> QED
      BY <1>2, <3>1, OrderedQuiet
  <2> QED
    BY <1>2, <2>1, <2>2, <2>3, <2>4, <2>5, <2>6 DEF Next, Steps
<1>3. ASSUME IInv, Awaited PROVE ErasedStaysErased
  <2> SUFFICES ASSUME NEW s \in Scope, NEW g \in gone[s] \cap live[s] PROVE FALSE
    BY DEF ErasedStaysErased
  <2>1. g \notin tomb[s]
    BY <1>3 DEF IInv, ListedStaysErased
  <2>2. g \in trash[s] /\ live[s] # {}
    BY <1>3, <2>1 DEF Awaited
  <2> QED
    BY <1>3, <2>1, <2>2 DEF Awaited, AllListed
<1>4. IInv /\ Ordered /\ Awaited /\ Undisturbed /\ [Next]_vars => Ordered' /\ Awaited'
  BY <1>2
<1>5. IInv /\ Awaited => ErasedStaysErased
  BY <1>3
<1> QED
  BY AlwaysInv, <1>1, <1>4, <1>5, PTL DEF Spec
=============================================================================
