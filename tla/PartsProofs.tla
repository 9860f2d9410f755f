---------------------------- MODULE PartsProofs ----------------------------
(***************************************************************************)
(* The safety properties of the smaller parts, for any values of their     *)
(* constants.  A behaviour of Parts is one of a single part, so each       *)
(* invariant speaks of its part only, and a step of another part has       *)
(* nothing to show.                                                        *)
(***************************************************************************)
EXTENDS Parts, Sequences, SequenceTheorems, FiniteSetTheorems, NaturalsInduction,
        WellFoundedInduction, TLAPS

-----------------------------------------------------------------------------
(* LongConn: the queues of the sessions *)

\* A session has neither queue nor thread, and everything was handled; or one
\* queue and one thread, and what was queued was handled, is in hand or waits.
Drained(s) == pending[s] = {} /\ threads[s] = <<>> /\ queued[s] = handled[s]
Draining(s) == \E h \in Conn!Hands, q \in Seq(Message) :
  pending[s] = {q} /\ threads[s] = <<h>> /\ queued[s] = handled[s] \o (h \o q)

ConnTypes == /\ pending \in [Session -> SUBSET Seq(Message)]
             /\ threads \in [Session -> Seq(Conn!Hands)]
             /\ queued \in [Session -> Seq(Message)]
             /\ handled \in [Session -> Seq(Message)]
ConnInv == part = "conn" => ConnTypes /\ \A s \in Session : Drained(s) \/ Draining(s)

\* Queues are put behind one another in any order.
LEMMA Associates == \A a, b, c \in Seq(Message) : (a \o b) \o c = a \o (b \o c)
BY ConcatAssociative, SMTT(30)

\* One message is a sequence, and a message is appended by adding it.
LEMMA Appended ==
  ASSUME NEW S, NEW q \in Seq(S), NEW m \in S
  PROVE  <<m>> \in Seq(S) /\ Append(q, m) \in Seq(S) /\ Append(q, m) = q \o <<m>>
<1>1. <<m>> \in Seq(S) /\ Len(<<m>>) = 1 /\ <<m>>[1] = m
  OBVIOUS
<1>2. /\ Append(q, m) \in Seq(S) /\ Len(Append(q, m)) = Len(q) + 1 /\ Len(q) \in Nat
      /\ \A n \in 1 .. Len(q) + 1 : Append(q, m)[n] = IF n <= Len(q) THEN q[n] ELSE m
  OBVIOUS
<1>3. /\ q \o <<m>> \in Seq(S) /\ Len(q \o <<m>>) = Len(q) + 1
      /\ \A n \in 1 .. Len(q) + 1 :
           (q \o <<m>>)[n] = IF n <= Len(q) THEN q[n] ELSE <<m>>[n - Len(q)]
  BY <1>1, ConcatProperties
<1>4. \A n \in 1 .. Len(q) + 1 : Append(q, m)[n] = (q \o <<m>>)[n]
  <2> TAKE n \in 1 .. Len(q) + 1
  <2>1. n <= Len(q) \/ n - Len(q) = 1
    BY <1>2
  <2> QED
    BY <1>1, <1>2, <1>3, <2>1
<1>5. Append(q, m) = q \o <<m>>
  BY <1>2, <1>3, <1>4, SeqEqual
<1> QED
  BY <1>1, <1>2, <1>5

\* What a thread has in hand is a sequence of at most one message.
LEMMA HandSeq == ASSUME NEW h \in Conn!Hands PROVE h \in Seq(Message)
<1>1. CASE h = <<>>
  BY <1>1, EmptySeq
<1>2. CASE \E m \in Message : h = <<m>>
  BY <1>2
<1> QED
  BY <1>1, <1>2 DEF Conn!Hands, Conn!Idle

\* A session whose queue and thread a step leaves alone.
LEMMA SameSession ==
  ASSUME NEW s, pending'[s] = pending[s], threads'[s] = threads[s],
         queued'[s] = queued[s], handled'[s] = handled[s], Drained(s) \/ Draining(s)
  PROVE  (Drained(s) \/ Draining(s))'
<1>1. Drained(s) => Drained(s)'
  BY DEF Drained
<1>2. ASSUME Draining(s) PROVE Draining(s)'
  <2>1. PICK h \in Conn!Hands, q \in Seq(Message) :
          pending[s] = {q} /\ threads[s] = <<h>> /\ queued[s] = handled[s] \o (h \o q)
    BY <1>2 DEF Draining
  <2>2. pending'[s] = {q} /\ threads'[s] = <<h>> /\ queued'[s] = handled'[s] \o (h \o q)
    BY <2>1
  <2> QED
    BY <2>2 DEF Draining, Conn!Hands, Conn!Idle
<1> QED
  BY <1>1, <1>2

\* A message joins a queue, or a new one, at the end.
LEMMA QueueStep ==
  ASSUME ConnInv, part = "conn", NEW m \in Message, Conn!Join(m) \/ Conn!Open(m),
         part' = part
  PROVE  ConnInv'
<1> DEFINE t == SessionOf[m]
<1>a. t \in Session /\ ConnTypes /\ \A s \in Session : Drained(s) \/ Draining(s)
  BY ConnAssumption DEF ConnInv
<1>b. queued' = [queued EXCEPT ![t] = Append(queued[t], m)] /\ handled' = handled
  BY DEF Conn!Join, Conn!Open, Conn!Queue
<1>c. queued[t] \in Seq(Message) /\ handled[t] \in Seq(Message)
  BY <1>a DEF ConnTypes
<1>d. Append(queued[t], m) = queued[t] \o <<m>> /\ Append(queued[t], m) \in Seq(Message)
  BY <1>c, Appended
<1>e. /\ queued' \in [Session -> Seq(Message)] /\ handled' \in [Session -> Seq(Message)]
      /\ queued'[t] = queued[t] \o <<m>> /\ handled'[t] = handled[t]
      /\ \A s \in Session \ {t} : queued'[s] = queued[s] /\ handled'[s] = handled[s]
  BY <1>a, <1>b, <1>d DEF ConnTypes
<1>f. ConnTypes' /\ Draining(t)'
  <2>1. CASE Conn!Join(m)
    <3>1. PICK h \in Conn!Hands, q \in Seq(Message) :
            pending[t] = {q} /\ threads[t] = <<h>> /\ queued[t] = handled[t] \o (h \o q)
      BY <2>1, <1>a DEF Conn!Join, Drained, Draining
    <3>2. pending' = [pending EXCEPT ![t] = {Append(p, m) : p \in pending[t]}]
          /\ threads' = threads
      BY <2>1 DEF Conn!Join
    <3>3. {Append(p, m) : p \in pending[t]} = {Append(q, m)}
      BY <3>1
    <3>4. Append(q, m) \in Seq(Message) /\ Append(q, m) = q \o <<m>> /\ <<m>> \in Seq(Message)
      BY Appended
    <3>5. pending' = [pending EXCEPT ![t] = {Append(q, m)}]
      BY <3>2, <3>3
    <3>6. pending' \in [Session -> SUBSET Seq(Message)] /\ pending'[t] = {Append(q, m)}
      BY <1>a, <3>4, <3>5 DEF ConnTypes
    <3>7. h \in Seq(Message) /\ h \o q \in Seq(Message)
      BY HandSeq, ConcatProperties
    <3>8. h \o (q \o <<m>>) = (h \o q) \o <<m>>
      BY <3>4, <3>7, ConcatAssociative
    <3>9. (handled[t] \o (h \o q)) \o <<m>> = handled[t] \o ((h \o q) \o <<m>>)
      <4>1. \A a, b, c \in Seq(Message) : (a \o b) \o c = a \o (b \o c)
        BY Associates
      <4> QED
        BY <1>c, <3>4, <3>7, <4>1
    <3>10. queued'[t] = handled'[t] \o (h \o Append(q, m))
      BY <1>e, <3>1, <3>4, <3>8, <3>9
    <3>11. ConnTypes'
      BY <1>a, <1>e, <3>2, <3>6 DEF ConnTypes, Conn!Hands, Conn!Idle
    <3>12. Draining(t)'
      BY <3>1, <3>2, <3>4, <3>6, <3>10 DEF Draining, Conn!Hands, Conn!Idle
    <3> QED
      BY <3>11, <3>12
  <2>2. CASE Conn!Open(m)
    <3>1. /\ pending' = [pending EXCEPT ![t] = {<<m>>}]
          /\ threads' = [threads EXCEPT ![t] = Append(threads[t], Conn!Idle)]
          /\ pending[t] = {}
      BY <2>2 DEF Conn!Open
    <3>2. threads[t] = <<>> /\ queued[t] = handled[t]
      BY <1>a, <3>1 DEF Drained, Draining
    <3>3. Conn!Idle \in Conn!Hands /\ Conn!Idle = <<>> /\ <<m>> \in Seq(Message)
          /\ <<Conn!Idle>> \in Seq(Conn!Hands)
      BY DEF Conn!Hands, Conn!Idle
    <3>4. Append(threads[t], Conn!Idle) = <<Conn!Idle>>
      BY <3>2
    <3>5. /\ pending' \in [Session -> SUBSET Seq(Message)] /\ pending'[t] = {<<m>>}
          /\ threads' \in [Session -> Seq(Conn!Hands)] /\ threads'[t] = <<Conn!Idle>>
      BY <1>a, <3>1, <3>3, <3>4 DEF ConnTypes
    <3>6. <<>> \o <<m>> = <<m>>
      BY <3>3, ConcatEmptySeq
    <3>7. queued'[t] = handled'[t] \o (Conn!Idle \o <<m>>)
      BY <1>e, <3>2, <3>3, <3>6
    <3>8. ConnTypes'
      BY <1>e, <3>5 DEF ConnTypes, Conn!Hands, Conn!Idle
    <3>9. Draining(t)'
      BY <3>3, <3>5, <3>7 DEF Draining, Conn!Hands, Conn!Idle
    <3> QED
      BY <3>8, <3>9
  <2> QED
    BY <2>1, <2>2
<1>g. \A s \in Session \ {t} : pending'[s] = pending[s] /\ threads'[s] = threads[s]
  BY <1>a DEF Conn!Join, Conn!Open, ConnTypes
<1>1. \A s \in Session \ {t} : (Drained(s) \/ Draining(s))'
  BY <1>a, <1>e, <1>g, SameSession
<1> QED
  BY <1>f, <1>1 DEF ConnInv

\* A thread takes a message, handles it, or ends with its queue.
LEMMA DrainStep ==
  ASSUME ConnInv, part = "conn", NEW t \in Session, NEW n \in DOMAIN threads[t],
         Conn!Take(t, n) \/ Conn!Handle(t, n), part' = part
  PROVE  ConnInv'
<1>a. ConnTypes /\ \A s \in Session : Drained(s) \/ Draining(s)
  BY DEF ConnInv
<1>b. PICK h \in Conn!Hands, q \in Seq(Message) :
        pending[t] = {q} /\ threads[t] = <<h>> /\ queued[t] = handled[t] \o (h \o q)
  <2>1. threads[t] # <<>>
    OBVIOUS
  <2> QED
    BY <1>a, <2>1 DEF Drained, Draining
<1>c. n = 1 /\ threads[t][n] = h
  BY <1>b
<1>d. queued[t] \in Seq(Message) /\ handled[t] \in Seq(Message) /\ h \in Seq(Message)
  BY <1>a, HandSeq DEF ConnTypes
<1>e. <<>> \in Conn!Hands /\ Conn!Idle = <<>> /\ <<>> \in Seq(Message)
      /\ <<<<>>>> \in Seq(Conn!Hands)
  BY EmptySeq DEF Conn!Hands, Conn!Idle
<1>1. CASE Conn!Take(t, n) /\ q = <<>>
  <2>1. /\ h = <<>> /\ queued' = queued /\ handled' = handled
        /\ pending' = [pending EXCEPT ![t] = {}]
        /\ threads' = [threads EXCEPT ![t] = Conn!RemoveAt(threads[t], n)]
    BY <1>1, <1>b, <1>c, <1>e DEF Conn!Take
  <2>2. Conn!RemoveAt(threads[t], n) = <<>>
    <3>1. SubSeq(threads[t], 1, 0) = <<>> /\ SubSeq(threads[t], 2, 1) = <<>>
      BY SubSeqEmpty
    <3>2. Len(threads[t]) = 1 /\ <<>> \o <<>> = <<>>
      BY <1>b, <1>e, ConcatEmptySeq
    <3> QED
      BY <1>c, <3>1, <3>2 DEF Conn!RemoveAt
  <2>3. queued[t] = handled[t]
    BY <1>b, <1>d, <1>e, <1>1, <2>1, ConcatEmptySeq
  <2>4. ConnTypes' /\ pending'[t] = {} /\ threads'[t] = <<>>
    <3>1. {} \in SUBSET Seq(Message) /\ <<>> \in Seq(Conn!Hands)
      BY EmptySeq
    <3> QED
      BY <1>a, <2>1, <2>2, <3>1 DEF ConnTypes, Conn!Hands, Conn!Idle
  <2>5. Drained(t)'
    BY <2>1, <2>3, <2>4 DEF Drained
  <2>6. \A s \in Session \ {t} : pending'[s] = pending[s] /\ threads'[s] = threads[s]
    BY <1>a, <2>1 DEF ConnTypes
  <2> QED
    BY <1>a, <2>1, <2>4, <2>5, <2>6, SameSession DEF ConnInv
<1>2. CASE Conn!Take(t, n) /\ q # <<>>
  <2>1. /\ h = <<>> /\ queued' = queued /\ handled' = handled
        /\ pending' = [pending EXCEPT ![t] = {Tail(q)}]
        /\ threads' = [threads EXCEPT ![t][n] = <<q[1]>>]
    BY <1>2, <1>b, <1>c, <1>e DEF Conn!Take
  <2>2. q[1] \in Message /\ Tail(q) \in Seq(Message) /\ <<q[1]>> \o Tail(q) = q
    <3>1. Len(q) \in Nat /\ Len(q) # 0
      BY <1>2, EmptySeq
    <3>2. Tail(q) = SubSeq(q, 2, Len(q)) /\ SubSeq(q, 1, Len(q)) = q
      BY <1>2, TailIsSubSeq, SubSeqFull
    <3>3. SubSeq(q, 1, Len(q)) = <<q[1]>> \o SubSeq(q, 2, Len(q))
      BY <3>1, SubSeqRecursiveFirst
    <3> QED
      BY <1>2, <3>1, <3>2, <3>3, HeadTailProperties, ElementOfSeq
  <2>3. <<q[1]>> \in Conn!Hands /\ <<<<q[1]>>>> \in Seq(Conn!Hands)
    BY <2>2 DEF Conn!Hands
  <2>4. [threads[t] EXCEPT ![n] = <<q[1]>>] = <<<<q[1]>>>>
    BY <1>b, <1>c
  <2>5. threads' = [threads EXCEPT ![t] = <<<<q[1]>>>>]
    BY <2>1, <2>4
  <2>6. /\ pending' \in [Session -> SUBSET Seq(Message)] /\ pending'[t] = {Tail(q)}
        /\ threads' \in [Session -> Seq(Conn!Hands)] /\ threads'[t] = <<<<q[1]>>>>
        /\ \A s \in Session \ {t} : pending'[s] = pending[s] /\ threads'[s] = threads[s]
    BY <1>a, <2>1, <2>2, <2>3, <2>5 DEF ConnTypes
  <2>7. ConnTypes'
    BY <1>a, <2>1, <2>6 DEF ConnTypes, Conn!Hands, Conn!Idle
  <2>8. queued'[t] = handled'[t] \o (<<q[1]>> \o Tail(q))
    BY <1>b, <2>1, <2>2, ConcatEmptySeq
  <2>9. Draining(t)'
    BY <2>2, <2>3, <2>6, <2>8 DEF Draining, Conn!Hands, Conn!Idle
  <2> QED
    BY <1>a, <2>1, <2>6, <2>7, <2>9, SameSession DEF ConnInv
<1>3. CASE Conn!Handle(t, n)
  <2>1. /\ handled' = [handled EXCEPT ![t] = handled[t] \o h]
        /\ threads' = [threads EXCEPT ![t][n] = <<>>]
        /\ pending' = pending /\ queued' = queued
    BY <1>3, <1>c, <1>e DEF Conn!Handle
  <2>2. [threads[t] EXCEPT ![n] = <<>>] = <<<<>>>>
    BY <1>b, <1>c
  <2>3. threads' = [threads EXCEPT ![t] = <<<<>>>>]
    BY <2>1, <2>2
  <2>4. handled[t] \o h \in Seq(Message)
    BY <1>d, ConcatProperties
  <2>5. /\ threads' \in [Session -> Seq(Conn!Hands)] /\ threads'[t] = <<<<>>>>
        /\ handled' \in [Session -> Seq(Message)] /\ handled'[t] = handled[t] \o h
        /\ \A s \in Session \ {t} : threads'[s] = threads[s] /\ handled'[s] = handled[s]
    BY <1>a, <1>e, <2>1, <2>3, <2>4 DEF ConnTypes
  <2>6. ConnTypes'
    BY <1>a, <2>1, <2>5 DEF ConnTypes, Conn!Hands, Conn!Idle
  <2>7. queued'[t] = handled'[t] \o (<<>> \o q)
    <3>1. <<>> \o q = q /\ (handled[t] \o h) \o q = handled[t] \o (h \o q)
      <4>1. \A a, b, c \in Seq(Message) : (a \o b) \o c = a \o (b \o c)
        BY Associates
      <4> QED
        BY <1>d, <4>1, ConcatEmptySeq
    <3> QED
      BY <1>b, <2>1, <2>5, <3>1
  <2>8. Draining(t)'
    BY <1>b, <1>e, <2>1, <2>5, <2>7 DEF Draining, Conn!Hands, Conn!Idle
  <2> QED
    BY <1>a, <2>1, <2>5, <2>6, <2>8, SameSession DEF ConnInv
<1> QED
  BY <1>1, <1>2, <1>3

\* Every step keeps it.
LEMMA ConnNext == ASSUME ConnInv, [Next]_vars PROVE ConnInv'
<1> SUFFICES ASSUME part' = "conn" PROVE ConnInv'
  BY DEF ConnInv
<1>a. part' = part /\ part = "conn"
  BY DEF Next, WindowStep, ConnStep, MigrateStep, ProfileStep, CatalogStep, LevelsStep, vars
<1>1. CASE UNCHANGED <<pending, threads, queued, handled>>
  <2>1. pending' = pending /\ threads' = threads /\ queued' = queued /\ handled' = handled
    BY <1>1
  <2>2. ConnTypes'
    BY <1>a, <2>1 DEF ConnInv, ConnTypes, Conn!Hands, Conn!Idle
  <2> QED
    BY <1>a, <2>1, <2>2, SameSession DEF ConnInv
<1>2. CASE Conn!Next
  <2>1. ASSUME NEW m \in Message, Conn!Join(m) \/ Conn!Open(m) PROVE ConnInv'
    BY <1>a, <2>1, QueueStep
  <2>2. ASSUME NEW m \in Message, Conn!OpenFails(m) \/ Conn!Ignored(m)
        PROVE  UNCHANGED <<pending, threads, queued, handled>>
    BY <2>2 DEF Conn!OpenFails, Conn!Ignored
  <2>3. ASSUME NEW s \in Session, NEW n \in DOMAIN threads[s], Conn!Take(s, n) \/ Conn!Handle(s, n)
        PROVE  ConnInv'
    BY <1>a, <2>3, DrainStep
  <2>4. CASE Conn!Restart
    <3>1. /\ pending' = [s \in Session |-> {}] /\ threads' = [s \in Session |-> <<>>]
          /\ queued' = [s \in Session |-> <<>>] /\ handled' = [s \in Session |-> <<>>]
      BY <2>4 DEF Conn!Restart
    <3>2. ConnTypes' /\ \A s \in Session : Drained(s)'
      BY <3>1, EmptySeq DEF ConnTypes, Drained
    <3> QED
      BY <3>2 DEF ConnInv
  <2> QED
    BY <1>1, <1>2, <2>1, <2>2, <2>3, <2>4 DEF Conn!Next
<1> QED
  BY <1>a, <1>1, <1>2 DEF Next, WindowStep, ConnStep, MigrateStep, ProfileStep, CatalogStep,
     LevelsStep, vars, conn

\* It says what the property says.
LEMMA ConnAccounted == ASSUME ConnInv PROVE Accounted
<1> SUFFICES ASSUME part = "conn", NEW s \in Session
             PROVE  /\ Len(threads[s]) = (IF pending[s] = {} THEN 0 ELSE 1)
                    /\ queued[s] = handled[s] \o Conn!InHand(s) \o Conn!Waiting(s)
  BY DEF Accounted, Conn!Accounted
<1>a. handled[s] \in Seq(Message) /\ (Drained(s) \/ Draining(s))
  BY DEF ConnInv, ConnTypes
<1>1. CASE Drained(s)
  <2>1. Conn!InHand(s) = <<>> /\ Conn!Waiting(s) = <<>> /\ Len(threads[s]) = 0
    BY <1>1 DEF Drained, Conn!InHand, Conn!Waiting, Conn!Idle
  <2> QED
    BY <1>a, <1>1, <2>1, ConcatEmptySeq DEF Drained
<1>2. CASE Draining(s)
  <2>1. PICK h \in Conn!Hands, q \in Seq(Message) :
          pending[s] = {q} /\ threads[s] = <<h>> /\ queued[s] = handled[s] \o (h \o q)
    BY <1>2 DEF Draining
  <2>2. Conn!InHand(s) = h /\ Len(threads[s]) = 1
    BY <2>1 DEF Conn!InHand
  <2>3. Conn!Waiting(s) = q
    BY <2>1 DEF Conn!Waiting
  <2>4. handled[s] \o (h \o q) = handled[s] \o h \o q
    <3>1. \A a, b, c \in Seq(Message) : (a \o b) \o c = a \o (b \o c)
      BY Associates
    <3> QED
      BY <1>a, <3>1, HandSeq
  <2> QED
    BY <2>1, <2>2, <2>3, <2>4
<1> QED
  BY <1>a, <1>1, <1>2

\* A session has a queue exactly while its one thread drains it, and handles
\* what was queued one message at a time and in order, however deliveries,
\* threads and restarts interleave.
THEOREM EveryMessageAccounted == Spec => []Accounted
<1>1. Init => ConnInv
  <2> SUFFICES ASSUME Init, part = "conn" PROVE ConnInv
    BY DEF ConnInv
  <2>1. /\ pending = [s \in Session |-> {}] /\ threads = [s \in Session |-> <<>>]
        /\ queued = [s \in Session |-> <<>>] /\ handled = [s \in Session |-> <<>>]
    BY DEF Init, Conn!Init, Conn!Fresh
  <2>2. ConnTypes /\ \A s \in Session : Drained(s)
    BY <2>1, EmptySeq DEF ConnTypes, Drained
  <2> QED
    BY <2>2 DEF ConnInv
<1>2. ConnInv /\ [Next]_vars => ConnInv'
  BY ConnNext
<1>3. ConnInv => Accounted
  BY ConnAccounted
<1> QED
  BY <1>1, <1>2, <1>3, PTL DEF Spec

-----------------------------------------------------------------------------
(* Migration: files, their backup and the blobs they refer to *)

\* A file of a version finds the blobs it refers to.
Finds(f, version) == Migrate!Refers(version, f[1]) \subseteq blobs
Old == {"old", "torn"}

MigTypes ==
  /\ files \in [Migrate!Slots -> Migrate!Versions] /\ run \in Migrate!RunType
  /\ backup.files \in [Migrate!Slots -> Migrate!Versions]
  /\ pc \in {"off", "stage", "replace", "verify", "restore", "scan", "collect", "cleanup"}
  /\ outcome \in {"none", "running", "done", "raised", "died"}

\* Every file that a collection could read finds its blobs, as it is, as it was,
\* and as it will be; what is collected is no blob of such a file.
MigBlobs ==
  /\ \A f \in Migrate!AllFiles \ unread : Finds(f, files[f])
  /\ pc \in {"stage", "replace", "verify", "restore"} =>
       \A f \in Migrate!AllFiles \ unread : Finds(f, backup.files[f])
  /\ pc = "stage" => \A f \in Migrate!AllFiles : f[1] \notin run.todo => Finds(f, "new")
  /\ pc = "replace" => \A f \in Migrate!AllFiles : Finds(f, "new")
  /\ pc = "collect" =>
       \A f \in Migrate!AllFiles \ unread : Migrate!Refers(files[f], f[1]) \subseteq run.live

\* The files that a run has not replaced, or has put back, are what they were,
\* but for one whose directory could not be synced; the others are migrated.
\* What is put back is of the old form, as it was read.
MigFiles ==
  /\ pc = "stage" => files = backup.files /\ run.replaced = {}
  /\ pc = "stage" => \A f \in Migrate!AllFiles : f[1] \notin run.todo => backup.files[f] \in Old
  /\ pc \in {"replace", "verify", "restore"} =>
       /\ run.replaced \subseteq Migrate!AllFiles
       /\ \A f \in Migrate!AllFiles : backup.files[f] \in Old
       /\ ~run.undirected => \A f \in Migrate!Slots \ run.replaced : files[f] = backup.files[f]
  /\ pc \in {"replace", "verify"} => \A f \in run.replaced : files[f] = "new"
  /\ pc = "verify" => run.replaced = Migrate!AllFiles
  /\ pc \in {"stage", "replace", "verify", "restore"} => ~run.verified /\ ~run.halfway
  /\ pc \in {"scan", "collect"} => run.verified
  /\ pc \in {"scan", "collect"} \/ outcome = "done" =>
       \A f \in Migrate!AllFiles : files[f] = "new"
  /\ (pc = "cleanup" \/ outcome = "raised") /\ run.verified =>
       \A f \in Migrate!AllFiles : files[f] = "new"
  /\ (pc = "cleanup" \/ outcome = "raised") /\ ~run.verified =>
       outcome # "done" /\ (~run.undirected /\ ~run.halfway => files = backup.files)

\* Where a run is when it has ended one way or the other.
MigOutcome == /\ pc \notin {"off", "cleanup"} => outcome = "running"
              /\ pc = "cleanup" => outcome \in {"running", "done"}

MigInv == part = "migrate" => MigTypes /\ MigBlobs /\ MigFiles /\ MigOutcome

\* A file of the session is a slot.
LEMMA FilesAreSlots == Migrate!AllFiles \subseteq Migrate!Slots
BY DEF Migrate!AllFiles, Migrate!Files

\* A run starts, reads and stages.
LEMMA StageStep ==
  ASSUME MigInv, part = "migrate", part' = part, parts' = parts,
         \/ Migrate!Begin \/ Migrate!StageRaises \/ Migrate!AllStaged
         \/ \E s \in Session : Migrate!Read(s)
         \/ \E f \in Migrate!Slots : Migrate!Stage(f)
  PROVE  MigInv'
<1> USE DEF MigTypes, MigBlobs, MigFiles, MigOutcome
<1>a. MigTypes /\ MigBlobs /\ MigFiles /\ MigOutcome
  BY DEF MigInv
<1>b. Migrate!AllFiles' = Migrate!AllFiles /\ Migrate!Slots' = Migrate!Slots
  BY DEF Migrate!AllFiles, Migrate!Files, Migrate!Slots
<1>c. \A f, v : Finds(f, v) /\ blobs \subseteq blobs' => Finds(f, v)'
  BY DEF Finds, Migrate!Refers
<1>1. CASE Migrate!Begin
  <2>1. /\ pc = "off" /\ pc' = "stage" /\ outcome' = "running" /\ files' = files /\ blobs' = blobs
        /\ backup'.files = files /\ run'.todo = Session /\ run'.replaced = {}
        /\ run'.undirected = FALSE /\ run'.halfway = FALSE /\ run'.verified = FALSE
        /\ run' \in Migrate!RunType /\ unread' = unread
    BY <1>1 DEF Migrate!Begin, Migrate!Goto, Migrate!NoRun, Migrate!RunType
  <2>2. \A f \in Migrate!AllFiles : f[1] \in Session
    BY DEF Migrate!AllFiles, Migrate!Files
  <2>a. Migrate!RunType' = Migrate!RunType /\ Migrate!Versions' = Migrate!Versions
    BY DEF Migrate!RunType, Migrate!Blobs, Migrate!Versions, Migrate!Slots
  <2>3. MigTypes'
    <3>1. files' \in [Migrate!Slots' -> Migrate!Versions']
      BY <1>a, <1>b, <2>1, <2>a
    <3>2. backup'.files \in [Migrate!Slots' -> Migrate!Versions']
      BY <1>a, <1>b, <2>1, <2>a
    <3>3. run' \in Migrate!RunType'
      BY <2>1, <2>a
    <3> QED
      BY <2>1, <3>1, <3>2, <3>3
  <2>4. MigBlobs'
    BY <1>a, <1>b, <1>c, <2>1, <2>2
  <2>c. \A f \in Migrate!AllFiles : f[1] \in run'.todo
    BY <2>1, <2>2
  <2>5. MigFiles'
    <3>1. run'.replaced = {} /\ ~run'.verified /\ ~run'.halfway /\ ~run'.undirected
      BY <2>1
    <3>2. pc' = "stage" /\ outcome' = "running" /\ files' = backup'.files
      BY <2>1
    <3> QED
      BY <1>b, <2>c, <3>1, <3>2
  <2>6. MigOutcome'
    BY <2>1
  <2> QED
    BY <2>3, <2>4, <2>5, <2>6 DEF MigInv
<1>2. CASE Migrate!StageRaises
  <2>1. /\ pc = "stage" /\ pc' = "cleanup" /\ UNCHANGED <<files, blobs, backup, run, outcome, unread>>
    BY <1>2 DEF Migrate!StageRaises, Migrate!Goto
  <2>2. MigTypes'
    BY <1>a, <2>1 DEF Migrate!Slots, Migrate!Versions, Migrate!RunType
  <2>3. MigBlobs' /\ MigFiles' /\ MigOutcome'
    BY <1>a, <1>b, <1>c, <2>1
  <2> QED
    BY <2>2, <2>3 DEF MigInv
<1>3. CASE Migrate!AllStaged
  <2>1. /\ pc = "stage" /\ pc' = "replace" /\ UNCHANGED <<files, blobs, backup, run, outcome, unread>>
        /\ run.todo = {}
    BY <1>3 DEF Migrate!AllStaged, Migrate!Goto
  <2>2. MigTypes'
    BY <1>a, <2>1 DEF Migrate!Slots, Migrate!Versions, Migrate!RunType
  <2>3. MigBlobs' /\ MigFiles' /\ MigOutcome'
    BY <1>a, <1>b, <1>c, <2>1
  <2> QED
    BY <2>2, <2>3 DEF MigInv
<1>4. ASSUME NEW s \in Session, Migrate!Read(s) PROVE MigInv'
  <2>1. /\ pc = "stage" /\ pc' = pc /\ UNCHANGED <<files, backup, outcome, unread>>
        /\ blobs' = blobs \cup Migrate!Refers("new", s)
        /\ run' = [run EXCEPT !.todo = run.todo \ {s}]
        /\ \A f \in Migrate!Files(s) : files[f] \in Old
    BY <1>4 DEF Migrate!Read, Migrate!Transformed, Migrate!OldForm, Old
  <2>2. run' \in Migrate!RunType /\ run'.todo = run.todo \ {s} /\ run'.replaced = run.replaced
        /\ run'.undirected = run.undirected /\ run'.halfway = run.halfway
        /\ run'.verified = run.verified
    BY <1>a, <2>1 DEF Migrate!RunType
  <2>3. MigTypes'
    BY <1>a, <2>1, <2>2 DEF Migrate!Slots, Migrate!Versions, Migrate!RunType
  <2>4. \A f \in Migrate!AllFiles : f[1] = s => Finds(f, "new")'
    BY <2>1 DEF Finds, Migrate!Refers
  <2>5. MigBlobs'
    BY <1>a, <1>b, <1>c, <2>1, <2>2, <2>4
  <2>a. \A f \in Migrate!AllFiles : f[1] = s => f \in Migrate!Files(s)
    BY DEF Migrate!AllFiles, Migrate!Files
  <2>6. MigFiles' /\ MigOutcome'
    BY <1>a, <1>b, <2>1, <2>2, <2>a
  <2> QED
    BY <2>3, <2>5, <2>6 DEF MigInv
<1>5. ASSUME NEW f \in Migrate!Slots, Migrate!Stage(f) PROVE MigInv'
  <2>1. /\ pc = "stage" /\ pc' = pc /\ UNCHANGED <<files, blobs, backup, outcome, unread>>
        /\ run' = [run EXCEPT !.staged = run.staged \cup {f}]
    BY <1>5 DEF Migrate!Stage
  <2>2. run' \in Migrate!RunType /\ run'.todo = run.todo /\ run'.replaced = run.replaced
        /\ run'.undirected = run.undirected /\ run'.halfway = run.halfway
        /\ run'.verified = run.verified
    BY <1>a, <2>1 DEF Migrate!RunType
  <2>3. MigTypes'
    BY <1>a, <2>1, <2>2 DEF Migrate!Slots, Migrate!Versions, Migrate!RunType
  <2>4. MigBlobs'
    BY <1>a, <1>b, <1>c, <2>1, <2>2
  <2>5. MigFiles' /\ MigOutcome'
    BY <1>a, <1>b, <2>1, <2>2
  <2> QED
    BY <2>3, <2>4, <2>5 DEF MigInv
<1> QED
  BY <1>1, <1>2, <1>3, <1>4, <1>5

\* A copy that is cut off leaves a beginning of old records, whose blobs are there.
LEMMA TornFinds ==
  ASSUME MigTypes, MigBlobs, MigFiles, pc = "restore", Migrate!Torn
  PROVE  /\ files' \in [Migrate!Slots -> Migrate!Versions]
         /\ \A f \in Migrate!AllFiles \ unread : Finds(f, files'[f])
<1>1. PICK g \in run.replaced : files' = [files EXCEPT ![g] = "torn"]
  BY DEF Migrate!Torn
<1>2. g \in Migrate!AllFiles /\ g \in Migrate!Slots
  BY <1>1, FilesAreSlots DEF MigFiles
<1>3. /\ files' \in [Migrate!Slots -> Migrate!Versions] /\ files'[g] = "torn"
      /\ \A f \in Migrate!Slots \ {g} : files'[f] = files[f]
  BY <1>1, <1>2 DEF MigTypes, Migrate!Versions
<1>4. g \notin unread => Finds(g, backup.files[g]) /\ backup.files[g] \in Old
  BY <1>2 DEF MigBlobs, MigFiles
<1>5. g \notin unread => Finds(g, "torn")
  BY <1>4 DEF Finds, Old, Migrate!Refers
<1> QED
  BY <1>3, <1>5, FilesAreSlots DEF MigBlobs

\* A run replaces the files, reads them, and puts them back if that fails.
LEMMA ReplaceStep ==
  ASSUME MigInv, part = "migrate", part' = part, parts' = parts,
         \/ Migrate!Verify \/ Migrate!VerifyRaises \/ Migrate!Restore \/ Migrate!RestoreRaises
         \/ \E f \in Migrate!Slots : Migrate!Replace(f) \/ Migrate!ReplaceRaises(f)
  PROVE  MigInv'
<1> USE DEF MigTypes, MigBlobs, MigFiles, MigOutcome
<1>a. MigTypes /\ MigBlobs /\ MigFiles /\ MigOutcome
  BY DEF MigInv
<1>b. Migrate!AllFiles' = Migrate!AllFiles /\ Migrate!Slots' = Migrate!Slots
  BY DEF Migrate!AllFiles, Migrate!Files, Migrate!Slots
<1>c. UNCHANGED <<blobs, unread>>
  BY DEF Migrate!Verify, Migrate!VerifyRaises, Migrate!Restore, Migrate!Replace,
     Migrate!ReplaceRaises, Migrate!RestoreRaises
<1>d. \A f, v : Finds(f, v) => Finds(f, v)'
  BY <1>c DEF Finds, Migrate!Refers
<1>e. \A v \in Migrate!Versions, f \in Migrate!Slots :
        [files EXCEPT ![f] = v] \in [Migrate!Slots -> Migrate!Versions]
  BY <1>a
<1>f. "new" \in Migrate!Versions
  BY DEF Migrate!Versions
<1>1. CASE Migrate!Verify
  <2>1. /\ pc = "verify" /\ pc' = "scan" /\ UNCHANGED <<files, backup, outcome>>
        /\ run' = [run EXCEPT !.verified = TRUE]
    BY <1>1 DEF Migrate!Verify, Migrate!Goto
  <2>a. run' \in Migrate!RunType /\ run'.verified = TRUE
    BY <1>a, <2>1 DEF Migrate!RunType
  <2>2. MigTypes'
    BY <1>a, <2>1, <2>a DEF Migrate!Slots, Migrate!Versions, Migrate!RunType
  <2>3. MigBlobs' /\ MigFiles' /\ MigOutcome'
    BY <1>a, <1>b, <1>c, <1>d, <2>1, <2>a
  <2> QED
    BY <2>2, <2>3 DEF MigInv
<1>2. CASE Migrate!VerifyRaises
  <2>1. /\ pc = "verify" /\ pc' = "restore" /\ UNCHANGED <<files, backup, run, outcome>>
    BY <1>2 DEF Migrate!VerifyRaises, Migrate!Goto
  <2>2. MigTypes'
    BY <1>a, <2>1 DEF Migrate!Slots, Migrate!Versions, Migrate!RunType
  <2>3. MigBlobs' /\ MigFiles' /\ MigOutcome'
    BY <1>a, <1>b, <1>c, <1>d, <2>1
  <2> QED
    BY <2>2, <2>3 DEF MigInv
<1>3. CASE Migrate!Restore
  <2>1. /\ pc = "restore" /\ UNCHANGED <<backup, outcome>>
    BY <1>3 DEF Migrate!Restore
  <2>2. CASE run.replaced = {} /\ pc' = "cleanup" /\ UNCHANGED <<files, run>>
    <3>1. MigTypes'
      BY <1>a, <2>1, <2>2 DEF Migrate!Slots, Migrate!Versions, Migrate!RunType
    <3>2. ~run.undirected => files = backup.files
      BY <1>a, <2>1, <2>2
    <3>3. MigBlobs' /\ MigFiles' /\ MigOutcome'
      BY <1>a, <1>b, <1>c, <1>d, <2>1, <2>2, <3>2
    <3> QED
      BY <3>1, <3>3 DEF MigInv
  <2>3. ASSUME NEW f \in run.replaced, files' = [files EXCEPT ![f] = backup.files[f]], pc' = pc,
               run' = [run EXCEPT !.replaced = run.replaced \ {f}]
        PROVE  MigInv'
    <3>1. /\ run' \in Migrate!RunType /\ run'.replaced = run.replaced \ {f}
          /\ run'.undirected = run.undirected /\ run'.todo = run.todo
        /\ run'.halfway = run.halfway /\ run'.verified = run.verified
      BY <1>a, <2>3 DEF Migrate!RunType
    <3>2. f \in Migrate!Slots /\ f \in Migrate!AllFiles /\ backup.files[f] \in Migrate!Versions
      BY <1>a, <2>1, FilesAreSlots
    <3>3. /\ files' \in [Migrate!Slots -> Migrate!Versions] /\ files'[f] = backup.files[f]
          /\ \A g \in Migrate!Slots \ {f} : files'[g] = files[g]
      BY <1>a, <1>e, <2>3, <3>2
    <3>4. MigTypes'
      BY <1>a, <2>1, <2>3, <3>1, <3>3 DEF Migrate!Slots, Migrate!Versions, Migrate!RunType
    <3>5. MigBlobs'
      BY <1>a, <1>b, <1>c, <1>d, <2>1, <2>3, <3>2, <3>3, FilesAreSlots
    <3>6. MigFiles' /\ MigOutcome'
      BY <1>a, <1>b, <2>1, <2>3, <3>1, <3>2, <3>3
    <3> QED
      BY <3>4, <3>5, <3>6 DEF MigInv
  <2> QED
    BY <1>3, <2>2, <2>3 DEF Migrate!Restore, Migrate!Goto
<1>4. ASSUME NEW f \in Migrate!Slots, Migrate!Replace(f) PROVE MigInv'
  <2>1. /\ pc = "replace" /\ pc' \in {"verify", "replace"} /\ UNCHANGED <<backup, outcome>>
        /\ f \in Migrate!AllFiles /\ files' = [files EXCEPT ![f] = "new"]
        /\ run' = [run EXCEPT !.replaced = run.replaced \cup {f}]
        /\ pc' = "verify" => run'.replaced = Migrate!AllFiles
    BY <1>4 DEF Migrate!Replace, Migrate!Replaced, Migrate!Goto
  <2>2. /\ run' \in Migrate!RunType /\ run'.replaced = run.replaced \cup {f}
        /\ run'.undirected = run.undirected /\ run'.todo = run.todo
        /\ run'.halfway = run.halfway /\ run'.verified = run.verified
    BY <1>a, <2>1 DEF Migrate!RunType
  <2>3. /\ files' \in [Migrate!Slots -> Migrate!Versions] /\ files'[f] = "new"
        /\ \A g \in Migrate!Slots \ {f} : files'[g] = files[g]
    BY <1>a, <1>e, <1>f, <2>1
  <2>4. MigTypes'
    BY <1>a, <2>1, <2>2, <2>3 DEF Migrate!Slots, Migrate!Versions, Migrate!RunType
  <2>5. MigBlobs'
    BY <1>a, <1>b, <1>c, <1>d, <2>1, <2>3, FilesAreSlots
  <2>6. MigFiles' /\ MigOutcome'
    BY <1>a, <1>b, <2>1, <2>2, <2>3, FilesAreSlots
  <2> QED
    BY <2>4, <2>5, <2>6 DEF MigInv
<1>5. ASSUME NEW f \in Migrate!Slots, Migrate!ReplaceRaises(f) PROVE MigInv'
  <2>1. /\ pc = "replace" /\ pc' = "restore" /\ UNCHANGED <<backup, outcome>>
        /\ f \in Migrate!AllFiles
    BY <1>5 DEF Migrate!ReplaceRaises, Migrate!Goto
  <2>2. CASE UNCHANGED <<files, run>>
    <3>1. MigTypes'
      BY <1>a, <2>1, <2>2 DEF Migrate!Slots, Migrate!Versions, Migrate!RunType
    <3>2. MigBlobs' /\ MigFiles' /\ MigOutcome'
      BY <1>a, <1>b, <1>c, <1>d, <2>1, <2>2
    <3> QED
      BY <3>1, <3>2 DEF MigInv
  <2>3. CASE files' = [files EXCEPT ![f] = "new"] /\ run' = [run EXCEPT !.undirected = TRUE]
    <3>1. /\ run' \in Migrate!RunType /\ run'.replaced = run.replaced
          /\ run'.undirected = TRUE /\ run'.todo = run.todo
          /\ run'.halfway = run.halfway /\ run'.verified = run.verified
      BY <1>a, <2>3 DEF Migrate!RunType
    <3>2. /\ files' \in [Migrate!Slots -> Migrate!Versions] /\ files'[f] = "new"
          /\ \A g \in Migrate!Slots \ {f} : files'[g] = files[g]
      BY <1>a, <1>e, <1>f, <2>3
    <3>3. MigTypes'
      BY <1>a, <2>1, <3>1, <3>2 DEF Migrate!Slots, Migrate!Versions, Migrate!RunType
    <3>4. MigBlobs'
      BY <1>a, <1>b, <1>c, <1>d, <2>1, <3>1, <3>2, FilesAreSlots
    <3>5. MigFiles' /\ MigOutcome'
      BY <1>a, <1>b, <2>1, <3>1, <3>2, FilesAreSlots
    <3> QED
      BY <3>3, <3>4, <3>5 DEF MigInv
  <2> QED
    BY <1>5, <2>2, <2>3 DEF Migrate!ReplaceRaises, Migrate!Replaced
<1>6. CASE Migrate!RestoreRaises
  <2>1. /\ pc = "restore" /\ pc' = "cleanup" /\ UNCHANGED <<backup, outcome>>
        /\ run' = [run EXCEPT !.halfway = (run.replaced # {})]
        /\ files' = files \/ Migrate!Torn
    BY <1>6 DEF Migrate!RestoreRaises, Migrate!Goto
  <2>2. /\ run' \in Migrate!RunType /\ run'.halfway = (run.replaced # {})
        /\ run'.undirected = run.undirected /\ run'.verified = run.verified
    BY <1>a, <2>1 DEF Migrate!RunType
  <2>3. CASE files' = files
    <3>1. MigTypes'
      BY <1>a, <2>1, <2>2, <2>3 DEF Migrate!Slots, Migrate!Versions, Migrate!RunType
    <3>2. ASSUME run.replaced = {}, ~run.undirected PROVE files = backup.files
      <4>1. /\ files \in [Migrate!Slots -> Migrate!Versions]
            /\ backup.files \in [Migrate!Slots -> Migrate!Versions]
        BY <1>a DEF MigTypes
      <4>2. \A f \in Migrate!Slots : files[f] = backup.files[f]
        BY <1>a, <2>1, <3>2 DEF MigFiles
      <4> QED
        BY <4>1, <4>2
    <3>3. MigBlobs' /\ MigFiles' /\ MigOutcome'
      BY <1>a, <1>b, <1>c, <1>d, <2>1, <2>2, <2>3, <3>2
    <3> QED
      BY <3>1, <3>3 DEF MigInv
  <2>4. CASE Migrate!Torn
    <3>a. /\ files' \in [Migrate!Slots -> Migrate!Versions]
          /\ \A f \in Migrate!AllFiles \ unread : Finds(f, files'[f])
      BY <1>a, <2>1, <2>4, TornFinds
    <3>1. MigTypes' /\ \A f \in Migrate!AllFiles \ unread : Finds(f, files'[f])
      BY <1>a, <2>1, <2>2, <3>a DEF Migrate!Slots, Migrate!Versions, Migrate!RunType
    <3>2. run'.halfway /\ ~run'.verified /\ outcome = "running"
      BY <1>a, <2>1, <2>2, <2>4 DEF Migrate!Torn
    <3>3. \A f \in Migrate!AllFiles \ unread : Finds(f, files[f])'
      BY <1>b, <1>c, <3>1 DEF Finds, Migrate!Refers
    <3>4. MigBlobs'
      BY <1>b, <1>c, <2>1, <3>3
    <3>5. MigFiles' /\ MigOutcome'
      BY <1>b, <2>1, <3>2
    <3> QED
      BY <3>1, <3>4, <3>5 DEF MigInv
  <2> QED
    BY <2>1, <2>3, <2>4
<1> QED
  BY <1>1, <1>2, <1>3, <1>4, <1>5, <1>6

\* A run collects, ends, or dies.
LEMMA EndStep ==
  ASSUME MigInv, part = "migrate", part' = part, parts' = parts,
         \/ Migrate!Scan \/ Migrate!Collect \/ Migrate!CollectRaises
         \/ Migrate!Cleanup \/ Migrate!Die
  PROVE  MigInv'
<1> USE DEF MigTypes, MigBlobs, MigFiles, MigOutcome
<1>a. MigTypes /\ MigBlobs /\ MigFiles /\ MigOutcome
  BY DEF MigInv
<1>b. Migrate!AllFiles' = Migrate!AllFiles /\ Migrate!Slots' = Migrate!Slots
  BY DEF Migrate!AllFiles, Migrate!Files, Migrate!Slots
<1>c. ASSUME blobs' = blobs PROVE \A f, v : Finds(f, v) => Finds(f, v)'
  BY <1>c DEF Finds, Migrate!Refers
<1>1. CASE Migrate!Scan
  <2>1. PICK missed \in {{}} \cup {{f} : f \in Migrate!AllFiles} :
          /\ unread' = unread \cup missed
          /\ run' = [run EXCEPT !.live = Migrate!Referenced(missed)]
    BY <1>1 DEF Migrate!Scan
  <2>2. pc = "scan" /\ pc' = "collect" /\ UNCHANGED <<files, backup, blobs, outcome>>
    BY <1>1 DEF Migrate!Scan, Migrate!Goto
  <2>3. Migrate!Referenced(missed) \subseteq Migrate!Blobs
    <3>1. \A f \in Migrate!AllFiles : f[1] \in Session
      BY DEF Migrate!AllFiles, Migrate!Files
    <3>2. \A f \in Migrate!AllFiles : Migrate!Refers(files[f], f[1]) \subseteq Migrate!Blobs
      BY <1>a, <3>1, FilesAreSlots DEF Migrate!Refers, Migrate!Blobs, Migrate!Versions
    <3> QED
      BY <3>2 DEF Migrate!Referenced
  <2>4. run' \in Migrate!RunType /\ run'.live = Migrate!Referenced(missed)
        /\ run'.verified = run.verified
    BY <1>a, <2>1, <2>3 DEF Migrate!RunType
  <2>5. \A f \in Migrate!AllFiles \ unread' :
          Migrate!Refers(files[f], f[1]) \subseteq Migrate!Referenced(missed)
    BY <2>1 DEF Migrate!Referenced
  <2>6. MigTypes'
    BY <1>a, <2>2, <2>4 DEF Migrate!Slots, Migrate!Versions, Migrate!RunType
  <2>7. \A f \in Migrate!AllFiles \ unread' : Migrate!Refers(files'[f], f[1]) \subseteq run'.live
    BY <2>2, <2>4, <2>5
  <2>8. (\A f \in Migrate!AllFiles \ unread : Migrate!Refers(files[f], f[1]) \subseteq run.live)'
    BY <1>b, <2>7 DEF Migrate!Refers
  <2>9. MigBlobs'
    BY <1>a, <1>b, <1>c, <2>1, <2>2, <2>8
  <2>10. MigFiles' /\ MigOutcome'
    BY <1>a, <1>b, <2>2, <2>4
  <2> QED
    BY <2>6, <2>9, <2>10 DEF MigInv
<1>2. CASE Migrate!Collect
  <2>1. /\ pc = "collect" /\ UNCHANGED <<files, backup, run, unread>>
        /\ \/ pc' = pc /\ outcome' = outcome
           \/ pc' = "cleanup" /\ outcome' = "done"
    BY <1>2 DEF Migrate!Collect, Migrate!Goto
  <2>2. \A f \in Migrate!AllFiles \ unread : Migrate!Refers(files[f], f[1]) \subseteq blobs'
    <3>1. CASE blobs' = blobs
      BY <1>a, <3>1 DEF Finds
    <3>2. ASSUME NEW b \in blobs \ run.live, blobs' = blobs \ {b}
          PROVE  \A f \in Migrate!AllFiles \ unread :
                   Migrate!Refers(files[f], f[1]) \subseteq blobs'
      <4>1. \A f \in Migrate!AllFiles \ unread : b \notin Migrate!Refers(files[f], f[1])
        BY <1>a, <2>1, <3>2
      <4> QED
        BY <1>a, <3>2, <4>1 DEF Finds
    <3> QED
      BY <1>2, <3>1, <3>2 DEF Migrate!Collect
  <2>3. (\A f \in Migrate!AllFiles \ unread : Finds(f, files[f]))'
    BY <1>b, <2>1, <2>2 DEF Finds, Migrate!Refers
  <2>4. (\A f \in Migrate!AllFiles \ unread : Migrate!Refers(files[f], f[1]) \subseteq run.live)'
    BY <1>a, <1>b, <2>1 DEF Migrate!Refers
  <2>5. MigTypes'
    BY <1>a, <2>1 DEF Migrate!Slots, Migrate!Versions, Migrate!RunType
  <2>6. MigBlobs'
    BY <2>1, <2>3, <2>4
  <2>7. MigFiles' /\ MigOutcome'
    BY <1>a, <1>b, <2>1
  <2> QED
    BY <2>5, <2>6, <2>7 DEF MigInv
<1>3. CASE Migrate!CollectRaises
  <2>1. /\ pc \in {"scan", "collect"} /\ pc' = "cleanup"
        /\ UNCHANGED <<files, blobs, backup, run, outcome, unread>>
    BY <1>3 DEF Migrate!CollectRaises, Migrate!Goto
  <2>2. MigTypes'
    BY <1>a, <2>1 DEF Migrate!Slots, Migrate!Versions, Migrate!RunType
  <2>3. MigBlobs' /\ MigFiles' /\ MigOutcome'
    BY <1>a, <1>b, <1>c, <2>1
  <2> QED
    BY <2>2, <2>3 DEF MigInv
<1>4. CASE Migrate!Cleanup
  <2>1. /\ pc = "cleanup" /\ pc' = "off" /\ UNCHANGED <<files, blobs, backup, run, unread>>
        /\ \/ outcome' = "raised"
           \/ outcome = "done" /\ outcome' = "done"
    BY <1>4 DEF Migrate!Cleanup, Migrate!Goto
  <2>2. MigTypes'
    BY <1>a, <2>1 DEF Migrate!Slots, Migrate!Versions, Migrate!RunType
  <2>3. MigBlobs' /\ MigFiles' /\ MigOutcome'
    BY <1>a, <1>b, <1>c, <2>1
  <2> QED
    BY <2>2, <2>3 DEF MigInv
<1>5. CASE Migrate!Die
  <2>1. /\ pc' = "off" /\ outcome' = "died" /\ UNCHANGED <<blobs, backup, run, unread>>
        /\ files' = files \/ (pc = "restore" /\ Migrate!Torn)
    BY <1>5 DEF Migrate!Die, Migrate!Goto
  <2>2. /\ files' \in [Migrate!Slots -> Migrate!Versions]
        /\ \A f \in Migrate!AllFiles \ unread : Finds(f, files'[f])
    BY <1>a, <2>1, TornFinds
  <2>3. (\A f \in Migrate!AllFiles \ unread : Finds(f, files[f]))'
    BY <1>b, <2>1, <2>2 DEF Finds, Migrate!Refers
  <2>4. MigTypes'
    BY <1>a, <2>1, <2>2 DEF Migrate!Slots, Migrate!Versions, Migrate!RunType
  <2>5. MigBlobs' /\ MigFiles' /\ MigOutcome'
    BY <2>1, <2>3
  <2> QED
    BY <2>4, <2>5 DEF MigInv
<1> QED
  BY <1>1, <1>2, <1>3, <1>4, <1>5

\* Every step keeps it.
LEMMA MigNext == ASSUME MigInv, [Next]_vars PROVE MigInv'
<1> SUFFICES ASSUME part' = "migrate" PROVE MigInv'
  BY DEF MigInv
<1>a. part' = part /\ part = "migrate"
  BY DEF Next, WindowStep, ConnStep, MigrateStep, ProfileStep, CatalogStep, LevelsStep, vars
<1>1. CASE Migrate!Next
  <2>1. parts' = parts
    BY <1>1 DEF Migrate!Next, Migrate!Begin, Migrate!StageRaises, Migrate!AllStaged,
       Migrate!Verify, Migrate!VerifyRaises, Migrate!Restore, Migrate!RestoreRaises,
       Migrate!Scan, Migrate!Collect, Migrate!CollectRaises, Migrate!Cleanup,
       Migrate!Die, Migrate!Read, Migrate!Stage, Migrate!Replace, Migrate!ReplaceRaises
  <2> QED
    BY <1>a, <1>1, <2>1, StageStep, ReplaceStep, EndStep DEF Migrate!Next
<1>2. CASE UNCHANGED vars
  <2>1. UNCHANGED <<part, pc, parts, files, blobs, backup, run, outcome, unread>>
    BY <1>2 DEF vars, migrate
  <2>2. MigTypes' = MigTypes /\ MigFiles' = MigFiles /\ MigOutcome' = MigOutcome
    BY <2>1 DEF MigTypes, MigFiles, MigOutcome, Migrate!Slots, Migrate!Versions,
       Migrate!RunType, Migrate!Blobs, Migrate!AllFiles, Migrate!Files
  <2>3. MigBlobs' = MigBlobs
    BY <2>1 DEF MigBlobs, Finds, Migrate!Refers, Migrate!AllFiles, Migrate!Files, Migrate!Slots
  <2> QED
    BY <2>1, <2>2, <2>3 DEF MigInv
<1> QED
  BY <1>a, <1>1, <1>2 DEF Next, WindowStep, ConnStep, MigrateStep, ProfileStep, CatalogStep,
     LevelsStep

\* A migration that ends by itself has changed no file, or migrated every file
\* once all sessions were verified, unless it failed in putting the files back or
\* could not sync a directory; and no file misses a blob it refers to that could be
\* read when the references were collected, wherever a run fails or dies.
THEOREM MigratesAllOrNothing == Spec => []AllOrNothing
<1>1. Init => MigInv
  <2> SUFFICES ASSUME Init, part = "migrate" PROVE MigInv
    BY DEF MigInv
  <2>1. Migrate!Init
    BY DEF Init
  <2>2. /\ files = Migrate!OldFiles /\ backup.files = Migrate!OldFiles
        /\ blobs = Migrate!OldBlobs /\ pc = "off" /\ run = Migrate!NoRun /\ outcome = "none"
    BY <2>1 DEF Migrate!Init
  <2>3. Migrate!OldFiles \in [Migrate!Slots -> Migrate!Versions]
    BY DEF Migrate!OldFiles, Migrate!Versions
  <2>4. \A f \in Migrate!AllFiles : f[1] \in Session /\ files[f] = "old"
    BY <2>2, FilesAreSlots DEF Migrate!OldFiles, Migrate!Slots
  <2>5. \A f \in Migrate!AllFiles : Finds(f, files[f])
    BY <2>2, <2>4 DEF Finds, Migrate!Refers, Migrate!OldBlobs
  <2>6. run \in Migrate!RunType
    BY <2>2 DEF Migrate!NoRun, Migrate!RunType
  <2> QED
    BY <2>2, <2>3, <2>5, <2>6 DEF MigInv, MigTypes, MigBlobs, MigFiles, MigOutcome
<1>2. MigInv /\ [Next]_vars => MigInv'
  BY MigNext
<1>3. MigInv => AllOrNothing
  <2> SUFFICES ASSUME MigInv, part = "migrate" PROVE Migrate!AllOrNothing
    BY DEF AllOrNothing
  <2>1. \A f \in Migrate!AllFiles \ unread : Migrate!Refers(files[f], f[1]) \subseteq blobs
    BY DEF MigInv, MigBlobs, Finds
  <2> QED
    BY <2>1 DEF Migrate!AllOrNothing, MigInv, MigFiles
<1> QED
  BY <1>1, <1>2, <1>3, PTL DEF Spec

-----------------------------------------------------------------------------
(* ProfileStore: the latest fact *)

Facts == [time : Nat, payload : Profiles!Profile]

\* The facts are in the order of their time, none is of the future, and the
\* latest is what the last update returned.
ProfInv == part = "profile" =>
  /\ now \in Nat /\ facts \in Seq(Facts) /\ told \in Profiles!Profile
  /\ \A n \in DOMAIN facts : facts[n].time <= now
  /\ \A n, k \in DOMAIN facts : n <= k => facts[n].time <= facts[k].time
  /\ Profiles!ReadsLastSteady

\* A set of numbers that is not empty has a least member.
LEMMA LeastExists ==
  ASSUME NEW S, S \subseteq Nat, S # {}
  PROVE  \E n \in S : \A k \in S : n <= k
<1>1. \E n \in S : \A k \in S : ~ (<<k, n>> \in OpToRel(<, Nat))
  BY NatLessThanWellFounded, WFMin
<1>2. \A k, n \in S : k < n => <<k, n>> \in OpToRel(<, Nat)
  BY DEF OpToRel
<1>3. PICK n \in S : \A k \in S : ~ (k < n)
  BY <1>1, <1>2
<1> QED
  BY <1>3

\* What a line of the file holds.
LEMMA FactAt ==
  ASSUME NEW s \in Seq(Facts), NEW n \in DOMAIN s
  PROVE  s[n] \in Facts /\ s[n].time \in Nat /\ s[n].payload \in Profiles!Profile
<1>1. s[n] \in Facts
  OBVIOUS
<1> QED
  BY <1>1 DEF Facts

\* There is a latest fact: the first one of the last second.
LEMMA LatestExists ==
  ASSUME ProfInv, part = "profile", facts # <<>>
  PROVE  Profiles!Latest \in DOMAIN facts
<1>1. facts \in Seq(Facts) /\ DOMAIN facts = 1 .. Len(facts) /\ Len(facts) \in Nat \ {0}
  BY DEF ProfInv
<1>2. \A n \in DOMAIN facts : facts[n].time \in Nat
  BY <1>1, FactAt
<1> DEFINE S == {n \in DOMAIN facts : facts[n].time = facts[Len(facts)].time}
<1>3. Len(facts) \in S /\ S \subseteq Nat
  BY <1>1
<1>4. PICK n \in S : \A k \in S : n <= k
  BY <1>3, LeastExists
<1>5. ASSUME NEW k \in DOMAIN facts
      PROVE  \/ facts[k].time < facts[n].time
             \/ facts[k].time = facts[n].time /\ n <= k
  <2>1. facts[k].time <= facts[Len(facts)].time
    BY <1>1 DEF ProfInv
  <2>2. k \in S \/ facts[k].time < facts[Len(facts)].time
    BY <1>1, <1>2, <2>1
  <2> QED
    BY <1>4, <2>2
<1> QED
  BY <1>4, <1>5 DEF Profiles!Latest

\* What is read back is a profile.
LEMMA StoredType ==
  ASSUME ProfInv, part = "profile" PROVE Profiles!Stored \in Profiles!Profile
<1>1. Profiles!Default \in Profiles!Profile
  BY DEF Profiles!Default, Profiles!Profile
<1>2. ASSUME facts # <<>> PROVE facts[Profiles!Latest].payload \in Profiles!Profile
  BY <1>2, LatestExists, FactAt DEF ProfInv
<1> QED
  BY <1>1, <1>2 DEF Profiles!Stored

\* A fact of a second of its own that follows all the others is the latest.
LEMMA AppendedIsLatest ==
  ASSUME ProfInv, part = "profile", NEW p \in Profiles!Profile,
         facts' = Append(facts, [time |-> now, payload |-> p]), Profiles!Steady'
  PROVE  Profiles!Stored' = p
<1> DEFINE e == [time |-> now, payload |-> p]
           n == Len(facts) + 1
<1>1. facts \in Seq(Facts) /\ Len(facts) \in Nat /\ now \in Nat /\ e \in Facts
  BY DEF ProfInv, Facts
<1>2. /\ DOMAIN facts' = 1 .. n /\ facts'[n] = e /\ facts' # <<>>
      /\ \A k \in DOMAIN facts : facts'[k] = facts[k]
      /\ \A k \in DOMAIN facts' : k = n \/ k \in DOMAIN facts
  BY <1>1
<1>3. \A k \in DOMAIN facts' : facts'[k].time \in Nat /\ facts'[k].time <= now
  BY <1>1, <1>2, FactAt DEF ProfInv
<1>4. \A k \in DOMAIN facts' : k # n => facts'[k].time < facts'[n].time
  <2>1. n \in DOMAIN facts' /\ facts'[n].time = now
    BY <1>1, <1>2
  <2>2. \A k \in DOMAIN facts' : facts'[k].time = facts'[n].time => k = n
    BY <2>1 DEF Profiles!Steady
  <2> QED
    BY <1>1, <1>3, <2>1, <2>2
<1>5. n \in DOMAIN facts' /\ n \in Nat /\ now \in Nat /\ facts'[n].time = now
  BY <1>1, <1>2
<1>6. Profiles!Latest' = n
  <2>1. \A k \in DOMAIN facts' : \/ facts'[k].time < facts'[n].time
                                 \/ facts'[k].time = facts'[n].time /\ n <= k
    BY <1>4, <1>5
  <2>2. ASSUME NEW m \in DOMAIN facts',
               \A k \in DOMAIN facts' : \/ facts'[k].time < facts'[m].time
                                        \/ facts'[k].time = facts'[m].time /\ m <= k
        PROVE  m = n
    <3>1. CASE facts'[n].time < facts'[m].time
      BY <1>3, <1>4, <1>5, <3>1
    <3>2. CASE facts'[n].time = facts'[m].time
      BY <1>3, <1>4, <1>5, <3>2
    <3> QED
      BY <1>5, <2>2, <3>1, <3>2
  <2> QED
    BY <1>5, <2>1, <2>2 DEF Profiles!Latest
<1>7. facts'[n].payload.style \notin Foreign
  BY <1>5 DEF Profiles!Steady
<1> QED
  BY <1>2, <1>6, <1>7 DEF Profiles!Stored

\* What an update returns is what is stored from then on.
LEMMA SaveStep ==
  ASSUME ProfInv, part = "profile", part' = part, UNCHANGED now,
         NEW saved \in Profiles!Profile, Profiles!Save(saved)
  PROVE  ProfInv'
<1> DEFINE after == Profiles!Overwritten(Profiles!Stored, saved)
           e == [time |-> now, payload |-> after]
<1>1. after \in Profiles!Profile
  BY StoredType DEF Profiles!Overwritten, Profiles!Profile
<1>2. told' = after
  BY DEF Profiles!Save
<1>3. CASE facts' = facts /\ after = Profiles!Stored
  <2>1. Profiles!Stored' = Profiles!Stored
    BY <1>3 DEF Profiles!Stored, Profiles!Latest, Profiles!Default
  <2>2. Profiles!ReadsLastSteady'
    BY <1>2, <1>3, <2>1 DEF Profiles!ReadsLastSteady
  <2> QED
    BY <1>1, <1>2, <1>3, <2>2 DEF ProfInv, Facts, Profiles!Profile
<1>4. CASE facts' = Append(facts, e)
  <2>1. facts \in Seq(Facts) /\ Len(facts) \in Nat /\ now \in Nat /\ e \in Facts
    BY <1>1 DEF ProfInv, Facts
  <2>2. Profiles!ReadsLastSteady'
    BY <1>1, <1>2, <1>4, AppendedIsLatest DEF Profiles!ReadsLastSteady
  <2> DEFINE n == Len(facts) + 1
  <2>3. /\ facts' \in Seq(Facts) /\ facts'[n] = e /\ DOMAIN facts' = 1 .. n
        /\ \A k \in DOMAIN facts : facts'[k] = facts[k] /\ k <= n
        /\ \A k \in DOMAIN facts' : k = n \/ k \in DOMAIN facts
    BY <1>4, <2>1
  <2>4. e.time = now
    OBVIOUS
  <2>5. \A k \in DOMAIN facts' : facts'[k].time <= now'
    BY <2>1, <2>3, <2>4 DEF ProfInv
  <2>6. \A i, k \in DOMAIN facts' : i <= k => facts'[i].time <= facts'[k].time
    <3> SUFFICES ASSUME NEW i \in DOMAIN facts', NEW k \in DOMAIN facts', i <= k
                 PROVE  facts'[i].time <= facts'[k].time
      OBVIOUS
    <3>1. CASE k = n
      BY <2>1, <2>3, <2>4, <2>5, <3>1
    <3>2. CASE k # n
      BY <2>1, <2>3, <3>2 DEF ProfInv
    <3> QED
      BY <3>1, <3>2
  <2>7. Facts' = Facts /\ Profiles!Profile' = Profiles!Profile
    BY DEF Facts, Profiles!Profile
  <2> QED
    BY <1>1, <1>2, <2>1, <2>2, <2>3, <2>5, <2>6, <2>7 DEF ProfInv
<1> QED
  BY <1>3, <1>4 DEF Profiles!Save

LEMMA ProfNext == ASSUME ProfInv, [Next]_vars PROVE ProfInv'
<1> SUFFICES ASSUME part' = "profile" PROVE ProfInv'
  BY DEF ProfInv
<1>a. part' = part /\ part = "profile"
  BY DEF Next, WindowStep, ConnStep, MigrateStep, ProfileStep, CatalogStep, LevelsStep, vars
<1>b. Facts' = Facts /\ Profiles!Profile' = Profiles!Profile
  BY DEF Facts, Profiles!Profile
<1>1. ASSUME Profiles!Update PROVE ProfInv'
  <2>1. PICK style \in Style \cup Foreign \cup {Unknown, Profiles!Stored.style},
             symbols \in SUBSET Symbol :
               /\ Profiles!Save(Profiles!Merged(Profiles!Stored, style, symbols))
               /\ UNCHANGED now
    BY <1>1 DEF Profiles!Update
  <2>2. Profiles!Stored \in Profiles!Profile
    BY <1>a, StoredType
  <2>3. Profiles!Merged(Profiles!Stored, style, symbols) \in Profiles!Profile
    BY <2>2 DEF Profiles!Merged, Profiles!Profile
  <2> QED
    BY <1>a, <2>1, <2>3, SaveStep
<1>2. ASSUME UNCHANGED <<facts, told>>, now' = now \/ now' = now + 1 PROVE ProfInv'
  <2>1. Profiles!ReadsLastSteady' = Profiles!ReadsLastSteady
    BY <1>2 DEF Profiles!ReadsLastSteady, Profiles!Steady, Profiles!Stored, Profiles!Latest,
       Profiles!Default
  <2>2. now \in Nat /\ \A n \in DOMAIN facts : facts[n].time \in Nat
    BY <1>a, FactAt DEF ProfInv
  <2>3. now' \in Nat /\ \A n \in DOMAIN facts : facts[n].time <= now'
    BY <1>2, <1>a, <2>2 DEF ProfInv
  <2> QED
    BY <1>a, <1>b, <1>2, <2>1, <2>3 DEF ProfInv
<1>3. Profiles!Next \/ UNCHANGED vars
  BY <1>a DEF Next, WindowStep, ConnStep, MigrateStep, ProfileStep, CatalogStep, LevelsStep
<1> QED
  BY <1>1, <1>2, <1>3 DEF Profiles!Next, Profiles!Tick, vars, profile

\* As long as no two updates fall into one second and no value is passed that
\* the profile class refuses, a read of the profile returns what the last
\* update returned, through every merge, overwrite and append.
THEOREM ProfileReadsLast == Spec => []ReadsLastSteady
<1>1. Init => ProfInv
  <2> SUFFICES ASSUME Init, part = "profile" PROVE ProfInv
    BY DEF ProfInv
  <2>1. now = 0 /\ facts = <<>> /\ told = Profiles!Default
    BY DEF Init, Profiles!Init
  <2>2. told \in Profiles!Profile
    BY <2>1 DEF Profiles!Default, Profiles!Profile
  <2> QED
    BY <2>1, <2>2, EmptySeq DEF ProfInv, Profiles!ReadsLastSteady
<1>2. ProfInv /\ [Next]_vars => ProfInv'
  BY ProfNext
<1>3. ProfInv => ReadsLastSteady
  BY DEF ProfInv, ReadsLastSteady
<1> QED
  BY <1>1, <1>2, <1>3, PTL DEF Spec

-----------------------------------------------------------------------------
(* AssetCatalog: what was learned stays known *)

CatTypes ==
  /\ file \in Catalog!Catalogs /\ whole \in BOOLEAN /\ cache \subseteq Catalog!Catalogs
  /\ learned \in Catalog!Catalogs
  /\ pc \in [Worker -> Catalog!Places] /\ job \in [Worker -> Catalog!JobType]

\* A legible query has no answer yet that was known before it was asked.
NewQuery(j) == j.query \in Legible => \A p \in j.known : p[2] # j.query

\* The one asset that a catalogue named: the query is its symbol, or an alias of
\* no other asset.
Named(a, j) ==
  \/ <<a, j.query>> \in Symbols /\ Catalog!Lists(j.cat, a)
  \/ \A b \in Asset : <<b, j.query>> \in j.cat => b = a

\* What a worker has found out, by its place: what was known when it was asked is
\* in the catalogue it looked at, and it asks the model only when the query is
\* new.
Searched(place, j) ==
  /\ place = "alias" => j.known \subseteq j.cat
  /\ place = "confirm" \/ (place \in {"look", "store"} /\ j.then = "confirm") =>
       /\ j.known \subseteq j.cat
       /\ \E a \in Asset : j.hit = {a} /\ Named(a, j)
  /\ place \in {"discover", "register"} \cup Catalog!Writing => NewQuery(j)
  /\ place \in {"register"} \cup Catalog!Writing => \E a \in Asset : j.hit = {a}
  /\ place \in Catalog!Writing => \A a \in j.hit : <<a, j.query>> \in j.got

\* The catalogue in a worker's hand: it holds what was known, and as long as it
\* is to be stored or written, all that was learned.
Holds(place, j) ==
  /\ j.known \subseteq learned
  /\ place \in {"exact", "confirm"} => j.known \subseteq j.got
  /\ place = "confirm" \/ (place = "store" /\ j.then = "confirm") => j.cat \subseteq j.got
  /\ place \in {"store"} \cup Catalog!Writing => learned \subseteq j.got
  /\ place = "clear" => whole /\ file = j.got

\* Who writes is alone in writing and filling the cache.
Alone == \A v, w \in Worker :
  v # w /\ pc[v] \in Catalog!Writing => pc[w] \notin Catalog!Writing \cup {"store"}

SaidSame == said.query \in Legible => \A a \in said.asset : \A p \in said.known :
  p[2] = said.query /\ <<a, said.query>> \notin Symbols => p[1] = a

\* The catalogue without overlaps: a file that is not whole is being written, and
\* a whole file and the cache hold all that was learned.
Intact ==
  /\ Alone
  /\ ~whole => \E w \in Worker : pc[w] = "write"
  /\ whole => learned \subseteq file
  /\ \A c \in cache : learned \subseteq c
  /\ \A w \in Worker : Searched(pc[w], job[w]) /\ Holds(pc[w], job[w])
  /\ SaidSame

\* The catalogue in which a worker looks its query up.
Seen(place, j) == j.cat \cup (IF place = "exact" THEN j.got ELSE {})

\* Catalogues only grow without overlaps: what a worker saw is in the cache, in
\* a whole file and in what is to be written, and so is the cache.
GrowsOnly ==
  /\ \A c, d \in cache : c = d
  /\ \A w \in Worker : \A c \in cache : Seen(pc[w], job[w]) \subseteq c
  /\ whole => \A c \in cache : c \subseteq file
  /\ whole => \A w \in Worker : Seen(pc[w], job[w]) \subseteq file
  /\ \A v \in Worker : pc[v] = "store" => whole /\ job[v].got = file
  /\ \A v \in Worker : pc[v] \in Catalog!Writing => \A c \in cache : c \subseteq job[v].got
  /\ \A v, w \in Worker : pc[v] \in Catalog!Writing => Seen(pc[w], job[w]) \subseteq job[v].got

CatInv == part = "catalog" => CatTypes /\ (~spoilt => Intact /\ GrowsOnly)

\* Without a query and without what was known, nothing was found out.
LEMMA NoJobType == Catalog!NoJob \in Catalog!JobType /\ Catalog!NoJob.known = {}
<1>1. (CHOOSE q \in Query : TRUE) \in Query
  BY CatalogAssumption
<1>2. {} \in Catalog!Catalogs
  BY DEF Catalog!Catalogs
<1> QED
  BY <1>1, <1>2 DEF Catalog!NoJob, Catalog!JobType

\* An idle worker owes nothing.
LEMMA IdleOwesNothing ==
  Searched("idle", Catalog!NoJob) /\ Holds("idle", Catalog!NoJob)
BY NoJobType DEF Searched, Holds, Catalog!Writing

\* The places that a worker goes to.
LEMMA PlacesAre ==
  Catalog!Places = {"idle", "look", "store", "exact", "alias", "confirm", "discover", "register",
                    "truncate", "write", "clear"}
BY DEF Catalog!Places, Catalog!Writing

\* After a move of one worker that spoils nothing, who writes is alone.
LEMMA StaysAlone ==
  ASSUME NEW w \in Worker, NEW place, Catalog!Goto(w, place), ~spoilt'
  PROVE  ~spoilt /\ Alone'
BY DEF Catalog!Goto, Catalog!Overlap, Alone

\* Where the workers are after a move of one.
LEMMA Moved ==
  ASSUME CatTypes, NEW w \in Worker, NEW place, Catalog!Goto(w, place),
         NEW j, job' = [job EXCEPT ![w] = j]
  PROVE  /\ pc'[w] = place /\ job'[w] = j
         /\ \A v \in Worker \ {w} : pc'[v] = pc[v] /\ job'[v] = job[v]
BY DEF CatTypes, Catalog!Goto

\* A step that leaves the file and what was learned alone keeps what every other
\* worker knows.
LEMMA QuietStep ==
  ASSUME CatInv, part = "catalog", part' = part, ~spoilt',
         NEW w \in Worker, NEW place, NEW j,
         Catalog!Goto(w, place), job' = [job EXCEPT ![w] = j],
         UNCHANGED <<file, whole, learned>>, pc[w] # "write",
         \A c \in cache' : learned \subseteq c,
         Searched(place, j), Holds(place, j), SaidSame'
  PROVE  Intact'
<1>1. Alone' /\ Intact /\ CatTypes
  BY StaysAlone DEF CatInv
<1>2. /\ pc'[w] = place /\ job'[w] = j
      /\ \A v \in Worker \ {w} : pc'[v] = pc[v] /\ job'[v] = job[v]
  BY <1>1, Moved
<1>3. ~whole' => \E v \in Worker : pc'[v] = "write"
  BY <1>1, <1>2 DEF Intact
<1>4. ASSUME NEW v \in Worker PROVE (Searched(pc[v], job[v]) /\ Holds(pc[v], job[v]))'
  <2>1. /\ Searched(pc'[v], job'[v]) /\ Holds(pc'[v], job'[v])
    BY <1>1, <1>2 DEF Intact
  <2> QED
    BY <2>1 DEF Holds, Searched, NewQuery, Named, Catalog!Lists,
       Catalog!Writing
<1> QED
  BY <1>1, <1>3, <1>4 DEF Intact

\* What a worker takes in hand is a catalogue.
LEMMA Taken ==
  ASSUME NEW j \in Catalog!JobType, NEW c \in Catalog!Catalogs
  PROVE  /\ [j EXCEPT !.got = c] \in Catalog!JobType
         /\ [j EXCEPT !.cat = j.got] \in Catalog!JobType
BY DEF Catalog!JobType

LEMMA CatTypesStep ==
  ASSUME CatTypes, Catalog!Next PROVE CatTypes'
<1> USE DEF CatTypes
<1>1. \A w \in Worker, place \in Catalog!Places :
        Catalog!Goto(w, place) => pc' \in [Worker -> Catalog!Places]
  BY DEF Catalog!Goto
<1>2. \A w \in Worker, j \in Catalog!JobType :
        Catalog!With(w, j) => job' \in [Worker -> Catalog!JobType]
  BY DEF Catalog!With
<1>3. \A w \in Worker : job[w] \in Catalog!JobType
  OBVIOUS
<1>4. Catalog!Readable \in Catalog!Catalogs
  BY DEF Catalog!Readable, Catalog!Catalogs
<1>5. ASSUME NEW w \in Worker, Catalog!Ask(w) PROVE CatTypes'
  <2>1. PICK q \in Query : Catalog!With(w, [Catalog!NoJob EXCEPT !.query = q, !.known = learned])
    BY <1>5 DEF Catalog!Ask
  <2>2. [Catalog!NoJob EXCEPT !.query = q, !.known = learned] \in Catalog!JobType
    BY NoJobType DEF Catalog!JobType
  <2> QED
    BY <1>1, <1>2, <1>5, <2>1, <2>2, PlacesAre DEF Catalog!Ask
<1>6. ASSUME NEW w \in Worker, Catalog!Look(w) PROVE CatTypes'
  <2>1. \A c \in cache \cup {Catalog!Readable} : [job[w] EXCEPT !.got = c] \in Catalog!JobType
    BY <1>3, <1>4, Taken
  <2>2. job[w].then \in Catalog!Places
    BY <1>3, PlacesAre DEF Catalog!JobType
  <2> QED
    BY <1>1, <1>2, <1>6, <2>1, <2>2, PlacesAre DEF Catalog!Look
<1>7. ASSUME NEW w \in Worker, Catalog!Fill(w) PROVE CatTypes'
  <2>1. job[w].then \in Catalog!Places /\ job[w].got \in Catalog!Catalogs
    BY <1>3, PlacesAre DEF Catalog!JobType
  <2> QED
    BY <1>1, <1>7, <2>1 DEF Catalog!Fill
<1>8. ASSUME NEW w \in Worker, Catalog!Exact(w) PROVE CatTypes'
  <2>1. [job[w] EXCEPT !.cat = job[w].got] \in Catalog!JobType
    BY <1>3 DEF Catalog!JobType
  <2> QED
    BY <1>1, <1>2, <1>8, <2>1, NoJobType, PlacesAre DEF Catalog!Exact, Catalog!Leave
<1>9. ASSUME NEW w \in Worker, Catalog!Alias(w) PROVE CatTypes'
  <2> DEFINE hits == Catalog!Found(job[w].cat, job[w].query)
  <2>1. [job[w] EXCEPT !.hit = hits, !.then = "confirm"] \in Catalog!JobType
    BY <1>3 DEF Catalog!JobType, Catalog!Found, Catalog!Exactly
  <2> QED
    BY <1>1, <1>2, <1>9, <2>1, NoJobType, PlacesAre DEF Catalog!Alias, Catalog!Leave
<1>10. ASSUME NEW w \in Worker, Catalog!Confirm(w) PROVE CatTypes'
  BY <1>1, <1>2, <1>10, NoJobType, PlacesAre DEF Catalog!Confirm, Catalog!Leave
<1>11. ASSUME NEW w \in Worker, Catalog!Discover(w) PROVE CatTypes'
  <2>1. \A V \in SUBSET Asset : [job[w] EXCEPT !.hit = V] \in Catalog!JobType
    BY <1>3 DEF Catalog!JobType
  <2> QED
    BY <1>1, <1>2, <1>11, <2>1, NoJobType, PlacesAre
       DEF Catalog!Discover, Catalog!Leave, Catalog!Candidates, Catalog!Validated
<1>12. ASSUME NEW w \in Worker, Catalog!Register(w) PROVE CatTypes'
  <2> DEFINE added(a, B) == Catalog!Readable \cup {p \in Names : p[1] = a}
                              \cup {<<a, q>> : q \in B \cup {job[w].query}}
  <2>1. PICK a \in job[w].hit, B \in SUBSET Legible :
          \/ Catalog!Leave(w)
          \/ Catalog!With(w, [job[w] EXCEPT !.got = added(a, B)]) /\ Catalog!Goto(w, "truncate")
    BY <1>12 DEF Catalog!Register
  <2>2. a \in Asset /\ job[w].query \in Query
    BY <1>3 DEF Catalog!JobType
  <2>3. added(a, B) \in Catalog!Catalogs
    BY <1>4, <2>2, CatalogAssumption DEF Catalog!Catalogs
  <2>4. [job[w] EXCEPT !.got = added(a, B)] \in Catalog!JobType
    BY <1>3, <2>3, Taken
  <2>5. UNCHANGED <<file, whole, cache, learned>>
    BY <1>12 DEF Catalog!Register
  <2> QED
    BY <1>1, <1>2, <2>1, <2>4, <2>5, NoJobType, PlacesAre DEF Catalog!Leave
<1>13. ASSUME NEW w \in Worker, Catalog!Truncate(w) PROVE CatTypes'
  BY <1>1, <1>13, PlacesAre DEF Catalog!Truncate, Catalog!Catalogs
<1>14. ASSUME NEW w \in Worker, Catalog!Write(w) PROVE CatTypes'
  <2>1. job[w].got \in Catalog!Catalogs
    BY <1>3 DEF Catalog!JobType
  <2> QED
    BY <1>1, <1>14, <2>1, PlacesAre DEF Catalog!Write
<1>15. ASSUME NEW w \in Worker, Catalog!Clear(w) PROVE CatTypes'
  <2>1. job[w].query \in Query /\ job[w].hit \subseteq Asset
    BY <1>3 DEF Catalog!JobType
  <2>2. learned' \in Catalog!Catalogs
    BY <1>15, <2>1 DEF Catalog!Clear, Catalog!Catalogs
  <2> QED
    BY <1>1, <1>2, <1>15, <2>2, NoJobType, PlacesAre DEF Catalog!Clear, Catalog!Leave
<1>16. ASSUME Catalog!Crash PROVE CatTypes'
  BY <1>16, NoJobType, PlacesAre DEF Catalog!Crash
<1> QED
  BY <1>5, <1>6, <1>7, <1>8, <1>9, <1>10, <1>11, <1>12, <1>13, <1>14, <1>15, <1>16
     DEF Catalog!Next

\* Looking a query up: a catalogue comes into a worker's hand.
LEMMA LookStep ==
  ASSUME CatInv, part = "catalog", part' = part, ~spoilt',
         NEW w \in Worker, Catalog!Ask(w) \/ Catalog!Look(w) \/ Catalog!Fill(w)
  PROVE  Intact'
<1>1. /\ \A place : Catalog!Goto(w, place) => ~spoilt /\ Alone'
      /\ CatTypes /\ job[w] \in Catalog!JobType
  BY StaysAlone DEF CatInv, CatTypes
<1>2. ASSUME ~spoilt PROVE Intact /\ Searched(pc[w], job[w]) /\ Holds(pc[w], job[w])
  BY <1>2 DEF CatInv, Intact
<1>a. ASSUME ~spoilt PROVE GrowsOnly
  BY <1>a DEF CatInv
<1>3. ASSUME Catalog!Ask(w) PROVE Intact'
  <2> DEFINE asked(q) == [Catalog!NoJob EXCEPT !.query = q, !.known = learned]
  <2>1. PICK q \in Query : Catalog!Goto(w, "look") /\ Catalog!With(w, asked(q))
    BY <1>3 DEF Catalog!Ask
  <2>2. Searched("look", asked(q)) /\ Holds("look", asked(q))
    BY DEF Searched, Holds, Catalog!NoJob, Catalog!Writing
  <2>3. Intact
    BY <1>1, <1>2, <2>1
  <2>4. UNCHANGED <<file, whole, learned, cache, said>> /\ pc[w] = "idle"
    BY <1>3 DEF Catalog!Ask
  <2>5. SaidSame' /\ \A c \in cache' : learned \subseteq c
    BY <2>3, <2>4 DEF Intact, SaidSame
  <2> HIDE DEF asked
  <2> QED
    BY <2>1, <2>2, <2>4, <2>5, QuietStep DEF Catalog!With
<1>4. ASSUME Catalog!Look(w) PROVE Intact'
  <2> DEFINE took(c) == [job[w] EXCEPT !.got = c]
  <2>1. UNCHANGED <<file, whole, learned, cache, said>> /\ pc[w] = "look"
    BY <1>4 DEF Catalog!Look
  <2>2. PICK c \in Catalog!Catalogs, place \in {"store", job[w].then} :
          /\ Catalog!With(w, took(c)) /\ Catalog!Goto(w, place)
          /\ \/ c \in cache /\ place = job[w].then
             \/ c = Catalog!Readable /\ place = "store"
    <3>1. Catalog!Readable \in Catalog!Catalogs /\ cache \subseteq Catalog!Catalogs
      BY <1>1 DEF CatTypes, Catalog!Readable, Catalog!Catalogs
    <3> QED
      BY <1>4, <3>1 DEF Catalog!Look
  <2>3. Intact /\ Searched("look", job[w]) /\ Holds("look", job[w])
    BY <1>1, <1>2, <2>1, <2>2
  <2>4. learned \subseteq c /\ job[w].cat \subseteq c
    <3>a. ~spoilt /\ GrowsOnly
      BY <1>1, <1>a, <2>2
    <3>1. CASE c \in cache
      BY <2>3, <3>1, <3>a DEF Intact, GrowsOnly, Seen
    <3>2. CASE c = Catalog!Readable /\ place = "store"
      <4>1. pc'[w] = "store" /\ \A v \in Worker \ {w} : pc'[v] = pc[v]
        BY <1>1, <2>2, <3>2, Moved DEF Catalog!With
      <4>2. \A v \in Worker : pc[v] # "write"
        BY <1>1, <2>1, <2>2, <4>1 DEF Alone, Catalog!Writing
      <4>3. whole
        BY <2>3, <4>2 DEF Intact
      <4> QED
        BY <2>3, <3>2, <3>a, <4>3 DEF Intact, Catalog!Readable, GrowsOnly, Seen
    <3> QED
      BY <2>2, <3>1, <3>2
  <2>5. /\ took(c).known = job[w].known /\ took(c).cat = job[w].cat /\ took(c).hit = job[w].hit
        /\ took(c).then = job[w].then /\ took(c).query = job[w].query /\ took(c).got = c
        /\ job[w].then \in {"exact", "confirm"}
    BY <1>1 DEF Catalog!JobType
  <2>6. Searched(place, took(c))
    BY <2>2, <2>3, <2>5 DEF Searched, NewQuery, Named, Catalog!Lists,
       Catalog!Writing
  <2>7. Holds(place, took(c))
    BY <2>2, <2>3, <2>4, <2>5 DEF Holds, Catalog!Writing
  <2>8. SaidSame' /\ \A d \in cache' : learned \subseteq d
    BY <2>1, <2>3 DEF Intact, SaidSame
  <2> HIDE DEF took
  <2> QED
    BY <2>1, <2>2, <2>6, <2>7, <2>8, QuietStep DEF Catalog!With
<1>5. ASSUME Catalog!Fill(w) PROVE Intact'
  <2>1. /\ UNCHANGED <<file, whole, learned, job, said>> /\ pc[w] = "store"
        /\ cache' = {job[w].got} /\ Catalog!Goto(w, job[w].then)
    BY <1>5 DEF Catalog!Fill
  <2>2. Intact /\ Searched("store", job[w]) /\ Holds("store", job[w])
    BY <1>1, <1>2, <2>1
  <2>3. job[w].then \in {"exact", "confirm"} /\ job' = [job EXCEPT ![w] = job[w]]
    BY <1>1, <2>1 DEF Catalog!JobType, CatTypes
  <2>4. Searched(job[w].then, job[w]) /\ Holds(job[w].then, job[w])
    BY <2>2, <2>3 DEF Searched, Holds, NewQuery, Named, Catalog!Lists,
       Catalog!Writing
  <2>5. SaidSame' /\ \A d \in cache' : learned \subseteq d
    BY <2>1, <2>2 DEF Intact, SaidSame, Holds
  <2> QED
    BY <2>1, <2>3, <2>4, <2>5, QuietStep
<1> QED
  BY <1>3, <1>4, <1>5

\* An answer that agrees with what was known.
LEMMA TellSame ==
  ASSUME NEW w \in Worker, NEW a, Catalog!Tell(w, a),
         job[w].query \in Legible => \A p \in job[w].known :
           p[2] = job[w].query /\ <<a, job[w].query>> \notin Symbols => p[1] = a
  PROVE  SaidSame'
BY DEF Catalog!Tell, SaidSame

\* A worker that leaves owes nothing more.
LEMMA LeaveStep ==
  ASSUME CatInv, part = "catalog", part' = part, ~spoilt',
         NEW w \in Worker, Catalog!Leave(w), UNCHANGED <<file, whole, cache, learned>>,
         pc[w] # "write", SaidSame'
  PROVE  Intact'
<1>1. Intact
  BY StaysAlone DEF CatInv, Catalog!Leave
<1>2. \A c \in cache' : learned \subseteq c
  BY <1>1 DEF Intact
<1> QED
  BY <1>2, IdleOwesNothing, QuietStep DEF Catalog!Leave, Catalog!With

\* The catalogue counts as we do, and one asset is a set of one.
LEMMA OneAsset ==
  ASSUME NEW V \in SUBSET Asset, Catalog!Cardinality(V) = 1
  PROVE  \E a \in Asset : V = {a}
<1>1. Catalog!Cardinality(V) = Cardinality(V)
  BY DEF Cardinality, Catalog!Cardinality
<1>2. IsFiniteSet(V)
  BY CatalogAssumption, FS_Subset
<1> QED
  BY <1>1, <1>2, FS_Singleton

\* Naming an asset by the catalogue or by the model.
LEMMA NameStep ==
  ASSUME CatInv, part = "catalog", part' = part, ~spoilt', NEW w \in Worker,
         Catalog!Exact(w) \/ Catalog!Alias(w) \/ Catalog!Confirm(w) \/ Catalog!Discover(w)
  PROVE  Intact'
<1>1. /\ \A place : Catalog!Goto(w, place) => ~spoilt /\ Alone'
      /\ CatTypes /\ job[w] \in Catalog!JobType
  BY StaysAlone DEF CatInv, CatTypes
<1>2. UNCHANGED <<file, whole, cache, learned>> /\ \E place : Catalog!Goto(w, place)
  BY DEF Catalog!Exact, Catalog!Alias, Catalog!Confirm, Catalog!Discover, Catalog!Leave
<1>3. Intact /\ Searched(pc[w], job[w]) /\ Holds(pc[w], job[w])
  BY <1>1, <1>2 DEF CatInv, Intact
<1>4. \A c \in cache' : learned \subseteq c
  BY <1>2, <1>3 DEF Intact
<1>5. \A p \in job[w].known : p[1] \in Asset /\ p = <<p[1], p[2]>>
  BY <1>1 DEF Catalog!JobType, Catalog!Catalogs
<1>6. UNCHANGED said => SaidSame'
  BY <1>3 DEF Intact, SaidSame
<1>7. ASSUME pc[w] # "write", Catalog!Leave(w), UNCHANGED said PROVE Intact'
  BY <1>2, <1>6, <1>7, LeaveStep
<1>8. ASSUME Catalog!Exact(w) PROVE Intact'
  <2> DEFINE j == [job[w] EXCEPT !.cat = job[w].got]
  <2>1. pc[w] = "exact"
    BY <1>8 DEF Catalog!Exact
  <2>2. CASE \E a \in Asset : /\ <<a, job[w].query>> \in Symbols
                              /\ Catalog!Tell(w, a) /\ Catalog!Leave(w)
    BY <1>2, <2>1, <2>2, TellSame, LeaveStep
  <2>3. CASE Catalog!With(w, j) /\ Catalog!Goto(w, "alias") /\ UNCHANGED said
    <3>1. Searched("alias", j) /\ Holds("alias", j)
      BY <1>1, <1>3, <2>1 DEF Searched, Holds, Catalog!Writing, Catalog!JobType
    <3> HIDE DEF j
    <3> QED
      BY <1>2, <1>4, <1>6, <2>1, <2>3, <3>1, QuietStep DEF Catalog!With
  <2> QED
    BY <1>8, <2>2, <2>3 DEF Catalog!Exact, Catalog!Exactly
<1>9. ASSUME Catalog!Alias(w) PROVE Intact'
  <2> DEFINE hits == Catalog!Found(job[w].cat, job[w].query)
             j == [job[w] EXCEPT !.hit = hits, !.then = "confirm"]
  <2>1. pc[w] = "alias" /\ UNCHANGED said /\ job[w].known \subseteq job[w].cat
    BY <1>3, <1>9 DEF Catalog!Alias, Searched
  <2>2. CASE Catalog!Cardinality(hits) = 1 /\ Catalog!Goto(w, "look") /\ Catalog!With(w, j)
    <3>a. hits \in SUBSET Asset
      BY DEF Catalog!Found, Catalog!Exactly
    <3>1. PICK a \in Asset : hits = {a}
      BY <2>2, <3>a, OneAsset
    <3>2. /\ j.known = job[w].known /\ j.cat = job[w].cat /\ j.query = job[w].query
          /\ j.hit = {a} /\ j.then = "confirm"
      BY <1>1, <3>1 DEF Catalog!JobType
    <3>3. Named(a, j)
      BY <3>1, <3>2 DEF Named, Catalog!Found, Catalog!Exactly
    <3> HIDE DEF j, hits
    <3>4. Searched("look", j)
      BY <2>1, <3>2, <3>3 DEF Searched, Catalog!Writing
    <3>5. Holds("look", j)
      BY <1>3, <3>2 DEF Holds, Catalog!Writing
    <3> QED
      BY <1>2, <1>4, <1>6, <2>1, <2>2, <3>4, <3>5, QuietStep DEF Catalog!With
  <2>3. CASE hits = {} /\ Catalog!Goto(w, "discover") /\ UNCHANGED job
    <3>1. NewQuery(job[w])
      BY <1>5, <2>1, <2>3 DEF NewQuery, Catalog!Found
    <3>2. Searched("discover", job[w]) /\ Holds("discover", job[w])
      BY <1>3, <3>1 DEF Searched, Holds, Catalog!Writing
    <3>3. job' = [job EXCEPT ![w] = job[w]]
      BY <1>1, <2>3 DEF CatTypes
    <3> QED
      BY <1>2, <1>4, <1>6, <2>1, <2>3, <3>2, <3>3, QuietStep
  <2>4. \/ Catalog!Leave(w)
        \/ Catalog!Cardinality(hits) = 1 /\ Catalog!Goto(w, "look") /\ Catalog!With(w, j)
        \/ hits = {} /\ Catalog!Goto(w, "discover") /\ UNCHANGED job
    BY <1>9 DEF Catalog!Alias
  <2> HIDE DEF hits, j
  <2> QED
    BY <1>7, <2>1, <2>2, <2>3, <2>4
<1>10. ASSUME Catalog!Confirm(w) PROVE Intact'
  <2>1. PICK a \in job[w].hit :
          IF Catalog!Lists(job[w].got, a) THEN Catalog!Tell(w, a) /\ Catalog!Leave(w)
          ELSE Catalog!Goto(w, "discover") /\ UNCHANGED <<job, said>>
    BY <1>10 DEF Catalog!Confirm
  <2>2. pc[w] = "confirm"
    BY <1>10 DEF Catalog!Confirm
  <2>3. /\ job[w].known \subseteq job[w].cat /\ job[w].known \subseteq job[w].got
        /\ job[w].cat \subseteq job[w].got /\ Named(a, job[w])
    BY <1>3, <2>1, <2>2 DEF Searched, Holds
  <2>4. \/ <<a, job[w].query>> \in Symbols /\ Catalog!Lists(job[w].got, a)
        \/ \A p \in job[w].known : p[2] = job[w].query => p[1] = a
    BY <1>5, <2>3 DEF Named, Catalog!Lists
  <2>5. CASE Catalog!Lists(job[w].got, a)
    BY <1>2, <2>1, <2>2, <2>4, <2>5, TellSame, LeaveStep
  <2>6. CASE ~Catalog!Lists(job[w].got, a)
    <3>1. NewQuery(job[w])
      BY <2>3, <2>4, <2>6 DEF NewQuery, Catalog!Lists
    <3>2. Searched("discover", job[w]) /\ Holds("discover", job[w])
      BY <1>3, <3>1 DEF Searched, Holds, Catalog!Writing
    <3>3. job' = [job EXCEPT ![w] = job[w]]
      BY <1>1, <2>1, <2>6 DEF CatTypes
    <3> QED
      BY <1>2, <1>4, <1>6, <2>1, <2>2, <2>6, <3>2, <3>3, QuietStep
  <2> QED
    BY <2>5, <2>6
<1>11. ASSUME Catalog!Discover(w) PROVE Intact'
  <2>1. pc[w] = "discover" /\ NewQuery(job[w])
    BY <1>3, <1>11 DEF Catalog!Discover, Searched
  <2>a. PICK C \in Catalog!Candidates : \E V \in Catalog!Validated(C) :
          \/ Catalog!Leave(w) /\ UNCHANGED said
          \/ (\E a \in V : Catalog!Tell(w, a)) /\ Catalog!Leave(w)
          \/ /\ Catalog!Cardinality(V) = 1 /\ UNCHANGED said /\ Catalog!Goto(w, "register")
             /\ Catalog!With(w, [job[w] EXCEPT !.hit = V])
    BY <1>11 DEF Catalog!Discover
  <2>2. PICK V \in SUBSET Asset :
          \/ Catalog!Leave(w) /\ UNCHANGED said
          \/ (\E a \in V : Catalog!Tell(w, a)) /\ Catalog!Leave(w)
          \/ /\ Catalog!Cardinality(V) = 1 /\ UNCHANGED said /\ Catalog!Goto(w, "register")
             /\ Catalog!With(w, [job[w] EXCEPT !.hit = V])
    BY <2>a, Zenon DEF Catalog!Candidates, Catalog!Validated
  <2>3. CASE (\E a \in V : Catalog!Tell(w, a)) /\ Catalog!Leave(w)
    BY <1>2, <2>1, <2>3, TellSame, LeaveStep DEF NewQuery
  <2> DEFINE j == [job[w] EXCEPT !.hit = V]
  <2>4. CASE /\ Catalog!Cardinality(V) = 1 /\ UNCHANGED said /\ Catalog!Goto(w, "register")
             /\ Catalog!With(w, j)
    <3>1. PICK a \in Asset : V = {a}
      BY <2>4, OneAsset
    <3>2. j.known = job[w].known /\ j.query = job[w].query /\ j.hit = {a}
      BY <1>1, <3>1 DEF Catalog!JobType
    <3> HIDE DEF j
    <3>3. Searched("register", j) /\ Holds("register", j)
      BY <1>3, <2>1, <3>2 DEF Searched, Holds, NewQuery, Named, Catalog!Lists,
       Catalog!Writing
    <3> QED
      BY <1>2, <1>4, <1>6, <2>1, <2>4, <3>3, QuietStep DEF Catalog!With
  <2> QED
    BY <1>7, <2>1, <2>2, <2>3, <2>4
<1> QED
  BY <1>8, <1>9, <1>10, <1>11

\* Writing an asset: the file and the cache keep what was learned before.
LEMMA RegisterStep ==
  ASSUME CatInv, part = "catalog", part' = part, ~spoilt',
         NEW w \in Worker, Catalog!Register(w)
  PROVE  Intact'
<1>1. /\ \A place : Catalog!Goto(w, place) => ~spoilt /\ Alone'
      /\ CatTypes /\ job[w] \in Catalog!JobType
  BY StaysAlone DEF CatInv, CatTypes
<1>2. PICK a \in job[w].hit, B \in SUBSET Legible :
        LET c == Catalog!Readable  j == job[w] IN
        \/ Catalog!Tell(w, a) /\ Catalog!Leave(w)
        \/ /\ Catalog!With(w, [j EXCEPT !.got = c \cup {p \in Names : p[1] = a}
                                           \cup {<<a, q>> : q \in B \cup {j.query}}])
           /\ Catalog!Goto(w, "truncate") /\ UNCHANGED said
  BY DEF Catalog!Register
<1>3. UNCHANGED <<file, whole, cache, learned>> /\ pc[w] = "register"
  BY DEF Catalog!Register
<1>4. Intact /\ Searched("register", job[w]) /\ Holds("register", job[w])
  BY <1>1, <1>2, <1>3 DEF CatInv, Intact, Catalog!Leave
<1>5. NewQuery(job[w]) /\ job[w].hit = {a}
  BY <1>2, <1>4 DEF Searched
<1>6. CASE Catalog!Tell(w, a) /\ Catalog!Leave(w)
  BY <1>3, <1>5, <1>6, TellSame, LeaveStep DEF NewQuery
<1> DEFINE got == Catalog!Readable \cup {p \in Names : p[1] = a}
                    \cup {<<a, q>> : q \in B \cup {job[w].query}}
           j == [job[w] EXCEPT !.got = got]
<1>7. CASE Catalog!With(w, j) /\ Catalog!Goto(w, "truncate") /\ UNCHANGED said
  <2>1. \A v \in Worker : pc[v] # "write"
    <3>1. pc'[w] = "truncate" /\ \A v \in Worker \ {w} : pc'[v] = pc[v]
      BY <1>1, <1>7, Moved DEF Catalog!With
    <3> QED
      BY <1>1, <1>3, <1>7, <3>1 DEF Alone, Catalog!Writing
  <2>2. learned \subseteq got
    BY <1>4, <2>1 DEF Intact, Catalog!Readable
  <2>3. /\ j.known = job[w].known /\ j.query = job[w].query /\ j.hit = {a} /\ j.got = got
        /\ j.then = job[w].then /\ j.cat = job[w].cat
    BY <1>1, <1>5 DEF Catalog!JobType
  <2>4. <<a, j.query>> \in j.got
    BY <2>3
  <2>5. a \in Asset
    BY <1>1, <1>5 DEF Catalog!JobType
  <2> HIDE DEF j, got
  <2>6. Searched("truncate", j)
    BY <1>5, <2>3, <2>4, <2>5 DEF Searched, NewQuery, Named, Catalog!Lists,
       Catalog!Writing
  <2>7. Holds("truncate", j)
    BY <1>4, <2>2, <2>3 DEF Holds, Catalog!Writing
  <2>8. SaidSame' /\ \A c \in cache' : learned \subseteq c
    BY <1>3, <1>4, <1>7 DEF Intact, SaidSame
  <2> QED
    BY <1>3, <1>7, <2>6, <2>7, <2>8, QuietStep DEF Catalog!With
<1> QED
  BY <1>2, <1>6, <1>7

LEMMA WriteStep ==
  ASSUME CatInv, part = "catalog", part' = part, ~spoilt', NEW w \in Worker,
         Catalog!Truncate(w) \/ Catalog!Write(w) \/ Catalog!Clear(w)
  PROVE  Intact'
<1>1. /\ pc[w] \in Catalog!Writing /\ job[w] \in Catalog!JobType /\ CatTypes
      /\ \E place : Catalog!Goto(w, place)
  BY DEF Catalog!Truncate, Catalog!Write, Catalog!Clear, Catalog!Leave, Catalog!Writing, CatInv,
     CatTypes
<1>2. Intact /\ Alone' /\ Searched(pc[w], job[w]) /\ Holds(pc[w], job[w])
  BY <1>1, StaysAlone DEF CatInv, Intact
<1>3. \A v \in Worker \ {w} : pc[v] \notin Catalog!Writing \cup {"store"}
  BY <1>1, <1>2 DEF Intact, Alone
<1>4. learned \subseteq job[w].got
  BY <1>1, <1>2 DEF Holds
\* The other workers: nothing that they hold changes.
<1>5. ASSUME NEW v \in Worker \ {w}, pc'[v] = pc[v], job'[v] = job[v],
             learned \subseteq learned'
      PROVE  (Searched(pc[v], job[v]) /\ Holds(pc[v], job[v]))'
  <2>1. Searched(pc[v], job[v]) /\ Holds(pc[v], job[v])
    BY <1>2 DEF Intact
  <2>2. Searched(pc[v], job[v])'
    BY <1>5, <2>1 DEF Searched, NewQuery, Named, Catalog!Lists,
       Catalog!Writing
  <2>3. Holds(pc[v], job[v])'
    BY <1>3, <1>5, <2>1 DEF Holds, Catalog!Writing
  <2> QED
    BY <2>2, <2>3
<1>6. ASSUME Catalog!Truncate(w) PROVE Intact'
  <2>1. /\ pc[w] = "truncate" /\ Catalog!Goto(w, "write") /\ whole' = FALSE
        /\ UNCHANGED <<job, cache, learned, said>>
    BY <1>6 DEF Catalog!Truncate
  <2>2. /\ pc'[w] = "write" /\ job'[w] = job[w]
        /\ \A v \in Worker \ {w} : pc'[v] = pc[v] /\ job'[v] = job[v]
    BY <1>1, <2>1 DEF CatTypes, Catalog!Goto
  <2>3. Searched(pc[w], job[w])' /\ Holds(pc[w], job[w])'
    BY <1>2, <1>4, <2>1, <2>2 DEF Searched, Holds, NewQuery, Named, Catalog!Lists,
       Catalog!Writing
  <2>4. SaidSame' /\ \A c \in cache' : learned' \subseteq c
    BY <1>2, <2>1 DEF Intact, SaidSame
  <2> QED
    BY <1>2, <1>5, <2>1, <2>2, <2>3, <2>4 DEF Intact
<1>7. ASSUME Catalog!Write(w) PROVE Intact'
  <2>1. /\ pc[w] = "write" /\ Catalog!Goto(w, "clear") /\ whole' = TRUE /\ file' = job[w].got
        /\ UNCHANGED <<job, cache, learned, said>>
    BY <1>7 DEF Catalog!Write
  <2>2. /\ pc'[w] = "clear" /\ job'[w] = job[w]
        /\ \A v \in Worker \ {w} : pc'[v] = pc[v] /\ job'[v] = job[v]
    BY <1>1, <2>1 DEF CatTypes, Catalog!Goto
  <2>3. Searched(pc[w], job[w])' /\ Holds(pc[w], job[w])'
    BY <1>2, <1>4, <2>1, <2>2 DEF Searched, Holds, NewQuery, Named, Catalog!Lists,
       Catalog!Writing
  <2>4. SaidSame' /\ \A c \in cache' : learned' \subseteq c
    BY <1>2, <2>1 DEF Intact, SaidSame
  <2> QED
    BY <1>2, <1>4, <1>5, <2>1, <2>2, <2>3, <2>4 DEF Intact
<1>8. ASSUME Catalog!Clear(w) PROVE Intact'
  <2>1. PICK a \in job[w].hit : /\ Catalog!Tell(w, a)
                                /\ learned' = learned \cup {<<a, job[w].query>>}
    BY <1>8 DEF Catalog!Clear
  <2>2. /\ pc[w] = "clear" /\ Catalog!Goto(w, "idle") /\ Catalog!With(w, Catalog!NoJob)
        /\ cache' = {} /\ UNCHANGED <<file, whole>>
    BY <1>8 DEF Catalog!Clear, Catalog!Leave
  <2>3. /\ pc'[w] = "idle" /\ job'[w] = Catalog!NoJob
        /\ \A v \in Worker \ {w} : pc'[v] = pc[v] /\ job'[v] = job[v]
    BY <1>1, <2>2, Moved DEF Catalog!With
  <2>4. whole /\ file = job[w].got /\ <<a, job[w].query>> \in job[w].got
    BY <1>2, <2>1, <2>2 DEF Searched, Holds, Catalog!Writing
  <2>5. learned' \subseteq file'
    BY <1>4, <2>1, <2>2, <2>4
  <2>6. Searched(pc[w], job[w])' /\ Holds(pc[w], job[w])'
    BY <2>3, NoJobType DEF Searched, Holds, Catalog!Writing, Catalog!NoJob
  <2>7. SaidSame'
    BY <1>1, <1>2, <2>1, TellSame DEF Searched, NewQuery
  <2>8. \A v \in Worker \ {w} : (Searched(pc[v], job[v]) /\ Holds(pc[v], job[v]))'
    BY <1>5, <2>1, <2>3
  <2> QED
    BY <1>2, <2>2, <2>4, <2>5, <2>6, <2>7, <2>8 DEF Intact
<1> QED
  BY <1>6, <1>7, <1>8

\* A death that leaves the file whole.
LEMMA CrashStep ==
  ASSUME CatInv, part = "catalog", part' = part, ~spoilt', Catalog!Crash
  PROVE  Intact'
<1>1. /\ pc' = [w \in Worker |-> "idle"] /\ job' = [w \in Worker |-> Catalog!NoJob]
      /\ cache' = {} /\ UNCHANGED <<file, whole, learned, said>> /\ ~spoilt /\ whole
  BY DEF Catalog!Crash
<1>2. Intact
  BY <1>1 DEF CatInv
<1>3. ASSUME NEW w \in Worker PROVE (Searched(pc[w], job[w]) /\ Holds(pc[w], job[w]))'
  <2>1. pc'[w] = "idle" /\ job'[w] = Catalog!NoJob
    BY <1>1
  <2> QED
    BY <2>1, NoJobType DEF Searched, Holds, Catalog!Writing, Catalog!NoJob
<1>4. Alone'
  BY <1>1 DEF Alone, Catalog!Writing
<1>5. SaidSame'
  BY <1>1, <1>2 DEF Intact, SaidSame
<1> QED
  BY <1>1, <1>2, <1>3, <1>4, <1>5 DEF Intact

\* Without overlaps no step takes anything out of a catalogue.
LEMMA GrowsStep ==
  ASSUME CatInv, part = "catalog", part' = part, ~spoilt', Catalog!Next
  PROVE  GrowsOnly'
<1>1. CatTypes /\ \A w \in Worker : job[w] \in Catalog!JobType
  BY DEF CatInv, CatTypes
<1>2. ASSUME NEW w \in Worker, NEW place, Catalog!Goto(w, place)
      PROVE  Intact /\ GrowsOnly /\ Alone'
  BY <1>2, StaysAlone DEF CatInv
<1>3. ASSUME NEW w \in Worker, NEW place, NEW j,
             Catalog!Goto(w, place), job' = [job EXCEPT ![w] = j],
             UNCHANGED <<file, whole, cache>>, place \notin {"store"} \cup Catalog!Writing,
             Seen(place, j) \subseteq Seen(pc[w], job[w]) \/ Seen(place, j) \in cache
      PROVE  GrowsOnly'
  <2>1. Intact /\ GrowsOnly /\ Alone'
    BY <1>2, <1>3
  <2>2. /\ pc'[w] = place /\ job'[w] = j
        /\ \A v \in Worker \ {w} : pc'[v] = pc[v] /\ job'[v] = job[v]
    BY <1>1, <1>3, Moved
  <2>3. \A v \in Worker : \/ Seen(pc'[v], job'[v]) \subseteq Seen(pc[v], job[v])
                          \/ Seen(pc'[v], job'[v]) \in cache
    BY <1>3, <2>2 DEF Seen
  <2>4. \A v \in Worker : pc'[v] \in {"store"} \cup Catalog!Writing =>
                            pc'[v] = pc[v] /\ job'[v] = job[v]
    BY <1>3, <2>2
  <2>5. \A v \in Worker : Seen(pc[v], job[v])' = Seen(pc'[v], job'[v])
    BY DEF Seen
  <2> HIDE DEF Seen
  <2> QED
    BY <1>3, <2>1, <2>3, <2>4, <2>5 DEF GrowsOnly, Catalog!Writing
<1>4. ASSUME NEW w \in Worker, Catalog!Leave(w), UNCHANGED <<file, whole, cache>> PROVE GrowsOnly'
  <2>1. Seen("idle", Catalog!NoJob) = {}
    BY DEF Seen, Catalog!NoJob
  <2> QED
    BY <1>3, <1>4, <2>1 DEF Catalog!Leave, Catalog!With, Catalog!Writing
<1>5. ASSUME NEW w \in Worker, Catalog!Ask(w) PROVE GrowsOnly'
  <2> DEFINE asked(q) == [Catalog!NoJob EXCEPT !.query = q, !.known = learned]
  <2>1. PICK q \in Query : Catalog!Goto(w, "look") /\ Catalog!With(w, asked(q))
    BY <1>5 DEF Catalog!Ask
  <2>2. Seen("look", asked(q)) = {}
    BY DEF Seen, Catalog!NoJob
  <2>3. UNCHANGED <<file, whole, cache>>
    BY <1>5 DEF Catalog!Ask
  <2> HIDE DEF asked
  <2> QED
    BY <1>3, <2>1, <2>2, <2>3 DEF Catalog!With, Catalog!Writing
<1>6. ASSUME NEW w \in Worker, Catalog!Look(w) PROVE GrowsOnly'
  <2> DEFINE took(c) == [job[w] EXCEPT !.got = c]
  <2>1. UNCHANGED <<file, whole, cache>> /\ pc[w] = "look" /\ job[w].then \in {"exact", "confirm"}
    BY <1>1, <1>6 DEF Catalog!Look, Catalog!JobType
  <2>2. \A c : took(c).cat = job[w].cat /\ took(c).got = c
    BY <1>1 DEF Catalog!JobType
  <2>3. ASSUME NEW c \in cache, Catalog!With(w, took(c)), Catalog!Goto(w, job[w].then)
        PROVE  GrowsOnly'
    <3>1. Seen(pc[w], job[w]) = job[w].cat /\ job[w].cat \subseteq c
      BY <1>2, <2>1, <2>3 DEF GrowsOnly, Seen
    <3>2. Seen(job[w].then, took(c)) \in {job[w].cat, c}
      BY <2>1, <2>2, <3>1 DEF Seen
    <3> HIDE DEF took
    <3> QED
      BY <1>3, <2>1, <2>3, <3>1, <3>2 DEF Catalog!With, Catalog!Writing
  <2>4. ASSUME cache = {}, Catalog!With(w, took(Catalog!Readable)), Catalog!Goto(w, "store")
        PROVE  GrowsOnly'
    <3>1. Intact /\ GrowsOnly /\ Alone'
      BY <1>2, <2>4
    <3>2. /\ pc'[w] = "store" /\ job'[w] = took(Catalog!Readable)
          /\ \A v \in Worker \ {w} : pc'[v] = pc[v] /\ job'[v] = job[v]
      BY <1>1, <2>4, Moved DEF Catalog!With
    <3>3. \A v \in Worker : pc'[v] \notin Catalog!Writing /\ pc[v] # "write"
      BY <2>1, <3>1, <3>2 DEF Alone, Catalog!Writing
    <3>4. whole /\ Catalog!Readable = file
      BY <3>1, <3>3 DEF Intact, Catalog!Readable
    <3>5. job'[w].got = file /\ job'[w].cat = job[w].cat
      BY <2>2, <3>2, <3>4
    <3>6. \A v \in Worker : Seen(pc'[v], job'[v]) = Seen(pc[v], job[v])
      BY <2>1, <3>2, <3>5 DEF Seen
    <3>7. \A v \in Worker : Seen(pc[v], job[v])' = Seen(pc'[v], job'[v])
      BY DEF Seen
    <3> HIDE DEF Seen, took
    <3> QED
      BY <2>1, <2>4, <3>1, <3>2, <3>3, <3>4, <3>5, <3>6, <3>7 DEF GrowsOnly
  <2> QED
    BY <1>6, <2>3, <2>4 DEF Catalog!Look
<1>7. ASSUME NEW w \in Worker, Catalog!Fill(w) PROVE GrowsOnly'
  <2>1. /\ pc[w] = "store" /\ cache' = {job[w].got} /\ Catalog!Goto(w, job[w].then)
        /\ UNCHANGED <<file, whole, job>> /\ job[w].then \in {"exact", "confirm"}
    BY <1>1, <1>7 DEF Catalog!Fill, Catalog!JobType
  <2>2. Intact /\ GrowsOnly /\ Alone' /\ job' = [job EXCEPT ![w] = job[w]]
    BY <1>1, <1>2, <2>1 DEF CatTypes
  <2>3. /\ pc'[w] = job[w].then /\ \A v \in Worker \ {w} : pc'[v] = pc[v]
    BY <1>1, <2>1 DEF CatTypes, Catalog!Goto
  <2>4. whole /\ job[w].got = file
    BY <2>1, <2>2 DEF GrowsOnly
  <2>5. \A v \in Worker : pc[v] \notin Catalog!Writing /\ pc'[v] \notin Catalog!Writing
    BY <2>1, <2>2, <2>3 DEF Intact, Alone, Catalog!Writing
  <2>6. \A v \in Worker : Seen(pc'[v], job[v]) \subseteq Seen(pc[v], job[v]) \cup file
    BY <2>1, <2>3, <2>4 DEF Seen
  <2>7. \A v \in Worker : Seen(pc[v], job[v])' = Seen(pc'[v], job[v])
    BY <2>1 DEF Seen
  <2> HIDE DEF Seen
  <2> QED
    BY <2>1, <2>2, <2>3, <2>4, <2>5, <2>6, <2>7 DEF GrowsOnly
<1>8. ASSUME NEW w \in Worker, Catalog!Exact(w) PROVE GrowsOnly'
  <2> DEFINE j == [job[w] EXCEPT !.cat = job[w].got]
  <2>1. pc[w] = "exact" /\ UNCHANGED <<file, whole, cache>>
    BY <1>8 DEF Catalog!Exact
  <2>2. CASE Catalog!With(w, j) /\ Catalog!Goto(w, "alias")
    <3>1. Seen("alias", j) \subseteq Seen(pc[w], job[w])
      BY <1>1, <2>1 DEF Seen, Catalog!JobType
    <3> HIDE DEF j, Seen
    <3> QED
      BY <1>3, <2>1, <2>2, <3>1 DEF Catalog!With, Catalog!Writing
  <2> QED
    BY <1>4, <1>8, <2>1, <2>2 DEF Catalog!Exact
<1>9. ASSUME NEW w \in Worker, Catalog!Alias(w) \/ Catalog!Confirm(w) \/ Catalog!Discover(w)
      PROVE  GrowsOnly'
  <2>1. UNCHANGED <<file, whole, cache>> /\ job' \in [Worker -> Catalog!JobType]
    BY <1>9, CatTypesStep DEF Catalog!Alias, Catalog!Confirm, Catalog!Discover, CatInv, CatTypes
  <2>2. \/ Catalog!Leave(w)
        \/ \E place \in {"look", "discover", "register"} : \E j :
             /\ Catalog!Goto(w, place) /\ job' = [job EXCEPT ![w] = j] /\ j.cat = job[w].cat
    <3>1. job = [job EXCEPT ![w] = job[w]]
      BY <1>1 DEF CatTypes
    <3>2. \A V : [job[w] EXCEPT !.hit = V].cat = job[w].cat
      BY <1>1 DEF Catalog!JobType
    <3>3. \A V : [job[w] EXCEPT !.hit = V, !.then = "confirm"].cat = job[w].cat
      BY <1>1 DEF Catalog!JobType
    <3>4. CASE Catalog!Alias(w)
      BY <3>1, <3>3, <3>4 DEF Catalog!Alias, Catalog!With
    <3>5. CASE Catalog!Confirm(w)
      BY <3>1, <3>5 DEF Catalog!Confirm
    <3>6. CASE Catalog!Discover(w)
      BY <3>2, <3>6 DEF Catalog!Discover, Catalog!With
    <3> QED
      BY <1>9, <3>4, <3>5, <3>6
  <2>3. ASSUME NEW place \in {"look", "discover", "register"}, NEW j,
               Catalog!Goto(w, place), job' = [job EXCEPT ![w] = j], j.cat = job[w].cat
        PROVE  GrowsOnly'
    <3>1. Seen(place, j) \subseteq Seen(pc[w], job[w])
      BY <2>3 DEF Seen
    <3> QED
      BY <1>3, <2>1, <2>3, <3>1 DEF Catalog!Writing
  <2> QED
    BY <1>4, <2>1, <2>2, <2>3
<1>10. ASSUME NEW w \in Worker, Catalog!Register(w) PROVE GrowsOnly'
  <2> DEFINE put(a, B) == Catalog!Readable \cup {p \in Names : p[1] = a}
                            \cup {<<a, q>> : q \in B \cup {job[w].query}}
             j(a, B) == [job[w] EXCEPT !.got = put(a, B)]
  <2>1. pc[w] = "register" /\ UNCHANGED <<file, whole, cache>>
    BY <1>10 DEF Catalog!Register
  <2>2. PICK a \in job[w].hit, B \in SUBSET Legible :
          Catalog!Leave(w) \/ (Catalog!With(w, j(a, B)) /\ Catalog!Goto(w, "truncate"))
    BY <1>10 DEF Catalog!Register
  <2>3. CASE Catalog!With(w, j(a, B)) /\ Catalog!Goto(w, "truncate")
    <3>1. Intact /\ GrowsOnly /\ Alone'
      BY <1>2, <2>3
    <3>2. /\ pc'[w] = "truncate" /\ job'[w] = j(a, B)
          /\ \A v \in Worker \ {w} : pc'[v] = pc[v] /\ job'[v] = job[v]
      BY <1>1, <2>3, Moved DEF Catalog!With
    <3>3. \A v \in Worker \ {w} : pc'[v] \notin Catalog!Writing \cup {"store"}
      BY <3>1, <3>2 DEF Alone, Catalog!Writing
    <3>4. whole /\ file \subseteq put(a, B)
      <4>1. \A v \in Worker : pc[v] # "write"
        BY <2>1, <3>2, <3>3 DEF Catalog!Writing
      <4> QED
        BY <3>1, <4>1 DEF Intact, Catalog!Readable
    <3>5. job'[w].got = put(a, B) /\ job'[w].cat = job[w].cat
      BY <1>1, <3>2 DEF Catalog!JobType
    <3>6. \A v \in Worker : Seen(pc'[v], job'[v]) = Seen(pc[v], job[v])
      BY <2>1, <3>2, <3>5 DEF Seen
    <3>7. \A v \in Worker : Seen(pc[v], job[v])' = Seen(pc'[v], job'[v])
      BY DEF Seen
    <3> HIDE DEF Seen, j, put
    <3> QED
      BY <2>1, <3>1, <3>2, <3>3, <3>4, <3>5, <3>6, <3>7 DEF GrowsOnly, Catalog!Writing
  <2> HIDE DEF j
  <2> QED
    BY <1>4, <2>1, <2>2, <2>3
<1>11. ASSUME NEW w \in Worker, Catalog!Truncate(w) PROVE GrowsOnly'
  <2>1. /\ pc[w] = "truncate" /\ Catalog!Goto(w, "write") /\ whole' = FALSE
        /\ UNCHANGED <<cache, job>>
    BY <1>11 DEF Catalog!Truncate
  <2>2. Intact /\ GrowsOnly /\ Alone'
    BY <1>2, <2>1
  <2>3. pc'[w] = "write" /\ \A v \in Worker \ {w} : pc'[v] = pc[v]
    BY <1>1, <2>1 DEF CatTypes, Catalog!Goto
  <2>4. \A v \in Worker \ {w} : pc'[v] \notin Catalog!Writing \cup {"store"}
    BY <2>2, <2>3 DEF Alone, Catalog!Writing
  <2>5. \A v \in Worker : Seen(pc[v], job[v])' = Seen(pc[v], job[v])
    BY <2>1, <2>3 DEF Seen
  <2> HIDE DEF Seen
  <2> QED
    BY <2>1, <2>2, <2>3, <2>4, <2>5 DEF GrowsOnly, Catalog!Writing
<1>12. ASSUME NEW w \in Worker, Catalog!Write(w) PROVE GrowsOnly'
  <2>1. /\ pc[w] = "write" /\ Catalog!Goto(w, "clear") /\ whole' = TRUE /\ file' = job[w].got
        /\ UNCHANGED <<cache, job>>
    BY <1>12 DEF Catalog!Write
  <2>2. Intact /\ GrowsOnly /\ Alone'
    BY <1>2, <2>1
  <2>3. pc'[w] = "clear" /\ \A v \in Worker \ {w} : pc'[v] = pc[v]
    BY <1>1, <2>1 DEF CatTypes, Catalog!Goto
  <2>4. \A v \in Worker \ {w} : pc'[v] \notin Catalog!Writing \cup {"store"}
    BY <2>2, <2>3 DEF Alone, Catalog!Writing
  <2>5. \A v \in Worker : Seen(pc[v], job[v])' = Seen(pc[v], job[v])
    BY <2>1, <2>3 DEF Seen
  <2> HIDE DEF Seen
  <2> QED
    BY <2>1, <2>2, <2>3, <2>4, <2>5 DEF GrowsOnly, Catalog!Writing
<1>13. ASSUME NEW w \in Worker, Catalog!Clear(w) PROVE GrowsOnly'
  <2>1. /\ pc[w] = "clear" /\ Catalog!Goto(w, "idle") /\ Catalog!With(w, Catalog!NoJob)
        /\ cache' = {} /\ UNCHANGED <<file, whole>>
    BY <1>13 DEF Catalog!Clear, Catalog!Leave
  <2>2. Intact /\ GrowsOnly
    BY <1>2, <2>1
  <2>3. /\ pc'[w] = "idle" /\ job'[w] = Catalog!NoJob
        /\ \A v \in Worker \ {w} : pc'[v] = pc[v] /\ job'[v] = job[v]
    BY <1>1, <2>1, Moved DEF Catalog!With
  <2>4. \A v \in Worker \ {w} : pc[v] \notin Catalog!Writing \cup {"store"}
    BY <2>1, <2>2 DEF Intact, Alone, Catalog!Writing
  <2>5. \A v \in Worker : Seen(pc'[v], job'[v]) \subseteq Seen(pc[v], job[v])
    BY <2>3 DEF Seen, Catalog!NoJob
  <2>6. \A v \in Worker : Seen(pc[v], job[v])' = Seen(pc'[v], job'[v])
    BY DEF Seen
  <2> HIDE DEF Seen
  <2> QED
    BY <2>1, <2>2, <2>3, <2>4, <2>5, <2>6 DEF GrowsOnly, Catalog!Writing
<1>14. ASSUME Catalog!Crash PROVE GrowsOnly'
  <2>1. /\ pc' = [w \in Worker |-> "idle"] /\ job' = [w \in Worker |-> Catalog!NoJob]
        /\ cache' = {}
    BY <1>14 DEF Catalog!Crash
  <2>2. \A v \in Worker : (Seen(pc[v], job[v]) = {})'
    BY <2>1 DEF Seen, Catalog!NoJob
  <2> HIDE DEF Seen
  <2> QED
    BY <2>1, <2>2 DEF GrowsOnly, Catalog!Writing
<1> QED
  BY <1>5, <1>6, <1>7, <1>8, <1>9, <1>10, <1>11, <1>12, <1>13, <1>14 DEF Catalog!Next

LEMMA CatNext == ASSUME CatInv, [Next]_vars PROVE CatInv'
<1> SUFFICES ASSUME part' = "catalog" PROVE CatInv'
  BY DEF CatInv
<1>a. part' = part /\ part = "catalog"
  BY DEF Next, WindowStep, ConnStep, MigrateStep, ProfileStep, CatalogStep, LevelsStep, vars
<1>1. CASE Catalog!Next
  <2>1. CatTypes'
    BY <1>1, <1>a, CatTypesStep DEF CatInv
  <2>2. ASSUME ~spoilt' PROVE Intact' /\ GrowsOnly'
    BY <1>1, <1>a, <2>2, LookStep, NameStep, RegisterStep, WriteStep, CrashStep, GrowsStep
       DEF Catalog!Next
  <2> QED
    BY <2>1, <2>2 DEF CatInv
<1>2. CASE UNCHANGED vars
  <2>1. UNCHANGED <<file, whole, cache, learned, pc, job, said, spoilt>>
    BY <1>2 DEF vars, catalog
  <2>a. GrowsOnly' = GrowsOnly
    BY <2>1 DEF GrowsOnly, Seen, Catalog!Writing
  <2>2. CatTypes' = CatTypes
    BY <2>1 DEF CatTypes, Catalog!Catalogs, Catalog!Places, Catalog!JobType, Catalog!Writing
  <2>3. Intact' = Intact
    BY <2>1 DEF Intact, Alone, SaidSame, Searched, Holds, NewQuery, Named, Catalog!Lists,
       Catalog!Writing
  <2> QED
    BY <1>a, <2>1, <2>2, <2>3, <2>a DEF CatInv
<1> QED
  BY <1>a, <1>1, <1>2 DEF Next, WindowStep, ConnStep, MigrateStep, ProfileStep, CatalogStep,
     LevelsStep

\* At the start nothing is known and nobody asks.
LEMMA CatInit == Init => CatInv
<1> SUFFICES ASSUME Init, part = "catalog" PROVE CatInv
  BY DEF CatInv
<1>1. Catalog!Init
  BY DEF Init
<1>2. /\ file \in Catalog!Catalogs /\ whole = TRUE /\ cache = {} /\ learned = {}
      /\ pc = [w \in Worker |-> "idle"] /\ job = [w \in Worker |-> Catalog!NoJob]
      /\ said.asset = {}
  BY <1>1, CatalogAssumption DEF Catalog!Init, Catalog!Catalogs, Catalog!Nothing
<1>3. CatTypes
  BY <1>2, NoJobType, PlacesAre DEF CatTypes, Catalog!Catalogs
<1>4. Alone /\ SaidSame
  BY <1>2 DEF Alone, SaidSame, Catalog!Writing
<1>5. \A w \in Worker : Searched(pc[w], job[w]) /\ Holds(pc[w], job[w])
  BY <1>2, IdleOwesNothing
<1>6. GrowsOnly
  BY <1>2 DEF GrowsOnly, Seen, Catalog!NoJob, Catalog!Writing
<1> QED
  BY <1>2, <1>3, <1>4, <1>5, <1>6 DEF CatInv, Intact

\* A legible query that has registered an asset never names another one later,
\* unless it is that one's symbol, however many conversations resolve queries, as
\* long as no registration overlaps another one or a fill of the cache, and no
\* death cuts the file short.
THEOREM LearnedQueryKeepsMeaning == Spec => []SameAnswer
<1>1. Init => CatInv
  BY CatInit
<1>2. CatInv /\ [Next]_vars => CatInv'
  BY CatNext
<1>3. CatInv => SameAnswer
  BY DEF CatInv, Intact, SaidSame, SameAnswer, Catalog!SameAnswer
<1> QED
  BY <1>1, <1>2, <1>3, PTL DEF Spec

\* An asset and the query that registered it can be missing from the file, and a
\* legible query can fail to find the asset there, only after registrations of two
\* threads overlapped or a process died inside the write, unless the query is the
\* symbol of a listed asset.
THEOREM RegistrationsKeptUnspoilt ==
  Spec => [](part = "catalog" /\ ~spoilt => Catalog!RegistrationKept)
<1>1. Init => CatInv
  BY CatInit
<1>2. CatInv /\ [Next]_vars => CatInv'
  BY CatNext
<1>3. CatInv => (part = "catalog" /\ ~spoilt => Catalog!RegistrationKept)
  <2> SUFFICES ASSUME CatInv, part = "catalog", ~spoilt,
                      \A w \in Worker : pc[w] = "idle",
                      NEW p \in learned
               PROVE  /\ p \in Catalog!Readable
                      /\ p[2] \in Legible => \/ p[1] \in Catalog!Found(Catalog!Readable, p[2])
                                             \/ Catalog!Exactly(Catalog!Readable, p[2]) # {}
    BY DEF Catalog!RegistrationKept
  <2>1. whole /\ learned \subseteq file
    BY DEF CatInv, Intact
  <2>2. p \in Catalog!Readable
    BY <2>1 DEF Catalog!Readable
  <2>3. p[1] \in Asset /\ p = <<p[1], p[2]>>
    BY DEF CatInv, CatTypes, Catalog!Catalogs
  <2> QED
    BY <2>2, <2>3 DEF Catalog!Found
<1> QED
  BY <1>1, <1>2, <1>3, PTL DEF Spec

-----------------------------------------------------------------------------
(* ContextWindow: what is shown, dropped and summarised *)

Messages == Window!Of("user")
Replies  == Window!Of("final") \cup Window!Of("local")

WinTypes == log \in Seq(Window!EventType) /\ active \in Nat /\ cut \in Nat

\* A turn that is prepared or runs is that of a message without a reply in place
\* and without an abort.
Prepared == /\ pc # "idle" <=> active # 0
            /\ active # 0 => /\ active \in Messages /\ Window!Span(active) \cap Replies = {}
                             /\ ~ Window!IsAborted(active)

\* Aborts name messages, and checkpoints keep the log from a message on.
NamesMessages == /\ \A n \in Window!Of("aborted") : log[n].turn \in Messages
                 /\ \A c \in Window!Of("checkpoint") : log[c].first \in Messages

\* An aborted turn has no answer in place.
NotBoth == \A u \in Messages : \A n \in Window!Span(u) \cap Window!Of("final") :
             log[n].turn = u => ~ Window!IsAborted(u)

\* Answered turns before the checkpoint are told by its summary.
Covered == \A u \in Messages : u < Window!Checkpoint.first /\ Window!InPlace(u) =>
             Window!Told(u) \subseteq Window!Checkpoint.told

\* A summary is asked for from a message on, and a request shows what is visible.
AtRequest == /\ pc = "summary" => cut \in Messages
             /\ pc = "ask" => shown = Window!Visible

WinInv == part = "window" =>
  WinTypes /\ Prepared /\ NamesMessages /\ NotBoth /\ Covered /\ AtRequest

\* A bounded set of numbers that is not empty has a greatest member.
LEMMA MostIn ==
  ASSUME NEW S, NEW b \in Nat, S \subseteq 0 .. b, S # {}
  PROVE  Window!Most(S) \in S /\ \A k \in S : k <= Window!Most(S)
<1> DEFINE D == {b - k : k \in S}
<1>1. D \subseteq Nat /\ D # {}
  <2>1. \A k \in S : b - k \in Nat
    OBVIOUS
  <2>2. PICK k \in S : TRUE
    OBVIOUS
  <2> QED
    BY <2>1, <2>2
<1>2. PICK d \in D : \A e \in D : d <= e
  BY <1>1, LeastExists
<1>3. PICK n \in S : d = b - n
  BY <1>2
<1>4. \A k \in S : k <= n
  BY <1>2, <1>3
<1> QED
  BY <1>3, <1>4 DEF Window!Most

\* Events of one kind are positions of the log.
LEMMA Positions ==
  ASSUME log \in Seq(Window!EventType), NEW k
  PROVE  /\ DOMAIN log = 1 .. Len(log) /\ Len(log) \in Nat
         /\ Window!Of(k) \subseteq DOMAIN log /\ Window!Of(k) \subseteq 0 .. Len(log)
         /\ \A n \in DOMAIN log : log[n] \in Window!EventType
BY DEF Window!Of

\* The latest checkpoint keeps the log from a message on, or there is none.
LEMMA CheckpointIs ==
  ASSUME WinInv, part = "window"
  PROVE  /\ Window!Checkpoint.first \in Messages \cup {0}
         /\ Window!Checkpoint.told \subseteq Nat /\ Window!Checkpoint.to \in Nat
<1> DEFINE C == Window!Of("checkpoint")
<1>t. log \in Seq(Window!EventType)
  BY DEF WinInv, WinTypes
<1>1. CASE C = {}
  BY <1>1 DEF Window!Checkpoint, Window!Ev
<1>2. CASE C # {}
  <2>1. Window!Most(C) \in C
    BY <1>t, <1>2, Positions, MostIn
  <2>2. log[Window!Most(C)] \in Window!EventType
    BY <1>t, <2>1, Positions
  <2>3. log[Window!Most(C)].first \in Messages
    BY <2>1 DEF WinInv, NamesMessages
  <2> QED
    BY <1>2, <2>2, <2>3 DEF Window!Checkpoint, Window!EventType
<1> QED
  BY <1>1, <1>2

\* An event in the span of a message behind the checkpoint is in its group, and
\* in no other.
LEMMA InGroup ==
  ASSUME WinInv, part = "window", NEW u \in Messages, u >= Window!Checkpoint.first,
         NEW n \in {u} \cup Window!Span(u)
  PROVE  /\ u \in Window!After /\ n \in Window!Group(u, Window!After)
         /\ \A v \in Window!After \cap Messages :
              n \in Window!Group(v, Window!After) => v = u
<1>t. log \in Seq(Window!EventType)
  BY DEF WinInv, WinTypes
<1>1. Window!Checkpoint.first \in Nat /\ Messages \subseteq Nat /\ Messages \subseteq DOMAIN log
      /\ DOMAIN log \subseteq Nat
  BY <1>t, CheckpointIs, Positions DEF Messages
<1>2. n \in DOMAIN log /\ n >= u /\ ~ \E v \in Messages : u < v /\ v <= n
  BY <1>1 DEF Window!Span, Messages
<1>3. u \in Window!After /\ n \in Window!After
  BY <1>1, <1>2 DEF Window!After
<1>4. \A v \in Messages : v > u => n < v
  BY <1>1, <1>2
<1>5. n \in Window!Group(u, Window!After)
  BY <1>2, <1>3, <1>4 DEF Window!Group, Messages
<1>6. ASSUME NEW v \in Window!After \cap Messages, n \in Window!Group(v, Window!After)
      PROVE  v = u
  <2>1. n >= v /\ ~ u > v
    BY <1>1, <1>2, <1>3, <1>6 DEF Window!Group, Messages
  <2>2. u \in Nat /\ v \in Nat /\ n \in Nat /\ v \in Messages
    BY <1>1, <1>2, <1>6
  <2>3. ~ u < v
    BY <1>2, <2>1, <2>2
  <2> QED
    BY <2>1, <2>2, <2>3
<1> QED
  BY <1>3, <1>5, <1>6

\* Behind the checkpoint a turn is shown word by word unless it is dropped.
LEMMA ShownInFull ==
  ASSUME WinInv, part = "window", NEW u \in Messages, u >= Window!Checkpoint.first,
         u \notin Window!Dropped(Window!After)
  PROVE  Window!Told(u) \subseteq Window!Visible
<1> SUFFICES ASSUME NEW n \in Window!Told(u) PROVE n \in Window!Visible
  OBVIOUS
<1>1. n \in {u} \cup Window!Span(u) /\ log[n].kind \in Window!Rendered
  BY DEF Window!Told
<1>2. n \in Window!After
  BY <1>1, InGroup DEF Window!Group
<1>3. \A v \in Window!Dropped(Window!After) : n \notin Window!Group(v, Window!After)
  BY <1>1, InGroup DEF Window!Dropped, Messages
<1> QED
  BY <1>1, <1>2, <1>3 DEF Window!Visible

\* No answered turn is dropped: an aborted one was answered by a local reply.
LEMMA AnsweredStays ==
  ASSUME WinInv, part = "window", NEW u \in Messages, u >= Window!Checkpoint.first,
         Window!InPlace(u)
  PROVE  u \notin Window!Dropped(Window!After)
<1>1. PICK n \in Window!Told(u) : n \in Window!Of("final") \cup Window!Of("local")
  BY DEF Window!InPlace
<1>2. n \in {u} \cup Window!Span(u) /\ log[n].turn = u
  BY <1>1 DEF Window!Told
<1>3. CASE n \in Window!Of("local")
  BY <1>2, <1>3, InGroup DEF Window!Dropped
<1>4. CASE n \in Window!Of("final")
  <2>1. n \in Window!Span(u)
    BY <1>2, <1>4 DEF Messages, Window!Of
  <2>2. ~ Window!IsAborted(u)
    BY <1>2, <1>4, <2>1 DEF WinInv, NotBoth
  <2> QED
    BY <2>2 DEF Window!IsAborted, Window!Dropped
<1> QED
  BY <1>1, <1>3, <1>4

\* What the invariant says of a request.
LEMMA NothingIsForgotten ==
  ASSUME WinInv PROVE NothingForgotten
<1> SUFFICES ASSUME part = "window", pc = "ask" PROVE Window!NothingForgotten
  BY DEF NothingForgotten, Window!NothingForgotten
<1>t. log \in Seq(Window!EventType) /\ shown = Window!Visible
  BY DEF WinInv, WinTypes, AtRequest
<1>1. Messages \subseteq Nat /\ Messages \subseteq 0 .. Len(log) /\ Len(log) \in Nat
      /\ Window!Checkpoint.first \in Nat
  BY <1>t, CheckpointIs, Positions DEF Messages
<1>2. ASSUME NEW u \in Messages, Window!InPlace(u)
      PROVE  Window!Told(u) \subseteq shown \cup Window!Checkpoint.told
  <2>1. CASE u < Window!Checkpoint.first
    BY <1>2, <2>1 DEF WinInv, Covered
  <2>2. CASE u >= Window!Checkpoint.first
    BY <1>t, <1>2, <2>2, AnsweredStays, ShownInFull
  <2> QED
    BY <1>1, <2>1, <2>2
<1>3. ASSUME active = Window!Most(Messages) PROVE Window!Told(active) \subseteq shown
  <2>1. active \in Messages /\ ~ Window!IsAborted(active)
    BY DEF WinInv, Prepared
  <2>2. \A u \in Messages : u <= active
    BY <1>1, <1>3, <2>1, MostIn
  <2>3. active >= Window!Checkpoint.first
    BY <1>1, <2>1, <2>2, CheckpointIs
  <2>4. active \notin Window!Dropped(Window!After)
    BY <2>1 DEF Window!IsAborted, Window!Dropped
  <2> QED
    BY <1>t, <2>1, <2>3, <2>4, ShownInFull
<1> QED
  BY <1>2, <1>3 DEF Window!NothingForgotten, Messages

\* What adding events at the end leaves alone: the events before, which of them
\* are messages, and what lies between two messages.
LEMMA Grown ==
  ASSUME log \in Seq(Window!EventType), NEW s \in Seq(Window!EventType), log' = log \o s
  PROVE  /\ log' \in Seq(Window!EventType)
         /\ DOMAIN log = 1 .. Len(log) /\ Len(log) \in Nat /\ DOMAIN log' \subseteq Nat
         /\ \A n \in DOMAIN log : n \in DOMAIN log' /\ log'[n] = log[n]
         /\ \A n \in DOMAIN log' \ DOMAIN log :
              n > Len(log) /\ \E k \in DOMAIN s : n = Len(log) + k /\ log'[n] = s[k]
         /\ \A k : \A n \in DOMAIN log : n \in Window!Of(k)' <=> n \in Window!Of(k)
         /\ Messages \subseteq Messages' /\ Messages \subseteq DOMAIN log
         /\ \A u, n \in DOMAIN log : n \in Window!Span(u)' <=> n \in Window!Span(u)
<1>1. /\ log' \in Seq(Window!EventType) /\ Len(log') = Len(log) + Len(s)
      /\ \A n \in 1 .. Len(log) + Len(s) :
           log'[n] = IF n <= Len(log) THEN log[n] ELSE s[n - Len(log)]
  BY ConcatProperties
<1>2. /\ DOMAIN log = 1 .. Len(log) /\ Len(log) \in Nat /\ DOMAIN s = 1 .. Len(s) /\ Len(s) \in Nat
      /\ DOMAIN log' = 1 .. Len(log) + Len(s)
  BY <1>1
<1>3. \A n \in DOMAIN log : n \in DOMAIN log' /\ log'[n] = log[n]
  BY <1>1, <1>2
<1>4. ASSUME NEW n \in DOMAIN log' \ DOMAIN log
      PROVE  n > Len(log) /\ \E k \in DOMAIN s : n = Len(log) + k /\ log'[n] = s[k]
  <2>1. n > Len(log) /\ n - Len(log) \in DOMAIN s /\ n = Len(log) + (n - Len(log))
    BY <1>2
  <2>2. log'[n] = s[n - Len(log)]
    BY <1>1, <1>2, <2>1
  <2> QED
    BY <2>1, <2>2
<1>5. \A k : \A n \in DOMAIN log : n \in Window!Of(k)' <=> n \in Window!Of(k)
  BY <1>3 DEF Window!Of
<1>6. Messages \subseteq Messages' /\ Messages \subseteq DOMAIN log
  BY <1>5 DEF Messages, Window!Of
<1>7. ASSUME NEW u \in DOMAIN log, NEW n \in DOMAIN log
      PROVE  n \in Window!Span(u)' <=> n \in Window!Span(u)
  <2>1. \A v \in Window!Of("user")' : v <= n => v \in DOMAIN log
    <3> TAKE v \in Window!Of("user")'
    <3>1. v \in DOMAIN log' /\ (v \notin DOMAIN log => v > Len(log)) /\ v \in Nat /\ n \in Nat
      BY <1>2, <1>4 DEF Window!Of
    <3> QED
      BY <1>2, <3>1
  <2>2. Window!Of("user") \subseteq DOMAIN log
    BY DEF Window!Of
  <2>3. \A v : v \in Window!Of("user") /\ u < v /\ v <= n <=> v \in Window!Of("user")' /\ u < v /\ v <= n
    BY <1>5, <2>1, <2>2
  <2> QED
    BY <1>3, <2>3 DEF Window!Span
<1>8. DOMAIN log' \subseteq Nat
  BY <1>2
<1> QED
  BY <1>1, <1>2, <1>3, <1>4, <1>5, <1>6, <1>7, <1>8

\* A turn that another message follows is complete.
LEMMA Frozen ==
  ASSUME log \in Seq(Window!EventType), NEW s \in Seq(Window!EventType), log' = log \o s,
         NEW u \in Messages, NEW m \in Messages, u < m
  PROVE  /\ Window!Told(u)' = Window!Told(u) /\ Window!InPlace(u)' = Window!InPlace(u)
         /\ \A n \in Window!Told(u) : n < m
<1>g. /\ DOMAIN log = 1 .. Len(log) /\ Len(log) \in Nat /\ DOMAIN log' \subseteq Nat
      /\ \A n \in DOMAIN log : n \in DOMAIN log' /\ log'[n] = log[n]
      /\ \A n \in DOMAIN log' \ DOMAIN log : n > Len(log)
      /\ \A k : \A n \in DOMAIN log : n \in Window!Of(k)' <=> n \in Window!Of(k)
      /\ Messages \subseteq Messages' /\ Messages \subseteq DOMAIN log
      /\ \A v, n \in DOMAIN log : n \in Window!Span(v)' <=> n \in Window!Span(v)
  BY Grown
<1>1. Window!Span(u) \subseteq DOMAIN log
  BY DEF Window!Span
<1>2. Window!Span(u)' = Window!Span(u)
  <2>1. ASSUME NEW n \in Window!Span(u)' PROVE n \in DOMAIN log
    <3>1. n \in DOMAIN log' /\ ~ m <= n
      BY <1>g, <2>1 DEF Window!Span, Messages
    <3>2. n \in Nat /\ m \in Nat /\ m <= Len(log)
      BY <1>g, <3>1
    <3> QED
      BY <1>g, <3>1, <3>2
  <2> QED
    BY <1>g, <1>1, <2>1
<1>3. Window!Told(u)' = Window!Told(u)
  BY <1>g, <1>1, <1>2 DEF Window!Told, Window!Rendered
<1>4. Window!InPlace(u)' = Window!InPlace(u)
  <2>1. Window!Told(u) \subseteq DOMAIN log
    BY <1>g, <1>1 DEF Window!Told
  <2>2. Window!InPlace(u)' <=>
          \E n \in Window!Told(u)' : n \in Window!Of("final")' \/ n \in Window!Of("local")'
    BY DEF Window!InPlace
  <2>3. Window!InPlace(u) <=>
          \E n \in Window!Told(u) : n \in Window!Of("final") \/ n \in Window!Of("local")
    BY DEF Window!InPlace
  <2> QED
    BY <1>g, <1>3, <2>1, <2>2, <2>3 DEF Window!InPlace
<1>5. \A n \in Window!Told(u) : n < m
  <2> TAKE n \in Window!Told(u)
  <2>1. n \in Nat /\ m \in Nat /\ (n = u \/ ~ m <= n)
    BY <1>g DEF Window!Told, Window!Span, Messages
  <2> QED
    BY <2>1
<1> QED
  BY <1>3, <1>4, <1>5

\* Without a new one the latest checkpoint stays.
LEMMA SameCheckpoint ==
  ASSUME log \in Seq(Window!EventType), NEW s \in Seq(Window!EventType), log' = log \o s,
         \A k \in DOMAIN s : s[k].kind # "checkpoint"
  PROVE  Window!Of("checkpoint")' = Window!Of("checkpoint")
         /\ Window!Checkpoint' = Window!Checkpoint
<1> DEFINE C == Window!Of("checkpoint")
<1>1. C' = C
  BY Grown DEF Window!Of
<1>2. C # {} => Window!Most(C) \in C
  BY Positions, MostIn
<1>3. C # {} => log'[Window!Most(C)] = log[Window!Most(C)]
  BY <1>2, Grown DEF Window!Of
<1>4. /\ Window!Checkpoint = IF C = {} THEN Window!Ev("checkpoint", 0) ELSE log[Window!Most(C)]
      /\ Window!Checkpoint' = IF C' = {} THEN Window!Ev("checkpoint", 0) ELSE log'[Window!Most(C')]
  BY DEF Window!Checkpoint, Window!Ev, Window!Most
<1> QED
  BY <1>1, <1>3, <1>4

\* Answers and aborts are added to the running turn only, and it gets one of them.
AddsReply(s) ==
  /\ \A k \in DOMAIN s : s[k].kind \in {"final", "aborted"} => active # 0 /\ s[k].turn = active
  /\ \A k, l \in DOMAIN s : ~ (s[k].kind = "final" /\ s[l].kind = "aborted")

\* An answered turn is not aborted later, and an aborted one not answered.
LEMMA NotBothStep ==
  ASSUME WinInv, part = "window", NEW s \in Seq(Window!EventType), log' = log \o s, AddsReply(s),
         NEW u \in Messages
  PROVE  \A n \in Window!Span(u)' \cap Window!Of("final")' :
           log'[n].turn = u => ~ Window!IsAborted(u)'
<1> SUFFICES ASSUME NEW n \in Window!Span(u)', n \in Window!Of("final")', log'[n].turn = u,
                    NEW a \in Window!Of("aborted")', log'[a].turn = u
             PROVE  FALSE
  BY DEF Window!IsAborted
<1>t. log \in Seq(Window!EventType)
  BY DEF WinInv, WinTypes
<1>g. /\ \A k \in DOMAIN log : k \in DOMAIN log' /\ log'[k] = log[k]
      /\ \A k \in DOMAIN log' \ DOMAIN log : \E i \in DOMAIN s : log'[k] = s[i]
      /\ \A k : \A i \in DOMAIN log : i \in Window!Of(k)' <=> i \in Window!Of(k)
      /\ Messages \subseteq DOMAIN log
      /\ \A v, k \in DOMAIN log : k \in Window!Span(v)' <=> k \in Window!Span(v)
  BY <1>t, Grown
<1>n. n \in DOMAIN log' /\ log'[n].kind = "final" /\ a \in DOMAIN log' /\ log'[a].kind = "aborted"
  BY DEF Window!Of
<1>1. CASE n \in DOMAIN log /\ a \in DOMAIN log
  BY <1>g, <1>1 DEF WinInv, NotBoth, Window!IsAborted
<1>2. CASE n \in DOMAIN log /\ a \notin DOMAIN log
  <2>1. u = active /\ active # 0
    BY <1>g, <1>n, <1>2 DEF AddsReply
  <2>2. n \in Window!Span(u) /\ n \in Replies
    BY <1>g, <1>2 DEF Replies
  <2> QED
    BY <2>1, <2>2 DEF WinInv, Prepared
<1>3. CASE n \notin DOMAIN log /\ a \in DOMAIN log
  <2>1. u = active /\ active # 0
    BY <1>g, <1>n, <1>3 DEF AddsReply
  <2>2. Window!IsAborted(u)
    BY <1>g, <1>3 DEF Window!IsAborted
  <2> QED
    BY <2>1, <2>2 DEF WinInv, Prepared
<1>4. CASE n \notin DOMAIN log /\ a \notin DOMAIN log
  BY <1>g, <1>n, <1>4 DEF AddsReply
<1> QED
  BY <1>1, <1>2, <1>3, <1>4

\* Events that are neither messages nor checkpoints keep what the log promises.
LEMMA EventsStep ==
  ASSUME WinInv, part = "window", NEW s \in Seq(Window!EventType), log' = log \o s, AddsReply(s),
         \A k \in DOMAIN s : s[k].kind \notin {"user", "checkpoint"}
  PROVE  /\ log' \in Seq(Window!EventType) /\ Messages' = Messages
         /\ NamesMessages' /\ NotBoth' /\ Covered'
<1>t. log \in Seq(Window!EventType)
  BY DEF WinInv, WinTypes
<1>g. /\ log' \in Seq(Window!EventType)
      /\ \A k \in DOMAIN log : k \in DOMAIN log' /\ log'[k] = log[k]
      /\ \A k \in DOMAIN log' \ DOMAIN log : \E i \in DOMAIN s : log'[k] = s[i]
      /\ \A k : \A i \in DOMAIN log : i \in Window!Of(k)' <=> i \in Window!Of(k)
      /\ Messages \subseteq DOMAIN log /\ Messages \subseteq Messages' /\ DOMAIN log \subseteq Nat
  BY <1>t, Grown
<1>1. Messages' = Messages
  BY <1>g DEF Messages, Window!Of
<1>2. Window!Of("checkpoint")' = Window!Of("checkpoint") /\ Window!Checkpoint' = Window!Checkpoint
  BY <1>t, SameCheckpoint
<1>3. NamesMessages'
  <2>1. ASSUME NEW n \in Window!Of("aborted")' PROVE log'[n].turn \in Messages
    <3>1. CASE n \in DOMAIN log
      BY <1>g, <2>1, <3>1 DEF WinInv, NamesMessages
    <3>2. CASE n \notin DOMAIN log
      <4>1. active \in Messages /\ log'[n].turn = active
        BY <1>g, <2>1, <3>2 DEF WinInv, Prepared, AddsReply, Window!Of
      <4> QED
        BY <4>1
    <3> QED
      BY <3>1, <3>2
  <2>2. ASSUME NEW c \in Window!Of("checkpoint")' PROVE log'[c].first \in Messages
    BY <1>g, <1>2, <2>2 DEF WinInv, NamesMessages, Window!Of
  <2> QED
    BY <1>1, <2>1, <2>2 DEF NamesMessages
<1>4. NotBoth'
  <2>1. \A u \in Messages : \A n \in Window!Span(u)' \cap Window!Of("final")' :
          log'[n].turn = u => ~ Window!IsAborted(u)'
    BY NotBothStep
  <2> QED
    BY <1>1, <2>1 DEF NotBoth
<1>5. Covered'
  <2>1. ASSUME NEW u \in Messages, u < Window!Checkpoint.first, Window!InPlace(u)'
        PROVE  Window!Told(u)' \subseteq Window!Checkpoint.told
    <3>1. Window!Checkpoint.first \in Messages
      <4>1. u \in Nat /\ ~ u < 0
        BY <1>g
      <4> QED
        BY <2>1, <4>1, CheckpointIs
    <3>2. Window!Told(u)' = Window!Told(u) /\ Window!InPlace(u)' = Window!InPlace(u)
      BY <1>t, <2>1, <3>1, Frozen
    <3> QED
      BY <2>1, <3>2 DEF WinInv, Covered
  <2> QED
    BY <1>1, <1>2, <2>1 DEF Covered
<1> QED
  BY <1>g, <1>1, <1>3, <1>4, <1>5

\* Events that the log can hold.
LEMMA EvIs ==
  ASSUME NEW k \in Window!Kinds, NEW t \in Nat
  PROVE  Window!Ev(k, t) \in Window!EventType
BY WindowAssumption DEF Window!Ev, Window!EventType

\* The type of events is that of the constants.
LEMMA SameType == Window!EventType' = Window!EventType
BY DEF Window!EventType, Window!Kinds, Window!Rendered

\* A turn stops: whatever it adds last, the next one is prepared from the log.
LEMMA StopStep ==
  ASSUME WinInv, part = "window", part' = part, NEW s \in Seq(Window!EventType), Window!Stop(s),
         AddsReply(s), \A k \in DOMAIN s : s[k].kind \notin {"user", "checkpoint"}
  PROVE  WinInv'
<1>1. log' = log \o s /\ active' = 0 /\ pc' = "idle" /\ cut' = 0
  BY DEF Window!Stop
<1>2. log' \in Seq(Window!EventType) /\ NamesMessages' /\ NotBoth' /\ Covered'
  BY <1>1, EventsStep
<1>3. WinTypes' /\ Prepared' /\ AtRequest'
  BY <1>1, <1>2, SameType DEF WinTypes, Prepared, AtRequest
<1> QED
  BY <1>2, <1>3 DEF WinInv

\* A step of a prepared turn that adds nothing.
LEMMA PreparesOn ==
  ASSUME WinInv, part = "window", part' = part, log' = log, pc' # "idle",
         NEW u \in Messages, active' = u,
         Window!Span(u) \cap Replies = {}, ~ Window!IsAborted(u),
         cut' \in Nat, pc' = "summary" => cut' \in Messages,
         pc' = "ask" => shown' = Window!Visible
  PROVE  WinInv'
<1>t. log \in Seq(Window!EventType)
  BY DEF WinInv, WinTypes
<1>1. log' = log \o <<>> /\ <<>> \in Seq(Window!EventType) /\ AddsReply(<<>>)
      /\ \A k \in DOMAIN <<>> : <<>>[k].kind \notin {"user", "checkpoint"}
  BY <1>t DEF AddsReply
<1>2. log' \in Seq(Window!EventType) /\ Messages' = Messages /\ NamesMessages' /\ NotBoth' /\ Covered'
  BY <1>1, EventsStep
<1>3. u \in Nat /\ u # 0
  BY <1>t DEF Messages, Window!Of
<1>4. WinTypes'
  BY <1>2, <1>3, SameType DEF WinTypes
<1>5. Prepared'
  <2>1. Window!Span(u)' = Window!Span(u) /\ Replies' = Replies
        /\ Window!IsAborted(u)' = Window!IsAborted(u)
    BY DEF Window!Span, Replies, Window!IsAborted, Window!Of
  <2>2. Window!Span(active)' = Window!Span(u)' /\ Window!IsAborted(active)' = Window!IsAborted(u)'
    BY DEF Window!Span, Window!IsAborted, Window!Of
  <2> QED
    BY <1>2, <1>3, <2>1, <2>2 DEF Prepared
<1>6. Window!Visible' = Window!Visible
  BY DEF Window!Visible, Window!After, Window!Dropped, Window!Group, Window!Rendered,
         Window!Checkpoint, Window!Of, Window!Ev, Window!Most
<1>7. AtRequest'
  BY <1>2, <1>6 DEF AtRequest
<1> QED
  BY <1>2, <1>4, <1>5, <1>7 DEF WinInv

\* The running turn adds a call with its result.
LEMMA CallsStep ==
  ASSUME WinInv, part = "window", part' = part, Window!Calls
  PROVE  WinInv'
<1> DEFINE e == Window!Ev("calls", active)
<1>t. log \in Seq(Window!EventType) /\ active \in Nat /\ active # 0 /\ active \in Messages
  BY DEF WinInv, WinTypes, Prepared, Window!Calls
<1>1. /\ log' = Append(log, e) /\ active' = active /\ pc' = "build" /\ cut' = cut
      /\ e \in Window!EventType /\ e.kind = "calls"
  BY <1>t, EvIs DEF Window!Calls, Window!Kinds, Window!Rendered, Window!Ev
<1> HIDE DEF e
<1>2. <<e>> \in Seq(Window!EventType) /\ log' = log \o <<e>>
      /\ \A k \in DOMAIN <<e>> : <<e>>[k].kind = "calls"
  BY <1>t, <1>1, Appended
<1>3. log' \in Seq(Window!EventType) /\ Messages' = Messages /\ NamesMessages' /\ NotBoth' /\ Covered'
  BY <1>1, <1>2, EventsStep DEF AddsReply
<1>g. /\ \A k \in DOMAIN log' \ DOMAIN log : \E i \in DOMAIN <<e>> : log'[k] = <<e>>[i]
      /\ \A k : \A i \in DOMAIN log : i \in Window!Of(k)' <=> i \in Window!Of(k)
      /\ \A v, k \in DOMAIN log : k \in Window!Span(v)' <=> k \in Window!Span(v)
      /\ Messages \subseteq DOMAIN log
  BY <1>t, <1>2, Grown
<1>n. \A n \in DOMAIN log' \ DOMAIN log : log'[n].kind = "calls"
  BY <1>2, <1>g
<1>4. Prepared'
  <2>1. ASSUME NEW u, u = active PROVE Window!Span(u)' \cap Replies' = {} /\ ~ Window!IsAborted(u)'
    <3>1. Window!Span(u) \cap Replies = {} /\ ~ Window!IsAborted(u) /\ u \in DOMAIN log
      BY <1>t, <1>g, <2>1 DEF WinInv, Prepared
    <3>2. ASSUME NEW n \in Window!Span(u)', n \in Replies' PROVE FALSE
      <4>1. n \in DOMAIN log' /\ log'[n].kind # "calls"
        BY <3>2 DEF Replies, Window!Of
      <4>2. n \in DOMAIN log
        BY <1>n, <4>1
      <4> QED
        BY <1>g, <3>1, <3>2, <4>2 DEF Replies
    <3>3. ASSUME NEW n \in Window!Of("aborted")', log'[n].turn = u PROVE FALSE
      <4>1. n \in DOMAIN log
        BY <1>n, <3>3 DEF Window!Of
      <4>2. log'[n] = log[n]
        BY <1>t, <1>2, <4>1, Grown
      <4> QED
        BY <1>g, <3>1, <3>3, <4>1, <4>2 DEF Window!IsAborted
    <3> QED
      BY <3>2, <3>3 DEF Window!IsAborted
  <2>2. Window!Span(active)' \cap Replies' = {} /\ ~ Window!IsAborted(active)'
    BY <1>1, <2>1 DEF Window!Span, Window!IsAborted
  <2> QED
    BY <1>t, <1>1, <1>3, <2>2 DEF Prepared
<1>5. WinTypes' /\ AtRequest'
  BY <1>1, <1>3, SameType DEF WinTypes, AtRequest, WinInv
<1> QED
  BY <1>3, <1>4, <1>5 DEF WinInv

\* An aborted message that comes again is refused with a local reply.
LEMMA RefuseStep ==
  ASSUME WinInv, part = "window", part' = part, NEW u \in Messages, Window!Refuse(u)
  PROVE  WinInv'
<1> DEFINE e == Window!Ev("local", u)
<1>t. log \in Seq(Window!EventType) /\ u \in Nat
  BY Positions DEF WinInv, WinTypes, Messages
<1>1. /\ log' = Append(log, e) /\ active' = 0 /\ pc' = "idle" /\ cut' = cut
      /\ e \in Window!EventType /\ e.kind = "local"
  BY <1>t, EvIs DEF Window!Refuse, Window!Idle, Window!Kinds, Window!Rendered, Window!Ev,
                    WinInv, Prepared
<1> HIDE DEF e
<1>2. <<e>> \in Seq(Window!EventType) /\ log' = log \o <<e>>
      /\ \A k \in DOMAIN <<e>> : <<e>>[k].kind = "local"
  BY <1>t, <1>1, Appended
<1>3. log' \in Seq(Window!EventType) /\ NamesMessages' /\ NotBoth' /\ Covered'
  BY <1>1, <1>2, EventsStep DEF AddsReply
<1>4. WinTypes' /\ Prepared' /\ AtRequest'
  BY <1>1, <1>3, SameType DEF WinTypes, Prepared, AtRequest, WinInv
<1> QED
  BY <1>3, <1>4 DEF WinInv

\* A new message begins a turn behind all others.
LEMMA AcceptStep ==
  ASSUME WinInv, part = "window", part' = part, Window!Accept
  PROVE  WinInv'
<1> DEFINE l == Len(log) + 1
           e == Window!Ev("user", l)
<1>t. log \in Seq(Window!EventType) /\ l \in Nat /\ l # 0 /\ DOMAIN log = 1 .. Len(log)
  BY DEF WinInv, WinTypes
<1>1. /\ log' = Append(log, e) /\ active' = l /\ pc' = "build" /\ cut' = cut
      /\ e \in Window!EventType /\ e.kind = "user"
  BY <1>t, EvIs DEF Window!Accept, Window!Kinds, Window!Rendered, Window!Ev
<1> HIDE DEF e
<1>2. <<e>> \in Seq(Window!EventType) /\ log' = log \o <<e>>
      /\ \A k \in DOMAIN <<e>> : <<e>>[k].kind = "user"
  BY <1>t, <1>1, Appended
<1>g. /\ log' \in Seq(Window!EventType) /\ DOMAIN log' = DOMAIN log \cup {l} /\ log'[l] = e
      /\ \A k \in DOMAIN log : log'[k] = log[k]
      /\ \A k : \A i \in DOMAIN log : i \in Window!Of(k)' <=> i \in Window!Of(k)
      /\ Messages \subseteq DOMAIN log /\ l \notin DOMAIN log /\ DOMAIN log \subseteq Nat
  <2>1. DOMAIN log' = DOMAIN log \cup {l} /\ log'[l] = e
    BY <1>t, <1>1
  <2>2. l \notin DOMAIN log /\ DOMAIN log \subseteq Nat
    BY <1>t
  <2>3. /\ log' \in Seq(Window!EventType) /\ Messages \subseteq DOMAIN log
        /\ \A k \in DOMAIN log : log'[k] = log[k]
        /\ \A k : \A i \in DOMAIN log : i \in Window!Of(k)' <=> i \in Window!Of(k)
    BY <1>t, <1>2, Grown
  <2> QED
    BY <2>1, <2>2, <2>3
<1>m. Messages' = Messages \cup {l}
  BY <1>1, <1>g DEF Messages, Window!Of
<1>o. \A k : k # "user" => Window!Of(k)' = Window!Of(k)
  BY <1>1, <1>g DEF Window!Of
<1>c. Window!Checkpoint' = Window!Checkpoint
  BY <1>t, <1>2, SameCheckpoint
<1>s. \A k : \A n \in Window!Of(k) : log'[n] = log[n]
  BY <1>g DEF Window!Of
<1>3. NamesMessages'
  <2>1. /\ \A n \in Window!Of("aborted") : log[n].turn \in Messages
        /\ \A n \in Window!Of("checkpoint") : log[n].first \in Messages
    BY DEF WinInv, NamesMessages
  <2>2. Window!Of("aborted")' = Window!Of("aborted")
        /\ Window!Of("checkpoint")' = Window!Of("checkpoint")
    BY <1>o
  <2> QED
    BY <1>m, <1>s, <2>1, <2>2 DEF NamesMessages
<1>4. ASSUME NEW u, u = l PROVE Window!Span(u)' = {} /\ ~ Window!IsAborted(u)'
  <2>1. \A n \in DOMAIN log' : ~ n > u
    BY <1>t, <1>g, <1>4
  <2>2. \A n \in Window!Of("aborted") : log'[n].turn # u
    <3>1. \A n \in Window!Of("aborted") : log[n].turn \in Messages
      BY DEF WinInv, NamesMessages
    <3> QED
      BY <1>g, <1>s, <1>4, <3>1
  <2>3. Window!Of("aborted")' = Window!Of("aborted")
    BY <1>o
  <2>4. Window!Span(u)' = {}
    BY <2>1 DEF Window!Span
  <2>5. ~ Window!IsAborted(u)'
    BY <2>2, <2>3 DEF Window!IsAborted
  <2> QED
    BY <2>4, <2>5
<1>5. NotBoth'
  <2>1. AddsReply(<<e>>)
    BY <1>2 DEF AddsReply
  <2>2. \A u \in Messages : \A n \in Window!Span(u)' \cap Window!Of("final")' :
          log'[n].turn = u => ~ Window!IsAborted(u)'
    BY <1>2, <2>1, NotBothStep
  <2>3. \A u \in Messages' : \A n \in Window!Span(u)' \cap Window!Of("final")' :
          log'[n].turn = u => ~ Window!IsAborted(u)'
    BY <1>m, <1>4, <2>2
  <2> QED
    BY <2>3 DEF NotBoth
<1>6. Covered'
  <2>1. ASSUME NEW u \in Messages', u < Window!Checkpoint.first, Window!InPlace(u)'
        PROVE  Window!Told(u)' \subseteq Window!Checkpoint.told
    <3>1. /\ Window!Checkpoint.first \in Messages /\ u \in Messages
      <4>1. u \in Nat /\ ~ u < 0 /\ \A m \in Messages : ~ l < m
        BY <1>t, <1>g, <1>m
      <4> QED
        BY <1>m, <2>1, <4>1, CheckpointIs
    <3>2. Window!Told(u)' = Window!Told(u) /\ Window!InPlace(u)' = Window!InPlace(u)
      BY <1>t, <1>2, <2>1, <3>1, Frozen
    <3> QED
      BY <2>1, <3>1, <3>2 DEF WinInv, Covered
  <2> QED
    BY <1>c, <2>1 DEF Covered
<1>7. Prepared'
  <2>1. \A u : u = active' => Window!Span(u)' = {} /\ ~ Window!IsAborted(u)'
    BY <1>1, <1>4
  <2>2. Window!Span(active)' = {} /\ ~ Window!IsAborted(active)'
    BY <2>1 DEF Window!Span, Window!IsAborted
  <2> QED
    BY <1>t, <1>1, <1>m, <2>2 DEF Prepared
<1>8. WinTypes' /\ AtRequest'
  BY <1>t, <1>1, <1>g, SameType DEF WinTypes, AtRequest, WinInv
<1> QED
  BY <1>3, <1>5, <1>6, <1>7, <1>8 DEF WinInv

\* What is visible lies behind the checkpoint.
LEMMA VisibleIs ==
  ASSUME WinInv, part = "window"
  PROVE  Window!Visible \subseteq DOMAIN log /\ Window!Visible \subseteq 1 .. Len(log)
         /\ Len(log) \in Nat
BY DEF WinInv, WinTypes, Window!Visible, Window!After

\* A compaction keeps the log from a message on.
LEMMA SelectedIs ==
  ASSUME WinInv, part = "window", ~ Window!Hopeless(Window!Visible)
  PROVE  Window!Selected(Window!Visible) \in Messages
<1> DEFINE V == Window!Visible
           cuts == Window!Cuts(V)
           short == {u \in cuts : Window!Cardinality(Window!From(u, V)) <= Kept}
<1>1. cuts \subseteq Messages /\ cuts \subseteq 0 .. Len(log) /\ Len(log) \in Nat /\ short \subseteq cuts
  BY VisibleIs DEF Window!Cuts, Window!Users, Messages
<1>2. short # {} => Window!Least(short) \in short
  <2>1. \A S : S = short /\ short # {} => \E n \in S : \A k \in S : n <= k
    <3>1. short \subseteq Nat
      BY <1>1
    <3> HIDE DEF short
    <3> QED
      BY <3>1, LeastExists
  <2> QED
    BY <2>1 DEF Window!Least
<1>3. cuts # {} => Window!Most(cuts) \in cuts
  BY <1>1, MostIn
<1>4. Window!Selected(V) # 0
  BY DEF Window!Hopeless
<1>5. Window!Selected(V) = IF short # {} THEN Window!Least(short)
                           ELSE IF cuts # {} THEN Window!Most(cuts) ELSE Window!Checkpoint.first
  BY DEF Window!Selected
<1> QED
  BY <1>1, <1>2, <1>3, <1>4, <1>5, CheckpointIs

\* The summary tells what it covers and what the one before it told.
LEMMA CommitStep ==
  ASSUME WinInv, part = "window", part' = part, pc = "summary", NEW size \in 1 .. Prompt,
         log' = Append(log, Window!Summary(size, Window!Before(cut, Window!Visible))),
         pc' = "build", cut' = 0, UNCHANGED active
  PROVE  WinInv'
<1> DEFINE V == Window!Before(cut, Window!Visible)
           c == Window!Summary(size, V)
           l == Len(log) + 1
<1>t. /\ log \in Seq(Window!EventType) /\ cut \in Messages /\ cut \in Nat
      /\ DOMAIN log = 1 .. Len(log) /\ Len(log) \in Nat /\ l \in Nat
  BY DEF WinInv, WinTypes, AtRequest
<1>v. V \subseteq 0 .. Len(log) /\ V \subseteq Nat
  BY <1>t, VisibleIs DEF Window!Before
<1>1. /\ c \in Window!EventType /\ c.kind = "checkpoint" /\ c.first = cut
      /\ c.told = Window!Checkpoint.told \cup V
  <2> DEFINE to == IF V = {} THEN Window!Checkpoint.to ELSE Window!Most(V)
  <2>1. to \in Nat
    <3>1. V # {} => Window!Most(V) \in V
      BY <1>t, <1>v, MostIn
    <3> QED
      BY <1>v, <3>1, CheckpointIs
  <2>2. size \in 0 .. Prompt /\ Window!Checkpoint.told \cup V \subseteq Nat
    BY <1>v, CheckpointIs, WindowAssumption
  <2>3. c = [kind |-> "checkpoint", turn |-> 0, to |-> to, first |-> cut, size |-> size,
             told |-> Window!Checkpoint.told \cup V]
    <3> DEFINE blank == [kind |-> "checkpoint", turn |-> 0, to |-> 0, first |-> 0, size |-> 0,
                         told |-> {}]
    <3>1. Window!Ev("checkpoint", 0) = blank
      BY DEF Window!Ev
    <3>2. c = [blank EXCEPT !.size = size, !.first = cut, !.told = Window!Checkpoint.told \cup V,
                            !.to = to]
      BY <3>1 DEF Window!Summary
    <3> HIDE DEF to, V, c
    <3> QED
      BY <3>2
  <2> HIDE DEF c, to, V
  <2> QED
    BY <1>t, <2>1, <2>2, <2>3 DEF Window!EventType, Window!Kinds
<1> HIDE DEF c, V
<1>2. <<c>> \in Seq(Window!EventType) /\ log' = log \o <<c>>
      /\ \A k \in DOMAIN <<c>> : <<c>>[k].kind = "checkpoint"
  BY <1>t, <1>1, Appended DEF c, V
<1>g. /\ log' \in Seq(Window!EventType) /\ DOMAIN log' = DOMAIN log \cup {l} /\ log'[l] = c
      /\ \A k \in DOMAIN log : log'[k] = log[k]
      /\ \A k : \A i \in DOMAIN log : i \in Window!Of(k)' <=> i \in Window!Of(k)
      /\ \A v, k \in DOMAIN log : k \in Window!Span(v)' <=> k \in Window!Span(v)
      /\ Messages \subseteq DOMAIN log /\ DOMAIN log \subseteq Nat
  <2>1. DOMAIN log' = DOMAIN log \cup {l} /\ log'[l] = c
    BY <1>t, <1>1 DEF c, V
  <2>2. DOMAIN log \subseteq Nat
    BY <1>t
  <2>3. /\ log' \in Seq(Window!EventType) /\ Messages \subseteq DOMAIN log
        /\ \A k \in DOMAIN log : log'[k] = log[k]
        /\ \A k : \A i \in DOMAIN log : i \in Window!Of(k)' <=> i \in Window!Of(k)
        /\ \A v, k \in DOMAIN log : k \in Window!Span(v)' <=> k \in Window!Span(v)
    BY <1>t, <1>2, Grown
  <2> QED
    BY <2>1, <2>2, <2>3
<1>o. \A k : k # "checkpoint" => Window!Of(k)' = Window!Of(k)
  BY <1>1, <1>g DEF Window!Of
<1>m. Messages' = Messages /\ Replies' = Replies
  BY <1>o DEF Messages, Replies
<1>s. \A k : \A n \in Window!Of(k) : log'[n] = log[n]
  BY <1>g DEF Window!Of
<1>p. Window!Of("checkpoint")' = Window!Of("checkpoint") \cup {l}
  BY <1>1, <1>g DEF Window!Of
<1>c. Window!Checkpoint' = c
  <2> DEFINE C == Window!Of("checkpoint") \cup {l}
  <2>1. C \subseteq 0 .. l /\ C # {} /\ l \in C
    BY <1>t DEF Window!Of
  <2>2. Window!Most(C) \in C /\ \A k \in C : k <= Window!Most(C)
    BY <1>t, <2>1, MostIn
  <2>3. Window!Most(C) = l
    <3>1. Window!Most(C) \in 0 .. l /\ l <= Window!Most(C)
      BY <2>1, <2>2
    <3> HIDE DEF C
    <3> QED
      BY <1>t, <3>1
  <2>4. Window!Checkpoint' = log'[Window!Most(C)]
    BY <1>p DEF Window!Checkpoint, Window!Most
  <2> QED
    BY <1>g, <2>3, <2>4
<1>3. NamesMessages'
  <2>1. /\ \A n \in Window!Of("aborted") : log[n].turn \in Messages
        /\ \A n \in Window!Of("checkpoint") : log[n].first \in Messages
    BY DEF WinInv, NamesMessages
  <2>2. ASSUME NEW n \in Window!Of("aborted")' PROVE log'[n].turn \in Messages
    BY <1>o, <1>s, <2>1, <2>2
  <2>3. ASSUME NEW n \in Window!Of("checkpoint")' PROVE log'[n].first \in Messages
    <3>1. CASE n \in Window!Of("checkpoint")
      BY <1>s, <2>1, <3>1
    <3>2. CASE n = l
      BY <1>t, <1>1, <1>g, <3>2
    <3> QED
      BY <1>p, <2>3, <3>1, <3>2
  <2> QED
    BY <1>m, <2>2, <2>3 DEF NamesMessages
<1>4. NotBoth'
  <2>1. AddsReply(<<c>>)
    BY <1>2 DEF AddsReply
  <2>2. \A u \in Messages : \A n \in Window!Span(u)' \cap Window!Of("final")' :
          log'[n].turn = u => ~ Window!IsAborted(u)'
    BY <1>2, <2>1, NotBothStep
  <2> QED
    BY <1>m, <2>2 DEF NotBoth
<1>5. Covered'
  <2>1. ASSUME NEW u \in Messages, u < cut, Window!InPlace(u)'
        PROVE  Window!Told(u)' \subseteq c.told
    <3>1. /\ Window!Told(u)' = Window!Told(u) /\ Window!InPlace(u)
          /\ \A n \in Window!Told(u) : n < cut
      BY <1>t, <1>2, <2>1, Frozen
    <3>2. CASE u < Window!Checkpoint.first
      BY <1>1, <3>1, <3>2 DEF WinInv, Covered
    <3>3. CASE u >= Window!Checkpoint.first
      <4>1. Window!Told(u) \subseteq Window!Visible
        BY <3>1, <3>3, AnsweredStays, ShownInFull
      <4>2. Window!Told(u) \subseteq V
        BY <3>1, <4>1 DEF V, Window!Before
      <4> QED
        BY <1>1, <3>1, <4>2
    <3>4. u \in Nat /\ Window!Checkpoint.first \in Nat
      BY <1>g, CheckpointIs
    <3> QED
      BY <3>2, <3>3, <3>4
  <2> QED
    BY <1>1, <1>c, <1>m, <2>1 DEF Covered
<1>6. Prepared'
  <2>1. active \in Messages /\ active # 0 /\ Window!Span(active) \cap Replies = {}
        /\ ~ Window!IsAborted(active)
    BY DEF WinInv, Prepared
  <2>2. ASSUME NEW u, u = active PROVE Window!Span(u)' \cap Replies' = {} /\ ~ Window!IsAborted(u)'
    <3>1. ASSUME NEW n \in Window!Span(u)', n \in Replies PROVE FALSE
      <4>1. n \in DOMAIN log
        BY <3>1 DEF Replies, Window!Of
      <4> QED
        BY <1>g, <2>1, <2>2, <3>1, <4>1
    <3>2. ~ Window!IsAborted(u)'
      BY <1>o, <1>s, <2>1, <2>2 DEF Window!IsAborted
    <3> QED
      BY <1>m, <3>1, <3>2
  <2>3. Window!Span(active)' \cap Replies' = {} /\ ~ Window!IsAborted(active)'
    BY <2>2 DEF Window!Span, Window!IsAborted
  <2> QED
    BY <1>m, <2>1, <2>3 DEF Prepared
<1>7. WinTypes' /\ AtRequest'
  BY <1>g, SameType DEF WinTypes, AtRequest, WinInv
<1> QED
  BY <1>3, <1>4, <1>5, <1>6, <1>7 DEF WinInv

\* The events a turn stops with.
LEMMA StopsWith ==
  ASSUME WinInv, part = "window", active # 0
  PROVE  \A s \in {<<>>, <<Window!Ev("final", active)>>, <<Window!Ev("aborted", active)>>,
                   <<Window!Ev("aborted", active), Window!Ev("local", active)>>} :
           /\ s \in Seq(Window!EventType) /\ AddsReply(s)
           /\ \A k \in DOMAIN s : s[k].kind \notin {"user", "checkpoint"}
<1> DEFINE f == Window!Ev("final", active)
           a == Window!Ev("aborted", active)
           r == Window!Ev("local", active)
<1>1. /\ f \in Window!EventType /\ a \in Window!EventType /\ r \in Window!EventType
      /\ f.kind = "final" /\ a.kind = "aborted" /\ r.kind = "local"
      /\ f.turn = active /\ a.turn = active
  BY EvIs DEF WinInv, WinTypes, Window!Kinds, Window!Rendered, Window!Ev
<1> HIDE DEF f, a, r
<1>2. <<>> \in Seq(Window!EventType) /\ DOMAIN <<>> = {}
  OBVIOUS
<1>3. <<f>> \in Seq(Window!EventType) /\ DOMAIN <<f>> = {1} /\ <<f>>[1] = f
  BY <1>1
<1>4. <<a>> \in Seq(Window!EventType) /\ DOMAIN <<a>> = {1} /\ <<a>>[1] = a
  BY <1>1
<1>5. <<a, r>> \in Seq(Window!EventType) /\ DOMAIN <<a, r>> = {1, 2}
      /\ <<a, r>>[1] = a /\ <<a, r>>[2] = r
  BY <1>1
<1>6. AddsReply(<<>>) /\ AddsReply(<<f>>) /\ AddsReply(<<a>>) /\ AddsReply(<<a, r>>)
  BY <1>1, <1>2, <1>3, <1>4, <1>5 DEF AddsReply
<1> QED
  BY <1>1, <1>2, <1>3, <1>4, <1>5, <1>6 DEF f, a, r

LEMMA WinNext == ASSUME WinInv, [Next]_vars PROVE WinInv'
<1> SUFFICES ASSUME part' = "window" PROVE WinInv'
  BY DEF WinInv
<1>a. part' = part /\ part = "window"
  BY DEF Next, WindowStep, ConnStep, MigrateStep, ProfileStep, CatalogStep, LevelsStep, vars
<1>b. /\ WinTypes /\ Prepared /\ AtRequest
  BY <1>a DEF WinInv
<1>s. ASSUME active # 0, \/ Window!Stop(<<>>) \/ Window!Stop(<<Window!Ev("final", active)>>)
                         \/ Window!Stop(<<Window!Ev("aborted", active)>>) \/ Window!Overflow
      PROVE  WinInv'
  BY <1>a, <1>s, StopsWith, StopStep DEF Window!Overflow
<1>q. ASSUME pc # "idle", log' = log, active' = active, pc' # "idle",
             cut' \in Nat, pc' = "summary" => cut' \in Messages,
             pc' = "ask" => shown' = Window!Visible
      PROVE  WinInv'
  <2>1. active \in Messages /\ Window!Span(active) \cap Replies = {} /\ ~ Window!IsAborted(active)
    BY <1>b, <1>q DEF Prepared
  <2>2. \A u \in Messages : active' = u /\ Window!Span(u) \cap Replies = {} /\ ~ Window!IsAborted(u)
          => WinInv'
    BY <1>a, <1>q, PreparesOn
  <2> QED
    BY <1>q, <2>1, <2>2
<1>1. ASSUME Window!Build PROVE WinInv'
  BY <1>b, <1>q, <1>1 DEF Window!Build, WinTypes
<1>2. ASSUME Window!Compact PROVE WinInv'
  <2>1. CASE Window!Overflow
    BY <1>b, <1>s, <1>2, <2>1 DEF Window!Compact, Prepared
  <2>2. CASE ~ Window!Overflow
    <3>1. /\ ~ Window!Hopeless(Window!Visible) /\ cut' = Window!Selected(Window!Visible)
          /\ pc = "build" /\ pc' = "summary" /\ log' = log /\ active' = active
      BY <1>2, <2>2 DEF Window!Compact
    <3>2. cut' \in Messages /\ Messages \subseteq Nat
      BY <1>a, <1>b, <3>1, SelectedIs, Positions DEF WinTypes, Messages
    <3> QED
      BY <1>q, <3>1, <3>2
  <2> QED
    BY <2>1, <2>2
<1>3. ASSUME Window!Commit PROVE WinInv'
  <2>1. PICK size \in 1 .. Prompt :
          /\ pc = "summary"
          /\ \/ Window!Overflow
             \/ /\ pc' = "build" /\ cut' = 0 /\ UNCHANGED active
                /\ \/ log' = log
                   \/ log' = Append(log, Window!Summary(size, Window!Before(cut, Window!Visible)))
    BY <1>3 DEF Window!Commit
  <2>2. CASE Window!Overflow
    BY <1>b, <1>s, <2>1, <2>2 DEF Prepared
  <2>3. CASE pc' = "build" /\ cut' = 0 /\ UNCHANGED active /\ log' = log
    BY <1>q, <2>1, <2>3
  <2>4. CASE /\ pc' = "build" /\ cut' = 0 /\ UNCHANGED active
             /\ log' = Append(log, Window!Summary(size, Window!Before(cut, Window!Visible)))
    BY <1>a, <2>1, <2>4, CommitStep
  <2> QED
    BY <2>1, <2>2, <2>3, <2>4
<1>4. ASSUME Window!Answers PROVE WinInv'
  BY <1>b, <1>s, <1>4 DEF Window!Answers, Prepared
<1>5. ASSUME Window!TooLong PROVE WinInv'
  BY <1>b, <1>q, <1>5 DEF Window!TooLong, WinTypes
<1>6. ASSUME Window!TooLongAgain \/ Window!Fails \/ Window!Crash PROVE WinInv'
  BY <1>b, <1>s, <1>6 DEF Window!TooLongAgain, Window!Fails, Window!Crash, Prepared
<1>7. ASSUME NEW u \in Messages, Window!Resume(u) PROVE WinInv'
  <2>1. /\ log' = log /\ active' = u /\ pc' = "build" /\ cut' = cut
        /\ Window!Span(u) \cap Replies = {} /\ ~ Window!IsAborted(u)
    BY <1>7 DEF Window!Resume, Window!Waiting, Replies
  <2> QED
    BY <1>a, <1>b, <2>1, PreparesOn DEF WinTypes
<1>8. ASSUME UNCHANGED vars PROVE WinInv'
  <2>1. /\ log' = log /\ active' = active /\ pc' = pc /\ cut' = cut /\ shown' = shown
    BY <1>8 DEF vars, window
  <2>2. CASE pc # "idle"
    BY <1>b, <1>q, <2>1, <2>2 DEF AtRequest, WinTypes
  <2>3. CASE pc = "idle"
    <3>1. <<>> \in Seq(Window!EventType) /\ AddsReply(<<>>) /\ log' = log \o <<>>
          /\ \A k \in DOMAIN <<>> : <<>>[k].kind \notin {"user", "checkpoint"}
      BY <1>b, <2>1 DEF AddsReply, WinTypes
    <3>2. log' \in Seq(Window!EventType) /\ NamesMessages' /\ NotBoth' /\ Covered'
      BY <1>a, <3>1, EventsStep
    <3>3. WinTypes' /\ Prepared' /\ AtRequest'
      BY <1>b, <2>1, <2>3, <3>2, SameType DEF WinTypes, Prepared, AtRequest
    <3> QED
      BY <3>2, <3>3 DEF WinInv
  <2> QED
    BY <2>2, <2>3
<1>9. Window!Next \/ UNCHANGED vars
  BY <1>a DEF Next, WindowStep, ConnStep, MigrateStep, ProfileStep, CatalogStep, LevelsStep
<1> QED
  BY <1>a, <1>1, <1>2, <1>3, <1>4, <1>5, <1>6, <1>7, <1>8, <1>9, AcceptStep, CallsStep, RefuseStep
  DEF Window!Next, Messages

\* Through any chain of compactions, overflows, failures, crashes and messages
\* that come again, every request shows each turn that was answered before the
\* next message word by word or through the summaries, and it shows the latest
\* turn word by word when it is the one that asks.
THEOREM TurnsNotForgotten == Spec => []NothingForgotten
<1>1. Init => WinInv
  <2> SUFFICES ASSUME Init, part = "window" PROVE WinInv
    BY DEF WinInv
  <2>1. log = <<>> /\ active = 0 /\ pc = "idle" /\ cut = 0
    BY DEF Init, Window!Init
  <2> QED
    BY <2>1, EmptySeq
    DEF WinInv, WinTypes, Prepared, NamesMessages, NotBoth, Covered, AtRequest, Messages, Window!Of
<1>2. WinInv /\ [Next]_vars => WinInv'
  BY WinNext
<1>3. WinInv => NothingForgotten
  BY NothingIsForgotten
<1> QED
  BY <1>1, <1>2, <1>3, PTL DEF Spec

-----------------------------------------------------------------------------
(* ContextWindow: calls, while messages run in the order they came *)

\* The turn that runs is that of the latest message: no message is delivered
\* again when another one was accepted behind it.
LatestRuns == part = "window" /\ active # 0 => active = Window!Most(Messages)

\* A call with its result lies in the span of the message whose turn made it.
InTurn(n)   == log[n].turn \in Messages /\ n \in Window!Span(log[n].turn)
CallsInTurn == part = "window" => \A n \in Window!Of("calls") : InTurn(n)

\* Every step but that of a call adds events of other kinds, or none.
LEMMA AddsNoCall ==
  ASSUME WinInv, WinInv', part = "window", part' = part,
         Window!Next \/ UNCHANGED vars, ~ Window!Calls
  PROVE  \E s \in Seq(Window!EventType) :
           log' = log \o s /\ \A k \in DOMAIN s : s[k].kind # "calls"
<1>t. /\ log \in Seq(Window!EventType) /\ active \in Nat /\ Len(log) \in Nat
      /\ pc # "idle" <=> active # 0
  BY DEF WinInv, WinTypes, Prepared
<1>t2. log' \in Seq(Window!EventType)
  BY SameType DEF WinInv, WinTypes
<1>1. CASE log' = log
  <2>1. <<>> \in Seq(Window!EventType) /\ DOMAIN <<>> = {} /\ log' = log \o <<>>
    BY <1>t, <1>1
  <2> QED
    BY <2>1
<1>2. ASSUME NEW e, log' = Append(log, e), e.kind # "calls"
      PROVE  \E s \in Seq(Window!EventType) :
               log' = log \o s /\ \A k \in DOMAIN s : s[k].kind # "calls"
  <2>1. e = log'[Len(log) + 1] /\ Len(log') = Len(log) + 1
    BY <1>t, <1>2
  <2>2. e \in Window!EventType
    BY <1>t, <1>t2, <2>1
  <2>3. <<e>> \in Seq(Window!EventType) /\ log' = log \o <<e>>
        /\ \A k \in DOMAIN <<e>> : <<e>>[k].kind # "calls"
    BY <1>t, <1>2, <2>2, Appended
  <2> QED
    BY <2>3
<1>3. ASSUME pc # "idle",
             \/ Window!Stop(<<>>) \/ Window!Stop(<<Window!Ev("final", active)>>)
             \/ Window!Stop(<<Window!Ev("aborted", active)>>) \/ Window!Overflow
      PROVE  \E s \in Seq(Window!EventType) :
               log' = log \o s /\ \A k \in DOMAIN s : s[k].kind # "calls"
  <2> DEFINE f == Window!Ev("final", active)
             a == Window!Ev("aborted", active)
             r == Window!Ev("local", active)
  <2>1. /\ f \in Window!EventType /\ a \in Window!EventType /\ r \in Window!EventType
        /\ f.kind = "final" /\ a.kind = "aborted" /\ r.kind = "local"
    BY <1>t, EvIs DEF Window!Kinds, Window!Rendered, Window!Ev
  <2>2. \E s \in {<<>>, <<f>>, <<a>>, <<a, r>>} : log' = log \o s
    BY <1>3 DEF Window!Stop, Window!Overflow
  <2> HIDE DEF f, a, r
  <2>3. \A s \in {<<>>, <<f>>, <<a>>, <<a, r>>} :
          s \in Seq(Window!EventType) /\ \A k \in DOMAIN s : s[k].kind # "calls"
    <3>1. <<>> \in Seq(Window!EventType) /\ DOMAIN <<>> = {}
      OBVIOUS
    <3>2. <<f>> \in Seq(Window!EventType) /\ DOMAIN <<f>> = {1} /\ <<f>>[1] = f
      BY <2>1
    <3>3. <<a>> \in Seq(Window!EventType) /\ DOMAIN <<a>> = {1} /\ <<a>>[1] = a
      BY <2>1
    <3>4. <<a, r>> \in Seq(Window!EventType) /\ DOMAIN <<a, r>> = {1, 2}
          /\ <<a, r>>[1] = a /\ <<a, r>>[2] = r
      BY <2>1
    <3> QED
      BY <2>1, <3>1, <3>2, <3>3, <3>4
  <2> QED
    BY <2>2, <2>3
<1>4. \A k, t : Window!Ev(k, t).kind = k
  BY DEF Window!Ev
<1>5. ASSUME Window!Commit
      PROVE  \/ log' = log
             \/ pc # "idle" /\ Window!Overflow
             \/ \E e : log' = Append(log, e) /\ e.kind # "calls"
  <2>1. PICK size \in 1 .. Prompt :
          /\ pc = "summary"
          /\ \/ Window!Overflow
             \/ log' = log
             \/ log' = Append(log, Window!Summary(size, Window!Before(cut, Window!Visible)))
    BY <1>5 DEF Window!Commit
  <2> DEFINE c == Window!Summary(size, Window!Before(cut, Window!Visible))
  <2>2. c.kind = "checkpoint"
    BY DEF Window!Summary, Window!Ev
  <2>3. Window!Overflow \/ log' = log \/ log' = Append(log, c)
    BY <2>1
  <2> HIDE DEF c
  <2> QED
    BY <2>1, <2>2, <2>3
<1>6. \/ log' = log
      \/ \E e : log' = Append(log, e) /\ e.kind # "calls"
      \/ /\ pc # "idle"
         /\ \/ Window!Stop(<<>>) \/ Window!Stop(<<Window!Ev("final", active)>>)
            \/ Window!Stop(<<Window!Ev("aborted", active)>>) \/ Window!Overflow
  <2>1. CASE Window!Build \/ Window!TooLong \/ UNCHANGED vars
    BY <2>1 DEF Window!Build, Window!TooLong, vars, window
  <2>2. CASE Window!Compact
    BY <2>2 DEF Window!Compact
  <2>3. CASE Window!Commit
    BY <1>5, <2>3
  <2>4. CASE Window!Accept
    BY <1>4, <2>4 DEF Window!Accept
  <2>5. CASE Window!Answers \/ Window!TooLongAgain \/ Window!Fails \/ Window!Crash
    BY <2>5 DEF Window!Answers, Window!TooLongAgain, Window!Fails, Window!Crash
  <2>6. ASSUME NEW u, Window!Resume(u) \/ Window!Refuse(u)
        PROVE  log' = log \/ \E e : log' = Append(log, e) /\ e.kind # "calls"
    BY <1>4, <2>6 DEF Window!Resume, Window!Refuse
  <2> QED
    BY <2>1, <2>2, <2>3, <2>4, <2>5, <2>6 DEF Window!Next
<1> QED
  BY <1>1, <1>2, <1>3, <1>6

\* Calls made before stay in the span of their message.
LEMMA CallsKept ==
  ASSUME WinInv, part = "window", CallsInTurn,
         NEW s \in Seq(Window!EventType), log' = log \o s,
         NEW n \in DOMAIN log, n \in Window!Of("calls")'
  PROVE  InTurn(n)'
<1>1. log \in Seq(Window!EventType)
  BY DEF WinInv, WinTypes
<1>2. /\ log'[n] = log[n] /\ n \in Window!Of("calls")
      /\ Messages \subseteq Messages' /\ Messages \subseteq DOMAIN log
      /\ \A u \in DOMAIN log : n \in Window!Span(u) => n \in Window!Span(u)'
  BY <1>1, Grown
<1>3. log[n].turn \in Messages /\ n \in Window!Span(log[n].turn)
  BY <1>2 DEF CallsInTurn, InTurn
<1>4. ASSUME NEW u, u = log[n].turn PROVE n \in Window!Span(log[n].turn)'
  <2>1. n \in Window!Span(u)' /\ log'[n].turn = u
    BY <1>2, <1>3, <1>4
  <2> QED
    BY <2>1 DEF Window!Span
<1> QED
  BY <1>2, <1>3, <1>4 DEF InTurn

\* A call is made in the last turn, so it lands in its span.
LEMMA CallAdded ==
  ASSUME WinInv, part = "window", part' = part, CallsInTurn, LatestRuns, Window!Calls
  PROVE  CallsInTurn'
<1> DEFINE l == Len(log) + 1
           e == Window!Ev("calls", active)
<1>t. /\ log \in Seq(Window!EventType) /\ active \in Nat /\ active # 0 /\ active \in Messages
      /\ DOMAIN log = 1 .. Len(log) /\ Len(log) \in Nat /\ l \in Nat
  BY DEF WinInv, WinTypes, Prepared, Window!Calls
<1>1. log' = Append(log, e) /\ e \in Window!EventType /\ e.kind = "calls" /\ e.turn = active
  BY <1>t, EvIs DEF Window!Calls, Window!Kinds, Window!Rendered, Window!Ev
<1> HIDE DEF e
<1>2. <<e>> \in Seq(Window!EventType) /\ log' = log \o <<e>>
  BY <1>t, <1>1, Appended
<1>3. /\ DOMAIN log' = DOMAIN log \cup {l} /\ log'[l] = e
      /\ \A k \in DOMAIN log : log'[k] = log[k]
  BY <1>t, <1>1
<1>4. Messages \subseteq 1 .. Len(log) /\ Messages \subseteq Nat /\ Messages' = Messages
  <2>1. Messages \subseteq 1 .. Len(log)
    BY <1>t, Positions DEF Messages
  <2>2. Messages' = Messages
    BY <1>1, <1>3 DEF Messages, Window!Of
  <2> QED
    BY <2>1, <2>2
<1>5. \A v \in Messages : v <= active
  <2>1. Messages \subseteq 0 .. Len(log) /\ Messages # {}
    BY <1>t, <1>4
  <2> QED
    BY <1>t, <2>1, MostIn DEF LatestRuns
<1>6. ASSUME NEW u, u = active PROVE l \in Window!Span(u)'
  <2>1. l \in DOMAIN log' /\ l > u
    BY <1>t, <1>3, <1>4, <1>6
  <2>2. ~ \E v \in Messages : u < v /\ v <= l
    BY <1>t, <1>4, <1>5, <1>6
  <2>3. Window!Of("user")' = Messages
    BY <1>4 DEF Messages
  <2> QED
    BY <2>1, <2>2, <2>3 DEF Window!Span
<1>7. ASSUME NEW n \in Window!Of("calls")'
      PROVE  InTurn(n)'
  <2>1. CASE n \in DOMAIN log
    BY <1>2, <2>1, <1>7, CallsKept
  <2>2. CASE n = l
    <3>1. log'[n].turn = active
      BY <1>1, <1>3, <2>2
    <3>2. ASSUME NEW u, u = active PROVE n \in Window!Span(log[n].turn)'
      <4>1. n \in Window!Span(u)' /\ log'[n].turn = u
        BY <1>6, <2>2, <3>1, <3>2
      <4> QED
        BY <4>1 DEF Window!Span
    <3> QED
      BY <1>t, <1>4, <3>1, <3>2 DEF InTurn
  <2> QED
    BY <1>3, <1>7, <2>1, <2>2 DEF Window!Of
<1> QED
  BY <1>7 DEF CallsInTurn

\* While the latest message runs, no step takes a call out of its turn.
LEMMA CallsInTurnStep ==
  ASSUME WinInv, CallsInTurn, LatestRuns, [Next]_vars
  PROVE  CallsInTurn'
<1> SUFFICES ASSUME part' = "window" PROVE CallsInTurn'
  BY DEF CallsInTurn
<1>1. part' = part /\ part = "window" /\ (Window!Next \/ UNCHANGED vars)
  BY DEF Next, WindowStep, ConnStep, MigrateStep, ProfileStep, CatalogStep, LevelsStep, vars
<1>2. CASE Window!Calls
  BY <1>1, <1>2, CallAdded
<1>3. CASE ~ Window!Calls
  <2>1. WinInv'
    BY WinNext
  <2>2. PICK s \in Seq(Window!EventType) :
          log' = log \o s /\ \A k \in DOMAIN s : s[k].kind # "calls"
    BY <1>1, <1>3, <2>1, AddsNoCall
  <2>3. log \in Seq(Window!EventType)
    BY <1>1 DEF WinInv, WinTypes
  <2>4. \A n \in DOMAIN log' \ DOMAIN log : \E k \in DOMAIN s : log'[n] = s[k]
    BY <2>2, <2>3, Grown
  <2>5. \A n \in Window!Of("calls")' : n \in DOMAIN log
    BY <2>2, <2>4 DEF Window!Of
  <2>6. \A n \in Window!Of("calls")' : InTurn(n)'
    BY <1>1, <2>2, <2>5, CallsKept
  <2> QED
    BY <2>6 DEF CallsInTurn
<1> QED
  BY <1>2, <1>3

\* What CallsShown rules out needs a message that runs again behind a later one:
\* as long as the turn that runs is that of the latest message, through any
\* compactions, failures and crashes, every request shows the results of all the
\* calls its turn has made, and word by word.
THEOREM CallsShownInOrder ==
  Spec /\ []LatestRuns =>
    [](part = "window" => /\ Window!CallsShown
                          /\ pc = "ask" => \A n \in Window!Of("calls") :
                                             log[n].turn = active => n \in shown)
<1> DEFINE Whole == part = "window" =>
             /\ Window!CallsShown
             /\ pc = "ask" => \A n \in Window!Of("calls") : log[n].turn = active => n \in shown
<1>1. Init => WinInv /\ CallsInTurn
  <2> SUFFICES ASSUME Init, part = "window" PROVE WinInv /\ CallsInTurn
    BY DEF WinInv, CallsInTurn
  <2>1. log = <<>> /\ active = 0 /\ pc = "idle" /\ cut = 0
    BY DEF Init, Window!Init
  <2> QED
    BY <2>1, EmptySeq
    DEF WinInv, WinTypes, Prepared, NamesMessages, NotBoth, Covered, AtRequest, Messages,
        Window!Of, CallsInTurn
<1>2. WinInv /\ CallsInTurn /\ LatestRuns /\ [Next]_vars => WinInv' /\ CallsInTurn'
  BY WinNext, CallsInTurnStep
<1>3. WinInv /\ CallsInTurn /\ LatestRuns => Whole
  <2> SUFFICES ASSUME WinInv, CallsInTurn, LatestRuns, part = "window", pc = "ask",
                      NEW n \in Window!Of("calls"), log[n].turn = active
               PROVE  n \in shown
    BY DEF Window!CallsShown
  <2>1. active # 0
    BY DEF WinInv, Prepared
  <2>2. active = Window!Most(Window!Of("user"))
    BY <2>1 DEF LatestRuns, Messages
  <2>3. Window!Told(active) \subseteq shown
    BY <2>2, NothingIsForgotten DEF NothingForgotten, Window!NothingForgotten
  <2>4. n \in Window!Span(active) /\ log[n].kind = "calls"
    BY DEF CallsInTurn, InTurn, Window!Of
  <2> QED
    BY <2>3, <2>4 DEF Window!Told, Window!Rendered
<1> HIDE DEF Whole
<1>4. Spec /\ []LatestRuns => []Whole
  BY <1>1, <1>2, <1>3, PTL DEF Spec
<1> QED
  BY <1>4 DEF Whole

-----------------------------------------------------------------------------
(* MarketLevels: the levels and zones of the bars *)

\* The bars are bars, there is one, and its close is a price.
LevInv == part = "levels" =>
  bars \in Seq(Market!BarType) /\ Len(bars) >= 1 /\ close \in Price

\* Counting is the same in every part.
LEMMA Counts == \A S : Market!Cardinality(S) = Cardinality(S)
BY DEF Market!Cardinality, Cardinality

\* A finite set of numbers that is not empty has a greatest member.
LEMMA GreatestExists ==
  ASSUME NEW S \in SUBSET Int, IsFiniteSet(S), S # {}
  PROVE  \E n \in S : \A k \in S : k <= n
<1> DEFINE Bad(T) == IsFiniteSet(T) /\ T # {} /\ \A n \in T : \E k \in T : ~ k <= n
           bad == {c \in Nat : \E T \in SUBSET Int : Bad(T) /\ Cardinality(T) = c}
<1> SUFFICES ASSUME Bad(S) PROVE FALSE
  OBVIOUS
<1>1. Cardinality(S) \in bad
  BY FS_CardinalityType
<1>2. PICK c \in bad : \A k \in bad : c <= k
  <2>1. bad \subseteq Nat /\ bad # {}
    BY <1>1
  <2> HIDE DEF bad
  <2> QED
    BY <2>1, LeastExists
<1>3. PICK T \in SUBSET Int : Bad(T) /\ Cardinality(T) = c
  BY <1>2
<1>4. PICK x \in T : TRUE
  BY <1>3
<1>5. IsFiniteSet(T \ {x}) /\ Cardinality(T \ {x}) = c - 1
  BY <1>3, <1>4, FS_RemoveElement
<1>6. T \ {x} # {}
  <2>1. PICK k \in T : ~ k <= x
    BY <1>3, <1>4
  <2>2. k # x
    BY <1>4, <2>1
  <2> QED
    BY <2>2
<1>7. PICK m \in T \ {x} : \A k \in T \ {x} : k <= m
  <2>1. c \in Nat /\ c - 1 \in Nat /\ c - 1 \notin bad
    BY <1>2, <1>3, <1>5, FS_CardinalityType
  <2>2. T \ {x} \in SUBSET Int
    OBVIOUS
  <2> QED
    BY <1>5, <1>6, <2>1, <2>2
<1>8. \E n \in {m, x} : \A k \in T : k <= n
  BY <1>4, <1>7
<1> QED
  BY <1>3, <1>4, <1>7, <1>8

\* The greatest member of such a set.
LEMMA MaxIs ==
  ASSUME NEW S \in SUBSET Int, IsFiniteSet(S), S # {}
  PROVE  Market!Max(S) \in S /\ \A k \in S : k <= Market!Max(S)
<1>1. \E n \in S : \A k \in S : n >= k
  BY GreatestExists
<1>2. Market!Max(S) \in S /\ \A k \in S : Market!Max(S) >= k
  BY <1>1 DEF Market!Max
<1> QED
  BY <1>2

\* The least member of a set of natural numbers.
LEMMA MinIs ==
  ASSUME NEW S \in SUBSET Nat, S # {}
  PROVE  Market!Min(S) \in S /\ \A k \in S : Market!Min(S) <= k
<1>1. \E n \in S : \A k \in S : n <= k
  BY LeastExists
<1> QED
  BY <1>1 DEF Market!Min

\* What a function makes of a finite set is finite.
LEMMA ImageFinite ==
  ASSUME NEW T, IsFiniteSet(T), NEW f
  PROVE  IsFiniteSet({f[x] : x \in T})
<1> DEFINE S == {f[x] : x \in T}
           g == [x \in T |-> f[x]]
<1>1. g \in Surjection(T, S)
  BY DEF Surjection
<1> QED
  BY <1>1, FS_Surjection

-----------------------------------------------------------------------------
(* The first ones of an order *)

\* The n members of W with the greatest keys.
Top(n, W, key) == {w \in W : Cardinality({v \in W : key[v] > key[w]}) < n}
Keyed(W, key) == /\ \A v \in W : key[v] \in Int
                 /\ \A v, w \in W : key[v] = key[w] => v = w

\* There are n of them if there are that many members.
LEMMA TopCount ==
  ASSUME NEW n \in Nat, NEW V, IsFiniteSet(V), NEW key, Keyed(V, key), Cardinality(V) >= n
  PROVE  IsFiniteSet(Top(n, V, key)) /\ Cardinality(Top(n, V, key)) = n
<1> DEFINE Right(W, m) == IsFiniteSet(Top(m, W, key)) /\ Cardinality(Top(m, W, key)) = m
           bad == {m \in Nat : \E W \in SUBSET V : Cardinality(W) >= m /\ ~ Right(W, m)}
<1> SUFFICES ASSUME ~ Right(V, n) PROVE FALSE
  OBVIOUS
<1>1. PICK m \in bad : \A k \in bad : m <= k
  <2>1. bad \subseteq Nat /\ bad # {}
    OBVIOUS
  <2> HIDE DEF bad
  <2> QED
    BY <2>1, LeastExists
<1>2. PICK W \in SUBSET V : Cardinality(W) >= m /\ ~ Right(W, m)
  BY <1>1
<1>3. IsFiniteSet(W) /\ Cardinality(W) \in Nat /\ m \in Nat
  BY <1>1, FS_Subset, FS_CardinalityType
<1>4. m # 0
  <2>1. ASSUME m = 0 PROVE Top(m, W, key) = {}
    <3>1. \A w \in W : Cardinality({v \in W : key[v] > key[w]}) \in Nat
      <4>1. \A w \in W : {v \in W : key[v] > key[w]} \in SUBSET W
        OBVIOUS
      <4> QED
        BY <1>3, <4>1, FS_Subset, FS_CardinalityType
    <3> QED
      BY <2>1, <3>1 DEF Top
  <2> QED
    BY <1>2, <2>1, FS_EmptySet
<1>5. PICK t \in W : \A w \in W : key[w] <= key[t]
  <2> DEFINE keys == {key[w] : w \in W}
  <2>1. keys \in SUBSET Int /\ keys # {}
    BY <1>2, <1>3, <1>4, FS_EmptySet DEF Keyed
  <2>2. IsFiniteSet(keys)
    BY <1>3, ImageFinite
  <2>3. PICK k \in keys : \A l \in keys : l <= k
    BY <2>1, <2>2, GreatestExists
  <2> QED
    BY <2>3
<1> DEFINE U == W \ {t}
<1>6. IsFiniteSet(U) /\ Cardinality(U) = Cardinality(W) - 1 /\ U \in SUBSET V
  BY <1>2, <1>3, <1>5, FS_RemoveElement
<1>7. Right(U, m - 1)
  <2>1. m - 1 \in Nat /\ m - 1 \notin bad /\ Cardinality(U) >= m - 1
    BY <1>1, <1>2, <1>3, <1>4, <1>6
  <2> QED
    BY <1>6, <2>1
<1>8. ASSUME NEW w \in U
      PROVE  /\ Cardinality({v \in W : key[v] > key[w]}) = Cardinality({v \in U : key[v] > key[w]}) + 1
             /\ Cardinality({v \in U : key[v] > key[w]}) \in Nat
  <2> DEFINE S == {v \in U : key[v] > key[w]}
  <2>1. key[t] > key[w] /\ key[t] \in Int /\ key[w] \in Int
    BY <1>2, <1>5 DEF Keyed
  <2>2. {v \in W : key[v] > key[w]} = S \cup {t} /\ t \notin S
    BY <1>5, <2>1
  <2>3. IsFiniteSet(S)
    BY <1>6, FS_Subset
  <2> HIDE DEF S
  <2> QED
    BY <2>2, <2>3, FS_AddElement, FS_CardinalityType DEF S
<1>9. {v \in W : key[v] > key[t]} = {}
  BY <1>2, <1>5 DEF Keyed
<1>10. Top(m, W, key) = Top(m - 1, U, key) \cup {t}
  <2>1. t \in Top(m, W, key)
    <3>1. Cardinality({v \in W : key[v] > key[t]}) = 0 /\ 0 < m
      BY <1>3, <1>4, <1>9, FS_EmptySet
    <3> QED
      BY <1>5, <3>1 DEF Top
  <2>2. \A w \in U : w \in Top(m, W, key) <=> w \in Top(m - 1, U, key)
    <3>1. \A a \in Nat : a + 1 < m <=> a < m - 1
      BY <1>3
    <3> QED
      BY <1>8, <3>1 DEF Top
  <2>3. Top(m, W, key) \subseteq U \cup {t} /\ Top(m - 1, U, key) \subseteq U
    BY DEF Top
  <2> HIDE DEF U
  <2> QED
    BY <2>1, <2>2, <2>3
<1>11. t \notin Top(m - 1, U, key)
  BY DEF Top
<1>12. Right(W, m)
  <2>1. ASSUME NEW S, IsFiniteSet(S), Cardinality(S) = m - 1, t \notin S
        PROVE  IsFiniteSet(S \cup {t}) /\ Cardinality(S \cup {t}) = m
    <3>1. Cardinality(S \cup {t}) = m - 1 + 1
      BY <2>1, FS_AddElement
    <3> QED
      BY <1>3, <2>1, <3>1, FS_AddElement
  <2> HIDE DEF U
  <2> QED
    BY <1>7, <1>10, <1>11, <2>1
<1> QED
  BY <1>2, <1>12

\* A member that is not among them has n of them before it.
LEMMA TopBefore ==
  ASSUME NEW n \in Nat, NEW V, IsFiniteSet(V), NEW key, Keyed(V, key),
         NEW w \in V, w \notin Top(n, V, key)
  PROVE  Cardinality({v \in Top(n, V, key) : key[v] > key[w]}) = n
<1> DEFINE U == {v \in V : key[v] > key[w]}
<1>1. IsFiniteSet(U) /\ Cardinality(U) \in Nat /\ Cardinality(U) >= n /\ Keyed(U, key)
  <2>1. IsFiniteSet(U) /\ Keyed(U, key)
    BY FS_Subset DEF Keyed
  <2>2. Cardinality(U) \in Nat /\ ~ Cardinality(U) < n
    BY <2>1, FS_CardinalityType DEF Top
  <2> QED
    BY <2>1, <2>2
<1>2. \A u \in U : {v \in V : key[v] > key[u]} = {v \in U : key[v] > key[u]}
  BY DEF Keyed
<1>3. {v \in Top(n, V, key) : key[v] > key[w]} = Top(n, U, key)
  BY <1>2 DEF Top
<1> QED
  BY <1>1, <1>3, TopCount

-----------------------------------------------------------------------------
(* Zones *)

\* Whatever set of prices there is, and whatever joins, the clusters of the
\* pass have their begins: they are found price by price.
LEMMA StartsExist ==
  ASSUME NEW S \in SUBSET Nat, NEW m \in Nat, \A p \in S : p <= m
  PROVE  /\ Market!Starts(S) \in SUBSET S
         /\ \A p \in S : p \in Market!Starts(S) <=> Market!Begins(p, S, Market!Starts(S))
<1> DEFINE Upto(n, B) == \A p \in S : p < n => (p \in B <=> Market!Begins(p, S, B))
           bad == {n \in Nat : \A B \in SUBSET S : ~ Upto(n, B)}
<1>1. bad = {}
  <2> SUFFICES ASSUME bad # {} PROVE FALSE
    OBVIOUS
  <2>1. PICK n \in bad : \A k \in bad : n <= k
    <3>1. bad \subseteq Nat
      OBVIOUS
    <3> HIDE DEF bad
    <3> QED
      BY <3>1, LeastExists
  <2>2. n \in Nat /\ n # 0
    <3>1. Upto(0, {})
      OBVIOUS
    <3> QED
      BY <2>1, <3>1
  <2>3. PICK B \in SUBSET S : Upto(n - 1, B)
    <3>1. n - 1 \in Nat /\ n - 1 \notin bad
      BY <2>1, <2>2
    <3> QED
      BY <3>1
  <2> DEFINE A == {p \in B : p < n - 1}
             C == IF n - 1 \in S /\ Market!Begins(n - 1, S, B) THEN A \cup {n - 1} ELSE A
  <2>4. ASSUME NEW p \in S, p < n PROVE Market!Begins(p, S, C) <=> Market!Begins(p, S, B)
    <3>1. \A b \in Nat : b < n - 1 => (b \in C <=> b \in B)
      BY <2>2
    <3>2. \A b \in Nat : b < p => b < n - 1
      BY <2>2, <2>4
    <3>3. B \in SUBSET Nat /\ C \in SUBSET Nat
      OBVIOUS
    <3> HIDE DEF C
    <3>4. {b \in C : b < p} = {b \in B : b < p}
      BY <3>1, <3>2, <3>3
    <3> QED
      BY <3>4 DEF Market!Begins
  <2>5. ASSUME NEW p \in S, p < n PROVE p \in C <=> Market!Begins(p, S, B)
    <3>1. CASE p < n - 1
      BY <2>2, <2>3, <3>1
    <3>2. CASE p = n - 1
      BY <2>2, <3>2
    <3>3. p < n - 1 \/ p = n - 1
      BY <2>2, <2>5
    <3> QED
      BY <3>1, <3>2, <3>3
  <2>6. C \in SUBSET S
    OBVIOUS
  <2> HIDE DEF C
  <2>7. Upto(n, C)
    BY <2>4, <2>5
  <2> QED
    BY <2>1, <2>6, <2>7
<1>2. PICK B \in SUBSET S : Upto(m + 1, B)
  <2>1. m + 1 \in Nat
    OBVIOUS
  <2> QED
    BY <1>1, <2>1
<1>3. \A p \in S : p \in B <=> Market!Begins(p, S, B)
  BY <1>2
<1> QED
  BY <1>3 DEF Market!Starts

\* What the clusters of a set of prices are: they begin at their lowest price and
\* lie apart.
LEMMA ClusterIs ==
  ASSUME NEW S \in SUBSET Nat, NEW m \in Nat, \A p \in S : p <= m,
         NEW b \in Market!Starts(S)
  PROVE  LET C == Market!Cluster(b, S) IN
         /\ b \in C /\ C \in SUBSET S /\ IsFiniteSet(C)
         /\ Market!Min(C) = b /\ Market!Max(C) \in C /\ \A q \in C : q <= Market!Max(C)
         /\ \A c \in Market!Starts(S) : b < c => Market!Max(C) < c
<1> DEFINE C == Market!Cluster(b, S)
<1>1. Market!Starts(S) \in SUBSET S
  BY StartsExist
<1>2. b \in C /\ C \in SUBSET S /\ \A q \in C : b <= q
  <2>1. b \in S /\ b \in Nat
    BY <1>1
  <2>2. b <= b /\ \A c \in Market!Starts(S) : b < c => b < c
    BY <2>1
  <2> QED
    BY <2>1, <2>2 DEF Market!Cluster
<1>3. IsFiniteSet(C)
  BY <1>2, FS_BoundedSetOfNaturals
<1>4. \A c \in Market!Starts(S) : b < c => \A q \in C : q < c
  BY DEF Market!Cluster
<1> HIDE DEF C
<1>5. Market!Min(C) = b
  <2>1. Market!Min(C) \in C /\ Market!Min(C) <= b /\ b \in Nat /\ Market!Min(C) \in Nat
    BY <1>2, MinIs
  <2> QED
    BY <1>2, <2>1
<1>6. Market!Max(C) \in C /\ \A q \in C : q <= Market!Max(C)
  BY <1>2, <1>3, MaxIs
<1> QED
  BY <1>2, <1>3, <1>4, <1>5, <1>6 DEF C

\* Prices at one place are near each other.
LEMMA NearSame == ASSUME close \in Nat PROVE Market!Near(0)
<1>1. {12 * close, 1000} \in SUBSET Int /\ IsFiniteSet({12 * close, 1000})
  <2>1. PICK n \in Nat : n = 12 * close
    OBVIOUS
  <2>2. {n, 1000} \in SUBSET Nat /\ n + 1000 \in Nat /\ \A k \in {n, 1000} : k <= n + 1000
    OBVIOUS
  <2>3. IsFiniteSet({n, 1000})
    BY <2>2, FS_BoundedSetOfNaturals
  <2> QED
    BY <2>1, <2>3
<1>2. Market!Max({12 * close, 1000}) \in Int /\ 1000 <= Market!Max({12 * close, 1000})
  BY <1>1, MaxIs
<1> QED
  BY <1>2 DEF Market!Near

\* Every price is in a cluster.
LEMMA ClustersCover ==
  ASSUME NEW S \in SUBSET Nat, NEW m \in Nat, \A p \in S : p <= m, NEW p \in S
  PROVE  \E b \in Market!Starts(S) : p \in Market!Cluster(b, S)
<1> DEFINE B == Market!Starts(S)
           low == {b \in B : b <= p}
<1>1. B \in SUBSET S /\ \A q \in S : q \in B <=> Market!Begins(q, S, B)
  BY StartsExist
<1> HIDE DEF B
<1>2. low # {}
  <2>1. CASE p \in B
    <3>1. p \in Nat
      OBVIOUS
    <3> QED
      BY <2>1, <3>1
  <2>2. CASE p \notin B
    <3>1. PICK b \in B : b < p
      BY <1>1, <2>2 DEF Market!Begins
    <3>2. b \in Nat /\ p \in Nat
      BY <1>1
    <3> QED
      BY <3>1, <3>2
  <2> QED
    BY <2>1, <2>2
<1>3. low \in SUBSET Int /\ IsFiniteSet(low)
  <2>1. low \in SUBSET Nat /\ \A b \in low : b <= p
    BY <1>1
  <2> QED
    BY <2>1, FS_BoundedSetOfNaturals
<1>4. PICK b \in low : \A c \in low : c <= b
  <2> HIDE DEF low
  <2> QED
    BY <1>2, <1>3, GreatestExists
<1>5. \A c \in B : b < c => p < c
  BY <1>1, <1>4
<1>6. p \in Market!Cluster(b, S)
  BY <1>4, <1>5 DEF Market!Cluster, B
<1> QED
  BY <1>4, <1>6 DEF B

\* None is wider than the limit: its last price joined the prices before it.
LEMMA ClustersNarrow ==
  ASSUME NEW S \in SUBSET Nat, NEW m \in Nat, \A p \in S : p <= m, close \in Nat,
         NEW b \in Market!Starts(S)
  PROVE  LET C == Market!Cluster(b, S) IN Market!Near(Market!Max(C) - Market!Min(C))
<1> DEFINE C == Market!Cluster(b, S)
           B == Market!Starts(S)
           h == Market!Max(C)
           before == {c \in B : c < h}
           row == {q \in S : Market!Max(before) <= q /\ q < h}
<1>1. /\ B \in SUBSET S /\ \A q \in S : q \in B <=> Market!Begins(q, S, B)
      /\ b \in Nat /\ b \in S /\ b \in B
  BY StartsExist
<1>2. /\ b \in C /\ C \in SUBSET S /\ Market!Min(C) = b
      /\ h \in C /\ \A q \in C : q <= h
      /\ \A c \in B : b < c => h < c
  BY ClusterIs
<1>3. h \in Nat /\ b <= h
  BY <1>2
<1> HIDE DEF B, C, h
<1>4. CASE h = b
  <2>1. h - b = 0
    BY <1>1, <1>4
  <2> QED
    BY <1>2, <2>1, NearSame DEF C, h
<1>5. CASE h # b
  <2>1. h \notin B
    <3>1. b < h /\ ~ h < h
      BY <1>1, <1>3, <1>5
    <3> QED
      BY <1>2, <3>1
  <2>2. before # {} /\ ~ Market!Begins(h, S, B)
    BY <1>1, <1>2, <1>3, <1>5, <2>1
  <2>3. Market!Joins(h, row)
    BY <2>2 DEF Market!Begins
  <2>4. Market!Max(before) = b
    <3>1. before \in SUBSET Nat /\ b \in before /\ \A c \in before : c <= b /\ c <= h
      <4>1. b < h /\ before \in SUBSET B /\ B \in SUBSET Nat
        BY <1>1, <1>3, <1>5
      <4>2. ASSUME NEW c \in before PROVE c <= b /\ c <= h
        <5>1. c \in Nat /\ c \in B /\ c < h
          BY <4>1
        <5>2. ~ b < c
          BY <1>2, <1>3, <5>1
        <5> QED
          BY <1>1, <1>3, <5>1, <5>2
      <4> QED
        BY <1>1, <4>1, <4>2
    <3> HIDE DEF before
    <3>2. IsFiniteSet(before) /\ before \in SUBSET Int
      BY <1>3, <3>1, FS_BoundedSetOfNaturals
    <3>3. Market!Max(before) \in before /\ b <= Market!Max(before)
      BY <3>1, <3>2, MaxIs
    <3> HIDE DEF h
    <3>4. Market!Max(before) \in Nat /\ Market!Max(before) <= b
      BY <3>1, <3>3
    <3> QED
      BY <1>1, <3>3, <3>4
  <2>5. Market!Min(row) = b
    <3>1. row \in SUBSET Nat /\ b \in row /\ \A q \in row : b <= q
      <4> HIDE DEF before
      <4>1. b < h /\ b <= b
        BY <1>1, <1>3, <1>5
      <4> QED
        BY <1>1, <2>4, <4>1
    <3> HIDE DEF row
    <3>2. Market!Min(row) \in row /\ Market!Min(row) <= b
      BY <3>1, MinIs
    <3>3. Market!Min(row) \in Nat /\ b <= Market!Min(row)
      BY <3>1, <3>2
    <3> QED
      BY <1>1, <3>2, <3>3
  <2>6. Market!Near(h - Market!Min(row))
    BY <2>3 DEF Market!Joins
  <2> QED
    BY <1>2, <2>5, <2>6 DEF C, h
<1> QED
  BY <1>4, <1>5

-----------------------------------------------------------------------------
(* Rows and candidates *)

Bars(r) == r \in Seq(Market!BarType) /\ Len(r) >= 1

\* The last bars are bars, and there is one.
LEMMA LastBars ==
  ASSUME NEW r, Bars(r), NEW n \in Nat \ {0}
  PROVE  Bars(Market!Last(n, r))
<1> DEFINE m == IF Len(r) > n THEN Len(r) - n + 1 ELSE 1
<1>1. r \in Seq(Market!BarType) /\ Len(r) \in Nat /\ Len(r) >= 1
  BY DEF Bars
<1>2. m \in Nat /\ 1 <= m /\ m <= Len(r)
  BY <1>1
<1>3. \A i \in m .. Len(r) : r[i] \in Market!BarType
  BY <1>1, <1>2
<1> HIDE DEF m
<1>4. /\ SubSeq(r, m, Len(r)) \in Seq(Market!BarType)
      /\ Len(SubSeq(r, m, Len(r))) = IF m <= Len(r) THEN Len(r) - m + 1 ELSE 0
  BY <1>1, <1>2, <1>3, SubSeqProperties
<1>5. Len(SubSeq(r, m, Len(r))) >= 1
  BY <1>1, <1>2, <1>4
<1> QED
  BY <1>4, <1>5 DEF Bars, Market!Last, m

\* Their highs and lows are finitely many prices.
LEMMA Extremes ==
  ASSUME NEW r, Bars(r)
  PROVE  /\ Market!Highs(r) \in SUBSET Nat /\ IsFiniteSet(Market!Highs(r)) /\ Market!Highs(r) # {}
         /\ Market!Lows(r) \in SUBSET Nat /\ IsFiniteSet(Market!Lows(r)) /\ Market!Lows(r) # {}
         /\ DOMAIN r = 1 .. Len(r) /\ Len(r) \in Nat /\ IsFiniteSet(DOMAIN r)
<1>1. DOMAIN r = 1 .. Len(r) /\ Len(r) \in Nat /\ 1 \in DOMAIN r
  BY DEF Bars
<1>2. IsFiniteSet(DOMAIN r)
  BY <1>1, FS_Interval
<1>3. \A n \in DOMAIN r : r[n].high \in Nat /\ r[n].low \in Nat
  <2>1. \A n \in DOMAIN r : r[n] \in Market!BarType
    BY <1>1 DEF Bars
  <2>2. \A b \in Market!BarType : b.high \in Nat /\ b.low \in Nat
    BY LevelsAssumption DEF Market!BarType
  <2> QED
    BY <2>1, <2>2
<1> DEFINE high == [n \in DOMAIN r |-> r[n].high]
           low == [n \in DOMAIN r |-> r[n].low]
<1>4. Market!Highs(r) = {high[n] : n \in DOMAIN r} /\ Market!Lows(r) = {low[n] : n \in DOMAIN r}
  BY DEF Market!Highs, Market!Lows
<1>5. IsFiniteSet({high[n] : n \in DOMAIN r}) /\ IsFiniteSet({low[n] : n \in DOMAIN r})
  <2> HIDE DEF high, low
  <2> QED
    BY <1>2, ImageFinite
<1>6. Market!Highs(r) \in SUBSET Nat /\ Market!Highs(r) # {}
  BY <1>1, <1>3 DEF Market!Highs
<1>7. Market!Lows(r) \in SUBSET Nat /\ Market!Lows(r) # {}
  BY <1>1, <1>3 DEF Market!Lows
<1> QED
  BY <1>1, <1>2, <1>4, <1>5, <1>6, <1>7

\* The candidates are prices up to the highest.
LEMMA CandidatesAre ==
  ASSUME Bars(bars)
  PROVE  /\ Market!Candidates \in SUBSET Nat
         /\ \E m \in Nat : \A p \in Market!Candidates : p <= m
<1> DEFINE m == Market!Max(Market!Highs(Market!Rows))
           l == Market!Min(Market!Lows(Market!Rows))
<1>1. Bars(Market!Rows)
  BY LastBars, LevelsAssumption DEF Market!Rows
<1>2. m \in Nat
  BY <1>1, Extremes, MaxIs
<1>3. l \in Nat
  BY <1>1, Extremes, MinIs
<1>4. \A p \in Market!Candidates : p \in l .. m
  BY DEF Market!Candidates
<1> HIDE DEF l, m
<1>5. \A p \in l .. m : p \in Nat /\ p <= m
  BY <1>2, <1>3
<1> QED
  BY <1>2, <1>4, <1>5

\* What touches one price of a set touches the set.
LEMMA TouchesGrow ==
  ASSUME Bars(bars), NEW C, NEW p \in C
  PROVE  /\ Market!Touches({p}) \in Nat /\ Market!Touches(C) \in Nat
         /\ Market!Touches({p}) <= Market!Touches(C)
<1>1. ASSUME NEW D PROVE IsFiniteSet(Market!Touched(D))
  <2> DEFINE r == Market!Rows
             fresh == {n \in DOMAIN r : n > Len(r) - Newest}
             all == DOMAIN r \cup Market!Ratios
             tags == {"high", "low", "recent high", "recent low", "level"}
  <2>1. IsFiniteSet(DOMAIN r)
    BY LastBars, LevelsAssumption, Extremes DEF Market!Rows
  <2>2. IsFiniteSet(Market!Ratios)
    <3>1. PICK a \in Int, b \in Int : a = -2000 /\ b = 2000
      OBVIOUS
    <3>2. IsFiniteSet(a .. b)
      BY FS_Interval
    <3>3. Market!Ratios \in SUBSET (a .. b)
      BY <3>1 DEF Market!Ratios, Market!Retracements
    <3> QED
      BY <3>2, <3>3, FS_Subset
  <2>3. IsFiniteSet(all)
    BY <2>1, <2>2, FS_Union
  <2>4. IsFiniteSet(tags)
    <3>1. IsFiniteSet({"high"})
      BY FS_Singleton
    <3>2. IsFiniteSet({"high"} \cup {"low"})
      BY <3>1, FS_AddElement
    <3>3. IsFiniteSet({"high"} \cup {"low"} \cup {"recent high"})
      BY <3>2, FS_AddElement
    <3>4. IsFiniteSet({"high"} \cup {"low"} \cup {"recent high"} \cup {"recent low"})
      BY <3>3, FS_AddElement
    <3>5. IsFiniteSet({"high"} \cup {"low"} \cup {"recent high"} \cup {"recent low"} \cup {"level"})
      BY <3>4, FS_AddElement
    <3>6. tags = {"high"} \cup {"low"} \cup {"recent high"} \cup {"recent low"} \cup {"level"}
      OBVIOUS
    <3> QED
      BY <3>5, <3>6
  <2>5. IsFiniteSet(tags \X all)
    BY <2>3, <2>4, FS_Product
  <2>6. Market!Touched(D) \in SUBSET (tags \X all)
    BY DEF Market!Touched, Market!FractalHighs, Market!FractalLows, Market!Inner
  <2> QED
    BY <2>5, <2>6, FS_Subset
<1>2. Market!Touched({p}) \in SUBSET Market!Touched(C)
  BY DEF Market!Touched
<1>3. Cardinality(Market!Touched({p})) \in Nat /\ Cardinality(Market!Touched(C)) \in Nat
  BY <1>1, FS_CardinalityType
<1>4. Cardinality(Market!Touched({p})) <= Cardinality(Market!Touched(C))
  BY <1>1, <1>2, FS_Subset
<1> QED
  BY <1>3, <1>4, Counts DEF Market!Touches

\* The zones of a set of prices: finitely many, one after the other, none too
\* wide, and among them one for each price that was touched twice.
LEMMA ZonesAre ==
  ASSUME Bars(bars), close \in Nat,
         NEW S \in SUBSET Nat, NEW m \in Nat, \A p \in S : p <= m
  PROVE  LET zs == Market!Zones(S) IN
         /\ IsFiniteSet(zs)
         /\ \A z \in zs : z.low \in Nat /\ z.high \in Nat /\ z.low <= z.high
         /\ \A y, z \in zs : y = z \/ y.high < z.low \/ z.high < y.low
         /\ \A z \in zs : Market!Near(z.high - z.low)
         /\ \A p \in S : Market!Touches({p}) >= 2 => \E z \in zs : Market!Covers(z, p)
<1> DEFINE B == Market!Starts(S)
           C(b) == Market!Cluster(b, S)
           zone == [b \in B |-> Market!Zone(Market!Cluster(b, S))]
           zs == Market!Zones(S)
<1>1. B \in SUBSET S
  BY StartsExist
<1>2. \A z \in zs : \E b \in B : z = zone[b]
  BY DEF Market!Zones, Market!Clusters
<1>3. ASSUME NEW b \in B
      PROVE  /\ b \in Nat /\ zone[b].low = b /\ zone[b].high \in Nat /\ b <= zone[b].high
             /\ zone[b].high = Market!Max(C(b))
             /\ \A q \in C(b) : q \in Nat /\ b <= q /\ q <= zone[b].high
             /\ \A c \in B : b < c => zone[b].high < c
  <2>1. zone[b].low = Market!Min(C(b)) /\ zone[b].high = Market!Max(C(b))
    BY DEF Market!Zone
  <2>2. /\ b \in C(b) /\ C(b) \in SUBSET S
        /\ Market!Min(C(b)) = b /\ Market!Max(C(b)) \in C(b)
        /\ \A q \in C(b) : q <= Market!Max(C(b))
        /\ \A c \in B : b < c => Market!Max(C(b)) < c
    BY ClusterIs
  <2>3. \A q \in C(b) : b <= q
    BY DEF Market!Cluster
  <2> QED
    BY <1>1, <2>1, <2>2, <2>3
<1>4. IsFiniteSet(zs)
  <2>1. IsFiniteSet(B)
    <3>1. B \in SUBSET Nat /\ \A b \in B : b <= m
      BY <1>1
    <3> QED
      BY <3>1, FS_BoundedSetOfNaturals
  <2>2. IsFiniteSet({zone[b] : b \in B})
    <3> HIDE DEF B, zone
    <3> QED
      BY <2>1, ImageFinite
  <2>3. zs \in SUBSET {zone[b] : b \in B}
    BY <1>2
  <2> QED
    BY <2>2, <2>3, FS_Subset
<1>5. \A z \in zs : z.low \in Nat /\ z.high \in Nat /\ z.low <= z.high
  BY <1>2, <1>3
<1>6. ASSUME NEW y \in zs, NEW z \in zs PROVE y = z \/ y.high < z.low \/ z.high < y.low
  <2>1. PICK b \in B, c \in B : y = zone[b] /\ z = zone[c]
    BY <1>2
  <2>2. b \in Nat /\ c \in Nat /\ y.low = b /\ z.low = c
    BY <1>3, <2>1
  <2>3. b = c \/ b < c \/ c < b
    BY <2>2
  <2> QED
    BY <1>3, <2>1, <2>2, <2>3
<1>7. ASSUME NEW z \in zs PROVE Market!Near(z.high - z.low)
  <2>1. PICK b \in B : z = zone[b]
    BY <1>2
  <2>2. z.high = Market!Max(C(b)) /\ z.low = Market!Min(C(b))
    BY <2>1 DEF Market!Zone
  <2>3. Market!Near(Market!Max(C(b)) - Market!Min(C(b)))
    BY ClustersNarrow
  <2> QED
    BY <2>2, <2>3
<1>8. ASSUME NEW p \in S, Market!Touches({p}) >= 2 PROVE \E z \in zs : Market!Covers(z, p)
  <2>1. PICK b \in B : p \in C(b)
    BY ClustersCover
  <2>2. Market!Touches(C(b)) >= 2
    BY <1>8, <2>1, TouchesGrow
  <2>3. zone[b] \in zs
    BY <2>2 DEF Market!Zones, Market!Clusters, Market!Zone
  <2>4. Market!Covers(zone[b], p)
    BY <1>3, <2>1 DEF Market!Covers
  <2> QED
    BY <2>3, <2>4
<1> QED
  BY <1>4, <1>5, <1>6, <1>7, <1>8

\* No zone that a price was tested in is missing behind a farther one.
LEMMA ZonesShown == ASSUME Bars(bars), close \in Nat PROVE Market!RepeatedLevelShown
<1> SUFFICES ASSUME Len(bars) >= LeastRows PROVE
      /\ \A z \in Market!SupportZones \cup Market!ResistanceZones : Market!Near(z.high - z.low)
      /\ \A p \in Market!Candidates : Market!Touches({p}) >= 2 =>
           /\ p <= close => \/ \E z \in Market!SupportZones : Market!Covers(z, p)
                            \/ Cardinality({z \in Market!SupportZones : z.low > p}) = 3
           /\ p >= close => \/ \E z \in Market!ResistanceZones : Market!Covers(z, p)
                            \/ Cardinality({z \in Market!ResistanceZones : z.high < p}) = 3
  BY Counts DEF Market!RepeatedLevelShown
<1>0. /\ Len(bars) \in Nat /\ LeastRows \in Nat /\ ~ Len(bars) < LeastRows
  BY LevelsAssumption DEF Bars
<1>1. PICK m \in Nat : \A p \in Market!Candidates : p <= m
  BY CandidatesAre
<1> DEFINE Below == {p \in Market!Candidates : p <= close}
           Above == {p \in Market!Candidates : p >= close}
           lows == Market!Zones(Below)
           highs == Market!Zones(Above)
           low == [z \in lows |-> z.low]
           high == [z \in highs |-> - z.low]
           Is(S, zs) ==
             /\ IsFiniteSet(zs)
             /\ \A z \in zs : z.low \in Nat /\ z.high \in Nat /\ z.low <= z.high
             /\ \A y, z \in zs : y = z \/ y.high < z.low \/ z.high < y.low
             /\ \A z \in zs : Market!Near(z.high - z.low)
             /\ \A p \in S : Market!Touches({p}) >= 2 => \E z \in zs : Market!Covers(z, p)
<1>2. Is(Below, lows)
  <2>1. Below \in SUBSET Nat /\ \A p \in Below : p <= m
    BY <1>1, CandidatesAre
  <2> HIDE DEF Below
  <2> QED
    BY <2>1, ZonesAre
<1>3. Is(Above, highs)
  <2>1. Above \in SUBSET Nat /\ \A p \in Above : p <= m
    BY <1>1, CandidatesAre
  <2> HIDE DEF Above
  <2> QED
    BY <2>1, ZonesAre
<1>4. Market!SupportZones = Top(3, lows, low)
  <2>1. Market!SupportZones = {z \in lows : Cardinality({y \in lows : y.low > z.low}) < 3}
    BY <1>0, Counts DEF Market!SupportZones
  <2>2. \A z \in lows : {y \in lows : y.low > z.low} = {y \in lows : low[y] > low[z]}
    OBVIOUS
  <2> HIDE DEF lows, low
  <2> QED
    BY <2>1, <2>2 DEF Top
<1>5. Market!ResistanceZones = Top(3, highs, high)
  <2>1. Market!ResistanceZones = {z \in highs : Cardinality({y \in highs : y.low < z.low}) < 3}
    BY <1>0, Counts DEF Market!ResistanceZones
  <2>2. \A z \in highs : {y \in highs : y.low < z.low} = {y \in highs : high[y] > high[z]}
    <3>1. \A y, z \in highs : y.low < z.low <=> high[y] > high[z]
      BY <1>3
    <3> HIDE DEF highs, high
    <3> QED
      BY <3>1
  <2> HIDE DEF highs, high
  <2> QED
    BY <2>1, <2>2 DEF Top
<1>6. Keyed(lows, low) /\ Keyed(highs, high)
  <2>1. ASSUME NEW S, NEW zs, Is(S, zs), NEW y \in zs, NEW z \in zs, y.low = z.low PROVE y = z
    BY <2>1
  <2>2. /\ \A z \in lows : low[z] = z.low /\ low[z] \in Int
        /\ \A z \in highs : z.low \in Int /\ high[z] = - z.low /\ high[z] \in Int
    BY <1>2, <1>3
  <2>3. \A y, z \in highs : high[y] = high[z] => y.low = z.low
    BY <2>2
  <2> HIDE DEF lows, highs, low, high, Is, Below, Above
  <2>4. \A y, z \in lows : low[y] = low[z] => y = z
    BY <1>2, <2>1, <2>2
  <2>5. \A y, z \in highs : high[y] = high[z] => y = z
    BY <1>3, <2>1, <2>3
  <2> QED
    BY <2>2, <2>4, <2>5 DEF Keyed
<1>7. \A z \in Market!SupportZones \cup Market!ResistanceZones : Market!Near(z.high - z.low)
  BY <1>2, <1>3, <1>4, <1>5 DEF Top
<1>8. ASSUME NEW p \in Market!Candidates, Market!Touches({p}) >= 2, p <= close,
             \A z \in Market!SupportZones : ~ Market!Covers(z, p)
      PROVE  Cardinality({z \in Market!SupportZones : z.low > p}) = 3
  <2>1. PICK w \in lows : Market!Covers(w, p)
    BY <1>2, <1>8
  <2>2. w \notin Top(3, lows, low)
    BY <1>4, <1>8, <2>1
  <2>3. Cardinality({v \in Top(3, lows, low) : low[v] > low[w]}) = 3
    <3> HIDE DEF lows, low, Below
    <3> QED
      BY <1>2, <1>6, <2>2, TopBefore
  <2>4. ASSUME NEW v \in lows PROVE v.low > p <=> low[v] > low[w]
    <3>1. /\ v.low \in Nat /\ w.low \in Nat /\ w.high \in Nat /\ v.high \in Nat /\ p \in Nat
          /\ w.low <= p /\ p <= w.high /\ v.low <= v.high
          /\ v = w \/ v.high < w.low \/ w.high < v.low
      BY <1>2, <2>1, CandidatesAre DEF Market!Covers
    <3>2. low[v] = v.low /\ low[w] = w.low
      OBVIOUS
    <3> HIDE DEF lows, low, Below
    <3>3. v.low > p <=> v.low > w.low
      BY <3>1
    <3> QED
      BY <3>2, <3>3
  <2>5. {z \in Market!SupportZones : z.low > p} = {v \in Top(3, lows, low) : low[v] > low[w]}
    <3> HIDE DEF lows, low
    <3> QED
      BY <1>4, <2>4 DEF Top
  <2> QED
    BY <2>3, <2>5
<1>9. ASSUME NEW p \in Market!Candidates, Market!Touches({p}) >= 2, p >= close,
             \A z \in Market!ResistanceZones : ~ Market!Covers(z, p)
      PROVE  Cardinality({z \in Market!ResistanceZones : z.high < p}) = 3
  <2>1. PICK w \in highs : Market!Covers(w, p)
    BY <1>3, <1>9
  <2>2. w \notin Top(3, highs, high)
    BY <1>5, <1>9, <2>1
  <2>3. Cardinality({v \in Top(3, highs, high) : high[v] > high[w]}) = 3
    <3> HIDE DEF highs, high, Above
    <3> QED
      BY <1>3, <1>6, <2>2, TopBefore
  <2>4. ASSUME NEW v \in highs PROVE v.high < p <=> high[v] > high[w]
    <3>1. /\ v.low \in Nat /\ w.low \in Nat /\ w.high \in Nat /\ v.high \in Nat /\ p \in Nat
          /\ w.low <= p /\ p <= w.high /\ v.low <= v.high
          /\ v = w \/ v.high < w.low \/ w.high < v.low
      BY <1>3, <2>1, CandidatesAre DEF Market!Covers
    <3>2. high[v] = - v.low /\ high[w] = - w.low
      OBVIOUS
    <3> HIDE DEF highs, high, Above
    <3>3. v.high < p <=> v.low < w.low
      BY <3>1
    <3>4. v.low < w.low <=> high[v] > high[w]
      BY <3>1, <3>2
    <3> QED
      BY <3>3, <3>4
  <2>5. {z \in Market!ResistanceZones : z.high < p} = {v \in Top(3, highs, high) : high[v] > high[w]}
    <3> HIDE DEF highs, high
    <3> QED
      BY <1>5, <2>4 DEF Top
  <2> QED
    BY <2>3, <2>5
<1> QED
  BY <1>7, <1>8, <1>9

\* Cutting a set to its first n before others join it loses none of the first n.
LEMMA TopOfUnion ==
  ASSUME NEW n \in Nat, NEW A, NEW R, IsFiniteSet(A), IsFiniteSet(R),
         NEW key, Keyed(A \cup R, key)
  PROVE  Top(n, Top(n, A, key) \cup R, key) = Top(n, A \cup R, key)
<1> DEFINE V == A \cup R
           U == Top(n, A, key) \cup R
           over(W, p) == {q \in W : key[q] > key[p]}
<1>1. U \in SUBSET V
  BY DEF Top
<1>2. IsFiniteSet(V)
  BY FS_Union
<1>3. ASSUME NEW p \in V
      PROVE  /\ IsFiniteSet(over(V, p)) /\ IsFiniteSet(over(U, p))
             /\ Cardinality(over(V, p)) \in Nat /\ Cardinality(over(U, p)) \in Nat
             /\ Cardinality(over(U, p)) <= Cardinality(over(V, p))
  <2>1. over(V, p) \in SUBSET V /\ over(U, p) \in SUBSET over(V, p)
    BY <1>1
  <2> HIDE DEF U, V, over
  <2>2. IsFiniteSet(over(V, p))
    BY <1>2, <2>1, FS_Subset
  <2>3. IsFiniteSet(over(U, p)) /\ Cardinality(over(U, p)) <= Cardinality(over(V, p))
    BY <2>1, <2>2, FS_Subset
  <2> QED
    BY <2>2, <2>3, FS_CardinalityType
<1>4. ASSUME NEW p \in V, NEW q \in A, q \notin Top(n, A, key), key[q] > key[p] \/ q = p
      PROVE  Cardinality(over(U, p)) >= n
  <2> DEFINE before == {v \in Top(n, A, key) : key[v] > key[q]}
  <2>1. Keyed(A, key)
    BY DEF Keyed
  <2>2. Cardinality(before) = n
    BY <1>4, <2>1, TopBefore
  <2>3. before \in SUBSET over(U, p)
    <3>1. \A v \in before : v \in A /\ v \in U /\ key[v] \in Int /\ key[v] > key[q]
      BY DEF Keyed, Top
    <3>2. key[q] \in Int /\ key[p] \in Int /\ (key[q] > key[p] \/ key[q] = key[p])
      BY <1>4 DEF Keyed
    <3> HIDE DEF before, U
    <3> QED
      BY <3>1, <3>2
  <2> HIDE DEF before, over, U
  <2>4. Cardinality(before) <= Cardinality(over(U, p))
    BY <1>3, <2>3, FS_Subset
  <2> QED
    BY <1>3, <2>2, <2>4
<1>5. ASSUME NEW p \in U, Cardinality(over(U, p)) < n
      PROVE  Cardinality(over(V, p)) < n
  <2>1. over(V, p) = over(U, p)
    <3> SUFFICES ASSUME NEW q \in over(V, p), q \notin over(U, p) PROVE FALSE
      BY <1>1
    <3>1. q \in A /\ q \notin Top(n, A, key) /\ key[q] > key[p]
      OBVIOUS
    <3>2. Cardinality(over(U, p)) >= n
      <4> HIDE DEF over, U, V
      <4> QED
        BY <1>1, <1>4, <3>1
    <3>3. Cardinality(over(U, p)) \in Nat
      BY <1>1, <1>3
    <3> HIDE DEF over, U
    <3> QED
      BY <1>5, <3>2, <3>3
  <2> QED
    BY <1>5, <2>1
<1>6. ASSUME NEW p \in V, Cardinality(over(V, p)) < n PROVE p \in U
  <2> SUFFICES ASSUME p \notin U PROVE FALSE
    OBVIOUS
  <2>1. p \in A /\ p \notin Top(n, A, key)
    OBVIOUS
  <2> HIDE DEF over, U, V
  <2>2. Cardinality(over(U, p)) >= n
    BY <1>4, <2>1
  <2> QED
    BY <1>3, <1>6, <2>2
<1>7. ASSUME NEW p \in U, Cardinality(over(V, p)) < n PROVE Cardinality(over(U, p)) < n
  <2>1. p \in V
    BY <1>1
  <2> HIDE DEF over, U, V
  <2> QED
    BY <1>3, <1>7, <2>1
<1>8. /\ Top(n, U, key) = {p \in U : Cardinality(over(U, p)) < n}
      /\ Top(n, V, key) = {p \in V : Cardinality(over(V, p)) < n}
  BY DEF Top
<1> HIDE DEF over, U, V
<1>9. Top(n, U, key) = Top(n, V, key)
  BY <1>1, <1>5, <1>6, <1>7, <1>8
<1> QED
  BY <1>9 DEF U, V

Up == [p \in Int |-> p]
Down == [p \in Int |-> - p]

\* The levels are finitely many.
LEMMA LevelsFinite ==
  ASSUME Bars(bars)
  PROVE  LET R == {Market!Level(ratio) : ratio \in Market!Retracements} IN
         /\ Market!KeyLevels \in SUBSET Int /\ IsFiniteSet(Market!KeyLevels)
         /\ R \in SUBSET Int /\ IsFiniteSet(R)
<1> DEFINE all == Market!Lows(bars) \cup Market!Highs(bars)
           level == [ratio \in Market!Retracements |-> Market!Level(ratio)]
<1>1. Market!KeyLevels \in SUBSET all
  BY DEF Market!KeyLevels, Market!Sorted, Market!FractalLows, Market!FractalHighs, Market!Inner,
    Market!Lows, Market!Highs
<1>2. all \in SUBSET Int /\ IsFiniteSet(all)
  <2>1. /\ Market!Lows(bars) \in SUBSET Nat /\ IsFiniteSet(Market!Lows(bars))
        /\ Market!Highs(bars) \in SUBSET Nat /\ IsFiniteSet(Market!Highs(bars))
    BY Extremes
  <2>2. IsFiniteSet(all)
    BY <2>1, FS_Union
  <2> QED
    BY <2>1, <2>2
<1>3. Market!KeyLevels \in SUBSET Int /\ IsFiniteSet(Market!KeyLevels)
  BY <1>1, <1>2, FS_Subset
<1>4. IsFiniteSet(Market!Retracements)
  <2>1. Market!Retracements \in SUBSET Nat /\ 1000 \in Nat /\ \A k \in Market!Retracements : k <= 1000
    BY DEF Market!Retracements
  <2> QED
    BY <2>1, FS_BoundedSetOfNaturals
<1>5. IsFiniteSet({level[ratio] : ratio \in Market!Retracements})
  <2> HIDE DEF level
  <2> QED
    BY <1>4, ImageFinite
<1>6. \A ratio \in Market!Retracements : Market!Level(ratio) \in Int
  <2> DEFINE r == Market!Last(FibRows, bars)
  <2>1. Bars(r)
    BY LastBars, LevelsAssumption
  <2> HIDE DEF r
  <2>2. Market!Max(Market!Highs(r)) \in Int
    BY <2>1, Extremes, MaxIs
  <2>3. Market!Min(Market!Lows(r)) \in Int
    BY <2>1, Extremes, MinIs
  <2>4. \A h, l, k \in Int : h - (k * (h - l)) \div 1000 \in Int
    <3>1. \A h, l, k \in Int : k * (h - l) \in Int
      OBVIOUS
    <3>2. \A x \in Int : x \div 1000 \in Int
      OBVIOUS
    <3> QED
      BY <3>1, <3>2
  <2>5. \A ratio \in Market!Retracements : ratio \in Int
    BY DEF Market!Retracements
  <2> QED
    BY <2>2, <2>3, <2>4, <2>5 DEF Market!Level, r
<1> QED
  BY <1>3, <1>5, <1>6

\* Cutting the key levels to two of each side loses none of the two nearest.
LEMMA LevelsShown == ASSUME Bars(bars), close \in Nat PROVE Market!NearestShown
<1> DEFINE K == Market!KeyLevels
           R == {Market!Level(ratio) : ratio \in Market!Retracements}
           lows == {p \in K : p <= close}
           highs == {p \in K : p >= close}
           low == {p \in R : p <= close}
           high == {p \in R : p >= close}
<1>1. K \in SUBSET Int /\ IsFiniteSet(K) /\ R \in SUBSET Int /\ IsFiniteSet(R)
  BY LevelsFinite
<1> HIDE DEF K, R
<1>2. /\ lows \in SUBSET Int /\ highs \in SUBSET Int /\ low \in SUBSET Int /\ high \in SUBSET Int
      /\ IsFiniteSet(lows) /\ IsFiniteSet(highs) /\ IsFiniteSet(low) /\ IsFiniteSet(high)
  BY <1>1, FS_Subset
<1>3. ASSUME NEW S \in SUBSET Int
      PROVE  /\ Market!Highest(2, S) = Top(2, S, Up) /\ Keyed(S, Up)
             /\ Market!Lowest(2, S) = Top(2, S, Down) /\ Keyed(S, Down)
  <2>1. \A p \in S : Up[p] = p /\ Down[p] = - p /\ p \in Int
    BY DEF Up, Down
  <2>2. Keyed(S, Up) /\ Keyed(S, Down)
    BY <2>1 DEF Keyed
  <2>3. \A p \in S : {q \in S : q > p} = {q \in S : Up[q] > Up[p]}
    BY <2>1
  <2>4. \A p \in S : {q \in S : q < p} = {q \in S : Down[q] > Down[p]}
    <3>1. \A p, q \in S : q < p <=> Down[q] > Down[p]
      BY <2>1
    <3> QED
      BY <3>1
  <2>5. Market!Highest(2, S) = Top(2, S, Up)
    BY <2>3, Counts DEF Market!Highest, Top
  <2>6. Market!Lowest(2, S) = Top(2, S, Down)
    BY <2>4, Counts DEF Market!Lowest, Top
  <2> QED
    BY <2>2, <2>5, <2>6
<1>4. close \in K => close \in Market!Highest(2, lows) /\ close \in Market!Lowest(2, highs)
  <2> SUFFICES ASSUME close \in K
               PROVE  close \in Market!Highest(2, lows) /\ close \in Market!Lowest(2, highs)
    OBVIOUS
  <2>1. close \in lows /\ close \in highs
    OBVIOUS
  <2>2. {q \in lows : q > close} = {} /\ {q \in highs : q < close} = {}
    <3>1. \A q \in K : q \in Int
      BY <1>1
    <3>2. \A q \in Int : (q <= close => ~ q > close) /\ (q >= close => ~ q < close)
      OBVIOUS
    <3> QED
      BY <3>1, <3>2
  <2>3. Cardinality({}) < 2
    BY FS_EmptySet
  <2> HIDE DEF lows, highs
  <2> QED
    BY <2>1, <2>2, <2>3, Counts DEF Market!Highest, Market!Lowest
<1>5. Market!Supports = Market!Highest(2, lows) \cup low
  <2>1. Market!Levels = Market!Highest(2, lows) \cup Market!Lowest(2, highs) \cup R
    BY DEF Market!Levels, Market!Normalized, K, R
  <2>2. Market!Highest(2, lows) \in SUBSET lows /\ Market!Lowest(2, highs) \in SUBSET highs
    BY DEF Market!Highest, Market!Lowest
  <2>3. \A p \in highs : p <= close => p = close
    BY <1>1
  <2>4. \A p \in highs : p \in K
    OBVIOUS
  <2>5. \A p \in lows : p <= close
    OBVIOUS
  <2> HIDE DEF lows, highs
  <2> QED
    BY <1>4, <2>1, <2>2, <2>3, <2>4, <2>5 DEF Market!Supports
<1>6. Market!Resistances = Market!Lowest(2, highs) \cup high
  <2>1. Market!Levels = Market!Highest(2, lows) \cup Market!Lowest(2, highs) \cup R
    BY DEF Market!Levels, Market!Normalized, K, R
  <2>2. Market!Highest(2, lows) \in SUBSET lows /\ Market!Lowest(2, highs) \in SUBSET highs
    BY DEF Market!Highest, Market!Lowest
  <2>3. \A p \in lows : p >= close => p = close
    BY <1>1
  <2>4. \A p \in lows : p \in K
    OBVIOUS
  <2>5. \A p \in highs : p >= close
    OBVIOUS
  <2> HIDE DEF lows, highs
  <2> QED
    BY <1>4, <2>1, <2>2, <2>3, <2>4, <2>5 DEF Market!Resistances
<1>7. /\ {p \in Market!AllLevels : p <= close} = lows \cup low
      /\ {p \in Market!AllLevels : p >= close} = highs \cup high
  BY DEF Market!AllLevels, K, R
<1> HIDE DEF lows, highs, low, high
<1>8. Market!Highest(2, Market!Supports) = Market!Highest(2, lows \cup low)
  <2>1. Top(2, lows, Up) \cup low \in SUBSET Int /\ lows \cup low \in SUBSET Int
    BY <1>2 DEF Top
  <2>2. Top(2, Top(2, lows, Up) \cup low, Up) = Top(2, lows \cup low, Up)
    BY <1>2, <1>3, <2>1, TopOfUnion
  <2> QED
    BY <1>2, <1>3, <1>5, <2>1, <2>2
<1>9. Market!Lowest(2, Market!Resistances) = Market!Lowest(2, highs \cup high)
  <2>1. Top(2, highs, Down) \cup high \in SUBSET Int /\ highs \cup high \in SUBSET Int
    BY <1>2 DEF Top
  <2>2. Top(2, Top(2, highs, Down) \cup high, Down) = Top(2, highs \cup high, Down)
    BY <1>2, <1>3, <2>1, TopOfUnion
  <2> QED
    BY <1>2, <1>3, <1>6, <2>1, <2>2
<1> QED
  BY <1>7, <1>8, <1>9 DEF Market!NearestShown

\* A new bar, or a move of the last one.
LEMMA LevelsNext == ASSUME LevInv, [Next]_vars PROVE LevInv'
<1> SUFFICES ASSUME part' = "levels" PROVE Bars(bars)' /\ close' \in Price
  BY DEF LevInv, Bars
<1>1. part = "levels" /\ Bars(bars) /\ close \in Price
  BY DEF Next, WindowStep, ConnStep, MigrateStep, ProfileStep, CatalogStep, LevelsStep, vars,
    LevInv, Bars
<1>2. Market!Next \/ UNCHANGED <<bars, close>>
  BY <1>1 DEF Next, WindowStep, ConnStep, MigrateStep, ProfileStep, CatalogStep, LevelsStep,
    vars, levels
<1>3. CASE UNCHANGED <<bars, close>>
  BY <1>1, <1>3 DEF Bars, Market!BarType
<1>4. ASSUME NEW b, Market!Shows(b) PROVE close' \in Price
  BY <1>4 DEF Market!Shows
<1>5. CASE Market!NewBar
  <2>1. PICK b \in Market!BarType : bars' = Append(bars, b) /\ Market!Shows(b)
    BY <1>5 DEF Market!NewBar
  <2>2. Bars(Append(bars, b))
    BY <1>1, AppendProperties DEF Bars
  <2> QED
    BY <1>4, <2>1, <2>2 DEF Bars, Market!BarType
<1>6. CASE Market!Move
  <2>1. PICK b \in Market!BarType : bars' = [bars EXCEPT ![Len(bars)] = b] /\ Market!Shows(b)
    BY <1>6 DEF Market!Move
  <2>2. Bars([bars EXCEPT ![Len(bars)] = b])
    BY <1>1, ExceptSeq DEF Bars
  <2> QED
    BY <1>4, <2>1, <2>2 DEF Bars, Market!BarType
<1> QED
  BY <1>2, <1>3, <1>5, <1>6 DEF Market!Next

\* Whatever the bars and the windows are: no price that was tested twice is
\* missing behind a farther zone, no zone is wider than the limit, and cutting the
\* key levels to two of each side loses none of the two nearest.
THEOREM RepeatedLevelsShown == Spec => []RepeatedLevelShown
<1>1. Init => LevInv
  <2> SUFFICES ASSUME Init, part = "levels" PROVE LevInv
    BY DEF LevInv
  <2>1. PICK p \in Price : bars = <<[low |-> p, high |-> p]>> /\ close = p
    BY DEF Init, Market!Init
  <2>2. p <= p
    BY LevelsAssumption
  <2>3. [low |-> p, high |-> p] \in Market!BarType
    BY <2>2 DEF Market!BarType
  <2> QED
    BY <2>1, <2>3 DEF LevInv
<1>2. LevInv /\ [Next]_vars => LevInv'
  BY LevelsNext
<1>3. LevInv => RepeatedLevelShown
  <2> SUFFICES ASSUME LevInv, part = "levels" PROVE RepeatedLevelShown
    BY DEF RepeatedLevelShown
  <2>1. Bars(bars) /\ close \in Nat
    BY LevelsAssumption DEF LevInv, Bars
  <2> QED
    BY <2>1, ZonesShown, LevelsShown DEF RepeatedLevelShown
<1> QED
  BY <1>1, <1>2, <1>3, PTL DEF Spec
=============================================================================
