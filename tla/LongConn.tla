------------------------------ MODULE LongConn ------------------------------
(***************************************************************************)
(* The long connection of the Feishu bot.  The connection's thread filters *)
(* an incoming message and puts it into the queue of its session, starting *)
(* a drain thread when the session has no queue.  A drain thread takes the *)
(* messages of its session one by one, handles each outside the lock, and  *)
(* removes the queue and ends when it finds it empty.  Queues and threads  *)
(* live in memory; the platform may deliver a message again.               *)
(***************************************************************************)
EXTENDS Integers, Sequences, SequencesExt

CONSTANTS
  Session,   \* conversations
  Message,   \* text messages of users
  SessionOf, \* the session of a message
  MaxInputs, \* bound: deliveries
  MaxFaults  \* bound: restarts and threads that cannot be started

VARIABLES
  pending, \* the queues: at most one per session
  threads, \* the drain threads of each session
  old,     \* messages created before the process started
  inputs,  \* deliveries so far
  faults,  \* injected faults so far
  queued,  \* history: what a session's queue took since the start, in order
  handled  \* history: what its threads handled since the start, in order

vars == <<pending, threads, old, inputs, faults, queued, handled>>

\* A thread is between two messages, or has one in hand.
Idle == <<>>
Hands == {Idle} \cup {<<m>> : m \in Message}

TypeOK ==
  /\ pending \in [Session -> SUBSET Seq(Message)]
  /\ threads \in [Session -> Seq(Hands)]
  /\ old \subseteq Message /\ inputs \in 0 .. MaxInputs /\ faults \in 0 .. MaxFaults
  /\ queued \in [Session -> Seq(Message)] /\ handled \in [Session -> Seq(Message)]

Fresh == /\ pending = [s \in Session |-> {}] /\ threads = [s \in Session |-> <<>>]
         /\ queued = [s \in Session |-> <<>>] /\ handled = [s \in Session |-> <<>>]
Init == Fresh /\ old = {} /\ inputs = 0 /\ faults = 0

-----------------------------------------------------------------------------
(* _on_message *)

Arrives(m) == m \notin old /\ inputs < MaxInputs /\ inputs' = inputs + 1
Queue(m) == queued' = [queued EXCEPT ![SessionOf[m]] = Append(@, m)]

\* The session has a queue: some thread drains it.
Join(m) == LET s == SessionOf[m] IN
  /\ Arrives(m) /\ pending[s] # {}
  /\ pending' = [pending EXCEPT ![s] = {Append(q, m) : q \in @}] /\ Queue(m)
  /\ UNCHANGED <<threads, old, faults, handled>>

\* It has none: a queue and a thread are made, under one hold of the lock.
Open(m) == LET s == SessionOf[m] IN
  /\ Arrives(m) /\ pending[s] = {}
  /\ pending' = [pending EXCEPT ![s] = {<<m>>}] /\ Queue(m)
  /\ threads' = [threads EXCEPT ![s] = Append(@, Idle)]
  /\ UNCHANGED <<old, faults, handled>>

\* The thread cannot be started: the queue goes away again and the error is the
\* platform's answer, which will deliver the message again.

\* Mutant of OpenFails: the queue stays.
OpenFailsKeeps(m) == LET s == SessionOf[m] IN
  /\ Arrives(m) /\ pending[s] = {} /\ faults < MaxFaults /\ faults' = faults + 1
  /\ pending' = [pending EXCEPT ![s] = {<<m>>}] /\ Queue(m)
  /\ UNCHANGED <<threads, old, handled>>
OpenFails(m) ==
  /\ Arrives(m) /\ pending[SessionOf[m]] = {} /\ faults < MaxFaults /\ faults' = faults + 1
  /\ UNCHANGED <<pending, threads, old, queued, handled>>

\* What was created before the start is ignored.
Ignored(m) ==
  /\ m \in old /\ inputs < MaxInputs /\ inputs' = inputs + 1
  /\ UNCHANGED <<pending, threads, old, faults, queued, handled>>

-----------------------------------------------------------------------------
(* _drain_session *)

Take(s, n) == \E q \in pending[s] :
  /\ threads[s][n] = Idle
  /\ IF q = <<>>
     THEN /\ pending' = [pending EXCEPT ![s] = {}]
          /\ threads' = [threads EXCEPT ![s] = RemoveAt(@, n)]
     ELSE /\ pending' = [pending EXCEPT ![s] = {Tail(q)}]
          /\ threads' = [threads EXCEPT ![s][n] = <<q[1]>>]
  /\ UNCHANGED <<old, inputs, faults, queued, handled>>

\* The message is handled, or handling it failed and the error was logged.
Handle(s, n) ==
  /\ threads[s][n] # Idle
  /\ handled' = [handled EXCEPT ![s] = @ \o threads[s][n]]
  /\ threads' = [threads EXCEPT ![s][n] = Idle]
  /\ UNCHANGED <<pending, old, inputs, faults, queued>>

\* The process dies and starts again.  What was created before the start, less
\* a grace time, is old: any messages, also some that were queued.
Restart == \E S \in SUBSET Message :
  /\ faults < MaxFaults /\ faults' = faults + 1
  /\ old \subseteq S /\ old' = S /\ UNCHANGED inputs
  /\ pending' = [s \in Session |-> {}] /\ threads' = [s \in Session |-> <<>>]
  /\ queued' = [s \in Session |-> <<>>] /\ handled' = [s \in Session |-> <<>>]

Next == \/ \E m \in Message : Join(m) \/ Open(m) \/ OpenFails(m) \/ Ignored(m)
        \/ \E s \in Session : \E n \in DOMAIN threads[s] : Take(s, n) \/ Handle(s, n)
        \/ Restart

Spec == Init /\ [][Next]_vars

-----------------------------------------------------------------------------
(* Properties *)

\* What the session's one thread has in hand, and what waits for it.
InHand(s)  == IF threads[s] = <<>> THEN Idle ELSE threads[s][1]
Waiting(s) == IF pending[s] = {} THEN <<>> ELSE CHOOSE q \in pending[s] : TRUE

\* A session has a queue exactly while one thread drains it, so no message
\* waits without a thread and no two threads share a session; and its messages
\* are handled one at a time in the order they came: what was queued since the
\* start is what was handled, what is in hand and what waits, in this order.
Accounted == \A s \in Session :
  /\ Len(threads[s]) = (IF pending[s] = {} THEN 0 ELSE 1)
  /\ queued[s] = handled[s] \o InHand(s) \o Waiting(s)
=============================================================================
