------------------------- MODULE SessionTurnProofs --------------------------
(***************************************************************************)
(* Theorems about SessionTurn for any messages, workers, answers and       *)
(* faults: its types, and what the turn guard and the events of the log    *)
(* guarantee.                                                              *)
(***************************************************************************)
EXTENDS SessionTurn, FiniteSetTheorems, NaturalsInduction, SequenceTheorems, WellFoundedInduction,
        TLAPS

\* A set of numbers that is not empty has a least member.
LEMMA LeastIn ==
  ASSUME NEW S, S \subseteq Nat, S # {}
  PROVE  Least(S) \in S /\ \A k \in S : Least(S) <= k
<1>1. \E n \in S : \A k \in S : ~ (<<k, n>> \in OpToRel(<, Nat))
  BY NatLessThanWellFounded, WFMin
<1>2. \A k, n \in S : k < n => <<k, n>> \in OpToRel(<, Nat)
  BY DEF OpToRel
<1>3. PICK n \in S : \A k \in S : ~ (k < n)
  BY <1>1, <1>2
<1>4. \A k \in S : n <= k
  BY <1>3
<1> QED
  BY <1>4 DEF Least

\* A bounded set of numbers that is not empty has a greatest member.
LEMMA MostIn ==
  ASSUME NEW S, NEW b \in Nat, S \subseteq 0 .. b, S # {}
  PROVE  Most(S) \in S /\ \A k \in S : k <= Most(S)
<1> DEFINE U == {m \in Nat : \A k \in S : k <= m}
<1>1. b \in U
  OBVIOUS
<1>2. U \subseteq Nat /\ U # {}
  BY <1>1
<1> HIDE DEF U
<1>3. PICK m \in U : \A k \in U : m <= k
  BY <1>2, LeastIn
<1>4. m \in Nat /\ \A k \in S : k <= m
  BY <1>3 DEF U
<1>5. m \in S
  <2> SUFFICES ASSUME m \notin S PROVE FALSE
    OBVIOUS
  <2>1. \A k \in S : k \in Nat /\ k < m
    <3>1. \A k \in S : k \in Nat /\ k # m
      OBVIOUS
    <3> QED
      BY <1>4, <3>1
  <2>2. m > 0
    <3>1. PICK k \in S : TRUE
      OBVIOUS
    <3> QED
      BY <1>4, <2>1, <3>1
  <2>3. m - 1 \in Nat /\ \A k \in S : k <= m - 1
    BY <1>4, <2>1, <2>2
  <2>4. m - 1 \in U
    BY <2>3 DEF U
  <2> QED
    BY <1>3, <1>4, <2>4
<1> QED
  BY <1>4, <1>5 DEF Most

-----------------------------------------------------------------------------
(* Appending *)

\* The log only grows at its end.
Grows == /\ log' \in Seq(EventType)
         /\ DOMAIN log \subseteq DOMAIN log'
         /\ \A n \in DOMAIN log : log'[n] = log[n]

\* An append finds the event of an equal key or adds its own at the end.
LEMMA PutGrows ==
  ASSUME log \in Seq(EventType), NEW e \in EventType, Put(e)
  PROVE  /\ Grows
         /\ EventAt(e) \in DOMAIN log'
         /\ log'[EventAt(e)].kind = e.kind /\ log'[EventAt(e)].ref = e.ref
         /\ log'[EventAt(e)].msg = e.msg /\ log'[EventAt(e)].call = e.call
         /\ \A n \in DOMAIN log' : n \notin DOMAIN log =>
               /\ Known(e) = {} /\ n = Len(log) + 1 /\ n = EventAt(e) /\ log'[n] = e
<1>1. CASE Known(e) = {}
  BY <1>1 DEF Put, EventAt, Grows
<1>2. CASE Known(e) # {}
  <2>1. EventAt(e) \in Known(e)
    BY <1>2 DEF EventAt
  <2> QED
    BY <1>2, <2>1 DEF Put, Grows, Known, SameKey
<1> QED
  BY <1>1, <1>2

\* Model requests and answers are never found.
LEMMA PutNew ==
  ASSUME log \in Seq(EventType), NEW e \in EventType, Put(e),
         e.kind \in {"request", "attempt", "calls", "final"}
  PROVE  log' = Append(log, e) /\ Len(log) + 1 \in DOMAIN log' /\ log'[Len(log) + 1] = e
<1>1. Known(e) = {}
  BY DEF Known, SameKey
<1> QED
  BY <1>1 DEF Put

-----------------------------------------------------------------------------
(* Type correctness *)

PcType == {"idle"} \cup InTurn \cup Deliver
AtCall == {"tool", "start", "exec", "ran", "refuse"}

\* A turn knows its message and, past acceptance, its user event.
TurnKnown ==
  \A w \in Worker :
    /\ pc[w] \in InTurn => job[w].msg \in Msg
    /\ pc[w] \in InTurn \ {"recover", "accept"} => job[w].turn \in Of("user")

\* A turn that handles a call has one at hand.
CallAtHand ==
  \A w \in Worker : pc[w] \in AtCall =>
    job[w].batch \in Batches /\ job[w].nth \in DOMAIN job[w].batch

\* Every answer belongs to some turn.
CallsInTurn == \A a \in Of("calls") : \E u \in Of("user") : u < a

Typed == TypeOK /\ TurnKnown /\ CallAtHand /\ CallsInTurn

\* What one worker does disturbs no other.
LEMMA MoveTyped ==
  ASSUME Typed, Grows, NEW w \in Worker,
         pc' \in [Worker -> PcType], job' \in [Worker -> JobType],
         \A v \in Worker \ {w} : pc'[v] = pc[v] /\ job'[v] = job[v],
         pc'[w] \in InTurn => job'[w].msg \in Msg,
         pc'[w] \in InTurn \ {"recover", "accept"} => job'[w].turn \in Of("user")',
         pc'[w] \in AtCall => job'[w].batch \in Batches /\ job'[w].nth \in DOMAIN job'[w].batch,
         \A n \in DOMAIN log' : n \notin DOMAIN log /\ log'[n].kind = "calls" =>
           \E u \in Of("user") : u < n
  PROVE  TurnKnown' /\ CallAtHand' /\ CallsInTurn'
<1>1. Of("user") \subseteq Of("user")'
  BY DEF Of, Grows
<1>2. TurnKnown'
  BY <1>1 DEF TurnKnown, Typed
<1>3. CallAtHand'
  BY DEF CallAtHand, Typed
<1>4. CallsInTurn'
  <2> SUFFICES ASSUME NEW a \in Of("calls")' PROVE \E u \in Of("user")' : u < a
    BY DEF CallsInTurn
  <2>1. CASE a \in DOMAIN log
    BY <1>1, <2>1 DEF Of, Grows, CallsInTurn, Typed
  <2>2. CASE a \notin DOMAIN log
    BY <1>1, <2>2 DEF Of
  <2> QED
    BY <2>1, <2>2
<1> QED
  BY <1>2, <1>3, <1>4

\* A step that leaves the log alone adds nothing to it.
LEMMA LogStays ==
  ASSUME log \in Seq(EventType), log' = log
  PROVE  Grows /\ \A n \in DOMAIN log' : n \in DOMAIN log
BY DEF Grows

\* Events are built from numbers, notes and calls.
LEMMA EvType ==
  ASSUME NEW k \in Kinds, NEW t \in Nat, NEW r \in Nat
  PROVE  /\ Ev(k, t, r) \in EventType
         /\ \A c \in CallIds : [Ev(k, t, r) EXCEPT !.call = c] \in EventType
         /\ \A x \in Notes : [Ev(k, t, r) EXCEPT !.note = x] \in EventType
         /\ \A b \in Batches : [Ev(k, t, r) EXCEPT !.batch = b] \in EventType
         /\ \A m \in Msg : [Ev(k, t, r) EXCEPT !.msg = m] \in EventType
BY DEF Ev, EventType, Notes, Reasons

\* The empty variables of an idle worker are well typed.
LEMMA NoJobType == NoJob \in JobType
BY DEF NoJob, JobType, Notes, Reasons

\* Events of one kind are positions of the log.
LEMMA OfType ==
  ASSUME log \in Seq(EventType), NEW k
  PROVE  Of(k) \subseteq 1 .. Len(log) /\ Of(k) \subseteq Nat /\ Len(log) \in Nat
BY DEF Of

\* The calls of an answer have ids.
LEMMA CallIdType ==
  ASSUME NEW b \in Batches, NEW n \in DOMAIN b
  PROVE  b[n] \in CallIds /\ n \in Nat
<1>1. b \in Seq(Range(b))
  BY TurnAssumption
<1>2. b[n] \in Range(b)
  BY DEF Range
<1> QED
  BY <1>1, <1>2 DEF CallIds

\* Recovery plans and closes calls of known turns.
LEMMA RecoverTyped ==
  ASSUME Typed, NEW w \in Worker, RecoverPlan(w) \/ RecoverResult(w) \/ Recovered(w)
  PROVE  Typed'
<1>1. CASE RecoverPlan(w)
  <2> DEFINE a == Least(Unplanned)
             n == Least(Missing(a))
             e == [Ev("plan", TurnAt(a), a) EXCEPT !.call = log[a].batch[n]]
  <2>1. a \in Of("calls") /\ a \in Nat /\ Missing(a) # {} /\ a \in DOMAIN log
    BY <1>1, OfType, LeastIn DEF RecoverPlan, Unplanned, Typed, TypeOK, Of
  <2>2. log[a].batch \in Batches
    <3>1. log[a] \in EventType /\ DOMAIN log[a].batch # {}
      BY <2>1 DEF Missing, Typed, TypeOK
    <3>2. log[a].batch # <<>>
      BY <3>1
    <3> QED
      BY <3>1, <3>2 DEF EventType
  <2>3. Missing(a) \subseteq Nat
    BY <2>2, CallIdType DEF Missing
  <2>4. n \in DOMAIN log[a].batch
    BY <2>1, <2>3, LeastIn DEF Missing
  <2>5. log[a].batch[n] \in CallIds
    BY <2>2, <2>4, CallIdType
  <2>6. TurnAt(a) \in Nat
    <3>1. {u \in Of("user") : u < a} # {} /\ {u \in Of("user") : u < a} \subseteq 0 .. a
      BY <2>1, OfType DEF CallsInTurn, Typed, TypeOK
    <3> QED
      BY <2>1, <3>1, MostIn DEF TurnAt
  <2>7. e \in EventType /\ e.kind = "plan"
    BY <2>1, <2>5, <2>6, EvType DEF Kinds, Ev
  <2> HIDE DEF e, n, a
  <2>8. Put(e)
    BY <1>1 DEF RecoverPlan, e, n, a
  <2>9. Grows /\ \A k \in DOMAIN log' : k \notin DOMAIN log => log'[k].kind # "calls"
    BY <2>7, <2>8, PutGrows DEF Typed, TypeOK
  <2>10. TurnKnown' /\ CallAtHand' /\ CallsInTurn'
    BY <1>1, <2>9, MoveTyped DEF RecoverPlan, At, TurnKnown, Typed, TypeOK, PcType, AtCall
  <2> QED
    BY <1>1, <2>9, <2>10 DEF RecoverPlan, Typed, TypeOK, Grows
<1>2. CASE RecoverResult(w)
  <2> DEFINE p == Least(Open)
             e == [Ev("result", 0, p) EXCEPT !.note = Verdict(p)]
  <2>1. p \in Nat
    BY <1>2, OfType, LeastIn DEF RecoverResult, Open, Typed, TypeOK
  <2>2. e \in EventType /\ e.kind = "result"
    BY <2>1, EvType DEF Kinds, Ev, Verdict, Notes
  <2> HIDE DEF e, p
  <2>3. Put(e)
    BY <1>2 DEF RecoverResult, e, p
  <2>4. Grows /\ \A k \in DOMAIN log' : k \notin DOMAIN log => log'[k].kind # "calls"
    BY <2>2, <2>3, PutGrows DEF Typed, TypeOK
  <2>5. TurnKnown' /\ CallAtHand' /\ CallsInTurn'
    BY <1>2, <2>4, MoveTyped DEF RecoverResult, At, TurnKnown, Typed, TypeOK, PcType, AtCall
  <2> QED
    BY <1>2, <2>4, <2>5 DEF RecoverResult, Typed, TypeOK, Grows
<1>3. CASE Recovered(w)
  <2>1. Grows /\ \A k \in DOMAIN log' : k \in DOMAIN log
    BY <1>3, LogStays DEF Recovered, Typed, TypeOK
  <2>2. pc' \in [Worker -> PcType] /\ pc'[w] = "accept" /\ \A v \in Worker \ {w} : pc'[v] = pc[v]
    BY <1>3 DEF Recovered, Goto, Typed, TypeOK, PcType, InTurn
  <2>3. TurnKnown' /\ CallAtHand' /\ CallsInTurn'
    BY <1>3, <2>1, <2>2, MoveTyped DEF Recovered, At, TurnKnown, InTurn, Typed, TypeOK, AtCall
  <2> QED
    BY <1>3, <2>1, <2>2, <2>3 DEF Recovered, Typed, TypeOK, Grows, PcType
<1> QED
  BY <1>1, <1>2, <1>3

\* A message that arrives or is refused keeps the types.
LEMMA InboundTyped ==
  ASSUME Typed, NEW w \in Worker, NEW m \in Msg, Receive(w, m) \/ Refused(w, m)
  PROVE  Typed'
<1>0. Grows /\ \A k \in DOMAIN log' : k \in DOMAIN log
  BY LogStays DEF Receive, Refused, Typed, TypeOK
<1>1. CASE Receive(w, m)
  <2>1. [NoJob EXCEPT !.msg = m] \in JobType
    BY DEF NoJob, JobType, Notes, Reasons
  <2>2. /\ pc' \in [Worker -> PcType] /\ pc'[w] = "recover"
        /\ job' \in [Worker -> JobType] /\ job'[w].msg = m
        /\ \A v \in Worker \ {w} : pc'[v] = pc[v] /\ job'[v] = job[v]
    BY <1>1, <2>1 DEF Receive, Goto, Set, Typed, TypeOK, PcType, InTurn, NoJob
  <2>3. TurnKnown' /\ CallAtHand' /\ CallsInTurn'
    BY <1>0, <2>2, MoveTyped DEF AtCall
  <2> QED
    BY <1>0, <1>1, <2>2, <2>3, TurnAssumption DEF Receive, Typed, TypeOK, Grows, PcType
<1>2. CASE Refused(w, m)
  <2>1. TurnKnown' /\ CallAtHand' /\ CallsInTurn'
    BY <1>0, <1>2, MoveTyped DEF Refused, At, Typed, TypeOK, PcType, AtCall, InTurn, InLoop
  <2> QED
    BY <1>0, <1>2, <2>1, TurnAssumption DEF Refused, Typed, TypeOK, Grows
<1> QED
  BY <1>1, <1>2

\* After acceptance the turn has a user event, a new one or the known one.
LEMMA AcceptTyped ==
  ASSUME Typed, NEW w \in Worker, Accept(w)
  PROVE  Typed'
<1> DEFINE e == [Ev("user", 0, 0) EXCEPT !.msg = job[w].msg]
<1>1. e \in EventType /\ e.kind = "user"
  BY DEF Ev, EventType, Kinds, Notes, Reasons, Typed, TypeOK, JobType
<1>2. Grows /\ EventAt(e) \in Of("user")' /\ EventAt(e) \in Nat
      /\ \A k \in DOMAIN log' : k \notin DOMAIN log => log'[k].kind # "calls"
  <2>1. Put(e)
    BY DEF Accept
  <2> HIDE DEF e
  <2>2. Grows /\ EventAt(e) \in DOMAIN log' /\ log'[EventAt(e)].kind = "user"
        /\ \A k \in DOMAIN log' : k \notin DOMAIN log => log'[k] = e
    BY <1>1, <2>1, PutGrows DEF Typed, TypeOK
  <2> QED
    BY <1>1, <2>2 DEF Of, Grows
<1>3. /\ pc' \in [Worker -> PcType] /\ pc'[w] \in {"request", "decide"}
      /\ job' \in [Worker -> JobType] /\ job'[w].turn = EventAt(e) /\ job'[w].msg = job[w].msg
      /\ \A v \in Worker \ {w} : pc'[v] = pc[v] /\ job'[v] = job[v]
  <2> HIDE DEF e
  <2>1. \E x \in {"request", "decide"} : pc' = [pc EXCEPT ![w] = x]
    BY DEF Accept, Goto, e
  <2>2. job' = [job EXCEPT ![w] = [job[w] EXCEPT !.turn = EventAt(e)]]
    BY DEF Accept, Set, e
  <2>3. [job[w] EXCEPT !.turn = EventAt(e)] \in JobType
    BY <1>2 DEF Typed, TypeOK, JobType
  <2> QED
    BY <2>1, <2>2, <2>3 DEF Typed, TypeOK, PcType, InTurn, InLoop, JobType
<1> HIDE DEF e
<1>4. TurnKnown' /\ CallAtHand' /\ CallsInTurn'
  <2>1. job[w].msg \in Msg
    BY DEF Accept, At, TurnKnown, Typed, InTurn
  <2> QED
    BY <1>2, <1>3, <2>1, MoveTyped DEF AtCall
<1> QED
  BY <1>2, <1>3, <1>4 DEF Accept, Typed, TypeOK, Grows, PcType

\* A reply that is reused, with or without a delivery.
LEMMA ReuseTyped ==
  ASSUME Typed, NEW w \in Worker, Reuse(w)
  PROVE  Typed'
<1> DEFINE a == Most(Replies(job[w].turn))
<1>0. Grows /\ \A k \in DOMAIN log' : k \in DOMAIN log
  BY LogStays DEF Reuse, Typed, TypeOK
<1>1. a \in Nat
  <2>1. Replies(job[w].turn) \subseteq 0 .. Len(log) /\ Len(log) \in Nat
    BY DEF Replies, Span, Typed, TypeOK
  <2> QED
    <3>1. a \in Replies(job[w].turn)
      BY <2>1, MostIn DEF Reuse
    <3> QED
      BY <2>1, <3>1
<1>2. /\ pc' \in [Worker -> PcType] /\ pc'[w] \in {"dplan", "idle"} /\ job' \in [Worker -> JobType]
      /\ \A v \in Worker \ {w} : pc'[v] = pc[v] /\ job'[v] = job[v]
  <2>1. [job[w] EXCEPT !.asst = a] \in JobType
    BY <1>1 DEF Typed, TypeOK, JobType
  <2> HIDE DEF a
  <2>2. \/ Goto(w, "dplan") /\ Set(w, [job[w] EXCEPT !.asst = a])
        \/ Goto(w, "idle") /\ Set(w, NoJob)
    BY DEF Reuse, Drop, a
  <2> QED
    BY <2>1, <2>2, NoJobType DEF Goto, Set, Typed, TypeOK, PcType, Deliver
<1>3. job[w].msg \in Msg
  BY DEF Reuse, At, TurnKnown, Typed, InTurn
<1>4. TurnKnown' /\ CallAtHand' /\ CallsInTurn'
  BY <1>0, <1>2, MoveTyped DEF AtCall, InTurn, InLoop
<1>5. answered' \subseteq Msg \X Nat /\ guard' \in Worker \cup {NoWorker}
  BY <1>1, <1>3 DEF Reuse, Release, Typed, TypeOK
<1> HIDE DEF a
<1> QED
  BY <1>0, <1>2, <1>4, <1>5 DEF Reuse, Typed, TypeOK, Grows, PcType

\* A worker goes to another place with other variables.
LEMMA Moves ==
  ASSUME Typed, NEW w \in Worker, NEW x \in PcType, NEW j \in JobType, Goto(w, x), Set(w, j)
  PROVE  /\ pc' \in [Worker -> PcType] /\ pc'[w] = x
         /\ job' \in [Worker -> JobType] /\ job'[w] = j
         /\ \A v \in Worker \ {w} : pc'[v] = pc[v] /\ job'[v] = job[v]
BY DEF Goto, Set, Typed, TypeOK, PcType

\* A worker goes to another place with the variables it has.
LEMMA Walks ==
  ASSUME Typed, NEW w \in Worker, NEW x \in PcType, Goto(w, x), UNCHANGED job
  PROVE  /\ pc' \in [Worker -> PcType] /\ pc'[w] = x
         /\ job' \in [Worker -> JobType] /\ job'[w] = job[w]
         /\ \A v \in Worker \ {w} : pc'[v] = pc[v] /\ job'[v] = job[v]
BY DEF Goto, Typed, TypeOK, PcType

\* Deciding about a known message leaves the log alone.
LEMMA DecideTyped ==
  ASSUME Typed, NEW w \in Worker, StopIndeterminate(w) \/ StopAborted(w) \/ RunAgain(w)
  PROVE  Typed'
<1>0. Grows /\ \A k \in DOMAIN log' : k \in DOMAIN log
  BY LogStays DEF StopIndeterminate, StopAborted, RunAgain, Typed, TypeOK
<1>1. job[w].msg \in Msg /\ job[w].turn \in Of("user") /\ job[w] \in JobType
  BY DEF StopIndeterminate, StopAborted, RunAgain, At, TurnKnown, Typed, TypeOK, InTurn
<1> DEFINE Moved == /\ pc' \in [Worker -> PcType] /\ pc'[w] \in {"abort", "request"}
                    /\ job' \in [Worker -> JobType]
                    /\ job'[w].msg = job[w].msg /\ job'[w].turn = job[w].turn
                    /\ \A v \in Worker \ {w} : pc'[v] = pc[v] /\ job'[v] = job[v]
<1>2. ASSUME NEW y \in Notes, Abandon(w, y) PROVE Moved
  <2>1. [job[w] EXCEPT !.why = y] \in JobType /\ "abort" \in PcType
    BY <1>1 DEF JobType, PcType, InTurn
  <2> QED
    BY <1>1, <1>2, <2>1, Moves DEF Abandon, JobType
<1>3. ASSUME StopIndeterminate(w) PROVE Moved
  BY <1>2, <1>3 DEF StopIndeterminate, Notes, Reasons
<1>4. ASSUME StopAborted(w) PROVE Moved
  <2>1. Aborts(job[w].turn) # {} /\ Aborts(job[w].turn) \subseteq DOMAIN log
        /\ Aborts(job[w].turn) \subseteq Nat
    BY <1>4, OfType DEF StopAborted, Aborts, Of, Typed, TypeOK
  <2>2. Least(Aborts(job[w].turn)) \in DOMAIN log
    BY <2>1, LeastIn
  <2>3. log[Least(Aborts(job[w].turn))].note \in Notes
    <3>1. log[Least(Aborts(job[w].turn))] \in EventType
      BY <2>2 DEF Typed, TypeOK
    <3> QED
      BY <3>1 DEF EventType
  <2> QED
    BY <1>2, <1>4, <2>3 DEF StopAborted
<1>5. ASSUME RunAgain(w) PROVE Moved
  <2>1. "request" \in PcType
    BY DEF PcType, InTurn, InLoop
  <2> QED
    BY <1>5, <2>1, Walks DEF RunAgain
<1>6. Moved
  BY <1>3, <1>4, <1>5
<1>7. TurnKnown' /\ CallAtHand' /\ CallsInTurn'
  BY <1>0, <1>1, <1>6, MoveTyped DEF AtCall, Of, Grows
<1> QED
  BY <1>0, <1>6, <1>7 DEF StopIndeterminate, StopAborted, RunAgain, Typed, TypeOK, Grows, PcType

\* A turn that ends hands the number of its reply to the delivery.
LEMMA EndTyped ==
  ASSUME Typed, NEW w \in Worker, NEW a \in Nat, EndTurn(w, a), job[w].msg \in Msg,
         Grows, \A k \in DOMAIN log' : k \notin DOMAIN log => log'[k].kind # "calls",
         UNCHANGED <<deliveries, faults, effects, sent>>
  PROVE  Typed'
<1>1. [NoJob EXCEPT !.msg = job[w].msg, !.asst = a] \in JobType /\ "dplan" \in PcType
  BY DEF NoJob, JobType, Notes, Reasons, PcType, Deliver
<1>2. /\ pc' \in [Worker -> PcType] /\ pc'[w] = "dplan" /\ job' \in [Worker -> JobType]
      /\ \A v \in Worker \ {w} : pc'[v] = pc[v] /\ job'[v] = job[v]
  BY <1>1, Moves DEF EndTurn
<1>3. TurnKnown' /\ CallAtHand' /\ CallsInTurn'
  BY <1>2, MoveTyped DEF AtCall, InTurn, InLoop
<1> QED
  BY <1>2, <1>3 DEF EndTurn, Release, Typed, TypeOK, Grows, PcType

\* Aborting a turn, by every way that leads there.
LEMMA AbortTyped ==
  ASSUME Typed, NEW w \in Worker, AppendAborted(w) \/ AppendLocal(w) \/ AbortBroken(w)
  PROVE  Typed'
<1>1. job[w].msg \in Msg /\ job[w].turn \in Nat /\ job[w] \in JobType /\ job[w].why \in Notes
  BY DEF AppendAborted, AppendLocal, AbortBroken, At, TurnKnown, Typed, TypeOK, InTurn, JobType
<1>2. CASE AppendAborted(w)
  <2> DEFINE e == [Ev("aborted", job[w].turn, 0) EXCEPT !.note = job[w].why]
  <2>1. e \in EventType /\ e.kind = "aborted"
    BY <1>1, EvType DEF Kinds, Ev
  <2> HIDE DEF e
  <2>2. Put(e) /\ Goto(w, "local") /\ UNCHANGED job
    BY <1>2 DEF AppendAborted, e
  <2>3. Grows /\ \A k \in DOMAIN log' : k \notin DOMAIN log => log'[k].kind # "calls"
    BY <2>1, <2>2, PutGrows DEF Typed, TypeOK
  <2>4. /\ pc' \in [Worker -> PcType] /\ pc'[w] = "local" /\ job' = job
        /\ \A v \in Worker \ {w} : pc'[v] = pc[v] /\ job'[v] = job[v]
    BY <2>2, Walks DEF PcType, InTurn
  <2>5. job[w].turn \in Of("user")'
    BY <1>2, <2>3 DEF AppendAborted, At, TurnKnown, Typed, InTurn, Of, Grows
  <2>6. TurnKnown' /\ CallAtHand' /\ CallsInTurn'
    BY <1>1, <2>3, <2>4, <2>5, MoveTyped DEF AtCall, Typed, TypeOK
  <2> QED
    BY <1>2, <2>3, <2>4, <2>6 DEF AppendAborted, Typed, TypeOK, Grows, PcType
<1>3. CASE AppendLocal(w)
  <2> DEFINE e == [Ev("local", job[w].turn, 0) EXCEPT !.note = job[w].why]
  <2>1. e \in EventType /\ e.kind = "local"
    BY <1>1, EvType DEF Kinds, Ev
  <2>2. Put(e) /\ EndTurn(w, EventAt(e)) /\ UNCHANGED <<deliveries, faults, effects, sent>>
    BY <1>3 DEF AppendLocal
  <2> HIDE DEF e
  <2>3. /\ Grows /\ EventAt(e) \in Nat
        /\ \A k \in DOMAIN log' : k \notin DOMAIN log => log'[k].kind # "calls"
    BY <2>1, <2>2, PutGrows DEF Typed, TypeOK, Grows
  <2> QED
    BY <1>1, <2>2, <2>3, EndTyped
<1>4. CASE AbortBroken(w)
  <2> DEFINE e == [Ev("aborted", job[w].turn, 0) EXCEPT !.note = "provider_error"]
  <2>1. e \in EventType /\ e.kind = "aborted"
    BY <1>1, EvType DEF Kinds, Ev, Notes, Reasons
  <2> HIDE DEF e
  <2>2. Put(e) /\ Goto(w, "idle") /\ Set(w, NoJob)
    BY <1>4 DEF AbortBroken, Drop, e
  <2>3. Grows /\ \A k \in DOMAIN log' : k \notin DOMAIN log => log'[k].kind # "calls"
    BY <2>1, <2>2, PutGrows DEF Typed, TypeOK
  <2>4. /\ pc' \in [Worker -> PcType] /\ pc'[w] = "idle" /\ job' \in [Worker -> JobType]
        /\ \A v \in Worker \ {w} : pc'[v] = pc[v] /\ job'[v] = job[v]
    BY <2>2, Moves, NoJobType DEF PcType
  <2>5. TurnKnown' /\ CallAtHand' /\ CallsInTurn'
    BY <2>3, <2>4, MoveTyped DEF AtCall, InTurn, InLoop
  <2> QED
    BY <1>4, <2>3, <2>4, <2>5 DEF AbortBroken, Release, Typed, TypeOK, Grows, PcType
<1> QED
  BY <1>2, <1>3, <1>4

\* Inside the loop a worker knows its message and its user event.
LEMMA LoopKnows ==
  ASSUME Typed, NEW w \in Worker, pc[w] \in InLoop
  PROVE  /\ job[w].msg \in Msg /\ job[w].turn \in Of("user") /\ job[w].turn \in Nat
         /\ job[w] \in JobType
         /\ Grows => job[w].turn \in Of("user")'
BY DEF Typed, TypeOK, TurnKnown, InTurn, InLoop, JobType, Of, Grows

\* A step inside the turn that appends at most one event.
LEMMA TurnStepTyped ==
  ASSUME Typed, NEW w \in Worker, pc[w] \in InLoop, Grows,
         \A k \in DOMAIN log' : k \notin DOMAIN log /\ log'[k].kind = "calls" =>
            k = Len(log) + 1,
         NEW x \in PcType, NEW j \in JobType, Goto(w, x), Set(w, j),
         j.msg = job[w].msg, j.turn = job[w].turn,
         x \in AtCall => j.batch \in Batches /\ j.nth \in DOMAIN j.batch,
         faults' \in 0 .. MaxFaults, effects' \in Seq(Nat),
         UNCHANGED <<guard, deliveries, sent, answered>>
  PROVE  Typed'
<1>1. /\ pc' \in [Worker -> PcType] /\ pc'[w] = x
      /\ job' \in [Worker -> JobType] /\ job'[w] = j
      /\ \A v \in Worker \ {w} : pc'[v] = pc[v] /\ job'[v] = job[v]
  BY Moves
<1>2. \A k \in DOMAIN log' : k \notin DOMAIN log /\ log'[k].kind = "calls" =>
         \E u \in Of("user") : u < k
  <2>1. job[w].turn < Len(log) + 1
    BY LoopKnows, OfType DEF Typed, TypeOK
  <2> QED
    BY <2>1, LoopKnows
<1>3. TurnKnown' /\ CallAtHand' /\ CallsInTurn'
  BY <1>1, <1>2, LoopKnows, MoveTyped
<1> QED
  BY <1>1, <1>3 DEF Typed, TypeOK, Grows, PcType

\* Events of these kinds are not answers.
LEMMA PutOther ==
  ASSUME Typed, NEW e \in EventType, Put(e), e.kind # "calls"
  PROVE  Grows /\ \A k \in DOMAIN log' : k \notin DOMAIN log => log'[k].kind # "calls"
BY PutGrows DEF Typed, TypeOK

\* Abandoning a turn only changes the place and the reason.
LEMMA AbandonIs ==
  ASSUME NEW w \in Worker, NEW y \in Notes, Typed, Abandon(w, y)
  PROVE  /\ Goto(w, "abort") /\ "abort" \in PcType \ AtCall
         /\ Set(w, [job[w] EXCEPT !.why = y]) /\ [job[w] EXCEPT !.why = y] \in JobType
         /\ [job[w] EXCEPT !.why = y].msg = job[w].msg
         /\ [job[w] EXCEPT !.why = y].turn = job[w].turn
BY DEF Abandon, PcType, AtCall, InTurn, JobType, Typed, TypeOK

\* Leaving the variables alone is a way of setting them.
LEMMA SetSame ==
  ASSUME NEW w \in Worker, Typed, UNCHANGED job
  PROVE  Set(w, job[w])
BY DEF Set, Typed, TypeOK

\* Requests, answers and failing model calls.
LEMMA ModelTyped ==
  ASSUME Typed, NEW w \in Worker,
         Request(w) \/ Final(w) \/ (\E b \in Batches : Calls(w, b)) \/ CallFails(w) \/ AppendAttempt(w)
  PROVE  Typed'
<1>0. pc[w] \in InLoop /\ job[w] \in JobType /\ job[w].msg \in Msg
      /\ job[w].turn \in Nat /\ job[w].ref \in Nat
  <2>1. pc[w] \in InLoop
    BY DEF Request, Final, Calls, CallFails, AppendAttempt, At, InLoop
  <2> QED
    BY <2>1, LoopKnows DEF JobType
<1>n. Len(log) + 1 \in Nat
  BY DEF Typed, TypeOK
<1>t. log \in Seq(EventType) /\ Len(log) \in Nat /\ faults \in 0 .. MaxFaults /\ effects \in Seq(Nat)
  BY DEF Typed, TypeOK
<1>1. CASE Request(w)
  <2>1. UNCHANGED <<guard, deliveries, faults, effects, sent, answered>>
    BY <1>1 DEF Request
  <2>2. CASE Put(Ev("request", job[w].turn, 0)) /\ Goto(w, "llm")
             /\ Set(w, [job[w] EXCEPT !.ref = Len(log) + 1])
    <3>1. Ev("request", job[w].turn, 0) \in EventType /\ Ev("request", job[w].turn, 0).kind = "request"
      BY <1>0, EvType DEF Kinds, Ev
    <3>2. Grows /\ \A k \in DOMAIN log' : k \notin DOMAIN log => log'[k].kind # "calls"
      BY <2>2, <3>1, PutOther
    <3>3. [job[w] EXCEPT !.ref = Len(log) + 1] \in JobType
          /\ [job[w] EXCEPT !.ref = Len(log) + 1].msg = job[w].msg
          /\ [job[w] EXCEPT !.ref = Len(log) + 1].turn = job[w].turn
      BY <1>0, <1>n DEF JobType
    <3>4. "llm" \in PcType \ AtCall
      BY DEF PcType, InTurn, InLoop, AtCall
    <3> QED
      BY <1>0, <1>t, <2>1, <2>2, <3>2, <3>3, <3>4, TurnStepTyped
  <2>3. CASE Abandon(w, "context_overflow") /\ UNCHANGED log
    <3>1. Grows /\ \A k \in DOMAIN log' : k \in DOMAIN log
      BY <1>t, <2>3, LogStays
    <3>2. "context_overflow" \in Notes
      BY DEF Notes, Reasons
    <3> QED
      BY <1>0, <1>t, <2>1, <2>3, <3>1, <3>2, AbandonIs, TurnStepTyped
  <2> QED
    BY <1>1, <2>2, <2>3 DEF Request
<1>2. CASE Final(w)
  <2>1. Ev("final", job[w].turn, job[w].ref) \in EventType
        /\ Ev("final", job[w].turn, job[w].ref).kind = "final"
    BY <1>0, EvType DEF Kinds, Ev
  <2>2. Grows /\ \A k \in DOMAIN log' : k \notin DOMAIN log => log'[k].kind # "calls"
    BY <1>2, <2>1, PutOther DEF Final
  <2> QED
    BY <1>0, <1>t, <1>2, <2>2, EndTyped DEF Final
<1>3. ASSUME NEW b \in Batches, Calls(w, b) PROVE Typed'
  <2> DEFINE e == [Ev("calls", job[w].turn, job[w].ref) EXCEPT !.batch = b]
             j == [job[w] EXCEPT !.asst = Len(log) + 1, !.batch = b, !.nth = 1]
  <2>1. e \in EventType /\ e.kind = "calls"
    BY <1>0, EvType DEF Kinds, Ev
  <2>2. j \in JobType /\ j.msg = job[w].msg /\ j.turn = job[w].turn /\ j.batch = b /\ j.nth = 1
    BY <1>0, <1>n DEF JobType
  <2>3. 1 \in DOMAIN b
    BY TurnAssumption
  <2>4. Put(e) /\ Goto(w, "tool") /\ Set(w, j)
        /\ UNCHANGED <<guard, deliveries, faults, effects, sent, answered>>
    BY <1>3 DEF Calls
  <2> HIDE DEF e, j
  <2>5. Grows /\ \A k \in DOMAIN log' : k \notin DOMAIN log => k = Len(log) + 1
    BY <1>t, <2>1, <2>4, PutGrows
  <2>6. "tool" \in PcType
    BY DEF PcType, InTurn, InLoop
  <2> QED
    BY <1>0, <1>t, <2>2, <2>3, <2>4, <2>5, <2>6, TurnStepTyped
<1>4. CASE CallFails(w)
  <2>1. PICK y \in {"context_overflow", "provider_error"} :
          Goto(w, "attempt") /\ Set(w, [job[w] EXCEPT !.why = y])
    BY <1>4 DEF CallFails
  <2>2. Grows /\ \A k \in DOMAIN log' : k \in DOMAIN log
    BY <1>t, <1>4, LogStays DEF CallFails
  <2>3. [job[w] EXCEPT !.why = y] \in JobType /\ [job[w] EXCEPT !.why = y].msg = job[w].msg
        /\ [job[w] EXCEPT !.why = y].turn = job[w].turn
    BY <1>0 DEF JobType, Notes, Reasons
  <2>4. "attempt" \in PcType \ AtCall
    BY DEF PcType, InTurn, InLoop, AtCall
  <2>5. faults' \in 0 .. MaxFaults /\ effects' = effects
        /\ UNCHANGED <<guard, deliveries, sent, answered>>
    BY <1>t, <1>4, TurnAssumption DEF CallFails
  <2> QED
    BY <1>0, <1>t, <2>1, <2>2, <2>3, <2>4, <2>5, TurnStepTyped
<1>5. CASE AppendAttempt(w)
  <2>1. Ev("attempt", job[w].turn, job[w].ref) \in EventType
        /\ Ev("attempt", job[w].turn, job[w].ref).kind = "attempt"
    BY <1>0, EvType DEF Kinds, Ev
  <2>2. Grows /\ \A k \in DOMAIN log' : k \notin DOMAIN log => log'[k].kind # "calls"
    BY <1>5, <2>1, PutOther DEF AppendAttempt
  <2>3. \E x \in {"broken", "abort", "request"} : \E j \in JobType :
          Goto(w, x) /\ Set(w, j) /\ j.msg = job[w].msg /\ j.turn = job[w].turn
    <3>1. [job[w] EXCEPT !.compacted = TRUE] \in JobType
          /\ [job[w] EXCEPT !.compacted = TRUE].msg = job[w].msg
          /\ [job[w] EXCEPT !.compacted = TRUE].turn = job[w].turn
      BY <1>0 DEF JobType
    <3>2. CASE Goto(w, "broken") /\ Keep(w)
      BY <1>0, <3>2, SetSame DEF Keep
    <3>3. CASE Goto(w, "abort") /\ Keep(w)
      BY <1>0, <3>3, SetSame DEF Keep
    <3>4. CASE Goto(w, "request") /\ Set(w, [job[w] EXCEPT !.compacted = TRUE])
      BY <3>1, <3>4
    <3> QED
      BY <1>5, <3>2, <3>3, <3>4 DEF AppendAttempt
  <2>4. {"broken", "abort", "request"} \subseteq PcType \ AtCall
    BY DEF PcType, InTurn, InLoop, AtCall
  <2>5. UNCHANGED <<guard, deliveries, faults, effects, sent, answered>>
    BY <1>5 DEF AppendAttempt
  <2> QED
    BY <1>0, <1>t, <2>2, <2>3, <2>4, <2>5, TurnStepTyped
<1> QED
  BY <1>1, <1>2, <1>3, <1>4, <1>5

\* After a call come the next one, the next step or the end of the loop.
LEMMA ContinueGoes ==
  ASSUME Typed, NEW w \in Worker, pc[w] \in AtCall, Continue(w)
  PROVE  \E x \in {"tool", "request", "abort"} : \E j \in JobType :
            /\ Goto(w, x) /\ Set(w, j) /\ j.msg = job[w].msg /\ j.turn = job[w].turn
            /\ x \in AtCall => j.batch \in Batches /\ j.nth \in DOMAIN j.batch
<1>0. job[w] \in JobType /\ job[w].batch \in Batches /\ job[w].nth \in DOMAIN job[w].batch
  BY DEF Typed, TypeOK, CallAtHand
<1>b. DOMAIN job[w].batch = 1 .. Len(job[w].batch) /\ Len(job[w].batch) \in Nat
  BY <1>0, TurnAssumption
<1>1. CASE job[w].nth < Len(job[w].batch)
  <2> DEFINE j == [job[w] EXCEPT !.nth = @ + 1, !.why = ""]
  <2>1. job[w].nth + 1 \in Nat /\ job[w].nth + 1 \in DOMAIN job[w].batch
    BY <1>0, <1>b, <1>1
  <2>2. j \in JobType /\ j.msg = job[w].msg /\ j.turn = job[w].turn
        /\ j.batch = job[w].batch /\ j.nth = job[w].nth + 1
    BY <1>0, <2>1 DEF JobType, Notes, Reasons
  <2>3. Goto(w, "tool") /\ Set(w, j)
    BY <1>1 DEF Continue
  <2> HIDE DEF j
  <2> QED
    BY <1>0, <2>1, <2>2, <2>3
<1>2. CASE /\ ~ (job[w].nth < Len(job[w].batch))
           /\ job[w].step + 1 < LoopSteps
  <2> DEFINE j == [job[w] EXCEPT !.step = @ + 1, !.compacted = FALSE, !.why = ""]
  <2>1. job[w].step + 1 \in Nat
    BY <1>0 DEF JobType
  <2>2. j \in JobType /\ j.msg = job[w].msg /\ j.turn = job[w].turn
    BY <1>0, <2>1 DEF JobType, Notes, Reasons
  <2>3. Goto(w, "request") /\ Set(w, j)
    BY <1>2 DEF Continue
  <2> HIDE DEF j
  <2> QED
    BY <2>2, <2>3 DEF AtCall
<1>3. CASE /\ ~ (job[w].nth < Len(job[w].batch))
           /\ ~ (job[w].step + 1 < LoopSteps)
  <2>1. Abandon(w, "agent_loop_limit") /\ "agent_loop_limit" \in Notes
    BY <1>3 DEF Continue, Notes, Reasons
  <2> QED
    BY <2>1, AbandonIs DEF AtCall
<1> QED
  BY <1>1, <1>2, <1>3

\* The steps of one tool call.
LEMMA ToolTyped ==
  ASSUME Typed, NEW w \in Worker,
         Plan(w) \/ Start(w) \/ Execute(w) \/ Reject(w) \/ Result(w) \/ Refuse(w)
  PROVE  Typed'
<1>0. /\ pc[w] \in InLoop /\ pc[w] \in AtCall /\ job[w] \in JobType
      /\ job[w].turn \in Nat /\ job[w].ref \in Nat /\ job[w].asst \in Nat /\ job[w].why \in Notes
      /\ job[w].batch \in Batches /\ job[w].nth \in DOMAIN job[w].batch
      /\ log \in Seq(EventType) /\ faults \in 0 .. MaxFaults /\ effects \in Seq(Nat)
  <2>1. pc[w] \in InLoop /\ pc[w] \in AtCall
    BY DEF Plan, Start, Execute, Reject, Result, Refuse, At, InLoop, AtCall
  <2> QED
    BY <2>1, LoopKnows DEF JobType, CallAtHand, Typed, TypeOK
<1>p. {"start", "refuse", "exec", "ran", "tool", "request", "abort"} \subseteq PcType
  BY DEF PcType, InTurn, InLoop
<1>1. CASE Plan(w)
  <2> DEFINE e == [Ev("plan", job[w].turn, job[w].asst) EXCEPT !.call = job[w].batch[job[w].nth]]
             j == [job[w] EXCEPT !.ref = EventAt(e)]
  <2>1. e \in EventType /\ e.kind = "plan"
    BY <1>0, EvType, CallIdType DEF Kinds, Ev
  <2>2. Put(e) /\ Set(w, j) /\ (\E x \in {"start", "refuse"} : Goto(w, x))
        /\ UNCHANGED <<guard, deliveries, faults, effects, sent, answered>>
    BY <1>1 DEF Plan
  <2> HIDE DEF e
  <2>3. Grows /\ \A k \in DOMAIN log' : k \notin DOMAIN log => log'[k].kind # "calls"
    BY <2>1, <2>2, PutOther
  <2>4. EventAt(e) \in Nat
    BY <1>0, <2>1, <2>2, PutGrows DEF Grows
  <2>5. j \in JobType /\ j.msg = job[w].msg /\ j.turn = job[w].turn
        /\ j.batch = job[w].batch /\ j.nth = job[w].nth
    BY <1>0, <2>4 DEF JobType
  <2> HIDE DEF j
  <2> QED
    BY <1>0, <1>p, <2>2, <2>3, <2>5, TurnStepTyped
<1>2. CASE Start(w)
  <2>1. Ev("start", 0, job[w].ref) \in EventType /\ Ev("start", 0, job[w].ref).kind = "start"
    BY <1>0, EvType DEF Kinds, Ev
  <2>2. Grows /\ \A k \in DOMAIN log' : k \notin DOMAIN log => log'[k].kind # "calls"
    BY <1>2, <2>1, PutOther DEF Start
  <2>3. Goto(w, "exec") /\ Set(w, job[w])
        /\ UNCHANGED <<guard, deliveries, faults, effects, sent, answered>>
    BY <1>2, SetSame DEF Start
  <2> QED
    BY <1>0, <1>p, <2>2, <2>3, TurnStepTyped
<1>3. CASE Execute(w) \/ Reject(w)
  <2>1. Grows /\ \A k \in DOMAIN log' : k \in DOMAIN log
    BY <1>0, <1>3, LogStays DEF Execute, Reject
  <2>2. effects' \in Seq(Nat) /\ UNCHANGED <<guard, deliveries, faults, sent, answered>>
    <3>1. Append(effects, job[w].ref) \in Seq(Nat)
      BY <1>0
    <3> QED
      BY <1>0, <1>3, <3>1 DEF Execute, Reject
  <2>3. PICK y \in {"succeeded", "failed"} : Goto(w, "ran") /\ Set(w, [job[w] EXCEPT !.why = y])
    BY <1>3 DEF Execute, Reject
  <2> DEFINE j == [job[w] EXCEPT !.why = y]
  <2>4. j \in JobType /\ j.msg = job[w].msg /\ j.turn = job[w].turn
        /\ j.batch = job[w].batch /\ j.nth = job[w].nth
    BY <1>0 DEF JobType, Notes
  <2> HIDE DEF j
  <2>5. Set(w, j)
    BY <2>3 DEF j
  <2> QED
    BY <1>0, <1>p, <2>1, <2>2, <2>3, <2>4, <2>5, TurnStepTyped
<1>4. CASE Result(w) \/ Refuse(w)
  <2>1. PICK y \in Notes : Put([Ev("result", 0, job[w].ref) EXCEPT !.note = y])
    BY <1>0, <1>4 DEF Result, Refuse, Notes
  <2> DEFINE e == [Ev("result", 0, job[w].ref) EXCEPT !.note = y]
  <2>2. e \in EventType /\ e.kind = "result"
    BY <1>0, EvType DEF Kinds, Ev
  <2> HIDE DEF e
  <2>3. Grows /\ \A k \in DOMAIN log' : k \notin DOMAIN log => log'[k].kind # "calls"
    BY <2>1, <2>2, PutOther DEF e
  <2>4. UNCHANGED <<guard, deliveries, faults, effects, sent, answered>> /\ Continue(w)
    BY <1>4 DEF Result, Refuse
  <2> QED
    BY <1>0, <1>p, <2>3, <2>4, ContinueGoes, TurnStepTyped
<1> QED
  BY <1>1, <1>2, <1>3, <1>4

-----------------------------------------------------------------------------
(* Deliveries and faults *)

\* A step outside the turn.
LEMMA OutsideTyped ==
  ASSUME Typed, NEW w \in Worker, Grows,
         \A k \in DOMAIN log' : k \notin DOMAIN log => log'[k].kind # "calls",
         NEW x \in PcType \ InTurn, NEW j \in JobType, Goto(w, x), Set(w, j),
         sent' \in Seq(Nat), faults' \in 0 .. MaxFaults, guard' \in Worker \cup {NoWorker},
         UNCHANGED <<deliveries, effects, answered>>
  PROVE  Typed'
<1>1. /\ pc' \in [Worker -> PcType] /\ pc'[w] = x
      /\ job' \in [Worker -> JobType] /\ job'[w] = j
      /\ \A v \in Worker \ {w} : pc'[v] = pc[v] /\ job'[v] = job[v]
  BY Moves
<1>2. TurnKnown' /\ CallAtHand' /\ CallsInTurn'
  BY <1>1, MoveTyped DEF AtCall, InTurn, InLoop
<1> QED
  BY <1>1, <1>2 DEF Typed, TypeOK, Grows, PcType

\* The steps of a delivery, outside the turn.
LEMMA DeliveryTyped ==
  ASSUME Typed, NEW w \in Worker,
         \/ PlanDelivery(w) \/ ReadDelivery(w) \/ StartDelivery(w)
         \/ Send(w) \/ FinishDelivery(w) \/ CloseDelivery(w)
  PROVE  Typed'
<1>0. /\ job[w] \in JobType /\ job[w].ref \in Nat /\ job[w].asst \in Nat /\ job[w].why \in Notes
      /\ log \in Seq(EventType) /\ faults \in 0 .. MaxFaults /\ sent \in Seq(Nat)
      /\ guard \in Worker \cup {NoWorker}
  BY DEF JobType, Typed, TypeOK
<1>p. {"idle", "dplan", "dread", "dstart", "send", "dresult", "dunknown"} \subseteq PcType \ InTurn
  BY DEF PcType, Deliver, InTurn, InLoop
<1>1. CASE PlanDelivery(w)
  <2> DEFINE e == Ev("dplan", 0, job[w].asst)
             j == [job[w] EXCEPT !.ref = EventAt(e)]
  <2>1. e \in EventType /\ e.kind = "dplan"
    BY <1>0, EvType DEF Kinds, Ev
  <2>2. Put(e) /\ Set(w, j) /\ Goto(w, "dread")
        /\ UNCHANGED <<guard, deliveries, faults, effects, sent, answered>>
    BY <1>1 DEF PlanDelivery
  <2> HIDE DEF e
  <2>3. Grows /\ \A k \in DOMAIN log' : k \notin DOMAIN log => log'[k].kind # "calls"
    BY <2>1, <2>2, PutOther
  <2>4. EventAt(e) \in Nat
    BY <1>0, <2>1, <2>2, PutGrows DEF Grows
  <2>5. j \in JobType
    BY <1>0, <2>4 DEF JobType
  <2> HIDE DEF j
  <2> QED
    BY <1>0, <1>p, <2>2, <2>3, <2>5, OutsideTyped
<1>2. CASE ReadDelivery(w)
  <2>1. Grows /\ \A k \in DOMAIN log' : k \in DOMAIN log
    BY <1>0, <1>2, LogStays DEF ReadDelivery
  <2>2. UNCHANGED <<guard, deliveries, faults, effects, sent, answered>>
    BY <1>2 DEF ReadDelivery
  <2>3. \E x \in {"idle", "dunknown", "dstart"} : \E j \in JobType : Goto(w, x) /\ Set(w, j)
    BY <1>0, <1>2, NoJobType, SetSame DEF ReadDelivery, Drop, Keep
  <2> QED
    BY <1>0, <1>p, <2>1, <2>2, <2>3, OutsideTyped
<1>3. CASE StartDelivery(w)
  <2>1. Ev("dstart", 0, job[w].ref) \in EventType /\ Ev("dstart", 0, job[w].ref).kind = "dstart"
    BY <1>0, EvType DEF Kinds, Ev
  <2>2. Grows /\ \A k \in DOMAIN log' : k \notin DOMAIN log => log'[k].kind # "calls"
    BY <1>3, <2>1, PutOther DEF StartDelivery
  <2>3. Goto(w, "send") /\ Set(w, job[w])
        /\ UNCHANGED <<guard, deliveries, faults, effects, sent, answered>>
    BY <1>3, SetSame DEF StartDelivery
  <2> QED
    BY <1>0, <1>p, <2>2, <2>3, OutsideTyped
<1>4. CASE Send(w)
  <2>1. Grows /\ \A k \in DOMAIN log' : k \in DOMAIN log
    BY <1>0, <1>4, LogStays DEF Send
  <2>2. sent' \in Seq(Nat) /\ \E y \in {"delivered", "unknown"} : Set(w, [job[w] EXCEPT !.why = y])
    BY <1>0, <1>4 DEF Send
  <2>3. \A y \in {"delivered", "unknown"} : [job[w] EXCEPT !.why = y] \in JobType
    BY <1>0 DEF JobType, Notes
  <2>4. Goto(w, "dresult") /\ UNCHANGED <<guard, deliveries, faults, effects, answered>>
    BY <1>4 DEF Send
  <2> QED
    BY <1>0, <1>p, <2>1, <2>2, <2>3, <2>4, OutsideTyped
<1>5. CASE FinishDelivery(w) \/ CloseDelivery(w)
  <2>1. PICK y \in Notes : Put([Ev("dresult", 0, job[w].ref) EXCEPT !.note = y])
    BY <1>0, <1>5 DEF FinishDelivery, CloseDelivery, Notes
  <2> DEFINE e == [Ev("dresult", 0, job[w].ref) EXCEPT !.note = y]
  <2>2. e \in EventType /\ e.kind = "dresult"
    BY <1>0, EvType DEF Kinds, Ev
  <2> HIDE DEF e
  <2>3. Grows /\ \A k \in DOMAIN log' : k \notin DOMAIN log => log'[k].kind # "calls"
    BY <2>1, <2>2, PutOther DEF e
  <2>4. Goto(w, "idle") /\ Set(w, NoJob)
        /\ UNCHANGED <<guard, deliveries, faults, effects, sent, answered>>
    BY <1>5 DEF FinishDelivery, CloseDelivery, Drop
  <2> QED
    BY <1>0, <1>p, <2>3, <2>4, NoJobType, OutsideTyped
<1> QED
  BY <1>1, <1>2, <1>3, <1>4, <1>5

\* Crashes and failing appends.
LEMMA FaultTyped ==
  ASSUME Typed, NEW w \in Worker, Crash(w) \/ AppendFails(w)
  PROVE  Typed'
<1>0. /\ job[w] \in JobType /\ pc[w] \in PcType
      /\ log \in Seq(EventType) /\ faults \in 0 .. MaxFaults /\ sent \in Seq(Nat)
      /\ guard \in Worker \cup {NoWorker}
  BY DEF Typed, TypeOK, PcType
<1>1. Grows /\ \A k \in DOMAIN log' : k \in DOMAIN log
  BY <1>0, LogStays DEF Crash, AppendFails
<1>2. faults' \in 0 .. MaxFaults /\ UNCHANGED <<deliveries, effects, sent, answered>>
  BY <1>0, TurnAssumption DEF Crash, AppendFails
<1>3. guard' \in Worker \cup {NoWorker}
  BY <1>0 DEF Crash, AppendFails, Release
<1>4. CASE Drop(w)
  <2>1. "idle" \in PcType \ InTurn
    BY DEF PcType, InTurn, InLoop
  <2> QED
    BY <1>0, <1>1, <1>2, <1>3, <1>4, <2>1, NoJobType, OutsideTyped DEF Drop
<1>5. CASE pc[w] \in InTurn /\ pc[w] \notin {"recover", "accept"} /\ Goto(w, "broken") /\ UNCHANGED <<job, guard>>
  <2>1. "broken" \in PcType
    BY DEF PcType, InTurn
  <2>2. /\ pc' \in [Worker -> PcType] /\ pc'[w] = "broken" /\ job' = job
        /\ \A v \in Worker \ {w} : pc'[v] = pc[v] /\ job'[v] = job[v]
    BY <1>5, <2>1, Walks
  <2>3. job[w].msg \in Msg /\ job[w].turn \in Of("user")'
    BY <1>1, <1>5 DEF TurnKnown, Typed, Of, Grows
  <2>4. TurnKnown' /\ CallAtHand' /\ CallsInTurn'
    BY <1>1, <2>2, <2>3, MoveTyped DEF AtCall, Typed, TypeOK
  <2> QED
    BY <1>1, <1>2, <1>3, <2>2, <2>4 DEF Typed, TypeOK, Grows, PcType
<1>6. CASE At(w, "dresult") /\ Set(w, [job[w] EXCEPT !.why = "unknown"]) /\ UNCHANGED <<pc, guard>>
  <2>1. [job[w] EXCEPT !.why = "unknown"] \in JobType
    BY <1>0 DEF JobType, Notes
  <2>2. Goto(w, "dresult") /\ "dresult" \in PcType \ InTurn
    BY <1>0, <1>6 DEF At, Goto, PcType, InTurn, InLoop, Deliver, Typed, TypeOK
  <2> QED
    BY <1>0, <1>1, <1>2, <1>3, <1>6, <2>1, <2>2, OutsideTyped
<1> QED
  BY <1>4, <1>5, <1>6 DEF Crash, AppendFails, InTurn, InLoop, At

\* The invariant holds at the start.
LEMMA InitTyped == Init => Typed
<1> SUFFICES ASSUME Init PROVE Typed
  OBVIOUS
<1>1. TypeOK
  BY NoJobType, TurnAssumption DEF Init, TypeOK
<1> QED
  BY <1>1 DEF Init, Typed, TurnKnown, CallAtHand, CallsInTurn, AtCall, InTurn, InLoop, Of

\* Every step keeps the invariant.
LEMMA NextTyped == Typed /\ [Next]_vars => Typed'
<1> SUFFICES ASSUME Typed, [Next]_vars PROVE Typed'
  OBVIOUS
<1>1. CASE UNCHANGED vars
  BY <1>1 DEF vars, Typed, TypeOK, TurnKnown, CallAtHand, CallsInTurn, Of
<1>2. ASSUME NEW w \in Worker, Step(w) PROVE Typed'
  BY <1>2, RecoverTyped, AcceptTyped, ReuseTyped, DecideTyped, AbortTyped, ModelTyped,
     ToolTyped, DeliveryTyped DEF Step
<1> QED
  BY <1>1, <1>2, InboundTyped, ModelTyped, FaultTyped DEF Next

\* Every step of every worker, and every fault, keeps the types of the log, the
\* workers' places and variables and the histories.
THEOREM TurnTypeCorrect == Spec => []TypeOK
<1>1. Typed => TypeOK
  BY DEF Typed
<1> QED
  BY <1>1, InitTyped, NextTyped, PTL DEF Spec

-----------------------------------------------------------------------------
(* Where one step takes a worker *)

Act(w) == \/ \E m \in Msg : Receive(w, m) \/ Refused(w, m)
          \/ Step(w) \/ CallFails(w) \/ Crash(w) \/ AppendFails(w)

\* Every step is a step of one worker.
LEMMA NextIsAct == Next => \E w \in Worker : Act(w)
BY DEF Next, Act

\* Only a worker that holds the turn guard is inside run.
GuardHeld == \A w \in Worker : pc[w] \in InTurn => guard = w

Others(w)  == \A v \in Worker \ {w} : pc'[v] = pc[v] /\ job'[v] = job[v]
Inside(w)  == pc[w] \in InTurn /\ pc'[w] \in InTurn /\ guard' = guard
Leaves(w)  == pc[w] \in InTurn /\ pc'[w] \notin InTurn /\ guard' = NoWorker
Outside(w) == pc[w] \notin InTurn /\ pc'[w] \notin InTurn /\ (guard' = guard \/ guard = w)
Enters(w)  == pc[w] \notin InTurn /\ pc'[w] = "recover" /\ guard = NoWorker /\ guard' = w
Place(w)   == Inside(w) \/ Leaves(w) \/ Outside(w) \/ Enters(w)

\* Going somewhere moves one worker only.
LEMMA GotoPlace ==
  ASSUME Typed, NEW w \in Worker, NEW x, Goto(w, x)
  PROVE  pc'[w] = x /\ \A v \in Worker \ {w} : pc'[v] = pc[v]
BY DEF Goto, Typed, TypeOK

\* Setting variables sets those of one worker only.
LEMMA SetJob ==
  ASSUME Typed, NEW w \in Worker, NEW j, Set(w, j)
  PROVE  job'[w] = j /\ \A v \in Worker \ {w} : job'[v] = job[v]
BY DEF Set, Typed, TypeOK

\* A step leaves the places and variables of all other workers alone.
LEMMA ActOthers ==
  ASSUME Typed, NEW w \in Worker, Act(w)
  PROVE  Others(w)
<1> DEFINE PcStays == \A v \in Worker \ {w} : pc'[v] = pc[v]
           JobStays == \A v \in Worker \ {w} : job'[v] = job[v]
<1>1. ASSUME NEW x, Goto(w, x) PROVE PcStays
  BY <1>1, GotoPlace
<1>2. ASSUME NEW j, Set(w, j) PROVE JobStays
  BY <1>2, SetJob
<1>3. UNCHANGED pc => PcStays
  OBVIOUS
<1>4. UNCHANGED job => JobStays
  OBVIOUS
<1> HIDE DEF PcStays, JobStays
<1>5. ASSUME \E m \in Msg : Receive(w, m) \/ Refused(w, m) PROVE PcStays /\ JobStays
  BY <1>1, <1>2, <1>3, <1>4, <1>5 DEF Receive, Refused
<1>6. ASSUME RecoverPlan(w) \/ RecoverResult(w) \/ Recovered(w) \/ Accept(w) \/ Reuse(w)
      PROVE  PcStays /\ JobStays
  BY <1>1, <1>2, <1>3, <1>4, <1>6 DEF RecoverPlan, RecoverResult, Recovered, Accept, Reuse, Drop
<1>7. ASSUME \/ StopIndeterminate(w) \/ StopAborted(w) \/ RunAgain(w)
             \/ AppendAborted(w) \/ AppendLocal(w) \/ AbortBroken(w)
      PROVE  PcStays /\ JobStays
  BY <1>1, <1>2, <1>3, <1>4, <1>7
  DEF StopIndeterminate, StopAborted, RunAgain, AppendAborted, AppendLocal, AbortBroken,
      Abandon, EndTurn, Drop
<1>8. ASSUME Request(w) \/ Final(w) \/ (\E b \in Batches : Calls(w, b)) \/ CallFails(w) \/ AppendAttempt(w)
      PROVE  PcStays /\ JobStays
  BY <1>1, <1>2, <1>3, <1>4, <1>8
  DEF Request, Final, Calls, CallFails, AppendAttempt, Abandon, EndTurn, Keep
<1>9. ASSUME Plan(w) \/ Start(w) \/ Execute(w) \/ Reject(w) \/ Result(w) \/ Refuse(w)
      PROVE  PcStays /\ JobStays
  BY <1>1, <1>2, <1>3, <1>4, <1>9
  DEF Plan, Start, Execute, Reject, Result, Refuse, Continue, Abandon
<1>10. ASSUME \/ PlanDelivery(w) \/ ReadDelivery(w) \/ StartDelivery(w)
              \/ Send(w) \/ FinishDelivery(w) \/ CloseDelivery(w)
       PROVE  PcStays /\ JobStays
  BY <1>1, <1>2, <1>3, <1>4, <1>10
  DEF PlanDelivery, ReadDelivery, StartDelivery, Send, FinishDelivery, CloseDelivery, Drop, Keep
<1>11. ASSUME Crash(w) \/ AppendFails(w) PROVE PcStays /\ JobStays
  BY <1>1, <1>2, <1>3, <1>4, <1>11 DEF Crash, AppendFails, Drop
<1>12. PcStays /\ JobStays
  BY <1>5, <1>6, <1>7, <1>8, <1>9, <1>10, <1>11 DEF Act, Step
<1> QED
  BY <1>12 DEF Others, PcStays, JobStays

\* A step keeps a worker inside or outside run, or takes or returns the guard.
LEMMA ActPlace ==
  ASSUME Typed, GuardHeld, NEW w \in Worker, Act(w)
  PROVE  Place(w)
<1>g. pc[w] \in InTurn => guard = w
  BY DEF GuardHeld
<1>1. ASSUME NEW x, Goto(w, x) PROVE pc'[w] = x
  BY <1>1, GotoPlace
<1>2. CASE \E m \in Msg : Receive(w, m)
  BY <1>1, <1>2 DEF Receive, At, GuardFree, Place, Enters, InTurn, InLoop
<1>3. CASE \E m \in Msg : Refused(w, m)
  BY <1>3 DEF Refused, At, Place, Outside, InTurn, InLoop
<1>4. CASE RecoverPlan(w) \/ RecoverResult(w) \/ Recovered(w) \/ Accept(w)
  BY <1>1, <1>4 DEF RecoverPlan, RecoverResult, Recovered, Accept, At, Place, Inside, InTurn, InLoop
<1>5. CASE Reuse(w)
  BY <1>1, <1>5 DEF Reuse, Drop, Release, At, Place, Leaves, InTurn, InLoop
<1>6. CASE StopIndeterminate(w) \/ StopAborted(w) \/ RunAgain(w) \/ AppendAborted(w)
  BY <1>1, <1>6 DEF StopIndeterminate, StopAborted, RunAgain, AppendAborted, Abandon, At,
                    Place, Inside, InTurn, InLoop
<1>7. CASE AppendLocal(w) \/ AbortBroken(w) \/ Final(w)
  BY <1>1, <1>7 DEF AppendLocal, AbortBroken, Final, EndTurn, Release, Drop, At,
                    Place, Leaves, InTurn, InLoop
<1>8. CASE Request(w) \/ (\E b \in Batches : Calls(w, b)) \/ CallFails(w) \/ AppendAttempt(w)
  BY <1>1, <1>8 DEF Request, Calls, CallFails, AppendAttempt, Abandon, At, Place, Inside, InTurn, InLoop
<1>9. CASE Plan(w) \/ Start(w) \/ Execute(w) \/ Reject(w)
  BY <1>1, <1>9 DEF Plan, Start, Execute, Reject, At, Place, Inside, InTurn, InLoop
<1>10. CASE Result(w) \/ Refuse(w)
  BY <1>1, <1>10 DEF Result, Refuse, Continue, Abandon, At, Place, Inside, InTurn, InLoop
<1>11. CASE \/ PlanDelivery(w) \/ ReadDelivery(w) \/ StartDelivery(w)
            \/ Send(w) \/ FinishDelivery(w) \/ CloseDelivery(w)
  BY <1>1, <1>11
  DEF PlanDelivery, ReadDelivery, StartDelivery, Send, FinishDelivery, CloseDelivery, Drop, At,
      Place, Outside, InTurn, InLoop
<1>12. CASE Crash(w)
  BY <1>1, <1>12, <1>g DEF Crash, Drop, Place, Outside, Leaves, InTurn, InLoop
<1>13. CASE AppendFails(w)
  <2>1. CASE pc[w] \in {"recover", "accept", "decide", "broken", "abort", "local"} /\ Drop(w) /\ Release(w)
    BY <1>1, <2>1 DEF Drop, Release, Place, Leaves, InTurn, InLoop
  <2>2. CASE pc[w] \in {"abort", "local"} \cup InLoop /\ Goto(w, "broken") /\ UNCHANGED <<job, guard>>
    BY <1>1, <2>2 DEF Place, Inside, InTurn
  <2>3. CASE pc[w] \in {"dplan", "dread", "dstart", "dunknown", "dresult"} /\ Drop(w) /\ UNCHANGED guard
    BY <1>1, <2>3 DEF Drop, Place, Outside, InTurn, InLoop
  <2>4. CASE At(w, "dresult") /\ UNCHANGED <<pc, guard>>
    BY <2>4 DEF At, Place, Outside, InTurn, InLoop
  <2> QED
    BY <1>13, <2>1, <2>2, <2>3, <2>4 DEF AppendFails, At
<1> QED
  BY <1>2, <1>3, <1>4, <1>5, <1>6, <1>7, <1>8, <1>9, <1>10, <1>11, <1>12, <1>13 DEF Act, Step

\* No step lets two workers into run.
LEMMA GuardHeldStep ==
  ASSUME Typed, GuardHeld, [Next]_vars
  PROVE  GuardHeld'
<1>1. CASE UNCHANGED vars
  BY <1>1 DEF vars, GuardHeld
<1>2. ASSUME NEW w \in Worker, Act(w) PROVE GuardHeld'
  <2>1. Others(w) /\ Place(w)
    BY <1>2, ActOthers, ActPlace
  <2> QED
    BY <2>1, TurnAssumption
    DEF Others, Place, Inside, Leaves, Outside, Enters, GuardHeld, InTurn, InLoop
<1> QED
  BY <1>1, <1>2, NextIsAct

-----------------------------------------------------------------------------
(* What one step appends *)

\* An append changes nothing, or adds its event at the end.
LEMMA PutAny ==
  ASSUME Typed, NEW e, Put(e)
  PROVE  \/ /\ log' = log /\ Known(e) # {} /\ EventAt(e) \in Known(e)
         \/ /\ Known(e) = {} /\ EventAt(e) = Len(log) + 1
            /\ DOMAIN log' = 1 .. Len(log) + 1 /\ log'[Len(log) + 1] = e
            /\ \A n \in DOMAIN log : log'[n] = log[n]
<1>1. CASE Known(e) = {}
  <2>1. log \in Seq(EventType \cup {e}) /\ e \in EventType \cup {e}
    BY DEF Typed, TypeOK
  <2>2. log' = Append(log, e)
    BY <1>1 DEF Put
  <2> QED
    BY <1>1, <2>1, <2>2 DEF EventAt
<1>2. CASE Known(e) # {}
  BY <1>2 DEF Put, EventAt
<1> QED
  BY <1>1, <1>2

\* The event e that a worker may append where it is.
Wrote(w, e) ==
  \/ /\ At(w, "recover") /\ e.kind = "plan" /\ e.turn = TurnAt(e.ref)
     /\ e.ref \in Unplanned /\ \A p \in About("plan", e.ref) : log[p].call # e.call
  \/ /\ At(w, "recover") /\ e.kind = "result" /\ Unplanned = {}
     /\ e.ref \in Open /\ e.note = Verdict(e.ref)
  \/ At(w, "accept") /\ e.kind = "user"
  \/ pc[w] \in {"abort", "broken"} /\ e.kind = "aborted" /\ e.turn = job[w].turn
  \/ At(w, "local") /\ e.kind = "local"
  \/ At(w, "request") /\ e.kind = "request" /\ e.turn = job[w].turn
  \/ At(w, "llm") /\ e.kind = "final" /\ e.turn = job[w].turn
  \/ At(w, "llm") /\ e.kind = "calls" /\ e.turn = job[w].turn
  \/ At(w, "attempt") /\ e.kind = "attempt"
  \/ /\ At(w, "tool") /\ e.kind = "plan" /\ e.turn = job[w].turn
     /\ e.ref = job[w].asst /\ e.call = job[w].batch[job[w].nth]
  \/ At(w, "start") /\ e.kind = "start" /\ e.ref = job[w].ref
  \/ At(w, "ran") /\ e.kind = "result" /\ e.ref = job[w].ref /\ e.note = job[w].why
  \/ At(w, "refuse") /\ e.kind = "result" /\ e.ref = job[w].ref /\ e.note = "interrupted"
  \/ At(w, "dplan") /\ e.kind = "dplan" /\ e.ref = job[w].asst
  \/ At(w, "dstart") /\ e.kind = "dstart"
  \/ At(w, "dresult") /\ e.kind = "dresult" /\ e.ref = job[w].ref /\ e.note = job[w].why
  \/ At(w, "dunknown") /\ e.kind = "dresult" /\ e.ref = job[w].ref /\ e.note = "unknown"

\* The log grows by at most one event.
AddsOne(w) ==
  \/ log' = log
  \/ /\ DOMAIN log' = 1 .. Len(log) + 1
     /\ \A n \in DOMAIN log : log'[n] = log[n]
     /\ Wrote(w, log'[Len(log) + 1])

\* Recovery closes a plan that is open.
LEMMA OpenLeast ==
  ASSUME Typed, Open # {}
  PROVE  Least(Open) \in Open
<1>1. Open \subseteq Nat
  BY OfType DEF Open, Typed, TypeOK
<1> QED
  BY <1>1, LeastIn

\* Recovery plans a call that has no plan.
LEMMA UnplannedLeast ==
  ASSUME Typed, Unplanned # {}
  PROVE  LET a == Least(Unplanned)
         IN  a \in Of("calls") /\ Missing(a) # {} /\ Least(Missing(a)) \in Missing(a)
<1> DEFINE a == Least(Unplanned)
<1>1. Unplanned \subseteq Nat
  BY OfType DEF Unplanned, Typed, TypeOK
<1>2. a \in Unplanned
  BY <1>1, LeastIn
<1>3. a \in Of("calls") /\ Missing(a) # {} /\ a \in DOMAIN log
  BY <1>2 DEF Unplanned, Of
<1>4. log[a].batch \in Batches
  <2>1. log[a] \in EventType /\ DOMAIN log[a].batch # {}
    BY <1>3 DEF Missing, Typed, TypeOK
  <2>2. log[a].batch # <<>>
    BY <2>1
  <2> QED
    BY <2>1, <2>2 DEF EventType
<1>5. Missing(a) \subseteq Nat
  BY <1>4, CallIdType DEF Missing
<1> QED
  BY <1>3, <1>5, LeastIn

\* A step adds at most one event, and one that fits the place of its worker.
LEMMA ActLog ==
  ASSUME Typed, NEW w \in Worker, Act(w)
  PROVE  AddsOne(w)
<1>1. ASSUME NEW e, Put(e), Wrote(w, e) PROVE AddsOne(w)
  BY <1>1, PutAny DEF AddsOne
<1>2. UNCHANGED log => AddsOne(w)
  BY DEF AddsOne
<1>3. CASE RecoverPlan(w)
  <2> DEFINE a == Least(Unplanned)
             n == Least(Missing(a))
             e == [Ev("plan", TurnAt(a), a) EXCEPT !.call = log[a].batch[n]]
  <2>1. a \in Unplanned /\ n \in Missing(a)
    BY <1>3, UnplannedLeast DEF RecoverPlan, Unplanned
  <2>2. e.kind = "plan" /\ e.turn = TurnAt(a) /\ e.ref = a /\ e.call = log[a].batch[n]
    BY DEF Ev
  <2>3. Put(e) /\ At(w, "recover")
    BY <1>3 DEF RecoverPlan
  <2> HIDE DEF e, a, n
  <2>4. Wrote(w, e)
    BY <2>1, <2>2, <2>3 DEF Wrote, Missing
  <2> QED
    BY <1>1, <2>3, <2>4
<1>4. CASE RecoverResult(w)
  <2> DEFINE p == Least(Open)
             e == [Ev("result", 0, p) EXCEPT !.note = Verdict(p)]
  <2>1. p \in Open
    BY <1>4, OpenLeast DEF RecoverResult
  <2>2. e.kind = "result" /\ e.ref = p /\ e.note = Verdict(p)
    BY DEF Ev
  <2>3. Put(e) /\ At(w, "recover") /\ Unplanned = {}
    BY <1>4 DEF RecoverResult
  <2> HIDE DEF e, p
  <2>4. Wrote(w, e)
    BY <2>1, <2>2, <2>3 DEF Wrote
  <2> QED
    BY <1>1, <2>3, <2>4
<1>5. CASE Accept(w)
  <2> DEFINE e == [Ev("user", 0, 0) EXCEPT !.msg = job[w].msg]
  <2>1. Put(e) /\ Wrote(w, e)
    BY <1>5 DEF Accept, Ev, Wrote
  <2> QED
    BY <1>1, <2>1
<1>6. CASE AppendAborted(w)
  <2> DEFINE e == [Ev("aborted", job[w].turn, 0) EXCEPT !.note = job[w].why]
  <2>1. Put(e) /\ Wrote(w, e)
    BY <1>6 DEF AppendAborted, Ev, Wrote, At
  <2> QED
    BY <1>1, <2>1
<1>7. CASE AbortBroken(w)
  <2> DEFINE e == [Ev("aborted", job[w].turn, 0) EXCEPT !.note = "provider_error"]
  <2>1. Put(e) /\ Wrote(w, e)
    BY <1>7 DEF AbortBroken, Ev, Wrote, At
  <2> QED
    BY <1>1, <2>1
<1>8. CASE AppendLocal(w)
  <2> DEFINE e == [Ev("local", job[w].turn, 0) EXCEPT !.note = job[w].why]
  <2>1. Put(e) /\ Wrote(w, e)
    BY <1>8 DEF AppendLocal, Ev, Wrote
  <2> QED
    BY <1>1, <2>1
<1>9. CASE Request(w)
  <2> DEFINE e == Ev("request", job[w].turn, 0)
  <2>1. UNCHANGED log \/ Put(e)
    BY <1>9 DEF Request
  <2>2. Wrote(w, e)
    BY <1>9 DEF Request, Ev, Wrote
  <2> QED
    BY <1>1, <1>2, <2>1, <2>2
<1>10. CASE Final(w)
  <2> DEFINE e == Ev("final", job[w].turn, job[w].ref)
  <2>1. Put(e) /\ Wrote(w, e)
    BY <1>10 DEF Final, Ev, Wrote
  <2> QED
    BY <1>1, <2>1
<1>11. ASSUME NEW b \in Batches, Calls(w, b) PROVE AddsOne(w)
  <2> DEFINE e == [Ev("calls", job[w].turn, job[w].ref) EXCEPT !.batch = b]
  <2>1. Put(e) /\ Wrote(w, e)
    BY <1>11 DEF Calls, Ev, Wrote
  <2> QED
    BY <1>1, <2>1
<1>12. CASE AppendAttempt(w)
  <2> DEFINE e == Ev("attempt", job[w].turn, job[w].ref)
  <2>1. Put(e) /\ Wrote(w, e)
    BY <1>12 DEF AppendAttempt, Ev, Wrote
  <2> QED
    BY <1>1, <2>1
<1>13. CASE Plan(w)
  <2> DEFINE e == [Ev("plan", job[w].turn, job[w].asst) EXCEPT !.call = job[w].batch[job[w].nth]]
  <2>1. Put(e) /\ Wrote(w, e)
    BY <1>13 DEF Plan, Ev, Wrote
  <2> QED
    BY <1>1, <2>1
<1>14. CASE Start(w)
  <2> DEFINE e == Ev("start", 0, job[w].ref)
  <2>1. Put(e) /\ Wrote(w, e)
    BY <1>14 DEF Start, Ev, Wrote
  <2> QED
    BY <1>1, <2>1
<1>15. CASE Result(w)
  <2> DEFINE e == [Ev("result", 0, job[w].ref) EXCEPT !.note = job[w].why]
  <2>1. Put(e) /\ Wrote(w, e)
    BY <1>15 DEF Result, Ev, Wrote
  <2> QED
    BY <1>1, <2>1
<1>16. CASE Refuse(w)
  <2> DEFINE e == [Ev("result", 0, job[w].ref) EXCEPT !.note = "interrupted"]
  <2>1. Put(e) /\ Wrote(w, e)
    BY <1>16 DEF Refuse, Ev, Wrote
  <2> QED
    BY <1>1, <2>1
<1>17. CASE PlanDelivery(w)
  <2> DEFINE e == Ev("dplan", 0, job[w].asst)
  <2>1. Put(e) /\ Wrote(w, e)
    BY <1>17 DEF PlanDelivery, Ev, Wrote
  <2> QED
    BY <1>1, <2>1
<1>18. CASE StartDelivery(w)
  <2> DEFINE e == Ev("dstart", 0, job[w].ref)
  <2>1. Put(e) /\ Wrote(w, e)
    BY <1>18 DEF StartDelivery, Ev, Wrote
  <2> QED
    BY <1>1, <2>1
<1>19. CASE FinishDelivery(w)
  <2> DEFINE e == [Ev("dresult", 0, job[w].ref) EXCEPT !.note = job[w].why]
  <2>1. Put(e) /\ Wrote(w, e)
    BY <1>19 DEF FinishDelivery, Ev, Wrote
  <2> QED
    BY <1>1, <2>1
<1>20. CASE CloseDelivery(w)
  <2> DEFINE e == [Ev("dresult", 0, job[w].ref) EXCEPT !.note = "unknown"]
  <2>1. Put(e) /\ Wrote(w, e)
    BY <1>20 DEF CloseDelivery, Ev, Wrote
  <2> QED
    BY <1>1, <2>1
<1>21. CASE (\E m \in Msg : Receive(w, m) \/ Refused(w, m)) \/ Recovered(w) \/ Reuse(w)
            \/ StopIndeterminate(w) \/ StopAborted(w) \/ RunAgain(w)
            \/ CallFails(w) \/ Execute(w) \/ Reject(w) \/ ReadDelivery(w) \/ Send(w)
            \/ Crash(w) \/ AppendFails(w)
  BY <1>2, <1>21
  DEF Receive, Refused, Recovered, Reuse, StopIndeterminate, StopAborted, RunAgain,
      CallFails, Execute, Reject, ReadDelivery, Send, Crash, AppendFails
<1> QED
  BY <1>3, <1>4, <1>5, <1>6, <1>7, <1>8, <1>9, <1>10, <1>11, <1>12, <1>13, <1>14, <1>15,
     <1>16, <1>17, <1>18, <1>19, <1>20, <1>21 DEF Act, Step

-----------------------------------------------------------------------------
(* Calls are closed before the next message *)

\* One more event at the end.
Longer == /\ DOMAIN log' = 1 .. Len(log) + 1
          /\ \A n \in DOMAIN log : log'[n] = log[n]

\* The event a step adds, if it adds one.
Last == log'[Len(log) + 1]

\* The same, for the event at the end of the log.
LEMMA AddsOneIs ==
  ASSUME NEW w \in Worker, AddsOne(w)
  PROVE  log' = log \/ (Longer /\ Wrote(w, Last))
BY DEF AddsOne, Longer, Last

\* What one more event changes in the sets of events by kind and reference.
LEMMA LongerOf ==
  ASSUME Typed, Longer, NEW k, NEW r
  PROVE  /\ DOMAIN log = 1 .. Len(log) /\ Len(log) \in Nat
         /\ Of(k)' = IF Last.kind = k THEN Of(k) \cup {Len(log) + 1} ELSE Of(k)
         /\ About(k, r)' = IF Last.kind = k /\ Last.ref = r
                           THEN About(k, r) \cup {Len(log) + 1} ELSE About(k, r)
         /\ Of(k) \subseteq 1 .. Len(log) /\ About(k, r) \subseteq 1 .. Len(log)
<1>1. DOMAIN log = 1 .. Len(log) /\ Len(log) \in Nat
  BY DEF Typed, TypeOK
<1>2. DOMAIN log' = DOMAIN log \cup {Len(log) + 1}
  BY <1>1 DEF Longer
<1>3. Of(k)' = IF Last.kind = k THEN Of(k) \cup {Len(log) + 1} ELSE Of(k)
  BY <1>2 DEF Of, Last, Longer
<1>4. About(k, r)' = IF Last.kind = k /\ Last.ref = r
                     THEN About(k, r) \cup {Len(log) + 1} ELSE About(k, r)
  <2>1. About(k, r) = {n \in DOMAIN log : log[n].kind = k /\ log[n].ref = r}
        /\ About(k, r)' = {n \in DOMAIN log' : log'[n].kind = k /\ log'[n].ref = r}
    BY DEF About, Of
  <2> QED
    BY <1>2, <2>1 DEF Last, Longer
<1> QED
  BY <1>1, <1>3, <1>4 DEF Of, About

\* Past recovery, before the user event.
CleanAccept == \A w \in Worker : At(w, "accept") => Unplanned = {} /\ Open = {}

\* Only the end of recovery leads there.
LEMMA ToAccept ==
  ASSUME Typed, NEW w \in Worker, Act(w), pc'[w] = "accept"
  PROVE  Unplanned = {} /\ Open = {} /\ log' = log
<1>1. ASSUME NEW x, Goto(w, x) PROVE x = "accept"
  BY <1>1, GotoPlace
<1>2. ~ ((\E m \in Msg : Receive(w, m)) \/ Crash(w))
  BY <1>1 DEF Receive, Crash, Drop
<1>3. ~ (\E m \in Msg : Refused(w, m))
  BY DEF Refused, At
<1>4. ~ AppendFails(w)
  <2>1. ~ Drop(w) /\ ~ Goto(w, "broken")
    BY <1>1 DEF Drop
  <2>2. ~ (At(w, "dresult") /\ UNCHANGED pc)
    BY DEF At
  <2> QED
    BY <2>1, <2>2 DEF AppendFails
<1>5. ~ (RecoverPlan(w) \/ RecoverResult(w) \/ Accept(w) \/ Reuse(w) \/ StopIndeterminate(w)
         \/ StopAborted(w) \/ RunAgain(w) \/ AppendAborted(w) \/ AppendLocal(w) \/ AbortBroken(w))
  BY <1>1 DEF RecoverPlan, RecoverResult, Accept, Reuse, StopIndeterminate, StopAborted, RunAgain,
              AppendAborted, AppendLocal, AbortBroken, Abandon, EndTurn, Drop, At
<1>6. ~ (Request(w) \/ Final(w) \/ (\E b \in Batches : Calls(w, b)) \/ CallFails(w) \/ AppendAttempt(w))
  BY <1>1 DEF Request, Final, Calls, CallFails, AppendAttempt, Abandon, EndTurn
<1>7. ~ (Plan(w) \/ Start(w) \/ Execute(w) \/ Reject(w) \/ Result(w) \/ Refuse(w))
  BY <1>1 DEF Plan, Start, Execute, Reject, Result, Refuse, Continue, Abandon
<1>8. ~ (PlanDelivery(w) \/ ReadDelivery(w) \/ StartDelivery(w)
         \/ Send(w) \/ FinishDelivery(w) \/ CloseDelivery(w))
  BY <1>1 DEF PlanDelivery, ReadDelivery, StartDelivery, Send, FinishDelivery, CloseDelivery, Drop
<1> QED
  BY <1>2, <1>3, <1>4, <1>5, <1>6, <1>7, <1>8 DEF Act, Step, Recovered

\* The state that recovery reached lasts until the user event is appended: deliveries of
\* other workers are the only appends meanwhile.
LEMMA CleanAcceptStep ==
  ASSUME Typed, GuardHeld, CleanAccept, [Next]_vars
  PROVE  CleanAccept'
<1>1. CASE UNCHANGED vars
  BY <1>1 DEF vars, CleanAccept, At, Unplanned, Open, Missing, About, Of
<1>2. ASSUME NEW w \in Worker, Act(w), NEW v \in Worker, pc'[v] = "accept"
      PROVE  Unplanned' = {} /\ Open' = {}
  <2>s. log' = log => Unplanned' = Unplanned /\ Open' = Open
    BY DEF Unplanned, Open, Missing, About, Of
  <2>1. CASE v = w
    BY <1>2, <2>1, <2>s, ToAccept
  <2>2. CASE v # w
    <3>1. pc[v] = "accept"
      BY <1>2, <2>2, ActOthers DEF Others
    <3>2. pc[w] \notin InTurn /\ Unplanned = {} /\ Open = {}
      BY <2>2, <3>1 DEF GuardHeld, CleanAccept, At, InTurn
    <3>3. CASE log' = log
      BY <2>s, <3>2, <3>3
    <3>4. CASE Longer /\ Wrote(w, Last)
      <4>1. Last.kind \in {"dplan", "dstart", "dresult"}
        BY <3>2, <3>4 DEF Wrote, At, InTurn, InLoop
      <4>2. /\ Of("calls")' = Of("calls") /\ Of("plan")' = Of("plan")
            /\ \A r : About("plan", r)' = About("plan", r) /\ About("result", r)' = About("result", r)
        BY <3>4, <4>1, LongerOf
      <4>3. \A a \in Of("calls") : Missing(a)' = Missing(a)
        <5>1. \A a \in Of("calls") : log'[a] = log[a]
          BY <3>4 DEF Longer, Of
        <5>2. \A a \in Of("calls") : \A p \in About("plan", a) : log'[p] = log[p]
          BY <3>4 DEF Longer, Of, About
        <5> QED
          BY <4>2, <5>1, <5>2 DEF Missing
      <4>4. Unplanned' = Unplanned
        BY <4>2, <4>3 DEF Unplanned
      <4>5. Open' = Open
        BY <4>2 DEF Open
      <4> QED
        BY <3>2, <4>4, <4>5
    <3> QED
      BY <1>2, <3>3, <3>4, ActLog, AddsOneIs
  <2> QED
    BY <2>1, <2>2
<1> QED
  BY <1>1, <1>2, NextIsAct DEF CleanAccept, At

\* A new user event finds all calls closed, and later events only add.
LEMMA CallsClosedStep ==
  ASSUME Typed, GuardHeld, CleanAccept, CallsClosed, [Next]_vars
  PROVE  CallsClosed'
<1>s. CASE log' = log
  BY <1>s DEF CallsClosed, Of, About
<1>1. ASSUME NEW w \in Worker, Longer, Wrote(w, Last) PROVE CallsClosed'
  <2> SUFFICES ASSUME NEW u \in Of("user")', NEW a \in Of("calls")', a < u,
                      NEW n \in DOMAIN log'[a].batch
               PROVE  \E p \in About("plan", a)' :
                        /\ p < u /\ log'[p].call = log'[a].batch[n]
                        /\ \E r \in About("result", p)' : r < u
    BY DEF CallsClosed
  <2>t. DOMAIN log = 1 .. Len(log) /\ Len(log) \in Nat
    BY DEF Typed, TypeOK
  <2>1. a \in Of("calls") /\ log'[a] = log[a]
    <3>1. u \in DOMAIN log' /\ a \in DOMAIN log'
      BY DEF Of
    <3>2. a \in DOMAIN log
      BY <1>1, <2>t, <3>1 DEF Longer
    <3> QED
      BY <1>1, <3>2 DEF Of, Longer
  <2>2. \E p \in About("plan", a) :
                        /\ p < u /\ log[p].call = log[a].batch[n]
                        /\ \E r \in About("result", p) : r < u
    <3>1. CASE u \in Of("user")
      BY <2>1, <3>1 DEF CallsClosed
    <3>2. CASE u \notin Of("user")
      <4>1. u = Len(log) + 1 /\ Last.kind = "user"
        BY <1>1, <2>t, <3>2 DEF Of, Longer, Last
      <4>2. At(w, "accept")
        BY <1>1, <4>1 DEF Wrote
      <4>3. Unplanned = {} /\ Open = {}
        BY <4>2 DEF CleanAccept
      <4>4. Missing(a) = {}
        BY <2>1, <4>3 DEF Unplanned
      <4>5. PICK p \in About("plan", a) : log[p].call = log[a].batch[n]
        BY <2>1, <4>4 DEF Missing
      <4>6. PICK r \in About("result", p) : TRUE
        BY <4>3, <4>5 DEF Open, About
      <4>7. p < u /\ r < u
        BY <2>t, <4>1, <4>5, <4>6 DEF About, Of
      <4> QED
        BY <4>5, <4>6, <4>7
    <3> QED
      BY <3>1, <3>2
  <2>3. \A k, m : About(k, m) \subseteq About(k, m)'
    BY <1>1, LongerOf
  <2>4. \A p \in About("plan", a) : log'[p] = log[p]
    BY <1>1 DEF About, Of, Longer
  <2> QED
    BY <2>1, <2>2, <2>3, <2>4
<1> QED
  BY <1>s, <1>1, NextIsAct, ActLog, AddsOneIs DEF vars

\* Before a new user message enters the log every earlier tool call is closed,
\* whatever crashed or failed before, also during recovery.
THEOREM CallsAlwaysClosed == Spec => []CallsClosed
<1> DEFINE Inv == Typed /\ GuardHeld /\ CleanAccept /\ CallsClosed
<1>1. Init => Inv
  BY InitTyped DEF Init, GuardHeld, CleanAccept, CallsClosed, At, InTurn, InLoop, Of
<1>2. Inv /\ [Next]_vars => Inv'
  BY NextTyped, GuardHeldStep, CleanAcceptStep, CallsClosedStep
<1> QED
  BY <1>1, <1>2, PTL DEF Spec
-----------------------------------------------------------------------------
(* What is recorded as delivered was sent *)

PlanKnown == {"dread", "dstart", "send", "dresult", "dunknown"}

\* Past begin_delivery's plan a worker holds that plan and its reply, and past
\* a successful send the reply is among those sent.
HoldsPlan(w) == job[w].ref \in Of("dplan") /\ log[job[w].ref].ref = job[w].asst
Delivering ==
  \A w \in Worker :
    /\ pc[w] \in PlanKnown => HoldsPlan(w)
    /\ pc[w] = "dresult" /\ job[w].why = "delivered" => job[w].asst \in Range(sent)

\* Delivery results name a delivery plan.
ResultOfPlan == \A r \in Of("dresult") : log[r].ref \in Of("dplan")

\* Sends are only added.
LEMMA SentGrows ==
  ASSUME Typed, NEW w \in Worker, Act(w)
  PROVE  Range(sent) \subseteq Range(sent')
<1>1. ASSUME NEW a, sent' = Append(sent, a) PROVE Range(sent) \subseteq Range(sent')
  <2>1. sent \in Seq(Nat) /\ Len(sent) \in Nat /\ DOMAIN sent = 1 .. Len(sent)
    BY DEF Typed, TypeOK
  <2>2. DOMAIN sent \subseteq DOMAIN sent' /\ \A n \in DOMAIN sent : sent'[n] = sent[n]
    BY <1>1, <2>1
  <2> QED
    BY <2>2 DEF Range
<1>2. UNCHANGED sent => Range(sent) \subseteq Range(sent')
  OBVIOUS
<1>3. UNCHANGED sent \/ Send(w)
  BY DEF Act, Step, Receive, Refused, RecoverPlan, RecoverResult, Recovered, Accept, Reuse,
         StopIndeterminate, StopAborted, RunAgain, AppendAborted, AppendLocal, Request, Final, Calls,
         CallFails, AppendAttempt, Plan, Start, Execute, Reject, Result, Refuse, AbortBroken,
         PlanDelivery, ReadDelivery, StartDelivery, FinishDelivery, CloseDelivery, Crash, AppendFails
<1> QED
  BY <1>1, <1>2, <1>3 DEF Send

\* A worker that has just planned its delivery holds that plan.
LEMMA PlanDeliveryHolds ==
  ASSUME Typed, NEW w \in Worker, PlanDelivery(w)
  PROVE  pc'[w] = "dread" /\ HoldsPlan(w)'
<1> DEFINE e == Ev("dplan", 0, job[w].asst)
<1>1. /\ Put(e) /\ Goto(w, "dread") /\ Set(w, [job[w] EXCEPT !.ref = EventAt(e)])
      /\ e.kind = "dplan" /\ e.ref = job[w].asst
  BY DEF PlanDelivery, Ev
<1>2. job[w] \in JobType
  BY DEF Typed, TypeOK
<1> HIDE DEF e
<1>3. EventAt(e) \in DOMAIN log' /\ log'[EventAt(e)].kind = "dplan" /\ log'[EventAt(e)].ref = job[w].asst
  <2>1. CASE Known(e) = {}
    BY <1>1, <2>1, PutAny
  <2>2. CASE Known(e) # {}
    BY <1>1, <2>2, PutAny DEF Known, SameKey
  <2> QED
    BY <2>1, <2>2
<1>4. job'[w].ref = EventAt(e) /\ job'[w].asst = job[w].asst
  BY <1>1, <1>2, SetJob DEF JobType
<1> QED
  BY <1>1, <1>3, <1>4, GotoPlace DEF HoldsPlan, Of

\* How a worker comes to hold a delivery plan: it makes one, or it had it.
LEMMA ToDelivery ==
  ASSUME Typed, NEW w \in Worker, Act(w), pc'[w] \in PlanKnown
  PROVE  \/ PlanDelivery(w)
         \/ /\ pc[w] \in PlanKnown
            /\ job'[w].ref = job[w].ref /\ job'[w].asst = job[w].asst
            /\ pc'[w] = "dresult" /\ job'[w].why = "delivered" =>
                  job[w].asst \in Range(sent')
<1> DEFINE Kept == job'[w].ref = job[w].ref /\ job'[w].asst = job[w].asst
<1>1. ASSUME NEW x, Goto(w, x) PROVE x \in PlanKnown
  BY <1>1, GotoPlace
<1>2. UNCHANGED job => Kept
  OBVIOUS
<1>3. ASSUME NEW y, Set(w, [job[w] EXCEPT !.why = y]) PROVE Kept /\ job'[w].why = y
  <2>1. job[w] \in JobType
    BY DEF Typed, TypeOK
  <2> QED
    BY <1>3, <2>1, SetJob DEF JobType
<1> HIDE DEF Kept
<1>4. ~ (RecoverPlan(w) \/ RecoverResult(w) \/ Recovered(w) \/ Accept(w) \/ Reuse(w)
         \/ StopIndeterminate(w) \/ StopAborted(w) \/ RunAgain(w) \/ AppendAborted(w)
         \/ AppendLocal(w) \/ AbortBroken(w))
  BY <1>1 DEF RecoverPlan, RecoverResult, Recovered, Accept, Reuse, StopIndeterminate, StopAborted,
              RunAgain, AppendAborted, AppendLocal, AbortBroken, Abandon, EndTurn, Drop, At, PlanKnown
<1>5. ~ (Request(w) \/ Final(w) \/ (\E b \in Batches : Calls(w, b)) \/ CallFails(w) \/ AppendAttempt(w))
  <2>1. /\ ~ Goto(w, "llm") /\ ~ Goto(w, "abort") /\ ~ Goto(w, "tool") /\ ~ Goto(w, "attempt")
        /\ ~ Goto(w, "broken") /\ ~ Goto(w, "request") /\ ~ Goto(w, "dplan")
    BY <1>1 DEF PlanKnown
  <2> QED
    BY <2>1 DEF Request, Final, Calls, CallFails, AppendAttempt, Abandon, EndTurn
<1>6. ~ (Plan(w) \/ Start(w) \/ Execute(w) \/ Reject(w) \/ Result(w) \/ Refuse(w))
  BY <1>1 DEF Plan, Start, Execute, Reject, Result, Refuse, Continue, Abandon, PlanKnown
<1>7. ~ ((\E m \in Msg : Receive(w, m) \/ Refused(w, m)) \/ Crash(w) \/ FinishDelivery(w) \/ CloseDelivery(w))
  <2>1. ~ Goto(w, "idle") /\ ~ Goto(w, "recover") /\ ~ (At(w, "idle") /\ UNCHANGED pc)
    BY <1>1 DEF PlanKnown, At
  <2> QED
    BY <2>1 DEF Receive, Refused, Crash, FinishDelivery, CloseDelivery, Drop
<1>8. CASE ReadDelivery(w) \/ StartDelivery(w)
  <2>1. pc[w] \in PlanKnown /\ UNCHANGED job /\ pc'[w] # "dresult"
    BY <1>1, <1>8, GotoPlace DEF ReadDelivery, StartDelivery, Drop, Keep, At, PlanKnown
  <2> QED
    BY <1>2, <2>1 DEF Kept
<1>9. CASE Send(w)
  <2>1. PICK arrived, ok \in BOOLEAN :
          /\ ok => arrived
          /\ sent' = IF arrived THEN Append(sent, job[w].asst) ELSE sent
          /\ Set(w, [job[w] EXCEPT !.why = IF ok THEN "delivered" ELSE "unknown"])
    BY <1>9 DEF Send
  <2>2. Kept /\ job'[w].why = IF ok THEN "delivered" ELSE "unknown"
    BY <1>3, <2>1
  <2>3. arrived => job[w].asst \in Range(sent')
    <3>1. sent \in Seq(Nat)
      BY DEF Typed, TypeOK
    <3>2. arrived => Len(sent) + 1 \in DOMAIN sent' /\ sent'[Len(sent) + 1] = job[w].asst
      BY <2>1, <3>1
    <3> QED
      BY <3>2 DEF Range
  <2> QED
    BY <1>9, <2>1, <2>2, <2>3 DEF Send, At, PlanKnown, Kept
<1>10. CASE AppendFails(w)
  <2>1. ~ Drop(w) /\ ~ Goto(w, "broken")
    BY <1>1 DEF Drop, PlanKnown
  <2>2. At(w, "dresult") /\ Set(w, [job[w] EXCEPT !.why = "unknown"])
    BY <1>10, <2>1 DEF AppendFails
  <2> QED
    BY <1>3, <2>2 DEF At, PlanKnown, Kept
<1> QED
  BY <1>4, <1>5, <1>6, <1>7, <1>8, <1>9, <1>10 DEF Act, Step, Kept

\* Deliveries of several workers do not disturb one another.
LEMMA DeliveringStep ==
  ASSUME Typed, Delivering, [Next]_vars
  PROVE  Delivering'
<1>1. CASE UNCHANGED vars
  BY <1>1 DEF vars, Delivering, HoldsPlan, Of
<1>2. ASSUME NEW w \in Worker, Act(w), NEW v \in Worker
      PROVE  /\ pc'[v] \in PlanKnown => HoldsPlan(v)'
             /\ pc'[v] = "dresult" /\ job'[v].why = "delivered" => job'[v].asst \in Range(sent')
  <2>s. Range(sent) \subseteq Range(sent')
    BY <1>2, SentGrows
  <2>h. ASSUME HoldsPlan(v), job'[v].ref = job[v].ref, job'[v].asst = job[v].asst
        PROVE  HoldsPlan(v)'
    <3>1. job[v].ref \in DOMAIN log /\ log[job[v].ref].kind = "dplan"
      BY <2>h DEF HoldsPlan, Of
    <3>2. job[v].ref \in DOMAIN log' /\ log'[job[v].ref] = log[job[v].ref]
      <4>1. DOMAIN log = 1 .. Len(log) /\ Len(log) \in Nat
        BY DEF Typed, TypeOK
      <4> QED
        BY <1>2, <3>1, <4>1, ActLog DEF AddsOne
    <3> QED
      BY <2>h, <3>1, <3>2 DEF HoldsPlan, Of
  <2>1. CASE v # w
    <3>1. pc'[v] = pc[v] /\ job'[v] = job[v]
      BY <1>2, <2>1, ActOthers DEF Others
    <3> QED
      BY <2>h, <2>s, <3>1 DEF Delivering
  <2>2. CASE v = w
    BY <1>2, <2>2, <2>h, ToDelivery, PlanDeliveryHolds DEF Delivering, PlanKnown
  <2> QED
    BY <2>1, <2>2
<1> QED
  BY <1>1, <1>2, NextIsAct DEF Delivering

\* Whoever writes a delivery result writes what it knows.
LEMMA DeliveredStep ==
  ASSUME Typed, Delivering, ResultOfPlan, DeliveredTruth, [Next]_vars
  PROVE  ResultOfPlan' /\ DeliveredTruth'
<1>1. CASE UNCHANGED vars
  BY <1>1 DEF vars, ResultOfPlan, DeliveredTruth, Of
<1>2. ASSUME NEW w \in Worker, Act(w), NEW r \in Of("dresult")'
      PROVE  /\ log'[r].ref \in Of("dplan")'
             /\ log'[r].note = "delivered" => log'[log'[r].ref].ref \in Range(sent')
  <2>s. Range(sent) \subseteq Range(sent')
    BY <1>2, SentGrows
  <2>t. DOMAIN log = 1 .. Len(log) /\ Len(log) \in Nat
    BY DEF Typed, TypeOK
  <2>l. \A n \in DOMAIN log : n \in DOMAIN log' /\ log'[n] = log[n]
    BY <1>2, <2>t, ActLog DEF AddsOne
  <2>p. \A d \in Of("dplan") : d \in Of("dplan")' /\ log'[d] = log[d]
    BY <2>l DEF Of
  <2>1. CASE r \in DOMAIN log
    <3>1. r \in Of("dresult") /\ log'[r] = log[r]
      BY <2>1, <2>l DEF Of
    <3> QED
      BY <2>s, <2>p, <3>1 DEF ResultOfPlan, DeliveredTruth
  <2>2. CASE r \notin DOMAIN log
    <3>1. r = Len(log) + 1 /\ Wrote(w, log'[r]) /\ log'[r].kind = "dresult"
      BY <1>2, <2>2, <2>t, ActLog DEF AddsOne, Of
    <3>2. /\ pc[w] \in {"dresult", "dunknown"} /\ log'[r].ref = job[w].ref
          /\ log'[r].note = "delivered" => pc[w] = "dresult" /\ job[w].why = "delivered"
      BY <3>1 DEF Wrote, At
    <3>3. HoldsPlan(w)
      BY <3>2 DEF Delivering, PlanKnown
    <3> QED
      BY <2>s, <2>p, <3>2, <3>3 DEF Delivering, HoldsPlan
  <2> QED
    BY <2>1, <2>2
<1> QED
  BY <1>1, <1>2, NextIsAct DEF ResultOfPlan, DeliveredTruth

\* A delivery that the log calls delivered was sent, whatever crashes or fails
\* between the sending and the recording, and whoever else delivers the reply.
THEOREM DeliveredWasSent == Spec => []DeliveredTruth
<1> DEFINE Inv == Typed /\ Delivering /\ ResultOfPlan /\ DeliveredTruth
<1>1. Init => Inv
  BY InitTyped DEF Init, Delivering, ResultOfPlan, DeliveredTruth, PlanKnown, Of
<1>2. Inv /\ [Next]_vars => Inv'
  BY NextTyped, DeliveringStep, DeliveredStep
<1> QED
  BY <1>1, <1>2, PTL DEF Spec

-----------------------------------------------------------------------------
(* An aborted turn stays aborted *)

\* In the agent loop the turn has no abort, and before a start its plan
\* belongs to the turn.
Fresh(w) == Aborts(job[w].turn) = {}
OwnPlan(w) == job[w].ref \in DOMAIN log /\ log[job[w].ref].turn = job[w].turn
LoopFresh ==
  \A w \in Worker :
    /\ pc[w] \in InLoop => Fresh(w)
    /\ pc[w] = "start" => OwnPlan(w)

\* Aborts name a user event, starts a plan.
Referenced == /\ \A x \in Of("aborted") : log[x].turn \in Of("user")
              /\ \A n \in Of("start") : log[n].ref \in DOMAIN log

\* Only an abort of this turn, written by the turn itself, spoils it.
LEMMA AbortsStay ==
  ASSUME Typed, NEW w \in Worker, Act(w), NEW u,
         pc[w] \in {"abort", "broken"} => job[w].turn # u
  PROVE  Aborts(u)' = Aborts(u)
<1>1. CASE log' = log
  BY <1>1 DEF Aborts, Of
<1>2. CASE Longer /\ Wrote(w, Last)
  <2>1. Last.kind = "aborted" => Last.turn # u
    BY <1>2 DEF Wrote, At
  <2>2. DOMAIN log = 1 .. Len(log) /\ Len(log) \in Nat
    BY DEF Typed, TypeOK
  <2>3. DOMAIN log' = DOMAIN log \cup {Len(log) + 1} /\ \A n \in DOMAIN log : log'[n] = log[n]
    BY <1>2, <2>2 DEF Longer
  <2> QED
    BY <2>1, <2>3 DEF Aborts, Of, Last
<1> QED
  BY <1>1, <1>2, ActLog, AddsOneIs

\* A turn that just entered the loop is not aborted.
LEMMA AcceptFresh ==
  ASSUME Typed, Referenced, NEW w \in Worker, Accept(w), pc'[w] \in InLoop
  PROVE  Fresh(w)'
<1> DEFINE e == [Ev("user", 0, 0) EXCEPT !.msg = job[w].msg]
<1>1. Known(e) = {} /\ Set(w, [job[w] EXCEPT !.turn = EventAt(e)])
  <2>1. Goto(w, IF Known(e) = {} THEN "request" ELSE "decide")
    BY DEF Accept
  <2>2. pc'[w] = IF Known(e) = {} THEN "request" ELSE "decide"
    BY <2>1, GotoPlace
  <2> QED
    BY <2>2 DEF Accept, InLoop
<1>2. job'[w].turn = Len(log) + 1
  <2>1. job[w] \in JobType
    BY DEF Typed, TypeOK
  <2> HIDE DEF e
  <2> QED
    BY <1>1, <2>1, SetJob DEF JobType, EventAt
<1>3. Aborts(Len(log) + 1) = {}
  BY DEF Aborts, Referenced, Of, Typed, TypeOK
<1>4. \A u : Aborts(u) = {} => ~ \E x \in Of("aborted")' : log'[x].turn = u
  <2>1. Act(w) /\ pc[w] \notin {"abort", "broken"}
    BY DEF Act, Step, Accept, At
  <2>2. ASSUME NEW u PROVE Aborts(u)' = Aborts(u)
    BY <2>1, AbortsStay
  <2>3. ASSUME NEW u PROVE Aborts(u)' = {x \in Of("aborted")' : log'[x].turn = u}
    BY DEF Aborts
  <2> QED
    BY <2>2, <2>3
<1>5. ~ \E x \in Of("aborted")' : log'[x].turn = job'[w].turn
  BY <1>2, <1>3, <1>4
<1> QED
  BY <1>5 DEF Fresh, Aborts

\* The turn of a worker changes on acceptance only; it enters the loop there
\* or by running again.
LEMMA ToLoop ==
  ASSUME Typed, NEW w \in Worker, Act(w), pc'[w] \in InLoop
  PROVE  \/ Accept(w)
         \/ job'[w].turn = job[w].turn /\ (RunAgain(w) \/ pc[w] \in InLoop)
<1>1. ASSUME NEW x, Goto(w, x) PROVE x \in InLoop
  BY <1>1, GotoPlace
<1>2. /\ ~ Goto(w, "idle") /\ ~ Goto(w, "recover") /\ ~ Goto(w, "accept") /\ ~ Goto(w, "decide")
      /\ ~ Goto(w, "abort") /\ ~ Goto(w, "local") /\ ~ Goto(w, "broken") /\ ~ Goto(w, "dplan")
      /\ ~ Goto(w, "dread") /\ ~ Goto(w, "dunknown") /\ ~ Goto(w, "dstart")
      /\ ~ Goto(w, "send") /\ ~ Goto(w, "dresult")
  BY <1>1 DEF InLoop
<1>3. \A x \in {"idle", "recover", "dresult"} : ~ (At(w, x) /\ UNCHANGED pc)
  BY DEF At, InLoop
<1>4. ~ ((\E m \in Msg : Receive(w, m) \/ Refused(w, m)) \/ Crash(w) \/ AppendFails(w))
  BY <1>2, <1>3 DEF Receive, Refused, Crash, AppendFails, Drop, At
<1>5. ~ (RecoverPlan(w) \/ RecoverResult(w) \/ Recovered(w) \/ Reuse(w) \/ StopIndeterminate(w)
         \/ StopAborted(w) \/ AppendAborted(w) \/ AppendLocal(w) \/ AbortBroken(w))
  BY <1>2, <1>3 DEF RecoverPlan, RecoverResult, Recovered, Reuse, StopIndeterminate, StopAborted,
              AppendAborted, AppendLocal, AbortBroken, Abandon, EndTurn, Drop
<1>6. ~ (PlanDelivery(w) \/ ReadDelivery(w) \/ StartDelivery(w)
         \/ Send(w) \/ FinishDelivery(w) \/ CloseDelivery(w))
  BY <1>2 DEF PlanDelivery, ReadDelivery, StartDelivery, Send, FinishDelivery, CloseDelivery, Drop
<1>j. job[w] \in JobType
  BY DEF Typed, TypeOK
<1>7. CASE RunAgain(w)
  BY <1>7 DEF RunAgain
<1>s. ASSUME NEW j, Set(w, j), j.turn = job[w].turn PROVE job'[w].turn = job[w].turn
  BY <1>s, SetJob
<1>8. CASE Request(w) \/ Final(w) \/ (\E b \in Batches : Calls(w, b)) \/ CallFails(w) \/ AppendAttempt(w)
  <2>1. pc[w] \in InLoop
    BY <1>8 DEF Request, Final, Calls, CallFails, AppendAttempt, At, InLoop
  <2>2. job'[w].turn = job[w].turn
    BY <1>2, <1>8, <1>j, <1>s DEF Request, Final, Calls, CallFails, AppendAttempt, Abandon, EndTurn, Keep, JobType
  <2> QED
    BY <2>1, <2>2
<1>9. CASE Plan(w) \/ Start(w) \/ Execute(w) \/ Reject(w) \/ Result(w) \/ Refuse(w)
  <2>1. pc[w] \in InLoop
    BY <1>9 DEF Plan, Start, Execute, Reject, Result, Refuse, At, InLoop
  <2>2. job'[w].turn = job[w].turn
    BY <1>2, <1>9, <1>j, <1>s DEF Plan, Start, Execute, Reject, Result, Refuse, Continue, Abandon, JobType
  <2> QED
    BY <2>1, <2>2
<1> QED
  BY <1>4, <1>5, <1>6, <1>7, <1>8, <1>9 DEF Act, Step

\* Planning a call leads to its own plan, be it new or found.
LEMMA ToStart ==
  ASSUME Typed, NEW w \in Worker, Act(w), pc'[w] = "start"
  PROVE  OwnPlan(w)'
<1>1. ASSUME NEW x, Goto(w, x) PROVE x = "start"
  BY <1>1, GotoPlace
<1>2. pc[w] \in InLoop \/ Accept(w) \/ RunAgain(w)
  BY ToLoop DEF InLoop
<1>3. Plan(w)
  <2>1. ~ Accept(w) /\ ~ RunAgain(w)
    BY <1>1 DEF Accept, RunAgain
  <2>2. pc[w] \in InLoop
    BY <1>2, <2>1
  <2>3. ~ (Request(w) \/ Final(w) \/ (\E b \in Batches : Calls(w, b)) \/ CallFails(w) \/ AppendAttempt(w))
    BY <1>1 DEF Request, Final, Calls, CallFails, AppendAttempt, Abandon, EndTurn
  <2>4. ~ (Start(w) \/ Execute(w) \/ Reject(w) \/ Result(w) \/ Refuse(w))
    BY <1>1 DEF Start, Execute, Reject, Result, Refuse, Continue, Abandon
  <2>5. ~ (Crash(w) \/ AppendFails(w))
    <3>1. ~ Drop(w) /\ ~ Goto(w, "broken") /\ ~ At(w, "dresult")
      BY <1>1, <2>2 DEF Drop, At, InLoop
    <3> QED
      BY <3>1 DEF Crash, AppendFails
  <2>6. ~ ((\E m \in Msg : Receive(w, m) \/ Refused(w, m)) \/ RecoverPlan(w) \/ RecoverResult(w)
           \/ Recovered(w) \/ Reuse(w) \/ StopIndeterminate(w) \/ StopAborted(w)
           \/ AppendAborted(w) \/ AppendLocal(w) \/ AbortBroken(w))
    BY <2>2 DEF Receive, Refused, RecoverPlan, RecoverResult, Recovered, Reuse, StopIndeterminate,
                StopAborted, AppendAborted, AppendLocal, AbortBroken, At, InLoop
  <2>7. ~ (PlanDelivery(w) \/ ReadDelivery(w) \/ StartDelivery(w)
           \/ Send(w) \/ FinishDelivery(w) \/ CloseDelivery(w))
    BY <2>2 DEF PlanDelivery, ReadDelivery, StartDelivery, Send, FinishDelivery, CloseDelivery, At, InLoop
  <2> QED
    BY <2>1, <2>3, <2>4, <2>5, <2>6, <2>7 DEF Act, Step
<1> DEFINE e == [Ev("plan", job[w].turn, job[w].asst) EXCEPT !.call = job[w].batch[job[w].nth]]
<1>4. Put(e) /\ Set(w, [job[w] EXCEPT !.ref = EventAt(e)]) /\ e.kind = "plan" /\ e.turn = job[w].turn
  BY <1>3 DEF Plan, Ev
<1>5. job[w] \in JobType
  BY DEF Typed, TypeOK
<1> HIDE DEF e
<1>6. EventAt(e) \in DOMAIN log' /\ log'[EventAt(e)].turn = job[w].turn
  <2>1. CASE Known(e) = {}
    BY <1>4, <2>1, PutAny
  <2>2. CASE Known(e) # {}
    BY <1>4, <2>2, PutAny DEF Known, SameKey
  <2> QED
    BY <2>1, <2>2
<1>7. job'[w].ref = EventAt(e) /\ job'[w].turn = job[w].turn
  BY <1>4, <1>5, SetJob DEF JobType
<1> QED
  BY <1>6, <1>7 DEF OwnPlan

\* Nobody aborts a turn that is in the loop, and recovery does not run then.
LEMMA LoopFreshStep ==
  ASSUME Typed, GuardHeld, Referenced, LoopFresh, [Next]_vars
  PROVE  LoopFresh'
<1>1. CASE UNCHANGED vars
  BY <1>1 DEF vars, LoopFresh, Fresh, OwnPlan, Aborts, Of
<1>2. ASSUME NEW w \in Worker, Act(w), NEW v \in Worker
      PROVE  (pc'[v] \in InLoop => Fresh(v)') /\ (pc'[v] = "start" => OwnPlan(v)')
  <2>a. ASSUME Fresh(v), job'[v].turn = job[v].turn,
               pc[w] \in {"abort", "broken"} => job[w].turn # job[v].turn
        PROVE  Fresh(v)'
    <3>1. Aborts(job[v].turn) = {}
      BY <2>a DEF Fresh
    <3>2. \A u : u = job[v].turn => {x \in Of("aborted")' : log'[x].turn = u} = Aborts(u)
      <4>1. ASSUME NEW u, u = job[v].turn PROVE Aborts(u)' = Aborts(u)
        BY <1>2, <2>a, <4>1, AbortsStay
      <4>2. ASSUME NEW u PROVE Aborts(u)' = {x \in Of("aborted")' : log'[x].turn = u}
        BY DEF Aborts
      <4> QED
        BY <4>1, <4>2
    <3>3. {x \in Of("aborted")' : log'[x].turn = job'[v].turn} = {}
      BY <2>a, <3>1, <3>2
    <3> QED
      BY <3>3 DEF Fresh, Aborts
  <2>1. CASE v # w
    <3>1. pc'[v] = pc[v] /\ job'[v] = job[v]
      BY <1>2, <2>1, ActOthers DEF Others
    <3>2. pc[v] \in InLoop => pc[w] \notin {"abort", "broken"}
      BY <2>1 DEF GuardHeld, InTurn
    <3>3. pc[v] = "start" => OwnPlan(v)'
      <4>1. \A n \in DOMAIN log : n \in DOMAIN log' /\ log'[n] = log[n]
        <5>1. DOMAIN log = 1 .. Len(log) /\ Len(log) \in Nat
          BY DEF Typed, TypeOK
        <5> QED
          BY <1>2, <5>1, ActLog DEF AddsOne
      <4>2. pc[v] = "start" => OwnPlan(v)
        BY DEF LoopFresh
      <4> QED
        BY <3>1, <4>1, <4>2 DEF OwnPlan
    <3>4. pc[v] \in InLoop => Fresh(v)
      BY DEF LoopFresh
    <3> QED
      BY <2>a, <3>1, <3>2, <3>3, <3>4
  <2>2. CASE v = w
    <3>1. pc'[w] = "start" => OwnPlan(w)'
      BY <1>2, ToStart
    <3>2. CASE pc'[w] \in InLoop /\ Accept(w)
      BY <2>2, <3>1, <3>2, AcceptFresh
    <3>3. CASE job'[w].turn = job[w].turn /\ RunAgain(w)
      <4>1. Fresh(w) /\ pc[w] \notin {"abort", "broken"}
        BY <3>3 DEF RunAgain, MayRun, Fresh, At
      <4> QED
        BY <2>a, <2>2, <3>1, <3>3, <4>1
    <3>4. CASE job'[w].turn = job[w].turn /\ pc[w] \in InLoop
      <4>1. Fresh(w) /\ pc[w] \notin {"abort", "broken"}
        <5>1. Fresh(w)
          BY <3>4 DEF LoopFresh
        <5> QED
          BY <3>4, <5>1 DEF InLoop
      <4> QED
        BY <2>a, <2>2, <3>1, <3>4, <4>1
    <3>5. pc'[w] \in InLoop => Fresh(w)'
      BY <1>2, <2>2, <3>2, <3>3, <3>4, ToLoop
    <3> QED
      BY <2>2, <3>1, <3>5
  <2> QED
    BY <2>1, <2>2
<1> QED
  BY <1>1, <1>2, NextIsAct DEF LoopFresh

\* A new abort, start, request or answer belongs to the turn that writes it.
LEMMA AbortSticksStep ==
  ASSUME Typed, Referenced, LoopFresh, AbortSticks, [Next]_vars
  PROVE  Referenced' /\ AbortSticks'
<1>1. CASE log' = log
  BY <1>1 DEF Referenced, AbortSticks, Of
<1>2. ASSUME NEW w \in Worker, Longer, Wrote(w, Last)
      PROVE  Referenced' /\ AbortSticks'
  <2>t. DOMAIN log = 1 .. Len(log) /\ Len(log) \in Nat
    BY DEF Typed, TypeOK
  <2>l. /\ \A n \in DOMAIN log : n \in DOMAIN log' /\ log'[n] = log[n]
        /\ DOMAIN log' = DOMAIN log \cup {Len(log) + 1} /\ Len(log) + 1 \notin DOMAIN log
        /\ \A n \in DOMAIN log : n < Len(log) + 1
    BY <1>2, <2>t DEF Longer
  <2>a. Last.kind = "aborted" => Last.turn \in Of("user")
    BY <1>2 DEF Wrote, At, Typed, TurnKnown, InTurn
  <2>s. Last.kind = "start" => /\ Last.ref \in DOMAIN log /\ log[Last.ref].turn = job[w].turn
                               /\ Fresh(w)
    <3>1. Last.kind = "start" => pc[w] = "start" /\ Last.ref = job[w].ref
      BY <1>2 DEF Wrote, At
    <3>2. pc[w] = "start" => pc[w] \in InLoop
      BY DEF InLoop
    <3>3. pc[w] = "start" => OwnPlan(w) /\ Fresh(w)
      BY <3>2 DEF LoopFresh
    <3> QED
      BY <3>1, <3>3 DEF OwnPlan
  <2>r. Last.kind \in {"request", "final"} => Last.turn = job[w].turn /\ Fresh(w)
    <3>1. Last.kind \in {"request", "final"} => pc[w] \in {"request", "llm"} /\ Last.turn = job[w].turn
      BY <1>2 DEF Wrote, At
    <3>2. pc[w] \in {"request", "llm"} => pc[w] \in InLoop
      BY DEF InLoop
    <3>3. pc[w] \in InLoop => Fresh(w)
      BY DEF LoopFresh
    <3> QED
      BY <3>1, <3>2, <3>3
  <2>1. Referenced'
    BY <2>l, <2>a, <2>s DEF Referenced, Of, Last
  <2>2. AbortSticks'
    <3> SUFFICES ASSUME NEW x \in Of("aborted")', NEW n \in DOMAIN log', n > x
                 PROVE  /\ log'[n].kind \in {"request", "final"} => log'[n].turn # log'[x].turn
                        /\ log'[n].kind = "start" => log'[log'[n].ref].turn # log'[x].turn
      BY DEF AbortSticks
    <3>1. x \in Of("aborted") /\ log'[x] = log[x]
      <4>1. x \in DOMAIN log
        BY <2>t, <2>l DEF Of
      <4> QED
        BY <2>l, <4>1 DEF Of
    <3>2. CASE n \in DOMAIN log
      BY <2>l, <3>1, <3>2 DEF AbortSticks, Referenced, Of
    <3>3. CASE n = Len(log) + 1
      <4>1. Fresh(w) => log[x].turn # job[w].turn
        BY <3>1 DEF Fresh, Aborts
      <4> QED
        BY <2>l, <2>s, <2>r, <3>1, <3>3, <4>1 DEF Last
    <3> QED
      BY <2>l, <3>2, <3>3
  <2> QED
    BY <2>1, <2>2
<1> QED
  BY <1>1, <1>2, NextIsAct, ActLog, AddsOneIs DEF vars

\* Once a turn is aborted no request, answer or start of a tool of it follows,
\* whatever message arrives again and whatever crashes.
THEOREM AbortsStick == Spec => []AbortSticks
<1> DEFINE Inv == Typed /\ GuardHeld /\ Referenced /\ LoopFresh /\ AbortSticks
<1>1. Init => Inv
  BY InitTyped DEF Init, GuardHeld, Referenced, LoopFresh, AbortSticks, At, InTurn, InLoop, Of
<1>2. Inv /\ [Next]_vars => Inv'
  BY NextTyped, GuardHeldStep, LoopFreshStep, AbortSticksStep
<1> QED
  BY <1>1, <1>2, PTL DEF Spec
=============================================================================
