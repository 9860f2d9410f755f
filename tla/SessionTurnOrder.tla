-------------------------- MODULE SessionTurnOrder --------------------------
(***************************************************************************)
(* What holds as long as messages and deliveries keep their order.  The    *)
(* code finds what belongs to a turn by its place between two user         *)
(* messages, and it reads a delivery and starts it in two steps.  So one   *)
(* loop per message, no blind retry and a reply of its own need that no    *)
(* message comes again after a later one, and a reply is sent once if no   *)
(* two workers deliver at the same time.  Nothing in the code ensures      *)
(* either.                                                                 *)
(***************************************************************************)
EXTENDS SessionTurnEffects

\* The platform does not deliver a message again after another one was accepted:
\* a message that the log already has is that of the latest turn.
InOrder == \A w \in Worker : At(w, "decide") => \A u \in Of("user") : u <= job[w].turn

\* The replies of the session are delivered by one worker at a time.
OneDelivery == \A v, w \in Worker : pc[v] \in Deliver /\ pc[w] \in Deliver => v = w

-----------------------------------------------------------------------------
(* A reply is sent once *)

\* A reply has one delivery plan, and one that was sent has a started one.
PlansOnce ==
  /\ \A d \in Of("dplan") : log[d].msg = NoMsg /\ log[d].call = NoCall
  /\ \A d, e \in Of("dplan") : log[d].ref = log[e].ref => d = e
SentStarted == \A a \in Range(sent) : \E d \in About("dplan", a) : Started(d)

\* A worker starts what is not started, and sends what it has started itself.
SendPlace == \A w \in Worker :
  /\ pc[w] = "dstart" => ~ Started(job[w].ref)
  /\ pc[w] = "send" => Started(job[w].ref) /\ job[w].asst \notin Range(sent)

SentInv == /\ Typed /\ Delivering
           /\ PlansOnce /\ SentStarted /\ SendPlace /\ SentOnce

\* Only planning a delivery adds a delivery plan.
LEMMA NewPlan ==
  ASSUME Typed, NEW w \in Worker, Act(w), Longer, Last.kind = "dplan"
  PROVE  PlanDelivery(w)
<1>1. At(w, "dplan")
  <2>1. Wrote(w, Last)
    BY Older DEF Longer
  <2> QED
    BY <2>1 DEF Wrote
<1>2. log' # log
  BY LongerOf DEF Longer
<1> QED
  BY <1>1, <1>2
  DEF Act, Step, Receive, Refused, RecoverPlan, RecoverResult, Recovered, Accept, Reuse,
      StopIndeterminate, StopAborted, RunAgain, AppendAborted, AppendLocal, Request, Final, Calls,
      CallFails, AppendAttempt, Plan, Start, Execute, Reject, Result, Refuse, AbortBroken,
      ReadDelivery, StartDelivery, Send, FinishDelivery, CloseDelivery, Crash, AppendFails, At

\* A new plan is that of a reply without one.
LEMMA PlansOnceStep ==
  ASSUME Typed, PlansOnce, [Next]_vars
  PROVE  PlansOnce'
<1>1. CASE log' = log
  BY <1>1 DEF PlansOnce, Of
<1>2. ASSUME NEW w \in Worker, Act(w), Longer PROVE PlansOnce'
  <2>1. \A d \in Of("dplan") : log'[d] = log[d]
    BY <1>2, Older
  <2>2. CASE Last.kind # "dplan"
    <3>1. Of("dplan")' = Of("dplan")
      BY <1>2, <2>2, LongerOf
    <3> QED
      BY <2>1, <3>1 DEF PlansOnce
  <2>3. CASE Last.kind = "dplan"
    <3> DEFINE e == Ev("dplan", 0, job[w].asst)
    <3>1. Put(e) /\ e.kind = "dplan" /\ e.msg = NoMsg /\ e.call = NoCall
      BY <1>2, <2>3, NewPlan DEF PlanDelivery, Ev
    <3> HIDE DEF e
    <3>2. log' # log
      BY <1>2, LongerOf DEF Longer
    <3>3. Known(e) = {} /\ Last = e
      BY <3>1, <3>2, PutAny DEF Last
    <3>4. \A d \in Of("dplan") : log[d].ref # e.ref
      BY <3>1, <3>3 DEF Known, SameKey, PlansOnce, Of
    <3>5. Of("dplan")' = Of("dplan") \cup {Len(log) + 1} /\ log'[Len(log) + 1] = e
      BY <1>2, <2>3, <3>3, LongerOf DEF Last
    <3> QED
      BY <2>1, <3>1, <3>4, <3>5 DEF PlansOnce
  <2> QED
    BY <2>2, <2>3
<1> QED
  BY <1>1, <1>2, NextIsAct, Older DEF vars

\* Starts of deliveries stay, and only those that deliver add them.
Starts == {log[n].ref : n \in Of("dstart")}

LEMMA StartsGrow ==
  ASSUME Typed, NEW w \in Worker, Act(w)
  PROVE  Starts \subseteq Starts' /\ (pc[w] \notin Deliver => Starts' = Starts)
<1>1. CASE log' = log
  BY <1>1 DEF Starts, Of
<1>2. CASE Longer /\ Wrote(w, Last)
  <2>1. Last.kind = "dstart" => pc[w] \in Deliver
    BY <1>2 DEF Wrote, At, Deliver
  <2>2. Of("dstart")' = IF Last.kind = "dstart" THEN Of("dstart") \cup {Len(log) + 1}
                                                ELSE Of("dstart")
    BY <1>2, LongerOf
  <2>3. \A n \in Of("dstart") : log'[n] = log[n]
    BY Older
  <2> QED
    BY <2>1, <2>2, <2>3 DEF Starts
<1> QED
  BY <1>1, <1>2, Older

\* A delivery is started when some start names it.
LEMMA StartedIs == \A d : Started(d) <=> d \in Starts
BY DEF Started, Starts, About

\* What is sent is the reply of the worker that sends.
LEMMA SentBy ==
  ASSUME Typed, NEW w \in Worker, Act(w)
  PROVE  \/ sent' = sent
         \/ Send(w) /\ sent' = Append(sent, job[w].asst) /\ Range(sent') = Range(sent) \cup {job[w].asst}
<1>1. UNCHANGED sent \/ Send(w)
  BY DEF Act, Step, Receive, Refused, RecoverPlan, RecoverResult, Recovered, Accept, Reuse,
         StopIndeterminate, StopAborted, RunAgain, AppendAborted, AppendLocal, Request, Final, Calls,
         CallFails, AppendAttempt, Plan, Start, Execute, Reject, Result, Refuse, AbortBroken,
         PlanDelivery, ReadDelivery, StartDelivery, FinishDelivery, CloseDelivery, Crash, AppendFails
<1>2. ASSUME sent' = Append(sent, job[w].asst)
      PROVE  Range(sent') = Range(sent) \cup {job[w].asst}
  <2>1. sent \in Seq(Nat) /\ job[w].asst \in Nat
    BY DEF Typed, TypeOK, JobType
  <2>2. /\ DOMAIN sent' = DOMAIN sent \cup {Len(sent) + 1}
        /\ \A n \in DOMAIN sent : sent'[n] = sent[n]
        /\ sent'[Len(sent) + 1] = job[w].asst
    BY <1>2, <2>1
  <2> QED
    BY <2>2 DEF Range
<1> QED
  BY <1>1, <1>2 DEF Send

\* A worker comes to the start of a delivery by reading that it is not started,
\* and to the sending by starting it.
LEMMA ToSend ==
  ASSUME Typed, NEW w \in Worker, Act(w), pc'[w] \in {"dstart", "send"}
  PROVE  /\ job'[w] = job[w] /\ sent' = sent
         /\ pc'[w] = "dstart" => log' = log /\ ~ Started(job[w].ref)
         /\ pc'[w] = "send" => StartDelivery(w)
<1>1. ASSUME NEW x, Goto(w, x) PROVE x \in {"dstart", "send"}
  BY <1>1, GotoPlace
<1>2. pc[w] \in PlanKnown \/ PlanDelivery(w)
  BY ToDelivery DEF PlanKnown
<1>3. ~ PlanDelivery(w)
  BY <1>1 DEF PlanDelivery
<1>4. ~ (Crash(w) \/ AppendFails(w) \/ Send(w) \/ FinishDelivery(w) \/ CloseDelivery(w))
  <2>1. ~ Drop(w) /\ ~ Goto(w, "broken") /\ ~ Goto(w, "dresult") /\ ~ (At(w, "dresult") /\ UNCHANGED pc)
    BY <1>1 DEF Drop, At
  <2> QED
    BY <2>1 DEF Crash, AppendFails, Send, FinishDelivery, CloseDelivery
<1>5. ReadDelivery(w) \/ StartDelivery(w)
  BY <1>2, <1>3, <1>4
  DEF Act, Step, Receive, Refused, RecoverPlan, RecoverResult, Recovered, Accept, Reuse,
      StopIndeterminate, StopAborted, RunAgain, AppendAborted, AppendLocal, Request, Final, Calls,
      CallFails, AppendAttempt, Plan, Start, Execute, Reject, Result, Refuse, AbortBroken, At, PlanKnown
<1>6. CASE ReadDelivery(w)
  <2>1. ~ Drop(w) /\ ~ Goto(w, "dunknown")
    BY <1>1 DEF Drop
  <2> QED
    BY <1>6, <2>1, GotoPlace DEF ReadDelivery, Keep
<1>7. CASE StartDelivery(w)
  BY <1>7, GotoPlace DEF StartDelivery
<1> QED
  BY <1>5, <1>6, <1>7

\* While one worker delivers, no other starts or sends anything.
LEMMA SendPlaceStep ==
  ASSUME SentInv, OneDelivery, OneDelivery', [Next]_vars
  PROVE  SendPlace'
<1>t. Typed /\ Delivering /\ PlansOnce /\ SentStarted /\ SendPlace
  BY DEF SentInv
<1>1. CASE UNCHANGED vars
  BY <1>t, <1>1 DEF vars, SendPlace, Started, About, Of
<1>2. ASSUME NEW w \in Worker, Act(w), NEW v \in Worker, pc'[v] \in {"dstart", "send"}
      PROVE  /\ pc'[v] = "dstart" => job'[v].ref \notin Starts'
             /\ pc'[v] = "send" => job'[v].ref \in Starts' /\ job'[v].asst \notin Range(sent')
  <2>1. CASE v # w
    <3>1. pc'[v] = pc[v] /\ job'[v] = job[v]
      BY <1>t, <1>2, <2>1, ActOthers DEF Others
    <3>2. pc[w] \notin Deliver
      BY <1>2, <2>1, <3>1 DEF OneDelivery, Deliver
    <3>3. sent' = sent
      BY <1>t, <1>2, <3>2, SentBy DEF Send, At, Deliver
    <3>4. Starts' = Starts
      BY <1>t, <1>2, <3>2, StartsGrow
    <3> QED
      BY <1>t, <1>2, <3>1, <3>3, <3>4, StartedIs DEF SendPlace
  <2>2. CASE v = w /\ pc'[w] = "dstart"
    <3>1. job'[w] = job[w] /\ log' = log /\ ~ Started(job[w].ref)
      BY <1>t, <1>2, <2>2, ToSend
    <3>2. Starts' = Starts
      BY <3>1 DEF Starts, Of
    <3> QED
      BY <2>2, <3>1, <3>2, StartedIs
  <2>3. CASE v = w /\ pc'[w] = "send"
    <3>1. job'[w] = job[w] /\ sent' = sent /\ StartDelivery(w)
      BY <1>t, <1>2, <2>3, ToSend
    <3> DEFINE e == Ev("dstart", 0, job[w].ref)
    <3>2. /\ Put(e) /\ e.kind = "dstart" /\ e.ref = job[w].ref /\ pc[w] = "dstart"
      BY <3>1 DEF StartDelivery, Ev, At
    <3> HIDE DEF e
    <3>3. ~ Started(job[w].ref) /\ HoldsPlan(w)
      BY <1>t, <3>2 DEF SendPlace, Delivering, PlanKnown
    <3>4. Longer /\ Last = e
      <4>1. Known(e) = {}
        BY <3>2, <3>3 DEF Known, SameKey, Started, About, Of
      <4> QED
        BY <1>t, <3>2, <4>1, PutAny DEF Longer, Last
    <3>5. Len(log) + 1 \in Of("dstart")' /\ log'[Len(log) + 1].ref = job[w].ref
      <4>1. Of("dstart")' = Of("dstart") \cup {Len(log) + 1}
        BY <1>t, <3>2, <3>4, LongerOf
      <4> QED
        BY <3>2, <3>4, <4>1 DEF Last
    <3>6. job'[w].ref \in Starts'
      BY <3>1, <3>5 DEF Starts
    <3>7. job[w].asst \notin Range(sent)
      <4> SUFFICES ASSUME job[w].asst \in Range(sent) PROVE FALSE
        OBVIOUS
      <4>1. PICK d \in About("dplan", job[w].asst) : Started(d)
        BY <1>t DEF SentStarted
      <4>2. d = job[w].ref
        BY <1>t, <3>3, <4>1 DEF PlansOnce, HoldsPlan, About
      <4> QED
        BY <3>3, <4>1, <4>2
    <3> QED
      BY <2>3, <3>1, <3>6, <3>7
  <2> QED
    BY <1>2, <2>1, <2>2, <2>3
<1>3. (\A d : Started(d) <=> d \in Starts)'
  BY DEF Started, Starts, About
<1> QED
  BY <1>1, <1>2, <1>3, NextIsAct DEF SendPlace

\* A reply that is sent had not been sent, and its delivery is started.
LEMMA SentOnceStep ==
  ASSUME SentInv, [Next]_vars
  PROVE  SentStarted' /\ SentOnce'
<1>t. Typed /\ Delivering /\ PlansOnce /\ SentStarted /\ SendPlace /\ SentOnce
  BY DEF SentInv
<1>1. CASE UNCHANGED vars
  BY <1>t, <1>1 DEF vars, SentStarted, SentOnce, Started, About, Of
<1>2. ASSUME NEW w \in Worker, Act(w) PROVE SentStarted' /\ SentOnce'
  <2>1. \A a : \A d \in About("dplan", a) : d \in About("dplan", a)'
    BY <1>t, <1>2, Older DEF About
  <2>2. \A d : Started(d) => Started(d)'
    BY <1>t, <1>2, StartsGrow DEF Started, Starts, About
  <2>3. \A a \in Range(sent) : \E d \in About("dplan", a)' : Started(d)'
    BY <1>t, <2>1, <2>2 DEF SentStarted
  <2>4. CASE sent' = sent
    <3>1. SentStarted'
      BY <2>3, <2>4 DEF SentStarted
    <3> QED
      BY <1>t, <2>4, <3>1 DEF SentOnce
  <2>5. CASE Send(w) /\ sent' = Append(sent, job[w].asst)
                     /\ Range(sent') = Range(sent) \cup {job[w].asst}
    <3>1. pc[w] = "send"
      BY <2>5 DEF Send, At
    <3>2. HoldsPlan(w) /\ Started(job[w].ref) /\ job[w].asst \notin Range(sent)
      BY <1>t, <3>1 DEF Delivering, SendPlace, PlanKnown
    <3>3. job[w].ref \in About("dplan", job[w].asst)
      BY <3>2 DEF HoldsPlan, About
    <3>4. SentStarted'
      BY <2>1, <2>2, <2>3, <2>5, <3>2, <3>3 DEF SentStarted
    <3>5. SentOnce'
      <4>1. sent \in Seq(Nat) /\ job[w].asst \in Nat
        BY <1>t DEF Typed, TypeOK, JobType
      <4>2. /\ DOMAIN sent' = DOMAIN sent \cup {Len(sent) + 1}
            /\ \A n \in DOMAIN sent : sent'[n] = sent[n] /\ sent[n] # job[w].asst
            /\ sent'[Len(sent) + 1] = job[w].asst
        BY <2>5, <3>2, <4>1 DEF Range
      <4> QED
        BY <1>t, <4>2 DEF SentOnce
    <3> QED
      BY <3>4, <3>5
  <2> QED
    BY <1>t, <1>2, <2>4, <2>5, SentBy
<1> QED
  BY <1>1, <1>2, NextIsAct

\* As long as no two workers deliver at the same time, no reply reaches the user
\* twice, whatever crashes or fails between its start, its sending and its
\* result, and however often its message arrives.
THEOREM RepliesSentOnce == Spec /\ []OneDelivery => []SentOnce
<1>1. Init => SentInv
  BY InitTyped
  DEF Init, SentInv, Delivering, PlansOnce, SentStarted, SendPlace, SentOnce, PlanKnown, Range, Of
<1>2. SentInv /\ OneDelivery /\ OneDelivery' /\ [Next]_vars => SentInv'
  BY NextTyped, DeliveringStep, PlansOnceStep, SendPlaceStep, SentOnceStep DEF SentInv
<1>3. SentInv => SentOnce
  BY DEF SentInv
<1> QED
  BY <1>1, <1>2, <1>3, PTL DEF Spec

\* One worker never sends a reply twice.
COROLLARY OneWorkerSendsOnce ==
  ASSUME \A v, w \in Worker : v = w
  PROVE  Spec => []SentOnce
<1>1. OneDelivery
  BY DEF OneDelivery
<1> QED
  BY <1>1, RepliesSentOnce, PTL

-----------------------------------------------------------------------------
(* What belongs to a turn *)

IsLast(u)  == u \in Of("user") /\ \A v \in Of("user") : v <= u
IsIn(n, u) == u \in Of("user") /\ n \in Span(u)

\* Answers and results are found in the turn they belong to, and what recovery
\* has to close is of the last turn.
InTheirTurns ==
  /\ \A a \in Of("final") : IsIn(a, log[a].turn)
  /\ \A n \in Of("result") : log[n].ref \in Of("plan") /\ IsIn(n, log[log[n].ref].turn)
  /\ \A n \in Of("start") : log[n].ref \in Of("plan")
OpenLast ==
  /\ \A p \in Open : IsLast(log[p].turn)
  /\ \A a \in Unplanned : \A u \in Of("user") : u < a

\* A turn that may go on is the last one and has no answer and no uncertain
\* result yet.  A worker in the loop runs such a turn; the plan it holds is of it.
GoesOn(u) ==
  /\ IsLast(u)
  /\ \A a \in Of("final") : log[a].turn # u
  /\ \A n \in Of("result") : log[n].note = "unknown" => log[log[n].ref].turn # u
HoldsCall(w) ==
  /\ job[w].ref \in Of("plan") /\ log[job[w].ref].turn = job[w].turn
  /\ pc[w] = "ran" => job[w].why \in {"succeeded", "failed"}
Looping == \A w \in Worker :
  /\ pc[w] \in InLoop => GoesOn(job[w].turn)
  /\ pc[w] \in {"start", "exec", "ran", "refuse"} => HoldsCall(w)

OrderInv == /\ Typed /\ GuardHeld /\ CleanAccept
            /\ InTheirTurns /\ OpenLast /\ Looping /\ OneLoop /\ NoBlindRetry

\* User events are added at the end.
LEMMA LongerUsers ==
  ASSUME Typed, Longer
  PROVE  /\ DOMAIN log = 1 .. Len(log) /\ Len(log) \in Nat
         /\ DOMAIN log' = DOMAIN log \cup {Len(log) + 1}
         /\ Of("user") \subseteq DOMAIN log /\ Of("user") \subseteq Of("user")'
         /\ \A k \in Of("user")' : k \in Of("user") \/ k = Len(log) + 1
         /\ Last.kind # "user" => Of("user")' = Of("user")
<1>1. DOMAIN log = 1 .. Len(log) /\ Len(log) \in Nat
  BY DEF Typed, TypeOK
<1>2. DOMAIN log' = DOMAIN log \cup {Len(log) + 1}
  BY <1>1 DEF Longer
<1>3. Of("user")' = IF Last.kind = "user" THEN Of("user") \cup {Len(log) + 1} ELSE Of("user")
  BY LongerOf
<1> QED
  BY <1>1, <1>2, <1>3 DEF Of

\* The same after a step.
LaterLast(u)  == u \in Of("user")' /\ \A v \in Of("user")' : v <= u
LaterIn(n, u) == /\ u \in Of("user")' /\ n \in DOMAIN log' /\ n > u
                 /\ ~ \E k \in Of("user")' : u < k /\ k <= n

\* Events keep their turn when the log grows.
LEMMA StaysIn ==
  ASSUME Typed, Longer, NEW n \in DOMAIN log, NEW u, IsIn(n, u)
  PROVE  LaterIn(n, u)
<1>1. /\ DOMAIN log = 1 .. Len(log) /\ Len(log) \in Nat
      /\ DOMAIN log' = DOMAIN log \cup {Len(log) + 1}
      /\ \A k \in Of("user")' : k \in Of("user") \/ k = Len(log) + 1
      /\ Of("user") \subseteq Of("user")'
  BY LongerUsers
<1>2. n \in DOMAIN log' /\ n > u /\ ~ \E k \in Of("user") : u < k /\ k <= n
  BY <1>1 DEF IsIn, Span
<1>3. ~ \E k \in Of("user")' : u < k /\ k <= n
  BY <1>1, <1>2
<1> QED
  BY <1>1, <1>2, <1>3 DEF LaterIn, IsIn

\* What is added in the last turn belongs to it.
LEMMA AddedIn ==
  ASSUME Typed, Longer, Last.kind # "user", NEW u, IsLast(u), NEW n, n = Len(log) + 1
  PROVE  LaterIn(n, u) /\ LaterLast(u)
<1>1. /\ DOMAIN log = 1 .. Len(log) /\ Len(log) \in Nat
      /\ DOMAIN log' = DOMAIN log \cup {Len(log) + 1}
      /\ Of("user")' = Of("user") /\ Of("user") \subseteq 1 .. Len(log)
  BY LongerUsers
<1>2. u \in Of("user") /\ \A k \in Of("user") : k <= u
  BY DEF IsLast
<1>3. n > u /\ ~ \E k \in Of("user") : u < k
  BY <1>1, <1>2
<1> QED
  BY <1>1, <1>2, <1>3 DEF LaterIn, LaterLast

\* The turn of a call that has no plan is the last one.
LEMMA LastOfAnswer ==
  ASSUME Typed, OpenLast, NEW a \in Unplanned
  PROVE  IsLast(TurnAt(a))
<1> DEFINE U == {u \in Of("user") : u < a}
<1>1. a \in Of("calls") /\ Of("calls") \subseteq DOMAIN log /\ DOMAIN log = 1 .. Len(log)
      /\ Len(log) \in Nat /\ Of("user") \subseteq Nat
  BY OfType DEF Unplanned, Of, Typed, TypeOK
<1>2. U = Of("user")
  BY DEF OpenLast
<1>3. U \subseteq 0 .. a /\ U # {} /\ a \in Nat
  <2>1. \A u \in U : u \in 0 .. a
    BY <1>1
  <2> QED
    BY <1>1, <2>1 DEF Typed, CallsInTurn
<1>4. Most(U) \in U /\ \A k \in U : k <= Most(U)
  BY <1>3, MostIn
<1> QED
  BY <1>2, <1>4 DEF TurnAt, IsLast

\* What recovery may have to close besides what it had to close before.
LEMMA OpenGrows ==
  ASSUME Typed, Longer
  PROVE  /\ \A p \in Open' : p \in Open \/ (p = Len(log) + 1 /\ Last.kind = "plan")
         /\ \A a \in Unplanned' : a \in Unplanned \/ (a = Len(log) + 1 /\ Last.kind = "calls")
<1>1. \A k, r : About(k, r) \subseteq About(k, r)'
  BY LongerOf
<1>2. /\ \A p \in Of("plan")' : p \in Of("plan") \/ (p = Len(log) + 1 /\ Last.kind = "plan")
      /\ \A a \in Of("calls")' : a \in Of("calls") \/ (a = Len(log) + 1 /\ Last.kind = "calls")
  BY LongerOf
<1>3. \A p \in Of("plan") : p \in Open' => p \in Open
  <2> TAKE p \in Of("plan")
  <2>1. p \in Open' <=> p \in Of("plan")' /\ About("result", p)' = {}
    BY DEF Open
  <2> QED
    BY <1>1, <2>1 DEF Open
<1>4. \A a \in Of("calls") : a \in Unplanned' => a \in Unplanned
  <2> TAKE a \in Of("calls")
  <2>1. a \in Unplanned' <=> a \in Of("calls")' /\ Missing(a)' # {}
    BY DEF Unplanned
  <2>2. log'[a] = log[a] /\ \A p \in About("plan", a) : log'[p] = log[p]
    BY DEF Longer, About, Of
  <2>3. Missing(a)' \subseteq Missing(a)
    BY <1>1, <2>2 DEF Missing
  <2> QED
    BY <2>1, <2>3 DEF Unplanned
<1>5. Open' \subseteq Of("plan")' /\ Unplanned' \subseteq Of("calls")'
  BY DEF Open, Unplanned
<1> QED
  BY <1>2, <1>3, <1>4, <1>5

\* An event is written into the last turn: by the worker in the loop, or by
\* recovery, which closes the last turn.
LEMMA WrittenIn ==
  ASSUME OrderInv, NEW w \in Worker, Wrote(w, Last)
  PROVE  /\ Last.kind = "final" => pc[w] = "llm" /\ IsLast(Last.turn) /\ Last.turn = job[w].turn
         /\ Last.kind = "plan" => IsLast(Last.turn)
         /\ Last.kind = "start" =>
              /\ pc[w] = "start" /\ Last.ref \in Of("plan") /\ log[Last.ref].turn = job[w].turn
         /\ Last.kind = "result" =>
              /\ Last.ref \in Of("plan") /\ IsLast(log[Last.ref].turn)
              /\ pc[w] \in InLoop => Last.note # "unknown"
<1>1. Typed /\ OpenLast /\ Looping
  BY DEF OrderInv
<1>2. pc[w] \in {"llm", "tool", "start", "ran", "refuse"} => IsLast(job[w].turn)
  <2>1. pc[w] \in {"llm", "tool", "start", "ran", "refuse"} => pc[w] \in InLoop
    BY DEF InLoop
  <2> QED
    BY <1>1, <2>1 DEF Looping, GoesOn
<1>3. pc[w] \in {"start", "ran", "refuse"} =>
        /\ job[w].ref \in Of("plan") /\ log[job[w].ref].turn = job[w].turn
        /\ pc[w] = "ran" => job[w].why # "unknown"
  BY <1>1 DEF Looping, HoldsCall
<1>4. Last.kind = "final" => pc[w] = "llm" /\ Last.turn = job[w].turn
  BY DEF Wrote, At
<1>5. Last.kind = "plan" => IsLast(Last.turn)
  <2>1. Last.kind = "plan" => \/ Last.turn = TurnAt(Last.ref) /\ Last.ref \in Unplanned
                              \/ pc[w] = "tool" /\ Last.turn = job[w].turn
    BY DEF Wrote, At
  <2> QED
    BY <1>1, <1>2, <2>1, LastOfAnswer
<1>6. Last.kind = "start" => pc[w] = "start" /\ Last.ref = job[w].ref
  BY DEF Wrote, At
<1>7. ASSUME Last.kind = "result"
      PROVE  \/ pc[w] = "recover" /\ Last.ref \in Open
             \/ pc[w] = "ran" /\ Last.ref = job[w].ref /\ Last.note = job[w].why
             \/ pc[w] = "refuse" /\ Last.ref = job[w].ref /\ Last.note = "interrupted"
  BY <1>7 DEF Wrote, At
<1>8. \A p \in Open : p \in Of("plan") /\ IsLast(log[p].turn)
  BY <1>1 DEF OpenLast, Open
<1> QED
  BY <1>2, <1>3, <1>4, <1>5, <1>6, <1>7, <1>8 DEF InLoop

\* New events are of the last turn, and recovery has to close nothing else.
LEMMA InTurnsStep ==
  ASSUME OrderInv, [Next]_vars
  PROVE  InTheirTurns' /\ OpenLast'
<1>t. Typed /\ CleanAccept /\ InTheirTurns /\ OpenLast
  BY DEF OrderInv
<1>1. CASE log' = log
  BY <1>t, <1>1 DEF InTheirTurns, OpenLast, IsIn, IsLast, Span, Open, Unplanned, Missing, About, Of
<1>2. ASSUME NEW w \in Worker, Act(w), Longer PROVE InTheirTurns' /\ OpenLast'
  <2>1. Wrote(w, Last)
    BY <1>t, <1>2, Older, LongerOf DEF Longer
  <2>2. /\ \A k : \A n \in Of(k) : log'[n] = log[n] /\ n \in Of(k)' /\ n \in DOMAIN log
        /\ \A k : \A n \in Of(k)' : n \in Of(k) \/ (n = Len(log) + 1 /\ Last.kind = k)
    BY <1>t, <1>2, Older, LongerOf
  <2>3. \A n \in DOMAIN log : \A u : IsIn(n, u) => LaterIn(n, u)
    BY <1>t, <1>2, StaysIn
  <2>4. \A u : Last.kind # "user" /\ IsLast(u) => LaterIn(Len(log) + 1, u) /\ LaterLast(u)
    BY <1>t, <1>2, AddedIn
  <2>5. \A a \in Of("final")' : LaterIn(a, log'[a].turn)
    <3> TAKE a \in Of("final")'
    <3>1. CASE a \in Of("final")
      BY <1>t, <2>2, <2>3, <3>1 DEF InTheirTurns
    <3>2. CASE a = Len(log) + 1 /\ Last.kind = "final"
      BY <2>1, <2>4, <3>2, WrittenIn DEF Last
    <3> QED
      BY <2>2, <3>1, <3>2
  <2>6. \A n \in Of("result")' : /\ log'[n].ref \in Of("plan")'
                                 /\ LaterIn(n, log'[log'[n].ref].turn)
    <3> TAKE n \in Of("result")'
    <3>1. CASE n \in Of("result")
      <4>1. log[n].ref \in Of("plan") /\ IsIn(n, log[log[n].ref].turn)
        BY <1>t, <3>1 DEF InTheirTurns
      <4> QED
        BY <2>2, <2>3, <3>1, <4>1
    <3>2. CASE n = Len(log) + 1 /\ Last.kind = "result"
      <4>1. Last.ref \in Of("plan") /\ IsLast(log[Last.ref].turn)
        BY <2>1, <3>2, WrittenIn
      <4> QED
        BY <2>2, <2>4, <3>2, <4>1 DEF Last
    <3> QED
      BY <2>2, <3>1, <3>2
  <2>7. \A n \in Of("start")' : log'[n].ref \in Of("plan")'
    <3> TAKE n \in Of("start")'
    <3>1. CASE n \in Of("start")
      BY <1>t, <2>2, <3>1 DEF InTheirTurns
    <3>2. CASE n = Len(log) + 1 /\ Last.kind = "start"
      BY <2>1, <2>2, <3>2, WrittenIn DEF Last
    <3> QED
      BY <2>2, <3>1, <3>2
  <2>8. \A p \in Open' : LaterLast(log'[p].turn)
    <3> TAKE p \in Open'
    <3>1. Last.kind # "user" \/ Open = {}
      BY <1>t, <2>1 DEF Wrote, CleanAccept
    <3>2. CASE p \in Open
      BY <1>t, <2>2, <2>4, <3>1, <3>2 DEF OpenLast, Open
    <3>3. CASE p = Len(log) + 1 /\ Last.kind = "plan"
      BY <2>1, <2>4, <3>3, WrittenIn DEF Last
    <3> QED
      BY <1>t, <1>2, <3>2, <3>3, OpenGrows
  <2>9. \A a \in Unplanned' : \A u \in Of("user")' : u < a
    <3> TAKE a \in Unplanned'
    <3>1. Last.kind # "user" \/ Unplanned = {}
      BY <1>t, <2>1 DEF Wrote, CleanAccept
    <3>2. /\ Last.kind # "user" => Of("user")' = Of("user")
          /\ Of("user") \subseteq 1 .. Len(log) /\ Len(log) \in Nat
      BY <1>t, <1>2, LongerUsers
    <3>3. CASE a \in Unplanned
      BY <1>t, <3>1, <3>2, <3>3 DEF OpenLast
    <3>4. CASE a = Len(log) + 1 /\ Last.kind = "calls"
      BY <3>2, <3>4
    <3> QED
      BY <1>t, <1>2, <3>3, <3>4, OpenGrows
  <2>10. InTheirTurns'
    BY <2>5, <2>6, <2>7 DEF InTheirTurns, IsIn, LaterIn, Span
  <2>11. OpenLast'
    BY <2>8, <2>9 DEF OpenLast, IsLast, LaterLast
  <2> QED
    BY <2>10, <2>11
<1> QED
  BY <1>t, <1>1, <1>2, NextIsAct, Older DEF vars

-----------------------------------------------------------------------------
(* A turn that may go on is run by one worker only *)

LaterOn(u) ==
  /\ LaterLast(u)
  /\ \A a \in Of("final")' : log'[a].turn # u
  /\ \A n \in Of("result")' : log'[n].note = "unknown" => log'[log'[n].ref].turn # u

\* LaterOn is what GoesOn says after the step.
LEMMA LaterOnIs ==
  ASSUME NEW w \in Worker, NEW u, u = job'[w].turn, LaterOn(u)
  PROVE  GoesOn(job[w].turn)'
BY DEF GoesOn, IsLast, LaterOn, LaterLast

\* A turn goes on as long as no user event, no answer of this turn and no
\* uncertain result is added.
LEMMA OnStays ==
  ASSUME OrderInv, NEW w \in Worker, Act(w), NEW u, GoesOn(u),
         \/ log' = log
         \/ /\ Longer /\ Last.kind # "user" /\ Last.kind # "final"
            /\ Last.kind = "result" => Last.note # "unknown"
  PROVE  LaterOn(u)
<1>t. Typed /\ InTheirTurns
  BY DEF OrderInv
<1>1. CASE log' = log
  BY <1>1 DEF LaterOn, LaterLast, GoesOn, IsLast, Of
<1>2. CASE /\ Longer /\ Last.kind # "user" /\ Last.kind # "final"
           /\ Last.kind = "result" => Last.note # "unknown"
  <2>1. LaterLast(u)
    BY <1>t, <1>2, AddedIn DEF GoesOn
  <2>2. /\ \A k : \A n \in Of(k) : log'[n] = log[n]
        /\ \A k : \A n \in Of(k)' : n \in Of(k) \/ (n = Len(log) + 1 /\ Last.kind = k)
    BY <1>t, <1>2, Older, LongerOf
  <2>3. \A a \in Of("final")' : log'[a].turn # u
    BY <1>2, <2>2 DEF GoesOn
  <2>4. ASSUME NEW n \in Of("result")', log'[n].note = "unknown"
        PROVE  log'[log'[n].ref].turn # u
    <3>1. n \in Of("result")
      BY <1>2, <2>2, <2>4 DEF Last
    <3>2. log[n].ref \in Of("plan") /\ log'[n] = log[n]
      BY <1>t, <2>2, <3>1 DEF InTheirTurns
    <3> QED
      BY <2>2, <2>4, <3>1, <3>2 DEF GoesOn
  <2> QED
    BY <2>1, <2>3, <2>4 DEF LaterOn
<1> QED
  BY <1>1, <1>2

\* A message that is new to the log begins a turn that goes on.
LEMMA OnBegins ==
  ASSUME OrderInv, NEW w \in Worker, Accept(w), pc'[w] \in InLoop
  PROVE  GoesOn(job[w].turn)'
<1> DEFINE e == [Ev("user", 0, 0) EXCEPT !.msg = job[w].msg]
           l == Len(log) + 1
<1>t. Typed /\ InTheirTurns
  BY DEF OrderInv
<1>1. /\ Put(e) /\ e.kind = "user" /\ Set(w, [job[w] EXCEPT !.turn = EventAt(e)])
      /\ Goto(w, IF Known(e) = {} THEN "request" ELSE "decide")
  BY DEF Accept, Ev
<1> HIDE DEF e
<1>2. Known(e) = {}
  <2>1. pc'[w] = IF Known(e) = {} THEN "request" ELSE "decide"
    BY <1>t, <1>1, GotoPlace
  <2> QED
    BY <2>1 DEF InLoop
<1>3. job'[w].turn = l
  <2>1. job[w] \in JobType
    BY <1>t DEF Typed, TypeOK
  <2> QED
    BY <1>t, <1>1, <1>2, <2>1, SetJob DEF JobType, EventAt
<1>4. Longer /\ Last = e
  BY <1>t, <1>1, <1>2, PutAny DEF Longer, Last
<1>5. /\ DOMAIN log = 1 .. Len(log) /\ Len(log) \in Nat
      /\ Of("user")' = Of("user") \cup {l} /\ Of("user") \subseteq 1 .. Len(log)
      /\ Of("final")' = Of("final") /\ Of("result")' = Of("result")
  BY <1>t, <1>1, <1>4, LongerOf
<1>6. \A k : \A n \in Of(k) : log'[n] = log[n]
  BY <1>4 DEF Longer, Of
<1>7. LaterLast(l)
  BY <1>5 DEF LaterLast
<1>8. \A a \in Of("final")' : log'[a].turn # l
  BY <1>t, <1>5, <1>6 DEF InTheirTurns, IsIn
<1>9. \A n \in Of("result")' : log'[log'[n].ref].turn # l
  BY <1>t, <1>5, <1>6 DEF InTheirTurns, IsIn
<1> QED
  BY <1>3, <1>7, <1>8, <1>9, LaterOnIs DEF LaterOn

\* A turn that may run again has no answer and no uncertain result, and it is the
\* last one if messages keep their order.
LEMMA OnAgain ==
  ASSUME OrderInv, InOrder, NEW w \in Worker, RunAgain(w)
  PROVE  GoesOn(job[w].turn)
<1>t. Typed /\ InTheirTurns
  BY DEF OrderInv
<1>1. At(w, "decide") /\ Replies(job[w].turn) = {} /\ ~ Indeterminate(job[w].turn)
  BY DEF RunAgain, MayRun
<1>2. IsLast(job[w].turn)
  BY <1>t, <1>1 DEF IsLast, InOrder, Typed, TurnKnown, At, InTurn, InLoop
<1>3. \A a \in Of("final") : log[a].turn # job[w].turn
  BY <1>t, <1>1 DEF InTheirTurns, IsIn, Replies
<1>4. \A n \in Of("result") : log[n].note = "unknown" => log[log[n].ref].turn # job[w].turn
  BY <1>t, <1>1 DEF InTheirTurns, IsIn, Indeterminate
<1> QED
  BY <1>2, <1>3, <1>4 DEF GoesOn

\* The loop is left with its answer.
LEMMA FinalLeaves ==
  ASSUME Typed, NEW w \in Worker, Act(w), Longer, Last.kind = "final"
  PROVE  pc'[w] = "dplan"
<1>1. At(w, "llm") /\ log' # log
  BY Older DEF Wrote, Longer
<1>2. Final(w) \/ \E b \in Batches : Calls(w, b)
  BY <1>1
  DEF Act, Step, Receive, Refused, RecoverPlan, RecoverResult, Recovered, Accept, Reuse,
      StopIndeterminate, StopAborted, RunAgain, AppendAborted, AppendLocal, Request,
      CallFails, AppendAttempt, Plan, Start, Execute, Reject, Result, Refuse, AbortBroken,
      PlanDelivery, ReadDelivery, StartDelivery, Send, FinishDelivery, CloseDelivery, Crash,
      AppendFails, At
<1>3. ASSUME NEW b \in Batches, Calls(w, b) PROVE FALSE
  <2> DEFINE e == [Ev("calls", job[w].turn, job[w].ref) EXCEPT !.batch = b]
  <2>1. Put(e) /\ e.kind = "calls"
    BY <1>3 DEF Calls, Ev
  <2> HIDE DEF e
  <2>2. Last = e
    BY <1>1, <2>1, PutAny DEF Last
  <2> QED
    BY <2>1, <2>2
<1> QED
  BY <1>2, <1>3, GotoPlace DEF Final, EndTurn

\* Whoever is inside run keeps its turn going on until it answers.
LEMMA LoopKeeps ==
  ASSUME OrderInv, NEW w \in Worker, Act(w), NEW v \in Worker,
         pc[v] \in InLoop, pc'[v] \in InLoop, job'[v].turn = job[v].turn
  PROVE  GoesOn(job[v].turn)'
<1>t. Typed /\ GuardHeld /\ Looping
  BY DEF OrderInv
<1>1. log' = log \/ (Longer /\ Wrote(w, Last))
  BY <1>t, Older
<1>2. ASSUME v # w, Wrote(w, Last) PROVE Last.kind \in {"dplan", "dstart", "dresult"}
  <2>1. pc[w] \notin InTurn
    BY <1>t, <1>2, TurnAssumption DEF GuardHeld, InTurn
  <2> QED
    BY <1>2, <2>1 DEF Wrote, At, InTurn, InLoop
<1>3. ASSUME v = w, Longer, Wrote(w, Last)
      PROVE  /\ Last.kind # "user" /\ Last.kind # "final"
             /\ Last.kind = "result" => Last.note # "unknown"
  <2>1. Last.kind # "user"
    BY <1>3 DEF Wrote, At, InLoop
  <2>2. Last.kind # "final"
    BY <1>t, <1>3, FinalLeaves DEF InLoop
  <2> QED
    BY <1>3, <2>1, <2>2, WrittenIn
<1>4. GoesOn(job[v].turn)
  BY <1>t DEF Looping
<1>5. \A u : GoesOn(u) => LaterOn(u)
  BY <1>1, <1>2, <1>3, OnStays
<1> QED
  BY <1>4, <1>5, LaterOnIs

\* A worker comes to start or refuse a call with the plan it has just written or
\* found, which is of its turn.
LEMMA PlansOwn ==
  ASSUME Typed, NEW w \in Worker, Plan(w)
  PROVE  /\ job'[w].ref \in Of("plan")' /\ log'[job'[w].ref].turn = job'[w].turn
         /\ pc'[w] \in {"start", "refuse"}
<1> DEFINE e == [Ev("plan", job[w].turn, job[w].asst) EXCEPT !.call = job[w].batch[job[w].nth]]
<1>1. Put(e) /\ Set(w, [job[w] EXCEPT !.ref = EventAt(e)]) /\ e.kind = "plan" /\ e.turn = job[w].turn
  BY DEF Plan, Ev
<1>2. job[w] \in JobType
  BY DEF Typed, TypeOK
<1> HIDE DEF e
<1>3. EventAt(e) \in Of("plan")' /\ log'[EventAt(e)].turn = job[w].turn
  <2>1. CASE Known(e) = {}
    <3>1. Longer /\ Last = e /\ EventAt(e) = Len(log) + 1
      BY <1>1, <2>1, PutAny DEF Longer, Last
    <3>2. Of("plan")' = Of("plan") \cup {Len(log) + 1}
      BY <1>1, <3>1, LongerOf
    <3> QED
      BY <1>1, <3>1, <3>2 DEF Last
  <2>2. CASE Known(e) # {}
    BY <1>1, <2>2, PutAny DEF Known, SameKey, Of
  <2> QED
    BY <2>1, <2>2
<1>4. job'[w].ref = EventAt(e) /\ job'[w].turn = job[w].turn
  BY <1>1, <1>2, SetJob DEF JobType
<1> QED
  BY <1>3, <1>4, GotoPlace DEF Plan

\* The call at hand stays one of the turn.
LEMMA CallHeld ==
  ASSUME OrderInv, NEW w \in Worker, Act(w), NEW v \in Worker,
         pc'[v] \in {"start", "exec", "ran", "refuse"}
  PROVE  HoldsCall(v)'
<1>t. Typed /\ Looping
  BY DEF OrderInv
<1>o. \A n \in Of("plan") : n \in Of("plan")' /\ log'[n] = log[n]
  BY <1>t, Older
<1>1. CASE v # w
  <2>1. pc'[v] = pc[v] /\ job'[v] = job[v]
    BY <1>t, <1>1, ActOthers DEF Others
  <2>2. HoldsCall(v)
    BY <1>t, <2>1 DEF Looping
  <2> QED
    BY <1>o, <2>1, <2>2 DEF HoldsCall
<1>2. CASE v = w
  <2>1. ASSUME NEW x, Goto(w, x) PROVE x = pc'[w]
    BY <1>t, <2>1, GotoPlace
  <2>2. Plan(w) \/ Start(w) \/ Execute(w) \/ Reject(w)
    <3>1. ~ (Result(w) \/ Refuse(w) \/ \E b \in Batches : Calls(w, b))
      BY <1>2, <2>1 DEF Result, Refuse, Calls, Continue, Abandon
    <3> QED
      BY <1>t, <1>2, <3>1, ToCall DEF AtCall
  <2>3. CASE Plan(w)
    <3>1. pc'[w] # "ran"
      BY <1>t, <2>3, PlansOwn
    <3> QED
      BY <1>t, <1>2, <2>3, <3>1, PlansOwn DEF HoldsCall
  <2>4. CASE Start(w)
    <3>1. HoldsCall(w) /\ job' = job /\ pc'[w] # "ran"
      BY <1>t, <2>1, <2>4 DEF Start, Looping, At
    <3> QED
      BY <1>o, <1>2, <3>1 DEF HoldsCall
  <2>5. CASE Execute(w) \/ Reject(w)
    <3>1. HoldsCall(w) /\ job[w] \in JobType
      BY <1>t, <2>5 DEF Execute, Reject, Looping, At, Typed, TypeOK
    <3>2. /\ job'[w].ref = job[w].ref /\ job'[w].turn = job[w].turn
          /\ job'[w].why \in {"succeeded", "failed"}
      BY <1>t, <2>5, <3>1, SetJob DEF Execute, Reject, JobType
    <3> QED
      BY <1>o, <1>2, <3>1, <3>2 DEF HoldsCall
  <2> QED
    BY <2>2, <2>3, <2>4, <2>5
<1> QED
  BY <1>1, <1>2

\* Only one worker is inside run, and it enters the loop with a turn that goes on.
LEMMA LoopingStep ==
  ASSUME OrderInv, InOrder, [Next]_vars
  PROVE  Looping'
<1>t. Typed /\ Looping
  BY DEF OrderInv
<1>1. CASE UNCHANGED vars
  BY <1>t, <1>1 DEF vars, Looping, GoesOn, HoldsCall, IsLast, Of
<1>2. ASSUME NEW w \in Worker, Act(w), NEW v \in Worker, pc'[v] \in InLoop
      PROVE  GoesOn(job[v].turn)'
  <2>1. CASE v # w
    <3>1. pc'[v] = pc[v] /\ job'[v] = job[v]
      BY <1>t, <1>2, <2>1, ActOthers DEF Others
    <3> QED
      BY <1>2, <3>1, LoopKeeps
  <2>2. CASE v = w /\ Accept(w)
    BY <1>2, <2>2, OnBegins
  <2>3. CASE v = w /\ job'[w].turn = job[w].turn /\ RunAgain(w)
    <3>1. GoesOn(job[w].turn) /\ log' = log
      BY <2>3, OnAgain DEF RunAgain
    <3>2. \A u : GoesOn(u) => LaterOn(u)
      BY <1>2, <3>1, OnStays
    <3> QED
      BY <2>3, <3>1, <3>2, LaterOnIs
  <2>4. CASE v = w /\ job'[w].turn = job[w].turn /\ pc[w] \in InLoop
    BY <1>2, <2>4, LoopKeeps
  <2> QED
    BY <1>t, <1>2, <2>1, <2>2, <2>3, <2>4, ToLoop
<1> QED
  BY <1>1, <1>2, NextIsAct, CallHeld DEF Looping

\* The answer of a turn that goes on is its first, and a call that is started
\* belongs to a turn that goes on.
LEMMA OnceStep ==
  ASSUME OrderInv, [Next]_vars
  PROVE  OneLoop' /\ NoBlindRetry'
<1>t. Typed /\ InTheirTurns /\ Looping /\ OneLoop /\ NoBlindRetry
  BY DEF OrderInv
<1>1. CASE log' = log
  BY <1>t, <1>1 DEF OneLoop, NoBlindRetry, Of
<1>2. ASSUME NEW w \in Worker, Act(w), Longer, Wrote(w, Last) PROVE OneLoop' /\ NoBlindRetry'
  <2>1. /\ \A k : \A n \in Of(k) : log'[n] = log[n] /\ n \in 1 .. Len(log)
        /\ \A k : \A n \in Of(k)' : n \in Of(k) \/ (n = Len(log) + 1 /\ Last.kind = k)
        /\ Len(log) \in Nat
    BY <1>t, <1>2, Older, LongerOf
  <2>2. pc[w] \in InLoop => GoesOn(job[w].turn)
    BY <1>t DEF Looping
  <2>3. OneLoop'
    <3>1. Last.kind = "final" => \A a \in Of("final") : log[a].turn # Last.turn
      BY <1>2, <2>2, WrittenIn DEF GoesOn, InLoop
    <3> QED
      BY <1>t, <2>1, <3>1 DEF OneLoop, Last
  <2>4. NoBlindRetry'
    <3>1. ASSUME NEW r \in Of("result")', log'[r].note = "unknown", NEW s \in Of("start")', s > r
          PROVE  log'[log'[s].ref].turn # log'[log'[r].ref].turn
      <4>1. r \in Of("result") /\ log[r].note = "unknown"
        <5>1. r # Len(log) + 1
          BY <2>1, <3>1
        <5> QED
          BY <2>1, <3>1, <5>1
      <4>2. log[r].ref \in Of("plan")
        BY <1>t, <4>1 DEF InTheirTurns
      <4>3. CASE s \in Of("start")
        <5>1. log[s].ref \in Of("plan")
          BY <1>t, <4>3 DEF InTheirTurns
        <5> QED
          BY <1>t, <2>1, <3>1, <4>1, <4>2, <4>3, <5>1 DEF NoBlindRetry
      <4>4. CASE s = Len(log) + 1 /\ Last.kind = "start"
        <5>1. /\ pc[w] \in InLoop /\ Last.ref \in Of("plan")
              /\ log[Last.ref].turn = job[w].turn
          BY <1>2, <4>4, WrittenIn DEF InLoop
        <5>2. log[log[r].ref].turn # job[w].turn
          BY <2>2, <4>1, <5>1 DEF GoesOn
        <5> QED
          BY <2>1, <4>1, <4>2, <4>4, <5>1, <5>2 DEF Last
      <4> QED
        BY <2>1, <4>3, <4>4
    <3> QED
      BY <3>1 DEF NoBlindRetry
  <2> QED
    BY <2>3, <2>4
<1> QED
  BY <1>t, <1>1, <1>2, NextIsAct, Older DEF vars

\* The invariant of both theorems.
LEMMA OrderKept == Spec /\ []InOrder => []OrderInv
<1>1. Init => OrderInv
  BY InitTyped
  DEF Init, OrderInv, GuardHeld, CleanAccept, InTheirTurns, OpenLast, Looping, OneLoop, NoBlindRetry,
      Open, Unplanned, At, InTurn, InLoop, Of
<1>2. OrderInv /\ InOrder /\ [Next]_vars => OrderInv'
  BY NextTyped, GuardHeldStep, CleanAcceptStep, InTurnsStep, LoopingStep, OnceStep DEF OrderInv
<1> QED
  BY <1>1, <1>2, PTL DEF Spec

\* As long as no message comes again after a later one was accepted, a message
\* gets one completed agent loop, however often it arrives and whatever crashes.
THEOREM OneLoopInOrder == Spec /\ []InOrder => []OneLoop
<1>1. OrderInv => OneLoop
  BY DEF OrderInv
<1> QED
  BY <1>1, OrderKept, PTL

\* As long as no message comes again after a later one was accepted, a turn in
\* which some call ended unknown starts no tool any more.
THEOREM NoBlindRetryInOrder == Spec /\ []InOrder => []NoBlindRetry
<1>1. OrderInv => NoBlindRetry
  BY DEF OrderInv
<1> QED
  BY <1>1, OrderKept, PTL

-----------------------------------------------------------------------------
(* A message is answered with its own reply *)

InRun == InTurn \ {"recover", "accept"}

\* A worker past acceptance holds the user event of its message, and that of the
\* latest turn when it is about to write a local reply.
TurnOwn == \A w \in Worker : pc[w] \in InRun =>
  job[w].turn \in Of("user") /\ log[job[w].turn].msg = job[w].msg
EndsLast == \A w \in Worker : pc[w] \in {"abort", "local"} => IsLast(job[w].turn)

\* Local replies are found in the turn they belong to, as the others are.
LocalsIn == \A a \in Of("local") : IsIn(a, log[a].turn)
AnswersOwn == \A x \in answered :
  x[2] \in Of("final") \cup Of("local") /\ log[log[x[2]].turn].msg = x[1]

OwnInv == OrderInv /\ TurnOwn /\ EndsLast /\ LocalsIn /\ AnswersOwn

\* Past acceptance a worker keeps its message and its turn.
LEMMA TurnKept ==
  ASSUME Typed, NEW w \in Worker, Act(w), pc'[w] \in InRun
  PROVE  \/ Accept(w)
         \/ job'[w].turn = job[w].turn /\ job'[w].msg = job[w].msg /\ pc[w] \in InRun
<1>1. ASSUME NEW x, Goto(w, x) PROVE x \in InRun
  BY <1>1, GotoPlace
<1>2. /\ ~ Goto(w, "idle") /\ ~ Goto(w, "recover") /\ ~ Goto(w, "accept") /\ ~ Goto(w, "dplan")
      /\ ~ Goto(w, "dread") /\ ~ Goto(w, "dunknown") /\ ~ Goto(w, "dstart")
      /\ ~ Goto(w, "send") /\ ~ Goto(w, "dresult")
  BY <1>1 DEF InRun, InTurn, InLoop
<1>3. \A x \in {"idle", "recover", "dresult"} : ~ (At(w, x) /\ UNCHANGED pc)
  BY DEF At, InRun, InTurn, InLoop
<1>4. ~ ((\E m \in Msg : Receive(w, m) \/ Refused(w, m)) \/ Crash(w))
  BY <1>2, <1>3 DEF Receive, Refused, Crash, Drop, At
<1>5. ~ (RecoverPlan(w) \/ RecoverResult(w) \/ Recovered(w) \/ Reuse(w) \/ AppendLocal(w)
         \/ AbortBroken(w) \/ Final(w))
  BY <1>2, <1>3 DEF RecoverPlan, RecoverResult, Recovered, Reuse, AppendLocal, AbortBroken, Final,
                    EndTurn, Drop
<1>6. ~ (PlanDelivery(w) \/ ReadDelivery(w) \/ StartDelivery(w)
         \/ Send(w) \/ FinishDelivery(w) \/ CloseDelivery(w))
  BY <1>2 DEF PlanDelivery, ReadDelivery, StartDelivery, Send, FinishDelivery, CloseDelivery, Drop
<1>j. job[w] \in JobType
  BY DEF Typed, TypeOK
<1>s. ASSUME NEW j, Set(w, j), j.turn = job[w].turn, j.msg = job[w].msg
      PROVE  job'[w].turn = job[w].turn /\ job'[w].msg = job[w].msg
  BY <1>s, SetJob
<1>7. CASE StopIndeterminate(w) \/ StopAborted(w) \/ RunAgain(w) \/ AppendAborted(w)
  <2>1. pc[w] \in InRun
    BY <1>7 DEF StopIndeterminate, StopAborted, RunAgain, AppendAborted, At, InRun, InTurn
  <2>2. job'[w].turn = job[w].turn /\ job'[w].msg = job[w].msg
    BY <1>7, <1>j, <1>s DEF StopIndeterminate, StopAborted, RunAgain, AppendAborted, Abandon, JobType
  <2> QED
    BY <2>1, <2>2
<1>8. CASE Request(w) \/ (\E b \in Batches : Calls(w, b)) \/ CallFails(w) \/ AppendAttempt(w)
  <2>1. pc[w] \in InRun
    BY <1>8 DEF Request, Calls, CallFails, AppendAttempt, At, InRun, InTurn, InLoop
  <2>2. job'[w].turn = job[w].turn /\ job'[w].msg = job[w].msg
    BY <1>8, <1>j, <1>s DEF Request, Calls, CallFails, AppendAttempt, Abandon, Keep, JobType
  <2> QED
    BY <2>1, <2>2
<1>9. CASE Plan(w) \/ Start(w) \/ Execute(w) \/ Reject(w) \/ Result(w) \/ Refuse(w)
  <2>1. pc[w] \in InRun
    BY <1>9 DEF Plan, Start, Execute, Reject, Result, Refuse, At, InRun, InTurn, InLoop
  <2>2. job'[w].turn = job[w].turn /\ job'[w].msg = job[w].msg
    BY <1>9, <1>j, <1>s DEF Plan, Start, Execute, Reject, Result, Refuse, Continue, Abandon, JobType
  <2> QED
    BY <2>1, <2>2
<1>10. CASE AppendFails(w)
  <2>1. pc[w] \in {"abort", "local"} \cup InLoop /\ UNCHANGED job
    BY <1>2, <1>3, <1>10 DEF AppendFails, Drop
  <2> QED
    BY <2>1 DEF InRun, InTurn, InLoop
<1> QED
  BY <1>4, <1>5, <1>6, <1>7, <1>8, <1>9, <1>10 DEF Act, Step

\* A message is accepted with the user event that carries it, new or found.
LEMMA AcceptOwn ==
  ASSUME Typed, NEW w \in Worker, Accept(w)
  PROVE  /\ job'[w].turn \in Of("user")' /\ log'[job'[w].turn].msg = job'[w].msg
         /\ pc'[w] \in {"request", "decide"}
<1> DEFINE e == [Ev("user", 0, 0) EXCEPT !.msg = job[w].msg]
<1>1. /\ Put(e) /\ Set(w, [job[w] EXCEPT !.turn = EventAt(e)]) /\ e.kind = "user" /\ e.msg = job[w].msg
      /\ Goto(w, IF Known(e) = {} THEN "request" ELSE "decide")
  BY DEF Accept, Ev
<1>2. job[w] \in JobType
  BY DEF Typed, TypeOK
<1> HIDE DEF e
<1>3. EventAt(e) \in Of("user")' /\ log'[EventAt(e)].msg = job[w].msg
  <2>1. CASE Known(e) = {}
    <3>1. Longer /\ Last = e /\ EventAt(e) = Len(log) + 1
      BY <1>1, <2>1, PutAny DEF Longer, Last
    <3>2. Of("user")' = Of("user") \cup {Len(log) + 1}
      BY <1>1, <3>1, LongerOf
    <3> QED
      BY <1>1, <3>1, <3>2 DEF Last
  <2>2. CASE Known(e) # {}
    BY <1>1, <2>2, PutAny DEF Known, SameKey, Of
  <2> QED
    BY <2>1, <2>2
<1>4. job'[w].turn = EventAt(e) /\ job'[w].msg = job[w].msg
  BY <1>1, <1>2, SetJob DEF JobType
<1>5. pc'[w] = IF Known(e) = {} THEN "request" ELSE "decide"
  BY <1>1, GotoPlace
<1> QED
  BY <1>3, <1>4, <1>5

\* The user event that a worker holds does not change.
LEMMA TurnOwnStep ==
  ASSUME Typed, TurnOwn, [Next]_vars
  PROVE  TurnOwn'
<1>1. CASE UNCHANGED vars
  BY <1>1 DEF vars, TurnOwn, Of
<1>2. ASSUME NEW w \in Worker, Act(w), NEW v \in Worker, pc'[v] \in InRun
      PROVE  job'[v].turn \in Of("user")' /\ log'[job'[v].turn].msg = job'[v].msg
  <2>1. CASE v = w /\ Accept(w)
    BY <1>2, <2>1, AcceptOwn
  <2>2. CASE pc[v] \in InRun /\ job'[v].turn = job[v].turn /\ job'[v].msg = job[v].msg
    <3>1. job[v].turn \in Of("user") /\ log[job[v].turn].msg = job[v].msg
      BY <2>2 DEF TurnOwn
    <3>2. job[v].turn \in Of("user")' /\ log'[job[v].turn] = log[job[v].turn]
      BY <1>2, <3>1, Older
    <3> QED
      BY <2>2, <3>1, <3>2
  <2>3. v # w => pc'[v] = pc[v] /\ job'[v] = job[v]
    BY <1>2, ActOthers DEF Others
  <2> QED
    BY <1>2, <2>1, <2>2, <2>3, TurnKept
<1> QED
  BY <1>1, <1>2, NextIsAct DEF TurnOwn

\* A turn that is ended locally is the last one, and stays so while its worker is
\* inside run.
LEMMA EndsLastStep ==
  ASSUME OrderInv, EndsLast, InOrder, [Next]_vars
  PROVE  EndsLast'
<1>t. Typed /\ GuardHeld /\ Looping
  BY DEF OrderInv
<1>1. CASE UNCHANGED vars
  BY <1>1 DEF vars, EndsLast, IsLast, Of
<1>2. ASSUME NEW w \in Worker, Act(w), NEW v \in Worker, pc'[v] \in {"abort", "local"}
      PROVE  LaterLast(job'[v].turn)
  <2>1. ASSUME NEW u, IsLast(u), Longer => Last.kind # "user" PROVE LaterLast(u)
    <3>1. CASE log' = log
      BY <2>1, <3>1 DEF LaterLast, IsLast, Of
    <3>2. CASE Longer
      BY <1>t, <2>1, <3>2, AddedIn
    <3> QED
      BY <1>t, <1>2, <3>1, <3>2, Older
  <2>2. CASE v # w
    <3>1. pc'[v] = pc[v] /\ job'[v] = job[v]
      BY <1>t, <1>2, <2>2, ActOthers DEF Others
    <3>2. IsLast(job[v].turn)
      BY <1>2, <3>1 DEF EndsLast
    <3>3. pc[w] \notin InTurn
      BY <1>t, <1>2, <2>2, <3>1, TurnAssumption DEF GuardHeld, InTurn
    <3>4. Longer => Last.kind # "user"
      <4>1. Longer => log' = log \/ Wrote(w, Last)
        BY <1>t, <1>2, Older
      <4>2. Longer => log' # log
        BY <1>t, LongerOf DEF Longer
      <4> QED
        BY <3>3, <4>1, <4>2 DEF Wrote, At, InTurn
    <3> QED
      BY <2>1, <3>1, <3>2, <3>4
  <2>3. CASE v = w
    <3>1. ~ Accept(w)
      BY <1>t, <1>2, <2>3, AcceptOwn
    <3>2. job'[w].turn = job[w].turn /\ pc[w] \in InRun
      BY <1>t, <1>2, <2>3, <3>1, TurnKept DEF InRun, InTurn
    <3>3. pc[w] # "broken"
      <4>1. ASSUME pc[w] = "broken" PROVE AbortBroken(w) \/ Crash(w) \/ AppendFails(w)
        BY <1>2, <4>1
        DEF Act, Step, Receive, Refused, RecoverPlan, RecoverResult, Recovered, Accept, Reuse,
            StopIndeterminate, StopAborted, RunAgain, AppendAborted, AppendLocal, Request, Final,
            Calls, CallFails, AppendAttempt, Plan, Start, Execute, Reject, Result, Refuse,
            PlanDelivery, ReadDelivery, StartDelivery, Send, FinishDelivery, CloseDelivery, At
      <4>2. ~ Goto(w, "idle") /\ ~ Goto(w, "broken")
        BY <1>t, <1>2, <2>3, GotoPlace
      <4> QED
        BY <4>1, <4>2 DEF AbortBroken, Crash, AppendFails, Drop, At
    <3>4. CASE pc[w] = "decide"
      <4>1. job[w].turn \in Of("user")
        BY <1>t, <3>2 DEF Typed, TurnKnown, InRun
      <4>2. IsLast(job[w].turn)
        BY <3>4, <4>1 DEF IsLast, InOrder, At
      <4> QED
        BY <1>t, <1>2, <2>1, <2>3, <3>2, <3>4, <4>2, Older, LongerOf DEF Wrote, At, Longer
    <3>5. CASE pc[w] \in InLoop \cup {"abort", "local"}
      <4>1. IsLast(job[w].turn)
        BY <1>t, <3>5 DEF EndsLast, Looping, GoesOn
      <4>2. pc[w] # "accept"
        BY <3>5 DEF InLoop
      <4> QED
        BY <1>t, <1>2, <2>1, <2>3, <3>2, <4>1, <4>2, Older, LongerOf DEF Wrote, At, Longer
    <3> QED
      BY <3>2, <3>3, <3>4, <3>5 DEF InRun, InTurn
  <2> QED
    BY <2>2, <2>3
<1> QED
  BY <1>1, <1>2, NextIsAct DEF EndsLast, LaterLast, IsLast

\* A place lies in one turn only.
LEMMA InOneTurn ==
  ASSUME Typed, NEW n, NEW u, NEW v, IsIn(n, u), IsIn(n, v)
  PROVE  u = v
<1>1. u \in Nat /\ v \in Nat /\ n \in Nat
  BY OfType DEF Typed, TypeOK, IsIn, Span
<1>2. u < n /\ v < n /\ ~ (u < v) /\ ~ (v < u)
  <2>1. u < n /\ v < n
    BY <1>1 DEF IsIn, Span
  <2>2. \A k \in {u, v} : ~ (u < k /\ k <= n) /\ ~ (v < k /\ k <= n)
    BY DEF IsIn, Span
  <2> QED
    BY <1>1, <2>1, <2>2
<1> QED
  BY <1>1, <1>2

\* A local reply is written into the last turn.
LEMMA LocalsInStep ==
  ASSUME OwnInv, [Next]_vars
  PROVE  LocalsIn'
<1>t. Typed /\ EndsLast /\ LocalsIn
  BY DEF OwnInv, OrderInv
<1>1. CASE log' = log
  BY <1>t, <1>1 DEF LocalsIn, IsIn, Span, Of
<1>2. ASSUME NEW w \in Worker, Act(w), Longer, NEW a \in Of("local")' PROVE LaterIn(a, log'[a].turn)
  <2>1. CASE a \in Of("local")
    <3>1. log'[a] = log[a] /\ a \in DOMAIN log
      BY <1>t, <1>2, <2>1, Older
    <3> QED
      BY <1>t, <1>2, <2>1, <3>1, StaysIn DEF LocalsIn
  <2>2. CASE a = Len(log) + 1 /\ Last.kind = "local"
    <3> DEFINE e == [Ev("local", job[w].turn, 0) EXCEPT !.note = job[w].why]
    <3>1. At(w, "local") /\ log' # log
      BY <1>t, <1>2, <2>2, Older, LongerOf DEF Wrote, Longer
    <3>2. AppendLocal(w)
      BY <1>2, <3>1
      DEF Act, Step, Receive, Refused, RecoverPlan, RecoverResult, Recovered, Accept, Reuse,
          StopIndeterminate, StopAborted, RunAgain, AppendAborted, Request, Final, Calls,
          CallFails, AppendAttempt, Plan, Start, Execute, Reject, Result, Refuse, AbortBroken,
          PlanDelivery, ReadDelivery, StartDelivery, Send, FinishDelivery, CloseDelivery, Crash,
          AppendFails, At
    <3>3. Put(e) /\ e.turn = job[w].turn
      BY <3>2 DEF AppendLocal, Ev
    <3> HIDE DEF e
    <3>4. Last = e
      BY <1>t, <3>1, <3>3, PutAny DEF Last
    <3>5. IsLast(job[w].turn)
      BY <1>t, <3>1 DEF EndsLast, At
    <3> QED
      BY <1>t, <1>2, <2>2, <3>3, <3>4, <3>5, AddedIn DEF Last
  <2> QED
    BY <1>t, <1>2, <2>1, <2>2, LongerOf
<1> QED
  BY <1>t, <1>1, <1>2, NextIsAct, Older DEF vars, LocalsIn, IsIn, LaterIn, Span

\* What run returns is a reply of the turn that the worker holds.
LEMMA Returned ==
  ASSUME OwnInv, NEW w \in Worker, Act(w), NEW x \in answered', x \notin answered
  PROVE  /\ x[1] = job[w].msg /\ pc[w] \in InRun
         /\ x[2] \in Of("final")' \cup Of("local")' /\ log'[x[2]].turn = job[w].turn
<1>t. Typed /\ InTheirTurns /\ LocalsIn
  BY DEF OwnInv, OrderInv
<1>1. Reuse(w) \/ Final(w) \/ AppendLocal(w)
  <2>1. answered' # answered
    OBVIOUS
  <2> QED
    BY <2>1
    DEF Act, Step, Receive, Refused, RecoverPlan, RecoverResult, Recovered, Accept,
        StopIndeterminate, StopAborted, RunAgain, AppendAborted, Request, Calls, CallFails,
        AppendAttempt, Plan, Start, Execute, Reject, Result, Refuse, AbortBroken, PlanDelivery,
        ReadDelivery, StartDelivery, Send, FinishDelivery, CloseDelivery, Crash, AppendFails
<1>2. CASE Reuse(w)
  <2> DEFINE u == job[w].turn
             a == Most(Replies(u))
  <2>1. /\ At(w, "decide") /\ Replies(u) # {} /\ log' = log
        /\ answered' = answered \cup {<<job[w].msg, a>>}
    BY <1>2 DEF Reuse
  <2>2. a \in Replies(u)
    <3>1. Replies(u) \subseteq 0 .. Len(log) /\ Len(log) \in Nat
      BY <1>t, OfType DEF Replies, Typed, TypeOK
    <3> QED
      BY <2>1, <3>1, MostIn
  <2> HIDE DEF a
  <2>3. u \in Of("user") /\ pc[w] \in InRun
    BY <1>t, <2>1 DEF Typed, TurnKnown, At, InRun, InTurn
  <2>4. IsIn(a, u) /\ a \in Of("final") \cup Of("local")
    BY <2>2, <2>3 DEF IsIn, Replies
  <2>5. IsIn(a, log[a].turn)
    BY <1>t, <2>4 DEF InTheirTurns, LocalsIn
  <2>6. log[a].turn = u
    BY <1>t, <2>4, <2>5, InOneTurn
  <2>7. Of("final")' = Of("final") /\ Of("local")' = Of("local")
    BY <2>1 DEF Of
  <2>8. x = <<job[w].msg, a>>
    BY <2>1
  <2> QED
    BY <2>1, <2>3, <2>4, <2>6, <2>7, <2>8
<1>3. CASE Final(w)
  <2> DEFINE e == Ev("final", job[w].turn, job[w].ref)
  <2>1. At(w, "llm") /\ Put(e) /\ e.kind = "final" /\ e.turn = job[w].turn
        /\ answered' = answered \cup {<<job[w].msg, Len(log) + 1>>}
    BY <1>3 DEF Final, EndTurn, Ev
  <2> HIDE DEF e
  <2>2. Known(e) = {}
    BY <2>1 DEF Known, SameKey
  <2>3. Longer /\ Last = e
    BY <1>t, <2>1, <2>2, PutAny DEF Longer, Last
  <2>4. Len(log) + 1 \in Of("final")'
    BY <1>t, <2>1, <2>3, LongerOf
  <2>5. x = <<job[w].msg, Len(log) + 1>>
    BY <2>1
  <2> QED
    BY <2>1, <2>3, <2>4, <2>5 DEF Last, At, InRun, InTurn, InLoop
<1>4. CASE AppendLocal(w)
  <2> DEFINE e == [Ev("local", job[w].turn, 0) EXCEPT !.note = job[w].why]
             a == EventAt(e)
  <2>1. At(w, "local") /\ Put(e) /\ e.kind = "local" /\ e.turn = job[w].turn
        /\ answered' = answered \cup {<<job[w].msg, a>>}
    BY <1>4 DEF AppendLocal, EndTurn, Ev
  <2> HIDE DEF e
  <2>2. a \in Of("local")' /\ log'[a].turn = job[w].turn
    <3>1. CASE Known(e) = {}
      <4>1. Longer /\ Last = e /\ a = Len(log) + 1
        BY <1>t, <2>1, <3>1, PutAny DEF Longer, Last
      <4>2. Of("local")' = Of("local") \cup {Len(log) + 1}
        BY <1>t, <2>1, <4>1, LongerOf
      <4> QED
        BY <2>1, <4>1, <4>2 DEF Last
    <3>2. CASE Known(e) # {}
      BY <1>t, <2>1, <3>2, PutAny DEF Known, SameKey, Of
    <3> QED
      BY <3>1, <3>2
  <2> HIDE DEF a
  <2>3. x = <<job[w].msg, a>>
    BY <2>1
  <2> QED
    BY <2>1, <2>2, <2>3 DEF At, InRun, InTurn
<1> QED
  BY <1>1, <1>2, <1>3, <1>4

\* What was returned before stays, and what is returned is the message's own.
LEMMA AnswersOwnStep ==
  ASSUME OwnInv, [Next]_vars
  PROVE  AnswersOwn'
<1>t. Typed /\ InTheirTurns /\ LocalsIn /\ TurnOwn /\ AnswersOwn
  BY DEF OwnInv, OrderInv
<1>1. CASE UNCHANGED vars
  BY <1>t, <1>1 DEF vars, AnswersOwn, Of
<1>2. ASSUME NEW w \in Worker, Act(w), NEW x \in answered'
      PROVE  x[2] \in Of("final")' \cup Of("local")' /\ log'[log'[x[2]].turn].msg = x[1]
  <2>1. /\ \A n \in Of("final") : n \in Of("final")' /\ log'[n] = log[n]
        /\ \A n \in Of("local") : n \in Of("local")' /\ log'[n] = log[n]
        /\ \A n \in Of("user") : log'[n] = log[n]
    BY <1>t, <1>2, Older
  <2>2. CASE x \in answered
    <3>1. x[2] \in Of("final") \cup Of("local") /\ log[log[x[2]].turn].msg = x[1]
      BY <1>t, <2>2 DEF AnswersOwn
    <3>2. log[x[2]].turn \in Of("user")
      BY <1>t, <3>1 DEF InTheirTurns, LocalsIn, IsIn
    <3> QED
      BY <2>1, <3>1, <3>2
  <2>3. CASE x \notin answered
    <3>1. /\ x[1] = job[w].msg /\ pc[w] \in InRun
          /\ x[2] \in Of("final")' \cup Of("local")' /\ log'[x[2]].turn = job[w].turn
      BY <1>2, <2>3, Returned
    <3>2. job[w].turn \in Of("user") /\ log[job[w].turn].msg = job[w].msg
      BY <1>t, <3>1 DEF TurnOwn
    <3> QED
      BY <2>1, <3>1, <3>2
  <2> QED
    BY <2>2, <2>3
<1> QED
  BY <1>1, <1>2, NextIsAct DEF AnswersOwn

\* As long as no message comes again after a later one was accepted, a message is
\* answered with a reply that was written for it, whoever wrote it and whatever
\* crashed before; with two messages out of order it is not.
THEOREM RepliesOwn == Spec /\ []InOrder => []ReplyOwn
<1>1. Init /\ OrderInv => OwnInv
  BY DEF Init, OwnInv, TurnOwn, EndsLast, LocalsIn, AnswersOwn, InRun, InTurn, InLoop, Of
<1>2. OwnInv /\ OrderInv' /\ InOrder /\ [Next]_vars => OwnInv'
  <2> SUFFICES ASSUME OwnInv, OrderInv', InOrder, [Next]_vars PROVE OwnInv'
    OBVIOUS
  <2>1. Typed /\ OrderInv /\ TurnOwn /\ EndsLast
    BY DEF OwnInv, OrderInv
  <2> QED
    BY <2>1, TurnOwnStep, EndsLastStep, LocalsInStep, AnswersOwnStep DEF OwnInv
<1>3. OwnInv => ReplyOwn
  BY DEF OwnInv, AnswersOwn, ReplyOwn
<1> QED
  BY <1>1, <1>2, <1>3, OrderKept, PTL DEF Spec

-----------------------------------------------------------------------------
(* A session with one message *)

\* A message has one user event, however often it arrives.
UserOnce ==
  /\ \A u \in Of("user") : log[u].msg \in Msg /\ log[u].ref = 0 /\ log[u].call = NoCall
  /\ \A u, v \in Of("user") : log[u].msg = log[v].msg => u = v

\* Only acceptance adds a user event.
LEMMA NewUser ==
  ASSUME Typed, NEW w \in Worker, Act(w), Longer, Last.kind = "user"
  PROVE  Accept(w)
<1>1. At(w, "accept") /\ log' # log
  BY Older DEF Wrote, Longer
<1> QED
  BY <1>1
  DEF Act, Step, Receive, Refused, RecoverPlan, RecoverResult, Recovered, Reuse,
      StopIndeterminate, StopAborted, RunAgain, AppendAborted, AppendLocal, Request, Final, Calls,
      CallFails, AppendAttempt, Plan, Start, Execute, Reject, Result, Refuse, AbortBroken,
      PlanDelivery, ReadDelivery, StartDelivery, Send, FinishDelivery, CloseDelivery, Crash,
      AppendFails, At

\* A message that is accepted again is found.
LEMMA UserOnceStep ==
  ASSUME Typed, UserOnce, [Next]_vars
  PROVE  UserOnce'
<1>1. CASE log' = log
  BY <1>1 DEF UserOnce, Of
<1>2. ASSUME NEW w \in Worker, Act(w), Longer PROVE UserOnce'
  <2>1. /\ \A n \in Of("user") : log'[n] = log[n]
        /\ Of("user")' = IF Last.kind = "user" THEN Of("user") \cup {Len(log) + 1} ELSE Of("user")
    BY <1>2, Older, LongerOf
  <2>2. CASE Last.kind # "user"
    BY <2>1, <2>2 DEF UserOnce
  <2>3. CASE Last.kind = "user"
    <3> DEFINE e == [Ev("user", 0, 0) EXCEPT !.msg = job[w].msg]
    <3>1. Accept(w)
      BY <1>2, <2>3, NewUser
    <3>2. /\ Put(e) /\ e.kind = "user" /\ e.ref = 0 /\ e.call = NoCall /\ e.msg \in Msg
      BY <3>1 DEF Accept, Ev, At, Typed, TurnKnown, InTurn
    <3> HIDE DEF e
    <3>3. Known(e) = {} /\ Last = e
      BY <1>2, <3>2, PutAny, LongerOf DEF Longer, Last
    <3>4. \A u \in Of("user") : log[u].msg # e.msg
      BY <3>2, <3>3 DEF UserOnce, Known, SameKey, Of
    <3> QED
      BY <2>1, <2>3, <3>2, <3>3, <3>4 DEF UserOnce, Last
  <2> QED
    BY <2>2, <2>3
<1> QED
  BY <1>1, <1>2, NextIsAct, Older DEF vars

\* A session that gets one message only is in order, so this message runs one
\* loop, gets a reply of its own and retries nothing blindly, however often it is
\* delivered again, by however many workers and after whatever crashes.
COROLLARY OneMessageInOrder ==
  ASSUME \A m, n \in Msg : m = n
  PROVE  Spec => [](OneLoop /\ NoBlindRetry /\ ReplyOwn)
<1> DEFINE Inv == Typed /\ UserOnce
<1>1. Init => Inv
  BY InitTyped DEF Init, UserOnce, Of
<1>2. Inv /\ [Next]_vars => Inv'
  BY NextTyped, UserOnceStep
<1>3. Inv => InOrder
  <2> SUFFICES ASSUME Inv, NEW w \in Worker, At(w, "decide"), NEW u \in Of("user")
               PROVE  u <= job[w].turn
    BY DEF InOrder
  <2>1. job[w].turn \in Of("user") /\ u \in Nat
    BY OfType DEF Typed, TypeOK, TurnKnown, At, InTurn
  <2>2. u = job[w].turn
    BY <2>1 DEF UserOnce
  <2> QED
    BY <2>1, <2>2
<1>4. OrderInv => OneLoop /\ NoBlindRetry
  BY DEF OrderInv
<1> HIDE DEF Inv
<1> QED
  BY <1>1, <1>2, <1>3, <1>4, OrderKept, RepliesOwn, PTL DEF Spec
=============================================================================
