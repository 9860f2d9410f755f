------------------------- MODULE SessionTurnEffects -------------------------
(***************************************************************************)
(* What the log says of a tool call, and what the call has done: for       *)
(* answers whose calls have different ids, the results in the log tell the *)
(* truth and no planned call runs twice.                                   *)
(***************************************************************************)
EXTENDS SessionTurnProofs

\* Providers give the calls of one answer different ids.  Nothing in the code
\* checks it: two calls of equal id share one plan.
DistinctCalls == \A b \in Batches : \A m, n \in DOMAIN b : b[m] = b[n] => m = n

\* No call of the answer at hand is planned from the k-th on.
FreeFrom(w, k) ==
  \A p \in Of("plan") : \A n \in DOMAIN job[w].batch :
    log[p].ref = job[w].asst /\ n >= k => log[p].call # job[w].batch[n]

HasStart(p)  == \E s \in Of("start") : log[s].ref = p
HasResult(p) == \E r \in Of("result") : log[r].ref = p

\* A turn at a call: the plan it holds has no result yet, and later calls of
\* the answer no plan.
AtTool(w) == job[w].asst \in Of("calls") /\ FreeFrom(w, job[w].nth)
AtPlan(w) == /\ job[w].asst \in Of("calls") /\ FreeFrom(w, job[w].nth + 1)
             /\ job[w].ref \in Of("plan") /\ ~ HasResult(job[w].ref)
NotRun(w) == job[w].ref \notin Ran
HasRun(w) == job[w].why = "failed" \/ (job[w].why = "succeeded" /\ job[w].ref \in Ran)

Here(w) ==
  /\ pc[w] = "tool" => AtTool(w)
  /\ pc[w] \in {"start", "refuse"} => AtPlan(w) /\ NotRun(w)
  /\ pc[w] = "exec" => AtPlan(w) /\ NotRun(w) /\ HasStart(job[w].ref)
  /\ pc[w] = "ran" => AtPlan(w) /\ HasRun(w) /\ HasStart(job[w].ref)
CallPlace == \A w \in Worker : Here(w)

\* Plans refer to answers, starts and results to plans, and only plans run.
PlanRefs == /\ \A p \in Of("plan") : log[p].ref \in Of("calls")
            /\ \A n \in Of("start") \cup Of("result") : log[n].ref \in Of("plan")
            /\ Ran \subseteq Of("plan")

-----------------------------------------------------------------------------
(* One step *)

\* The tool runs in one action only.
LEMMA RanBy ==
  ASSUME Typed, NEW w \in Worker, Act(w)
  PROVE  IF Execute(w) THEN Ran' = Ran \cup {job[w].ref} ELSE effects' = effects
<1>1. ASSUME Execute(w) PROVE Ran' = Ran \cup {job[w].ref}
  <2>1. effects' = Append(effects, job[w].ref) /\ effects \in Seq(Nat) /\ job[w].ref \in Nat
    BY <1>1 DEF Execute, Typed, TypeOK, JobType
  <2>2. /\ DOMAIN effects' = DOMAIN effects \cup {Len(effects) + 1}
        /\ \A n \in DOMAIN effects : effects'[n] = effects[n]
        /\ effects'[Len(effects) + 1] = job[w].ref
    BY <2>1
  <2> QED
    BY <2>2 DEF Ran, Range
<1>2. UNCHANGED effects \/ Execute(w)
  BY DEF Act, Step, Receive, Refused, RecoverPlan, RecoverResult, Recovered, Accept, Reuse,
         StopIndeterminate, StopAborted, RunAgain, AppendAborted, AppendLocal, Request, Final, Calls,
         CallFails, AppendAttempt, Plan, Start, Reject, Result, Refuse, AbortBroken, Send,
         PlanDelivery, ReadDelivery, StartDelivery, FinishDelivery, CloseDelivery, Crash, AppendFails
<1> QED
  BY <1>1, <1>2

\* Earlier events stay, and the sets of events by kind only grow.
LEMMA Older ==
  ASSUME Typed, NEW w \in Worker, Act(w)
  PROVE  /\ DOMAIN log = 1 .. Len(log) /\ Len(log) \in Nat
         /\ \A n \in DOMAIN log : n \in DOMAIN log' /\ log'[n] = log[n]
         /\ \A k : Of(k) \subseteq Of(k)' /\ Of(k) \subseteq DOMAIN log
         /\ log' = log \/ (Longer /\ Wrote(w, Last))
<1>1. DOMAIN log = 1 .. Len(log) /\ Len(log) \in Nat
  BY DEF Typed, TypeOK
<1>2. \A n \in DOMAIN log : n \in DOMAIN log' /\ log'[n] = log[n]
  BY <1>1, ActLog DEF AddsOne
<1> QED
  BY <1>1, <1>2, ActLog, AddsOneIs DEF Of

\* The kinds of events that tool calls are made of.
ToolKinds == {"calls", "plan", "start", "result"}

\* A step that adds no such event leaves a worker's place at its call alone.
LEMMA HereStays ==
  ASSUME Typed, NEW w \in Worker, Act(w), NEW v \in Worker, Here(v),
         pc'[v] = pc[v], job'[v] = job[v], effects' = effects,
         log' = log \/ Last.kind \notin ToolKinds
  PROVE  Here(v)'
<1>1. ASSUME NEW k \in ToolKinds PROVE Of(k)' = Of(k)
  <2>1. CASE log' = log
    BY <2>1 DEF Of
  <2>2. CASE Longer /\ Last.kind \notin ToolKinds
    BY <2>2, LongerOf
  <2> QED
    BY <2>1, <2>2, Older
<1>2. /\ Of("calls")' = Of("calls") /\ Of("plan")' = Of("plan")
      /\ Of("start")' = Of("start") /\ Of("result")' = Of("result")
  BY <1>1 DEF ToolKinds
<1>3. \A k : \A n \in Of(k) : log'[n] = log[n]
  BY Older
<1>4. Ran' = Ran
  BY DEF Ran
<1>5. AtTool(v) => AtTool(v)'
  BY <1>2, <1>3 DEF AtTool, FreeFrom
<1>6. AtPlan(v) => AtPlan(v)'
  BY <1>2, <1>3 DEF AtPlan, FreeFrom, HasResult
<1>7. HasStart(job[v].ref) => HasStart(job[v].ref)'
  BY <1>2, <1>3 DEF HasStart
<1>8. (NotRun(v) => NotRun(v)') /\ (HasRun(v) => HasRun(v)')
  BY <1>4 DEF NotRun, HasRun
<1> QED
  BY <1>5, <1>6, <1>7, <1>8 DEF Here

\* Outside run a worker adds only events of deliveries and runs no tool.
LEMMA OthersStay ==
  ASSUME Typed, GuardHeld, NEW w \in Worker, Act(w), NEW v \in Worker, v # w, Here(v)
  PROVE  Here(v)'
<1>1. pc'[v] = pc[v] /\ job'[v] = job[v]
  BY ActOthers DEF Others
<1>2. CASE pc[v] \notin AtCall
  BY <1>1, <1>2 DEF Here, AtCall
<1>3. CASE pc[v] \in AtCall
  <2>1. pc[w] \notin InTurn
    BY <1>3 DEF GuardHeld, InTurn, InLoop, AtCall
  <2>2. effects' = effects
    BY <2>1, RanBy DEF Execute, At, InTurn, InLoop
  <2>3. ASSUME Wrote(w, Last) PROVE Last.kind \in {"dplan", "dstart", "dresult"}
    BY <2>1, <2>3 DEF Wrote, At, InTurn, InLoop
  <2>4. log' = log \/ Last.kind \notin ToolKinds
    BY <2>3, Older DEF ToolKinds
  <2> QED
    BY <1>1, <2>2, <2>4, HereStays
<1> QED
  BY <1>2, <1>3

\* A worker comes to a call by an answer or from another step of a call.
LEMMA ToCall ==
  ASSUME Typed, NEW w \in Worker, Act(w), pc'[w] \in AtCall
  PROVE  \/ \E b \in Batches : Calls(w, b)
         \/ Plan(w) \/ Start(w) \/ Execute(w) \/ Reject(w) \/ Result(w) \/ Refuse(w)
<1>1. ASSUME NEW x, Goto(w, x) PROVE x \in AtCall
  BY <1>1, GotoPlace
<1>2. /\ ~ Goto(w, "idle") /\ ~ Goto(w, "request") /\ ~ Goto(w, "decide") /\ ~ Goto(w, "broken")
      /\ ~ Goto(w, "llm") /\ ~ Goto(w, "abort") /\ ~ Goto(w, "attempt") /\ ~ Goto(w, "dplan")
  BY <1>1 DEF AtCall
<1>3. pc[w] \in InLoop
  <2>1. Accept(w) \/ RunAgain(w) \/ pc[w] \in InLoop
    BY ToLoop DEF AtCall, InLoop
  <2>2. ~ Accept(w) /\ ~ RunAgain(w)
    BY <1>2 DEF Accept, RunAgain
  <2> QED
    BY <2>1, <2>2
<1>4. ~ ((\E m \in Msg : Receive(w, m) \/ Refused(w, m)) \/ RecoverPlan(w) \/ RecoverResult(w)
         \/ Recovered(w) \/ Accept(w) \/ RunAgain(w) \/ Reuse(w) \/ StopIndeterminate(w)
         \/ StopAborted(w) \/ AppendAborted(w) \/ AppendLocal(w) \/ AbortBroken(w))
  BY <1>3 DEF Receive, Refused, RecoverPlan, RecoverResult, Recovered, Accept, RunAgain, Reuse,
              StopIndeterminate, StopAborted, AppendAborted, AppendLocal, AbortBroken, At, InLoop
<1>5. ~ (PlanDelivery(w) \/ ReadDelivery(w) \/ StartDelivery(w)
         \/ Send(w) \/ FinishDelivery(w) \/ CloseDelivery(w))
  BY <1>3 DEF PlanDelivery, ReadDelivery, StartDelivery, Send, FinishDelivery, CloseDelivery, At, InLoop
<1>6. ~ (Request(w) \/ Final(w) \/ CallFails(w) \/ AppendAttempt(w))
  BY <1>2 DEF Request, Final, CallFails, AppendAttempt, Abandon, EndTurn
<1>7. ~ (Crash(w) \/ AppendFails(w))
  <2>1. ~ Drop(w) /\ ~ Goto(w, "broken") /\ ~ At(w, "dresult")
    BY <1>2, <1>3 DEF Drop, At, InLoop
  <2> QED
    BY <2>1 DEF Crash, AppendFails
<1> QED
  BY <1>4, <1>5, <1>6, <1>7 DEF Act, Step

\* A new answer: none of its calls is planned.
LEMMA CallsHere ==
  ASSUME Typed, PlanRefs, NEW w \in Worker, NEW b \in Batches, Calls(w, b)
  PROVE  Here(w)'
<1> DEFINE e == [Ev("calls", job[w].turn, job[w].ref) EXCEPT !.batch = b]
           j == [job[w] EXCEPT !.asst = Len(log) + 1, !.batch = b, !.nth = 1]
<1>1. Put(e) /\ Goto(w, "tool") /\ Set(w, j) /\ e.kind = "calls" /\ Act(w)
  BY DEF Calls, Ev, Act, Step
<1>2. job[w] \in JobType
  BY DEF Typed, TypeOK
<1>3. j.asst = Len(log) + 1
  BY <1>2 DEF JobType
<1> HIDE DEF e, j
<1>4. pc'[w] = "tool" /\ job'[w].asst = Len(log) + 1
  BY <1>1, <1>3, GotoPlace, SetJob
<1>5. Known(e) = {}
  BY <1>1 DEF Known, SameKey
<1>6. Longer /\ Last = e
  BY <1>1, <1>5, PutAny DEF Longer, Last
<1>7. Of("calls")' = Of("calls") \cup {Len(log) + 1} /\ Of("plan")' = Of("plan")
  BY <1>1, <1>6, LongerOf
<1>8. AtTool(w)'
  <2>1. \A p \in Of("plan") : log'[p].ref \in Of("calls") /\ Of("calls") \subseteq 1 .. Len(log)
    BY <1>1, Older DEF PlanRefs
  <2>2. \A p \in Of("plan") : log'[p].ref # Len(log) + 1
    BY <2>1, Older, <1>1
  <2> QED
    BY <1>4, <1>7, <2>2 DEF AtTool, FreeFrom
<1> QED
  BY <1>4, <1>8 DEF Here

\* Planning a call always makes a new plan.
LEMMA PlanHere ==
  ASSUME DistinctCalls, Typed, PlanRefs, NEW w \in Worker, Here(w), Plan(w)
  PROVE  Here(w)'
<1> DEFINE e == [Ev("plan", job[w].turn, job[w].asst) EXCEPT !.call = job[w].batch[job[w].nth]]
<1>1. /\ Put(e) /\ Set(w, [job[w] EXCEPT !.ref = EventAt(e)]) /\ Act(w) /\ pc[w] = "tool"
      /\ e.kind = "plan" /\ e.ref = job[w].asst /\ e.call = job[w].batch[job[w].nth]
      /\ effects' = effects
  BY DEF Plan, Ev, Act, Step, At
<1>2. job[w] \in JobType /\ job[w].nth \in DOMAIN job[w].batch /\ job[w].batch \in Batches
  BY <1>1 DEF Typed, TypeOK, CallAtHand, AtCall
<1>3. AtTool(w)
  BY <1>1 DEF Here
<1> HIDE DEF e
<1>4. Known(e) = {}
  <2> SUFFICES ASSUME NEW n \in Known(e) PROVE FALSE
    OBVIOUS
  <2>1. n \in Of("plan") /\ log[n].ref = job[w].asst /\ log[n].call = job[w].batch[job[w].nth]
    BY <1>1 DEF Known, SameKey, Of
  <2>2. job[w].nth \in Nat
    BY <1>2 DEF JobType
  <2> QED
    BY <1>2, <1>3, <2>1, <2>2 DEF AtTool, FreeFrom
<1>5. Longer /\ Last = e /\ EventAt(e) = Len(log) + 1
  BY <1>1, <1>4, PutAny DEF Longer, Last
<1>6. job'[w] = [job[w] EXCEPT !.ref = Len(log) + 1]
  BY <1>1, <1>5, SetJob
<1>7. /\ job'[w].ref = Len(log) + 1 /\ job'[w].asst = job[w].asst
      /\ job'[w].batch = job[w].batch /\ job'[w].nth = job[w].nth
  BY <1>2, <1>6 DEF JobType
<1>8. /\ Of("plan")' = Of("plan") \cup {Len(log) + 1}
      /\ Of("calls")' = Of("calls") /\ Of("result")' = Of("result")
  BY <1>1, <1>5, LongerOf
<1>9. /\ \A k : \A n \in Of(k) : log'[n] = log[n] /\ n \in 1 .. Len(log)
      /\ log'[Len(log) + 1] = e /\ Len(log) \in Nat
  BY <1>1, <1>5, Older DEF Last
<1>10. FreeFrom(w, job[w].nth + 1)'
  <2> SUFFICES ASSUME NEW p \in Of("plan")', NEW n \in DOMAIN job[w].batch,
                      log'[p].ref = job[w].asst, n >= job[w].nth + 1
               PROVE  log'[p].call # job[w].batch[n]
    BY <1>7 DEF FreeFrom
  <2>1. n \in Nat /\ job[w].nth \in Nat
    BY <1>2, CallIdType DEF JobType
  <2>2. n >= job[w].nth /\ n # job[w].nth
    BY <2>1
  <2>3. CASE p \in Of("plan")
    BY <1>3, <1>9, <2>2, <2>3 DEF AtTool, FreeFrom
  <2>4. CASE p = Len(log) + 1
    BY <1>1, <1>2, <1>9, <2>2, <2>4 DEF DistinctCalls
  <2> QED
    BY <1>8, <2>3, <2>4
<1>11. AtPlan(w)'
  <2>1. \A r \in Of("result")' : log'[r].ref # Len(log) + 1
    BY <1>8, <1>9 DEF PlanRefs
  <2> QED
    BY <1>3, <1>7, <1>8, <1>10, <2>1 DEF AtPlan, AtTool, HasResult
<1>12. NotRun(w)'
  <2>1. Ran' = Ran
    BY <1>1 DEF Ran
  <2> QED
    BY <1>7, <1>9, <2>1 DEF NotRun, PlanRefs
<1>13. pc'[w] \in {"start", "refuse"}
  BY GotoPlace DEF Plan
<1> QED
  BY <1>11, <1>12, <1>13 DEF Here

\* The start of a call is in the log before the call runs.
LEMMA StartHere ==
  ASSUME Typed, NEW w \in Worker, Here(w), Start(w)
  PROVE  Here(w)'
<1> DEFINE e == Ev("start", 0, job[w].ref)
<1>1. /\ Put(e) /\ e.kind = "start" /\ e.ref = job[w].ref /\ UNCHANGED <<job, effects>>
      /\ Goto(w, "exec") /\ pc[w] = "start" /\ Act(w)
  BY DEF Start, Ev, At, Act, Step
<1> HIDE DEF e
<1>2. AtPlan(w) /\ NotRun(w) /\ pc'[w] = "exec"
  BY <1>1, GotoPlace DEF Here
<1>3. \/ log' = log /\ \E n \in Of("start") : log[n].ref = job[w].ref
      \/ Longer /\ Last = e
  <2>1. CASE Known(e) = {}
    BY <1>1, <2>1, PutAny DEF Longer, Last
  <2>2. CASE Known(e) # {}
    <3>1. PICK n \in Known(e) : TRUE
      BY <2>2
    <3> QED
      BY <1>1, <2>2, <3>1 DEF Put, Known, SameKey, Of
  <2> QED
    BY <2>1, <2>2
<1>4. HasStart(job[w].ref)'
  <2>1. CASE log' = log /\ \E n \in Of("start") : log[n].ref = job[w].ref
    BY <1>1, <2>1 DEF HasStart, Of
  <2>2. CASE Longer /\ Last = e
    <3>1. Of("start")' = Of("start") \cup {Len(log) + 1}
      BY <1>1, <2>2, LongerOf
    <3> QED
      BY <1>1, <2>2, <3>1 DEF HasStart, Last
  <2> QED
    BY <1>3, <2>1, <2>2
<1>5. Of("calls")' = Of("calls") /\ Of("plan")' = Of("plan") /\ Of("result")' = Of("result")
  <2>1. CASE log' = log
    BY <2>1 DEF Of
  <2>2. CASE Longer /\ Last = e
    BY <1>1, <2>2, LongerOf
  <2> QED
    BY <1>3, <2>1, <2>2
<1>6. \A k : \A n \in Of(k) : log'[n] = log[n]
  BY <1>1, Older
<1>7. AtPlan(w)'
  BY <1>1, <1>2, <1>5, <1>6 DEF AtPlan, FreeFrom, HasResult
<1>8. NotRun(w)'
  BY <1>1, <1>2 DEF NotRun, Ran
<1> QED
  BY <1>2, <1>4, <1>7, <1>8 DEF Here

\* The call runs, or its arguments are rejected.
LEMMA RunHere ==
  ASSUME Typed, NEW w \in Worker, Here(w), Execute(w) \/ Reject(w)
  PROVE  Here(w)'
<1>1. pc[w] = "exec" /\ Goto(w, "ran") /\ log' = log /\ Act(w)
  BY DEF Execute, Reject, At, Act, Step
<1>2. AtPlan(w) /\ HasStart(job[w].ref) /\ pc'[w] = "ran"
  BY <1>1, GotoPlace DEF Here
<1>3. job[w] \in JobType
  BY DEF Typed, TypeOK
<1>4. /\ job'[w].asst = job[w].asst /\ job'[w].batch = job[w].batch
      /\ job'[w].nth = job[w].nth /\ job'[w].ref = job[w].ref
      /\ job'[w].why = "failed" \/ (job'[w].why = "succeeded" /\ Execute(w))
  BY <1>3, SetJob DEF Execute, Reject, JobType
<1>5. HasRun(w)'
  <2>1. CASE Execute(w)
    BY <1>1, <1>4, <2>1, RanBy DEF HasRun
  <2> QED
    BY <1>4, <2>1 DEF HasRun
<1>6. AtPlan(w)' /\ HasStart(job[w].ref)'
  BY <1>1, <1>2, <1>4 DEF AtPlan, FreeFrom, HasResult, HasStart, Of
<1> QED
  BY <1>2, <1>5, <1>6 DEF Here

\* The result leads to the next call of the answer, or away from the answer.
LEMMA NextHere ==
  ASSUME Typed, NEW w \in Worker, Here(w), Result(w) \/ Refuse(w)
  PROVE  Here(w)'
<1>1. pc[w] \in {"ran", "refuse"} /\ Continue(w) /\ Act(w)
  BY DEF Result, Refuse, At, Act, Step
<1>2. AtPlan(w) /\ job[w] \in JobType
  BY <1>1 DEF Here, Typed, TypeOK
<1>3. CASE pc'[w] = "tool"
  <2> DEFINE j == [job[w] EXCEPT !.nth = @ + 1, !.why = ""]
  <2>0. j.nth = job[w].nth + 1 /\ j.asst = job[w].asst /\ j.batch = job[w].batch
    BY <1>2 DEF JobType
  <2>1. Set(w, j)
    BY <1>1, <1>3, GotoPlace DEF Continue, Abandon
  <2> HIDE DEF j
  <2>2. /\ job'[w].nth = job[w].nth + 1 /\ job'[w].asst = job[w].asst
        /\ job'[w].batch = job[w].batch
    BY <2>0, <2>1, SetJob
  <2>3. log' = log \/ (Longer /\ Last.kind = "result")
    BY <1>1, Older DEF Wrote, At
  <2>4. Of("calls")' = Of("calls") /\ Of("plan")' = Of("plan")
    <3>1. CASE log' = log
      BY <3>1 DEF Of
    <3> QED
      BY <2>3, <3>1, LongerOf
  <2>5. \A k : \A n \in Of(k) : log'[n] = log[n]
    BY <1>1, Older
  <2> QED
    BY <1>2, <1>3, <2>2, <2>4, <2>5 DEF Here, AtPlan, AtTool, FreeFrom
<1>4. CASE pc'[w] # "tool"
  <2>1. pc'[w] \in {"request", "abort"}
    BY <1>1, <1>4, GotoPlace DEF Continue, Abandon
  <2> QED
    BY <2>1 DEF Here
<1> QED
  BY <1>3, <1>4

\* Every step leaves every worker at a consistent place of its call.
LEMMA CallPlaceStep ==
  ASSUME DistinctCalls, Typed, GuardHeld, PlanRefs, CallPlace, [Next]_vars
  PROVE  CallPlace'
<1>1. CASE UNCHANGED vars
  BY <1>1 DEF vars, CallPlace, Here, AtTool, AtPlan, FreeFrom, HasStart, HasResult, NotRun, HasRun, Ran, Of
<1>2. ASSUME NEW w \in Worker, Act(w), NEW v \in Worker PROVE Here(v)'
  <2>1. CASE v # w
    BY <1>2, <2>1, OthersStay DEF CallPlace
  <2>2. CASE v = w /\ pc'[w] \notin AtCall
    BY <2>2 DEF Here, AtCall
  <2>3. CASE v = w /\ pc'[w] \in AtCall
    BY <1>2, <2>3, ToCall, CallsHere, PlanHere, StartHere, RunHere, NextHere DEF CallPlace
  <2> QED
    BY <2>1, <2>2, <2>3
<1> QED
  BY <1>1, <1>2, NextIsAct DEF CallPlace

-----------------------------------------------------------------------------
(* The histories *)

\* Whoever plans, starts or closes a call refers to what is in the log.
LEMMA PlanRefsStep ==
  ASSUME Typed, GuardHeld, CallPlace, PlanRefs, [Next]_vars
  PROVE  PlanRefs'
<1>1. CASE UNCHANGED vars
  BY <1>1 DEF vars, PlanRefs, Ran, Of
<1>2. ASSUME NEW w \in Worker, Act(w) PROVE PlanRefs'
  <2>1. Here(w)
    BY DEF CallPlace
  <2>2. Ran' \subseteq Of("plan")
    <3>1. Execute(w) => job[w].ref \in Of("plan")
      BY <2>1 DEF Execute, At, Here, AtPlan
    <3>2. effects' = effects => Ran' = Ran
      BY DEF Ran
    <3> QED
      BY <1>2, <3>1, <3>2, RanBy DEF PlanRefs
  <2>3. CASE log' = log
    BY <2>2, <2>3 DEF PlanRefs, Of
  <2>4. CASE Longer /\ Wrote(w, Last)
    <3>1. /\ Last.kind = "plan" => Last.ref \in Of("calls")
          /\ Last.kind \in {"start", "result"} => Last.ref \in Of("plan")
      BY <2>1, <2>4 DEF Wrote, At, Here, AtTool, AtPlan, Open, Unplanned
    <3>2. /\ Of("plan")' \subseteq Of("plan") \cup {Len(log) + 1}
          /\ Of("start")' \cup Of("result")' \subseteq Of("start") \cup Of("result") \cup {Len(log) + 1}
          /\ Len(log) + 1 \in Of("plan")' => Last.kind = "plan"
          /\ Len(log) + 1 \in Of("start")' \cup Of("result")' => Last.kind \in {"start", "result"}
      <4>1. \A k \in {"plan", "start", "result"} : Len(log) + 1 \in Of(k)' => Last.kind = k
        BY DEF Of, Last
      <4> QED
        BY <2>4, <4>1, LongerOf
    <3>3. \A k : \A n \in Of(k) : log'[n] = log[n] /\ n \in Of(k)'
      BY <1>2, Older
    <3> QED
      BY <2>2, <3>1, <3>2, <3>3 DEF PlanRefs, Last
  <2> QED
    BY <1>2, <2>3, <2>4, Older
<1> QED
  BY <1>1, <1>2, NextIsAct

\* Only an open plan that has not run is run.
LEMMA EffectOnceStep ==
  ASSUME Typed, CallPlace, EffectOnce, [Next]_vars
  PROVE  EffectOnce'
<1>1. CASE effects' = effects
  BY <1>1 DEF EffectOnce
<1>2. ASSUME NEW w \in Worker, Execute(w) PROVE EffectOnce'
  <2>1. job[w].ref \notin Ran
    BY <1>2 DEF Execute, At, CallPlace, Here, NotRun
  <2>2. effects' = Append(effects, job[w].ref) /\ effects \in Seq(Nat) /\ job[w].ref \in Nat
    BY <1>2 DEF Execute, Typed, TypeOK, JobType
  <2>3. /\ DOMAIN effects' = DOMAIN effects \cup {Len(effects) + 1}
        /\ \A n \in DOMAIN effects : effects'[n] = effects[n] /\ effects[n] # job[w].ref
        /\ effects'[Len(effects) + 1] = job[w].ref
    BY <2>1, <2>2 DEF Ran, Range
  <2> QED
    BY <2>3 DEF EffectOnce
<1> QED
  BY <1>1, <1>2, NextIsAct, RanBy DEF vars

\* A result is written by who knows whether the call ran, and no call runs after.
LEMMA ResultTruthStep ==
  ASSUME Typed, CallPlace, PlanRefs, ResultTruth, [Next]_vars
  PROVE  ResultTruth'
<1>1. CASE UNCHANGED vars
  BY <1>1 DEF vars, ResultTruth, About, Ran, Of
<1>2. ASSUME NEW w \in Worker, Act(w) PROVE ResultTruth'
  <2>1. Here(w)
    BY DEF CallPlace
  <2>2. /\ \A p \in Ran : HasStart(p)
        /\ \A r \in Of("result") : /\ log[r].note = "interrupted" => log[r].ref \notin Ran
                                   /\ log[r].note = "succeeded" => log[r].ref \in Ran
    BY DEF ResultTruth, About, HasStart
  <2>3. CASE Execute(w)
    <3>1. Ran' = Ran \cup {job[w].ref} /\ log' = log
      BY <1>2, <2>3, RanBy DEF Execute
    <3>2. HasStart(job[w].ref) /\ ~ HasResult(job[w].ref)
      BY <2>1, <2>3 DEF Execute, At, Here, AtPlan
    <3>3. /\ \A p \in Ran' : HasStart(p)
          /\ \A r \in Of("result") : /\ log[r].note = "interrupted" => log[r].ref \notin Ran'
                                     /\ log[r].note = "succeeded" => log[r].ref \in Ran'
      BY <2>2, <3>1, <3>2 DEF HasResult
    <3> QED
      BY <3>1, <3>3 DEF ResultTruth, About, HasStart, Of
  <2>4. CASE ~ Execute(w)
    <3>1. Ran' = Ran
      BY <1>2, <2>4, RanBy DEF Ran
    <3>2. \A k : \A n \in Of(k) : log'[n] = log[n] /\ n \in Of(k)'
      BY <1>2, Older
    <3>3. \A p \in Ran' : About("start", p)' # {}
      <4>1. \A p \in Ran : \E n \in Of("start")' : log'[n].ref = p
        BY <2>2, <3>2 DEF HasStart
      <4> QED
        BY <3>1, <4>1 DEF About
    <3>4. ASSUME NEW r \in Of("result")'
          PROVE  /\ log'[r].note = "interrupted" => log'[r].ref \notin Ran
                 /\ log'[r].note = "succeeded" => log'[r].ref \in Ran
      <4>1. CASE r \in Of("result")
        BY <2>2, <3>2, <4>1
      <4>2. CASE r \notin Of("result")
        <5>1. Wrote(w, Last) /\ Longer /\ r = Len(log) + 1 /\ Last.kind = "result"
          <6>1. ~ (log' = log)
            BY <4>2 DEF Of
          <6>2. Longer /\ Wrote(w, Last)
            BY <1>2, <6>1, Older
          <6>3. r = Len(log) + 1
            BY <3>4, <4>2, <6>2, LongerOf
          <6> QED
            BY <3>4, <6>2, <6>3 DEF Last, Of
        <5>2. CASE At(w, "recover") /\ Last.note = Verdict(Last.ref)
          <6>1. Last.note = "interrupted" => ~ HasStart(Last.ref)
            BY <5>2 DEF Verdict, About, HasStart
          <6>2. Last.note # "succeeded"
            BY <5>2 DEF Verdict
          <6> QED
            BY <2>2, <5>1, <6>1, <6>2 DEF Last
        <5>3. CASE At(w, "ran") /\ Last.ref = job[w].ref /\ Last.note = job[w].why
          BY <2>1, <5>1, <5>3 DEF At, Here, HasRun, Last
        <5>4. CASE At(w, "refuse") /\ Last.ref = job[w].ref /\ Last.note = "interrupted"
          BY <2>1, <5>1, <5>4 DEF At, Here, NotRun, Last
        <5> QED
          BY <5>1, <5>2, <5>3, <5>4 DEF Wrote
      <4> QED
        BY <4>1, <4>2
    <3> QED
      BY <3>1, <3>3, <3>4 DEF ResultTruth
  <2> QED
    BY <2>3, <2>4
<1> QED
  BY <1>1, <1>2, NextIsAct

EffectInv == Typed /\ GuardHeld /\ CallPlace /\ PlanRefs /\ EffectOnce /\ ResultTruth

\* The invariant of both theorems, for answers with different call ids.
LEMMA EffectsKept ==
  ASSUME DistinctCalls
  PROVE  Spec => []EffectInv
<1>1. Init => EffectInv
  BY InitTyped DEF EffectInv, Init, GuardHeld, CallPlace, Here, PlanRefs, EffectOnce, ResultTruth,
                   Ran, Range, At, InTurn, InLoop, Of
<1>2. EffectInv /\ [Next]_vars => EffectInv'
  BY NextTyped, GuardHeldStep, CallPlaceStep, PlanRefsStep, EffectOnceStep, ResultTruthStep
  DEF EffectInv
<1> QED
  BY <1>1, <1>2, PTL DEF Spec

\* No planned call runs twice, whatever crashes and however often its message
\* arrives, as long as the calls of one answer have different ids.
THEOREM CallsRunOnce ==
  ASSUME DistinctCalls
  PROVE  Spec => []EffectOnce
<1>1. EffectInv => EffectOnce
  BY DEF EffectInv
<1> QED
  BY <1>1, EffectsKept, PTL

\* A result in the log tells what happened to its call, also when recovery wrote
\* it after a crash, as long as the calls of one answer have different ids.
THEOREM ResultsTrue ==
  ASSUME DistinctCalls
  PROVE  Spec => []ResultTruth
<1>1. EffectInv => ResultTruth
  BY DEF EffectInv
<1> QED
  BY <1>1, EffectsKept, PTL
=============================================================================
