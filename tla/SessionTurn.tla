---------------------------- MODULE SessionTurn ----------------------------
(***************************************************************************)
(* One session of ConversationService: inbound messages (delivered any     *)
(* number of times), the turn each of them runs under the session's turn   *)
(* guard, the agent loop with its tool calls, and the delivery of the      *)
(* reply after the guard is released.  Every step that another process or  *)
(* a crash can separate from the next one is an action of its own: one     *)
(* action per event that the journal appends.                              *)
(*                                                                         *)
(* The session's log is the atomic log that DurableLog specifies and       *)
(* EventStore implements; here an append returns the event of an equal     *)
(* idempotency key or adds a new one behind the head.                      *)
(***************************************************************************)
EXTENDS Integers, Sequences, FiniteSets, Functions

CONSTANTS
  Msg,            \* external message ids
  Worker,         \* processes that handle messages of the session
  NoMsg,          \* an event that carries no message id
  NoWorker,       \* the turn guard is free
  Batches,        \* tool calls of one answer: sequences of provider call ids
  NoCall,         \* an event that concerns no provider call
  LoopSteps,      \* NativeAgentLoop.max_steps
  MaxDeliveries,  \* bound: inbound deliveries
  MaxFaults       \* bound: crashes, failing appends, failing model calls

ASSUME TurnAssumption ==
  /\ NoMsg \notin Msg /\ NoWorker \notin Worker
  /\ \A b \in Batches : /\ b \in Seq(Range(b)) /\ Len(b) > 0
                        /\ \A n \in DOMAIN b : b[n] # NoCall
  /\ LoopSteps \in Nat \ {0} /\ MaxDeliveries \in Nat /\ MaxFaults \in Nat

VARIABLES
  log,        \* the events of the active branch; an event's seq is its index
  guard,      \* holder of the turn guard
  pc,         \* where each worker is
  job,        \* the worker's local variables
  deliveries, \* inbound deliveries so far
  faults,     \* injected faults so far
  effects,    \* history: plans whose tool ran, in order
  sent,       \* history: assistant events sent to the user, in order
  answered    \* history: <<message, assistant event>> that run returned

vars == <<log, guard, pc, job, deliveries, faults, effects, sent, answered>>

Kinds == {"user", "request", "attempt", "calls", "final", "local", "aborted",
          "plan", "start", "result", "dplan", "dstart", "dresult"}
Reasons == {"", "indeterminate_tool_result", "provider_error",
            "context_overflow", "agent_loop_limit"}
Notes == Reasons \cup {"succeeded", "failed", "unknown", "interrupted", "delivered"}
CallIds == UNION {Range(b) : b \in Batches}

\* turn: the user event; ref: the assistant event, plan or delivery plan.
\* The turn of "request", "calls" and "final" is history, no code reads it.
EventType == [kind : Kinds, msg : Msg \cup {NoMsg}, turn : Nat, ref : Nat,
              call : CallIds \cup {NoCall}, note : Notes, batch : Batches \cup {<<>>}]

\* Places inside run, with the turn guard held, and places of the delivery.
InLoop   == {"request", "llm", "attempt", "tool", "start", "exec", "ran", "refuse"}
InTurn   == {"recover", "accept", "decide", "abort", "local", "broken"} \cup InLoop
Deliver  == {"dplan", "dread", "dstart", "send", "dresult", "dunknown"}

JobType == [msg : Msg \cup {NoMsg}, turn : Nat, asst : Nat, ref : Nat, batch : Batches \cup {<<>>},
            nth : Nat, step : Nat, compacted : BOOLEAN, why : Notes]

NoJob == [msg |-> NoMsg, turn |-> 0, asst |-> 0, ref |-> 0, batch |-> <<>>,
          nth |-> 0, step |-> 0, compacted |-> FALSE, why |-> ""]

TypeOK ==
  /\ log \in Seq(EventType)
  /\ guard \in Worker \cup {NoWorker}
  /\ pc \in [Worker -> {"idle"} \cup InTurn \cup Deliver]
  /\ job \in [Worker -> JobType]
  /\ deliveries \in 0 .. MaxDeliveries /\ faults \in 0 .. MaxFaults
  /\ effects \in Seq(Nat) /\ sent \in Seq(Nat)
  /\ answered \subseteq Msg \X Nat

Init ==
  /\ log = <<>> /\ guard = NoWorker
  /\ pc = [w \in Worker |-> "idle"] /\ job = [w \in Worker |-> NoJob]
  /\ deliveries = 0 /\ faults = 0
  /\ effects = <<>> /\ sent = <<>> /\ answered = {}

-----------------------------------------------------------------------------
(* The log *)

Ev(kind, turn, ref) == [kind |-> kind, msg |-> NoMsg, turn |-> turn, ref |-> ref,
                        call |-> NoCall, note |-> "", batch |-> <<>>]

\* What idempotency_key_object distinguishes.  A model request names its
\* parent and an assistant message its request, so neither ever repeats.
SameKey(e, f) ==
  /\ e.kind = f.kind /\ e.kind \notin {"request", "attempt", "calls", "final"}
  /\ e.msg = f.msg /\ e.ref = f.ref /\ e.call = f.call
  /\ e.kind \in {"plan", "local", "aborted"} => e.turn = f.turn
  /\ e.kind = "local" => e.note = f.note

Known(e) == {n \in DOMAIN log : SameKey(log[n], e)}
EventAt(e) == IF Known(e) = {} THEN Len(log) + 1 ELSE CHOOSE n \in Known(e) : TRUE
Put(e)   == log' = IF Known(e) = {} THEN Append(log, e) ELSE log

Of(kind) == {n \in DOMAIN log : log[n].kind = kind}
About(kind, n) == {k \in Of(kind) : log[k].ref = n}
Least(S) == CHOOSE n \in S : \A k \in S : n <= k
Most(S)  == CHOOSE n \in S : \A k \in S : k <= n

\* The events behind user event u up to the next user event: how the service
\* finds what belongs to a turn.
Span(u) == {n \in DOMAIN log : n > u /\ ~ \E k \in Of("user") : u < k /\ k <= n}

\* Mutant of Replies: only local messages end a turn.
RepliesLocal(u)  == Span(u) \cap Of("local")
Replies(u)       == Span(u) \cap (Of("final") \cup Of("local"))
Indeterminate(u) == \E n \in Span(u) \cap Of("result") : log[n].note = "unknown"
Aborts(u)        == {n \in Of("aborted") : log[n].turn = u}
Undelivered(a)   == \A d \in About("dplan", a) : About("dresult", d) = {}

\* Tool calls of assistant messages without a plan, and plans without a result.

\* Mutant of Missing: a message with one plan counts as planned.
MissingByMessage(a) == IF About("plan", a) = {} THEN DOMAIN log[a].batch ELSE {}
Missing(a) == {n \in DOMAIN log[a].batch :
                 \A p \in About("plan", a) : log[p].call # log[a].batch[n]}

Unplanned == {a \in Of("calls") : Missing(a) # {}}
Open == {p \in Of("plan") : About("result", p) = {}}

TurnAt(a) == Most({u \in Of("user") : u < a})

-----------------------------------------------------------------------------
(* Workers *)

At(w, place) == pc[w] = place
Goto(w, place) == pc' = [pc EXCEPT ![w] = place]
Set(w, j) == job' = [job EXCEPT ![w] = j]
Keep(w) == UNCHANGED job

\* Mutant of Release: the guard stays taken.
ReleaseNot(w) == guard' = guard

\* run leaves its with block: the flock is released.
Release(w) == guard' = NoWorker

\* The worker drops its message.
Drop(w) == Goto(w, "idle") /\ Set(w, NoJob)

-----------------------------------------------------------------------------
(* run: the turn guard, recovery and the inbound message *)

\* Mutant of GuardFree: the guard is not exclusive.
GuardIgnored == TRUE
GuardFree == guard = NoWorker

Receive(w, m) ==
  /\ At(w, "idle") /\ deliveries < MaxDeliveries
  /\ GuardFree
  /\ guard' = w
  /\ Goto(w, "recover") /\ Set(w, [NoJob EXCEPT !.msg = m])
  /\ deliveries' = deliveries + 1
  /\ UNCHANGED <<log, faults, effects, sent, answered>>

\* Another turn holds the guard: StoreBusy, the message is not accepted.
Refused(w, m) ==
  /\ At(w, "idle") /\ deliveries < MaxDeliveries
  /\ guard # NoWorker
  /\ deliveries' = deliveries + 1
  /\ UNCHANGED <<log, guard, pc, job, faults, effects, sent, answered>>

RecoverPlan(w) ==
  /\ At(w, "recover") /\ Unplanned # {}
  /\ LET a == Least(Unplanned)
     IN  Put([Ev("plan", TurnAt(a), a) EXCEPT !.call = log[a].batch[Least(Missing(a))]])
  /\ UNCHANGED <<guard, pc, job, deliveries, faults, effects, sent, answered>>

\* Mutant of Verdict: a status the event schema does not know.
VerdictReconciled(p) == IF About("start", p) = {} THEN "interrupted" ELSE "reconciled"

\* A started call may have run, one that was never started has not.
Verdict(p) == IF About("start", p) = {} THEN "interrupted" ELSE "unknown"

RecoverResult(w) ==
  /\ At(w, "recover") /\ Unplanned = {} /\ Open # {}
  /\ LET p == Least(Open)
     IN  Put([Ev("result", 0, p) EXCEPT !.note = Verdict(p)])
  /\ UNCHANGED <<guard, pc, job, deliveries, faults, effects, sent, answered>>

Recovered(w) ==
  /\ At(w, "recover") /\ Unplanned = {} /\ Open = {}
  /\ Goto(w, "accept")
  /\ UNCHANGED <<log, guard, job, deliveries, faults, effects, sent, answered>>

\* accept_user_message: a new message starts the agent loop, a known one is
\* first looked up in the log.
Accept(w) ==
  LET e == [Ev("user", 0, 0) EXCEPT !.msg = job[w].msg]
  IN  /\ At(w, "accept")
      /\ Put(e)
      /\ Goto(w, IF Known(e) = {} THEN "request" ELSE "decide")
      /\ Set(w, [job[w] EXCEPT !.turn = EventAt(e)])
      /\ UNCHANGED <<guard, deliveries, faults, effects, sent, answered>>

-----------------------------------------------------------------------------
(* run: a message that was accepted before *)

\* The turn has a reply: return it, for delivery unless that is settled.
Reuse(w) ==
  /\ At(w, "decide") /\ Replies(job[w].turn) # {}
  /\ LET a == Most(Replies(job[w].turn))
     IN  /\ IF Undelivered(a)
            THEN Goto(w, "dplan") /\ Set(w, [job[w] EXCEPT !.asst = a])
            ELSE Drop(w)
         /\ answered' = answered \cup {<<job[w].msg, a>>}
  /\ Release(w)
  /\ UNCHANGED <<log, deliveries, faults, effects, sent>>

Abandon(w, why) == Goto(w, "abort") /\ Set(w, [job[w] EXCEPT !.why = why])

StopIndeterminate(w) ==
  /\ At(w, "decide") /\ Replies(job[w].turn) = {} /\ Indeterminate(job[w].turn)
  /\ Abandon(w, "indeterminate_tool_result")
  /\ UNCHANGED <<log, guard, deliveries, faults, effects, sent, answered>>

\* Mutant of StopAborted: an aborted turn is not recognised.
StopAbortedNot(w) == FALSE

StopAborted(w) ==
  /\ At(w, "decide") /\ Replies(job[w].turn) = {} /\ ~ Indeterminate(job[w].turn)
  /\ Aborts(job[w].turn) # {}
  /\ Abandon(w, log[Least(Aborts(job[w].turn))].note)
  /\ UNCHANGED <<log, guard, deliveries, faults, effects, sent, answered>>

\* Mutant of MayRun: an earlier abort does not stop the turn.
MayRunAborted(u) == Replies(u) = {} /\ ~ Indeterminate(u)

\* Mutant of MayRun: an uncertain tool call does not stop the turn.
MayRunUncertain(u) == Replies(u) = {} /\ Aborts(u) = {}

MayRun(u) == Replies(u) = {} /\ ~ Indeterminate(u) /\ Aborts(u) = {}

RunAgain(w) ==
  /\ At(w, "decide") /\ MayRun(job[w].turn)
  /\ Goto(w, "request")
  /\ UNCHANGED <<log, guard, job, deliveries, faults, effects, sent, answered>>

\* _abort_with_local_reply, also the end of a loop without a final answer.
AppendAborted(w) ==
  /\ At(w, "abort")
  /\ Put([Ev("aborted", job[w].turn, 0) EXCEPT !.note = job[w].why])
  /\ Goto(w, "local")
  /\ UNCHANGED <<guard, job, deliveries, faults, effects, sent, answered>>

\* The turn ends with reply a: the envelope leaves run and the guard.
EndTurn(w, a) ==
  /\ Goto(w, "dplan") /\ Set(w, [NoJob EXCEPT !.msg = job[w].msg, !.asst = a])
  /\ answered' = answered \cup {<<job[w].msg, a>>}
  /\ Release(w)

AppendLocal(w) ==
  LET e == [Ev("local", job[w].turn, 0) EXCEPT !.note = job[w].why]
  IN  /\ At(w, "local")
      /\ Put(e) /\ EndTurn(w, EventAt(e))
      /\ UNCHANGED <<deliveries, faults, effects, sent>>

-----------------------------------------------------------------------------
(* NativeAgentLoop *)

\* _complete: build the context and record the request, or give up because
\* the context does not fit.
Request(w) ==
  /\ At(w, "request")
  /\ \/ /\ Put(Ev("request", job[w].turn, 0))
        /\ Goto(w, "llm") /\ Set(w, [job[w] EXCEPT !.ref = Len(log) + 1])
     \/ /\ Abandon(w, "context_overflow")
        /\ UNCHANGED log
  /\ UNCHANGED <<guard, deliveries, faults, effects, sent, answered>>

\* The model answers without tool calls: the loop returns.
Final(w) ==
  /\ At(w, "llm")
  /\ Put(Ev("final", job[w].turn, job[w].ref))
  /\ EndTurn(w, Len(log) + 1)
  /\ UNCHANGED <<deliveries, faults, effects, sent>>

\* The model answers with tool calls.
Calls(w, b) ==
  /\ At(w, "llm")
  /\ Put([Ev("calls", job[w].turn, job[w].ref) EXCEPT !.batch = b])
  /\ Goto(w, "tool")
  /\ Set(w, [job[w] EXCEPT !.asst = Len(log) + 1, !.batch = b, !.nth = 1])
  /\ UNCHANGED <<guard, deliveries, faults, effects, sent, answered>>

\* The model call fails; a context overflow is retried once with a forced
\* compaction, anything else ends the loop with an exception.
CallFails(w) ==
  /\ At(w, "llm") /\ faults < MaxFaults
  /\ \E why \in {"context_overflow", "provider_error"} :
        Goto(w, "attempt") /\ Set(w, [job[w] EXCEPT !.why = why])
  /\ faults' = faults + 1
  /\ UNCHANGED <<log, guard, deliveries, effects, sent, answered>>

AppendAttempt(w) ==
  /\ At(w, "attempt")
  /\ Put(Ev("attempt", job[w].turn, job[w].ref))
  /\ IF job[w].why = "provider_error" THEN Goto(w, "broken") /\ Keep(w)
     ELSE IF job[w].compacted THEN Goto(w, "abort") /\ Keep(w)
     ELSE Goto(w, "request") /\ Set(w, [job[w] EXCEPT !.compacted = TRUE])
  /\ UNCHANGED <<guard, deliveries, faults, effects, sent, answered>>

\* The call is planned; a tool that is registered and allowed is executable.
Plan(w) ==
  LET e == [Ev("plan", job[w].turn, job[w].asst) EXCEPT !.call = job[w].batch[job[w].nth]]
  IN  /\ At(w, "tool")
      /\ Put(e) /\ Set(w, [job[w] EXCEPT !.ref = EventAt(e)])
      /\ \E next \in {"start", "refuse"} : Goto(w, next)
      /\ UNCHANGED <<guard, deliveries, faults, effects, sent, answered>>

Start(w) ==
  /\ At(w, "start")
  /\ Put(Ev("start", 0, job[w].ref))
  /\ Goto(w, "exec")
  /\ UNCHANGED <<guard, job, deliveries, faults, effects, sent, answered>>

\* The tool runs.  Whether it then reports an error of its own tells nothing
\* apart here; "failed" stands for a call that did not run.
Execute(w) ==
  /\ At(w, "exec")
  /\ effects' = Append(effects, job[w].ref)
  /\ Set(w, [job[w] EXCEPT !.why = "succeeded"])
  /\ Goto(w, "ran")
  /\ UNCHANGED <<log, guard, deliveries, faults, sent, answered>>

\* The arguments do not fit the tool's schema: an error without an execution.
Reject(w) ==
  /\ At(w, "exec")
  /\ Set(w, [job[w] EXCEPT !.why = "failed"])
  /\ Goto(w, "ran")
  /\ UNCHANGED <<log, guard, deliveries, faults, effects, sent, answered>>

\* Mutant of Continue: the loop stays at the call it has just finished.
ContinueStuck(w) ==
  IF job[w].nth < Len(job[w].batch)
  THEN Goto(w, "tool") /\ Keep(w)
  ELSE Abandon(w, "agent_loop_limit")

\* The next call of the answer, the next step, or the limit of the loop.
Continue(w) ==
  IF job[w].nth < Len(job[w].batch)
  THEN Goto(w, "tool") /\ Set(w, [job[w] EXCEPT !.nth = @ + 1, !.why = ""])
  ELSE IF job[w].step + 1 < LoopSteps
  THEN Goto(w, "request") /\ Set(w, [job[w] EXCEPT !.step = @ + 1, !.compacted = FALSE, !.why = ""])
  ELSE Abandon(w, "agent_loop_limit")

Result(w) ==
  /\ At(w, "ran")
  /\ Put([Ev("result", 0, job[w].ref) EXCEPT !.note = job[w].why])
  /\ Continue(w)
  /\ UNCHANGED <<guard, deliveries, faults, effects, sent, answered>>

\* Not executable: answered with an error message, recorded as interrupted.
Refuse(w) ==
  /\ At(w, "refuse")
  /\ Put([Ev("result", 0, job[w].ref) EXCEPT !.note = "interrupted"])
  /\ Continue(w)
  /\ UNCHANGED <<guard, deliveries, faults, effects, sent, answered>>

\* except Exception in _run_turn: abort the turn and re-raise.
AbortBroken(w) ==
  /\ At(w, "broken")
  /\ Put([Ev("aborted", job[w].turn, 0) EXCEPT !.note = "provider_error"])
  /\ Release(w) /\ Drop(w)
  /\ UNCHANGED <<deliveries, faults, effects, sent, answered>>

-----------------------------------------------------------------------------
(* begin_delivery, the transport and finish_delivery: outside the guard *)

PlanDelivery(w) ==
  LET e == Ev("dplan", 0, job[w].asst)
  IN  /\ At(w, "dplan")
      /\ Put(e) /\ Set(w, [job[w] EXCEPT !.ref = EventAt(e)])
      /\ Goto(w, "dread")
      /\ UNCHANGED <<guard, deliveries, faults, effects, sent, answered>>

\* Mutant of Started: an earlier start of the delivery is overlooked.
StartedNever(d) == FALSE

\* What the branch says of this delivery plan when begin_delivery reads it.
Started(d) == About("dstart", d) # {}
Settled(d) == About("dresult", d) # {}

ReadDelivery(w) ==
  /\ At(w, "dread")
  /\ \/ Settled(job[w].ref) /\ Drop(w)
     \/ ~ Settled(job[w].ref) /\ Started(job[w].ref) /\ Goto(w, "dunknown") /\ Keep(w)
     \/ ~ Settled(job[w].ref) /\ ~ Started(job[w].ref) /\ Goto(w, "dstart") /\ Keep(w)
  /\ UNCHANGED <<log, guard, deliveries, faults, effects, sent, answered>>

StartDelivery(w) ==
  /\ At(w, "dstart")
  /\ Put(Ev("dstart", 0, job[w].ref))
  /\ Goto(w, "send")
  /\ UNCHANGED <<guard, job, deliveries, faults, effects, sent, answered>>

\* Mutant of Send: a failed send is recorded as a delivery.
SendHopeful(w) ==
  /\ At(w, "send")
  /\ \E arrived \in BOOLEAN :
        sent' = IF arrived THEN Append(sent, job[w].asst) ELSE sent
  /\ Set(w, [job[w] EXCEPT !.why = "delivered"])
  /\ Goto(w, "dresult")
  /\ UNCHANGED <<log, guard, deliveries, faults, effects, answered>>

\* A send that fails may have reached the user.
Send(w) ==
  /\ At(w, "send")
  /\ \E arrived, ok \in BOOLEAN :
        /\ ok => arrived
        /\ sent' = IF arrived THEN Append(sent, job[w].asst) ELSE sent
        /\ Set(w, [job[w] EXCEPT !.why = IF ok THEN "delivered" ELSE "unknown"])
  /\ Goto(w, "dresult")
  /\ UNCHANGED <<log, guard, deliveries, faults, effects, answered>>

FinishDelivery(w) ==
  /\ At(w, "dresult")
  /\ Put([Ev("dresult", 0, job[w].ref) EXCEPT !.note = job[w].why])
  /\ Drop(w)
  /\ UNCHANGED <<guard, deliveries, faults, effects, sent, answered>>

\* An earlier attempt was cut off between its start and its result.
CloseDelivery(w) ==
  /\ At(w, "dunknown")
  /\ Put([Ev("dresult", 0, job[w].ref) EXCEPT !.note = "unknown"])
  /\ Drop(w)
  /\ UNCHANGED <<guard, deliveries, faults, effects, sent, answered>>

-----------------------------------------------------------------------------
(* Faults *)

\* The process dies; the kernel releases its flock, and it starts again.
Crash(w) ==
  /\ ~ At(w, "idle") /\ faults < MaxFaults
  /\ faults' = faults + 1
  /\ Drop(w)
  /\ guard' = IF guard = w THEN NoWorker ELSE guard
  /\ UNCHANGED <<log, deliveries, effects, sent, answered>>

\* The loop itself, not _run_turn, is ending the turn.
LimitReached(w) == job[w].why = "agent_loop_limit" /\ job[w].asst # 0

\* An append (or the read before it) raises: ParentConflict against a process outside the guard,
\* StoreBusy, no space, an erase under way.
AppendFails(w) ==
  /\ faults < MaxFaults
  /\ faults' = faults + 1
  /\ \/ /\ \/ pc[w] \in {"recover", "accept", "decide", "broken"}
           \/ pc[w] \in {"abort", "local"} /\ ~ LimitReached(w)
        /\ Drop(w) /\ Release(w)
     \/ /\ \/ pc[w] \in {"abort", "local"} /\ LimitReached(w)
           \/ pc[w] \in InLoop \ {"exec"}
        /\ Goto(w, "broken") /\ UNCHANGED <<job, guard>>
     \/ /\ pc[w] \in {"dplan", "dread", "dstart", "dunknown"}
        /\ Drop(w) /\ UNCHANGED guard
     \/ /\ At(w, "dresult") /\ job[w].why = "delivered"
        /\ Set(w, [job[w] EXCEPT !.why = "unknown"]) /\ UNCHANGED <<pc, guard>>
     \/ /\ At(w, "dresult") /\ job[w].why = "unknown"
        /\ Drop(w) /\ UNCHANGED guard
  /\ UNCHANGED <<log, deliveries, effects, sent, answered>>

Step(w) ==
  \/ RecoverPlan(w) \/ RecoverResult(w) \/ Recovered(w) \/ Accept(w)
  \/ Reuse(w) \/ StopIndeterminate(w) \/ StopAborted(w) \/ RunAgain(w)
  \/ AppendAborted(w) \/ AppendLocal(w)
  \/ Request(w) \/ Final(w) \/ (\E b \in Batches : Calls(w, b)) \/ AppendAttempt(w)
  \/ Plan(w) \/ Start(w) \/ Execute(w) \/ Reject(w) \/ Result(w) \/ Refuse(w)
  \/ AbortBroken(w)
  \/ PlanDelivery(w) \/ ReadDelivery(w) \/ StartDelivery(w) \/ Send(w)
  \/ FinishDelivery(w) \/ CloseDelivery(w)

Next ==
  \E w \in Worker :
    \/ \E m \in Msg : Receive(w, m) \/ Refused(w, m)
    \/ Step(w)
    \/ CallFails(w)
    \/ Crash(w)
    \/ AppendFails(w)

Spec == Init /\ [][Next]_vars

\* A worker that is handling a message keeps running; messages and faults
\* are never owed.
FairSpec == Spec /\ \A w \in Worker : WF_vars(Step(w))

-----------------------------------------------------------------------------
(* Properties *)

Ran == Range(effects)

\* What a tool result says is what happened, whoever wrote it and whatever
\* crashed: "interrupted" means the tool never runs, "succeeded" means it
\* ran, and nothing runs before its start is in the log.
ResultTruth ==
  /\ \A p \in Ran : About("start", p) # {}
  /\ \A r \in Of("result") :
        /\ log[r].note = "interrupted" => log[r].ref \notin Ran
        /\ log[r].note = "succeeded" => log[r].ref \in Ran

\* An operation runs at most once.
EffectOnce == \A i, j \in DOMAIN effects : effects[i] = effects[j] => i = j

\* Before a new user message enters the log, every earlier tool call has a
\* plan and every plan a result: the context never shows an open call.
CallsClosed ==
  \A u \in Of("user") : \A a \in Of("calls") : a < u =>
    \A n \in DOMAIN log[a].batch :
      \E p \in About("plan", a) :
        /\ p < u /\ log[p].call = log[a].batch[n]
        /\ \E r \in About("result", p) : r < u

\* An aborted turn asks the model nothing and starts no tool any more.
AbortSticks ==
  \A x \in Of("aborted") : \A n \in DOMAIN log : n > x =>
    /\ log[n].kind \in {"request", "final"} => log[n].turn # log[x].turn
    /\ log[n].kind = "start" => log[log[n].ref].turn # log[x].turn

\* A turn in which some tool call ended unknown starts no tool any more.
NoBlindRetry ==
  \A r \in Of("result") : log[r].note = "unknown" =>
    \A s \in Of("start") : s > r => log[log[s].ref].turn # log[log[r].ref].turn

\* A message has at most one completed agent loop, however often it arrives.
OneLoop == \A a, b \in Of("final") : log[a].turn = log[b].turn => a = b

\* What a message is answered with was written for that message.
ReplyOwn == \A x \in answered : log[log[x[2]].turn].msg = x[1]

\* No reply reaches the user twice.
SentOnce == \A i, j \in DOMAIN sent : sent[i] = sent[j] => i = j

\* A delivery recorded as delivered was sent.
DeliveredTruth ==
  \A r \in Of("dresult") : log[r].note = "delivered" => log[log[r].ref].ref \in Range(sent)

\* The turn guard is always given back.
GuardReleased == []<>(guard = NoWorker)

\* Once faults stop, every message that arrives at the log gets a reply.
Answered ==
  \A w \in Worker, m \in Msg :
    (faults = MaxFaults /\ At(w, "accept") /\ job[w].msg = m)
      ~> (\E a \in DOMAIN log : <<m, a>> \in answered)
=============================================================================
