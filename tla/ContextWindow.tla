---------------------------- MODULE ContextWindow ----------------------------
(***************************************************************************)
(* What the model is shown.  Every request of a turn is built anew from    *)
(* the log: the latest checkpoint's summary and the events it kept.  When  *)
(* that does not fit, a model call replaces a prefix of whole turns by a   *)
(* new summary that includes the old one, until it fits or the turn is     *)
(* given up.                                                               *)
(*                                                                         *)
(* A message, an answer, a call with its result and a local reply cost one *)
(* token each, and a summary its size; summaries of one size are one text. *)
(* Turns run one at a time under the turn guard (SessionTurn); a call is   *)
(* one step with its result.                                               *)
(***************************************************************************)
EXTENDS Integers, Sequences, FiniteSets

CONSTANTS
  Prompt,    \* ContextBudget.prompt_tokens
  Recent,    \* what a compaction leaves of the recent turns if it can
  MaxUsers,  \* bound: messages
  MaxCalls,  \* bound: tool calls
  MaxReplies, \* bound: replies before the last delivery of a message
  MaxFaults  \* bound: crashes and failing model calls

VARIABLES
  log,    \* the events of the active branch; an event's seq is its index
  active, \* the user event whose turn is running, or 0
  pc,     \* where the turn is
  try,    \* the request: a first one, one to compact for, the one after that
  cut,    \* the compaction under way: the first event it keeps
  shown,  \* the events in the last request
  faults  \* injected faults so far

vars == <<log, active, pc, try, cut, shown, faults>>

Rendered == {"user", "calls", "final", "local"}
Kinds == Rendered \cup {"aborted", "checkpoint"}

\* turn: the user event it belongs to.  Of a checkpoint: the last event it
\* covers, the first it kept, the size of its summary, and (history) the
\* events that its summary or an older one in its chain was made from.
Ev(kind, turn) == [kind |-> kind, turn |-> turn, to |-> 0, first |-> 0, size |-> 0, told |-> {}]
EventType == [kind : Kinds, turn : Nat, to : Nat, first : Nat,
              size : 0 .. Prompt, told : SUBSET Nat]

TypeOK ==
  /\ log \in Seq(EventType)
  /\ active \in 0 .. Len(log) /\ pc \in {"idle", "build", "summary", "ask"}
  /\ try \in {"first", "forced", "second"} /\ cut \in 0 .. Len(log)
  /\ shown \subseteq DOMAIN log /\ faults \in 0 .. MaxFaults

Init == /\ log = <<>> /\ active = 0 /\ pc = "idle" /\ try = "first"
        /\ cut = 0 /\ shown = {} /\ faults = 0

Of(kind) == {n \in DOMAIN log : log[n].kind = kind}
Least(S) == CHOOSE n \in S : \A k \in S : n <= k
Most(S)  == CHOOSE n \in S : \A k \in S : k <= n

-----------------------------------------------------------------------------
(* SessionContextBuilder *)

Checkpoint == LET C == Of("checkpoint")
              IN IF C = {} THEN Ev("checkpoint", 0) ELSE log[Most(C)]
After == LET first == Checkpoint.first IN {n \in DOMAIN log : n >= first}

\* The events behind the checkpoint from one message to the next.
Group(u, A) == LET next == {v \in A \cap Of("user") : v > u}
               IN {n \in A : n >= u /\ \A v \in next : n < v}

\* Messages that were aborted, unless the user saw a reply behind them: their
\* groups are left out.

\* Mutant of Dropped: a group is left out even if the user saw a reply in it.
DroppedReplied(A) == {u \in A \cap Of("user") : \E a \in A \cap Of("aborted") : log[a].turn = u}
Dropped(A) == {u \in A \cap Of("user") : /\ \E a \in A \cap Of("aborted") : log[a].turn = u
                                         /\ Group(u, A) \cap Of("local") = {}}
Visible == LET A == After
           IN {n \in A \ UNION {Group(u, A) : u \in Dropped(A)} : log[n].kind \in Rendered}
Cost(V) == Cardinality(V) + Checkpoint.size

-----------------------------------------------------------------------------
(* SessionCompactor.prepare, of the visible events V *)

From(n, V) == {k \in V : k >= n}
Before(n, V) == {k \in V : k < n}
Users(V) == V \cap Of("user")

\* The request for a summary holds the old one and the events before the cut.
Summarisable(u, V) == Checkpoint.size + Cardinality(Before(u, V)) <= Prompt

\* The cuts lie at a message behind the first, where the summary can be asked
\* for.  The first one that leaves few enough recent events is taken, or else
\* the last one.  Without a cut an existing summary is summarised again.
Cuts(V) == {u \in Users(V) \ {Least(Users(V))} : Summarisable(u, V)}

Selected(V) ==
  LET cuts == Cuts(V)
      short == {u \in cuts : Cardinality(From(u, V)) <= Recent}
  IN IF short # {} THEN Least(short)
     ELSE IF cuts # {} THEN Most(cuts) ELSE Checkpoint.first

Hopeless(V) ==
  \/ Users(V) = {} \/ Cardinality(From(Most(Users(V)), V)) > Prompt
  \/ Selected(V) = 0

Stop(events) == /\ log' = log \o events /\ active' = 0 /\ pc' = "idle" /\ try' = "first"
                /\ cut' = 0 /\ shown' = {}

\* ContextOverflow: the turn is aborted and the user told so.
Overflow == Stop(<<Ev("aborted", active), Ev("local", active)>>)

Build ==
  /\ pc = "build" /\ try # "forced" /\ pc' = "ask"
  /\ LET V == Visible IN Cost(V) <= Prompt /\ shown' = V
  /\ UNCHANGED <<log, active, try, cut, faults>>
Compact ==
  /\ pc = "build" /\ UNCHANGED faults
  /\ LET V == Visible IN
     /\ Cost(V) > Prompt \/ try = "forced"
     /\ IF Hopeless(V) THEN Overflow
        ELSE cut' = Selected(V) /\ pc' = "summary" /\ UNCHANGED <<log, active, try, shown>>

\* The summary must be whole and make the context smaller.

\* Mutant of Smaller: any summary will do.
SmallerAny(size, V) == TRUE
Smaller(size, V) == size + Cardinality(From(cut, V)) < Cost(V)

Summary(size, covered) ==
  [Ev("checkpoint", 0) EXCEPT !.size = size, !.first = cut,
     !.told = Checkpoint.told \cup covered,
     !.to = IF covered = {} THEN Checkpoint.to ELSE Most(covered)]

\* A checkpoint of the same range and text is stored once.
Stored(c) == \E n \in Of("checkpoint") : log[n].to = c.to /\ log[n].size = c.size
Commit == \E size \in 1 .. Prompt :
  /\ pc = "summary" /\ UNCHANGED faults
  /\ LET V == Visible  c == Summary(size, Before(cut, V)) IN
     IF Smaller(size, V)
     THEN /\ log' = IF Stored(c) THEN log ELSE Append(log, c)
          /\ pc' = "build" /\ cut' = 0 /\ UNCHANGED <<active, shown>>
          /\ try' = IF try = "forced" THEN "second" ELSE try
     ELSE Overflow

-----------------------------------------------------------------------------
(* NativeAgentLoop._complete and the turn around it *)

Idle == pc = "idle" /\ Cardinality(Of("final") \cup Of("local")) < MaxReplies

Accept ==
  /\ Idle /\ Cardinality(Of("user")) < MaxUsers
  /\ log' = Append(log, Ev("user", Len(log) + 1)) /\ active' = Len(log) + 1
  /\ pc' = "build" /\ UNCHANGED <<try, cut, shown, faults>>

\* A message is delivered again: one whose span has a reply is done, one that
\* was aborted is refused, and any other runs, however many messages followed.
Span(u) == {n \in DOMAIN log : n > u /\ ~ \E v \in Of("user") : u < v /\ v <= n}
Waiting(u) == u \in Of("user") /\ Span(u) \cap (Of("final") \cup Of("local")) = {}
IsAborted(u) == \E a \in Of("aborted") : log[a].turn = u
Resume(u) ==
  /\ Idle /\ Waiting(u) /\ ~IsAborted(u)
  /\ active' = u /\ pc' = "build" /\ UNCHANGED <<log, try, cut, shown, faults>>
Refuse(u) ==
  /\ Idle /\ Waiting(u) /\ IsAborted(u) /\ \A n \in Of("local") : log[n].turn # u
  /\ log' = Append(log, Ev("local", u)) /\ UNCHANGED <<active, pc, try, cut, shown, faults>>

Answers == pc = "ask" /\ Stop(<<Ev("final", active)>>) /\ UNCHANGED faults
Calls ==
  /\ pc = "ask" /\ Cardinality(Of("calls")) < MaxCalls
  /\ log' = Append(log, Ev("calls", active)) /\ pc' = "build" /\ try' = "first"
  /\ UNCHANGED <<active, cut, shown, faults>>

\* A request that the provider finds too long is compacted once.
TooLong ==
  /\ pc = "ask" /\ try = "first" /\ faults < MaxFaults /\ faults' = faults + 1
  /\ try' = "forced" /\ pc' = "build" /\ UNCHANGED <<log, active, cut, shown>>
TooLongAgain ==
  /\ pc = "ask" /\ try = "second" /\ faults < MaxFaults /\ faults' = faults + 1 /\ Overflow

\* Any other failure of a model call aborts the turn without a reply; a crash
\* leaves no event.
Fails ==
  /\ pc \in {"ask", "summary"} /\ faults < MaxFaults /\ faults' = faults + 1
  /\ Stop(<<Ev("aborted", active)>>)
Crash ==
  /\ pc # "idle" /\ faults < MaxFaults /\ faults' = faults + 1 /\ Stop(<<>>)

Next == \/ Build \/ Compact \/ Commit \/ Accept \/ Answers \/ Calls
        \/ TooLong \/ TooLongAgain \/ Fails \/ Crash
        \/ \E u \in Of("user") : Resume(u) \/ Refuse(u)

Fairness == WF_vars(Build \/ Compact \/ Commit)
Spec == Init /\ [][Next]_vars /\ Fairness

-----------------------------------------------------------------------------
(* Properties *)

\* The events of a turn that was answered before the next message came.
Told(u) == {n \in {u} \cup Span(u) : log[n].turn = u /\ log[n].kind \in Rendered}
InPlace(u) == Told(u) \cap (Of("final") \cup Of("local")) # {}

\* Through any chain of compactions, aborts and late turns, every request
\* shows such a turn word by word or through the chain of summaries behind the
\* one in use, and shows the running turn word by word when it belongs to the
\* latest message.
NothingForgotten == pc = "ask" =>
  /\ \A u \in Of("user") : InPlace(u) => Told(u) \subseteq shown \cup Checkpoint.told
  /\ active = Most(Of("user")) => Told(active) \subseteq shown

\* Preparing a request comes to an end, with a request or without one: every
\* round of compaction makes the context smaller.
Preparing == pc \in {"build", "summary"}
PrepareEnds == Preparing ~> ~Preparing

\* Every request of a turn shows the results of the calls the turn has made,
\* none is dropped silently (docs/22 section 10.2).
CallsShown == pc = "ask" =>
  \A n \in Of("calls") : log[n].turn = active => n \in shown \cup Checkpoint.told
=============================================================================
