---------------------------- MODULE PlanMonitor ----------------------------
(***************************************************************************)
(* Entry alerts.  A thread of the bot polls: one cycle reads the watched   *)
(* plans, looks for a zone touch followed by a close back outside in the   *)
(* candles that have closed, and hands a notice to the conversation of the *)
(* plan.  The database is not held over the market and model calls, so a   *)
(* cancel or the end of the validity can fall between any two steps, and   *)
(* the process can die between any two.                                    *)
(*                                                                         *)
(* Candles are numbered as they close.  Prices are 1 below the zone, 2 in  *)
(* it, 3 above.                                                            *)
(***************************************************************************)
EXTENDS Integers, Sequences, FiniteSets

CONSTANTS
  Plan,       \* plan ids
  Candle,     \* shapes of candles: records of low, high and close
  MaxCandles, \* bound: candles
  MaxFaults,  \* bound: deaths of the bot process, failures of its database
  MaxFails    \* bound: notifications that fail before they are sent

ASSUME MonitorAssumption ==
  /\ Candle \subseteq [low : 1 .. 3, high : 1 .. 3, close : 1 .. 3]
  /\ MaxCandles \in Nat /\ MaxFaults \in Nat /\ MaxFails \in Nat /\ Plan # {}

VARIABLES
  candles, \* the candles that have closed
  over,    \* plans whose valid_until has passed
  db,      \* the stored plan and its monitor
  pc,      \* where the polling thread is
  cycle,   \* what the running cycle has read: time, plans still to do
  hand,    \* the plan in hand: its monitor as read, and what to save
  user,    \* a cancel between its read and its commit
  message, \* what the conversation finds of the notice of an attempt
  passed,  \* attempts with another user message behind them before their answer
  sent,    \* history: the attempts whose notices were sent to the user
  lost,    \* history: notices handed over whose save a fault prevented
  faults   \* deaths and failures of the database so far

vars == <<candles, over, db, pc, cycle, hand, user, message, passed, sent, lost, faults>>

Sides == {"long", "short"}
Statuses == {"active", "notice_pending", "triggered", "expired", "cancelled"}
Open == {"active", "notice_pending"}
Times == 0 .. MaxCandles
Attempts == 1 .. MaxFails + 1
Found == {"none", "accepted", "answered", "started", "delivered", "aborted"}

MonitorType == [status : Statuses, touched : BOOLEAN, last : Times,
                trigger : Times, attempt : Attempts]
PlanType == [state : {"none", "watch", "expired", "cancelled"}, side : Sides,
             born : Times, until : Times, monitor : MonitorType]

NewMonitor == [status |-> "active", touched |-> FALSE, last |-> 0, trigger |-> 0, attempt |-> 1]
NoPlan == [state |-> "none", side |-> "long", born |-> 0, until |-> 0, monitor |-> NewMonitor]

\* then: where the cycle goes on after the save.
NoHand == [plan |-> CHOOSE p \in Plan : TRUE, monitor |-> NewMonitor,
           read |-> NewMonitor, then |-> "next"]
HandType == [plan : Plan, monitor : MonitorType, read : MonitorType, then : {"next", "notify"}]
NoCycle == [size |-> 0, over |-> {}, todo |-> {}, seen |-> [p \in Plan |-> NewMonitor]]
CycleType == [size : Times, over : SUBSET Plan, todo : SUBSET Plan, seen : [Plan -> MonitorType]]
NoCancel == [plan |-> {}, monitor |-> NewMonitor]

TypeOK ==
  /\ candles \in Seq(Candle) /\ Len(candles) <= MaxCandles /\ over \subseteq Plan
  /\ db \in [Plan -> PlanType]
  /\ \A p \in Plan : db[p].monitor.status = "notice_pending" => db[p].monitor.trigger # 0
  /\ pc \in {"idle", "next", "market", "read", "write", "notify", "turn", "reply", "send"}
  /\ cycle \in CycleType /\ hand \in HandType
  /\ user \in [plan : SUBSET Plan, monitor : MonitorType]
  /\ message \in [Plan -> [Attempts -> Found]] /\ passed \in [Plan -> SUBSET Attempts]
  /\ sent \in [Plan -> Seq(Attempts)] /\ lost \in [Plan -> Nat] /\ faults \in 0 .. MaxFaults

Init ==
  /\ candles = <<>> /\ over = {}
  /\ db = [p \in Plan |-> NoPlan]
  /\ pc = "idle" /\ cycle = NoCycle /\ hand = NoHand /\ user = NoCancel
  /\ message = [p \in Plan |-> [n \in Attempts |-> "none"]]
  /\ passed = [p \in Plan |-> {}]
  /\ sent = [p \in Plan |-> <<>>] /\ lost = [p \in Plan |-> 0] /\ faults = 0

Goto(place) == pc' = place
Leave == pc' = "next" /\ hand' = NoHand
Watched(p) == db[p].state = "watch" /\ db[p].monitor.status \in Open
Accepted(p) == {n \in Attempts : message[p][n] = "accepted"}

-----------------------------------------------------------------------------
(* Time *)

\* A candle closes.  A plan is valid into the candle after number "until".
CandleCloses == \E c \in Candle :
  /\ Len(candles) < MaxCandles
  /\ \A p \in Plan : db[p].state # "none" /\ db[p].until = Len(candles) => p \in over
  /\ candles' = Append(candles, c)
  /\ UNCHANGED <<over, db, pc, cycle, hand, user, message, passed, sent, lost, faults>>

ValidityEnds == \E p \in Plan \ over :
  /\ db[p].state # "none" /\ db[p].until = Len(candles)
  /\ over' = over \cup {p}
  /\ UNCHANGED <<candles, db, pc, cycle, hand, user, message, passed, sent, lost, faults>>

-----------------------------------------------------------------------------
(* The user's tools *)

Start(p) == \E side \in Sides, until \in Len(candles) .. MaxCandles :
  /\ db[p].state = "none"
  /\ db' = [db EXCEPT ![p] = [state |-> "watch", side |-> side, born |-> Len(candles),
                              until |-> until, monitor |-> NewMonitor]]
  /\ UNCHANGED <<candles, over, pc, cycle, hand, user, message, passed, sent, lost, faults>>

\* cancel_plan_monitor reads the plan and commits a changed copy of it.
CancelReads(p) ==
  /\ user = NoCancel /\ db[p].state # "none" /\ db[p].monitor.status \in Open
  /\ user' = [plan |-> {p}, monitor |-> db[p].monitor]
  /\ UNCHANGED <<candles, over, db, pc, cycle, hand, message, passed, sent, lost, faults>>
CancelCommits(p) ==
  /\ user.plan = {p} /\ user' = NoCancel
  /\ db' = [db EXCEPT ![p].state = "cancelled",
                      ![p].monitor = [user.monitor EXCEPT !.status = "cancelled"]]
  /\ UNCHANGED <<candles, over, pc, cycle, hand, message, passed, sent, lost, faults>>

-----------------------------------------------------------------------------
(* evaluate_zone_reclaim *)

\* Outside the zone on the side the price comes from, and inside it.
Outside(side, c) == IF side = "long" THEN c.close = 3 ELSE c.close = 1
Inside(c) == c.low <= 2 /\ c.high >= 2

\* Candles that closed by the time the cycle started, began after the plan and
\* ended in its validity; those behind the last one that was consumed.
Eligible(p, size) == {n \in 1 .. size : n > db[p].born + 1 /\ n <= db[p].until}
Fresh(p, m) == {n \in Eligible(p, cycle.size) : n > m.last}

Least(S) == CHOOSE n \in S : \A k \in S : n <= k
Most(S)  == CHOOSE n \in S : \A k \in S : k <= n

\* One pass over the fresh candles: the state of the pass after each of them.
\* The close before the first fresh one is taken from the feed.

\* Mutant of Scan: the pass knows nothing of the candle before the fresh ones.
ScanAlone(side, F, touched) ==
  LET scan[n \in F] ==
        LET before == IF n = Least(F) THEN touched ELSE scan[n - 1]
        IN before \/ (n > Least(F) /\ Outside(side, candles[n - 1]) /\ Inside(candles[n]))
  IN scan
Scan(side, F, touched) ==
  LET scan[n \in F] ==
        LET before == IF n = Least(F) THEN touched ELSE scan[n - 1]
        IN before \/ (Outside(side, candles[n - 1]) /\ Inside(candles[n]))
  IN scan

\* Mutant of Evaluated: the trigger candle is left for the hand-over to find.
EvaluatedBare(p, m) ==
  LET F == Fresh(p, m)
      scan == Scan(db[p].side, F, m.touched)
      back == {n \in F : scan[n] /\ Outside(db[p].side, candles[n])}
  IN IF F = {} THEN m
     ELSE IF back = {} THEN [m EXCEPT !.touched = scan[Most(F)], !.last = Most(F)]
     ELSE [m EXCEPT !.touched = TRUE, !.last = Most(F), !.status = "notice_pending"]

\* The monitor after the pass, which stops at the first close back outside.
Evaluated(p, m) ==
  LET F == Fresh(p, m)
      scan == Scan(db[p].side, F, m.touched)
      back == {n \in F : scan[n] /\ Outside(db[p].side, candles[n])}
  IN IF F = {} THEN m
     ELSE IF back = {} THEN [m EXCEPT !.touched = scan[Most(F)], !.last = Most(F)]
     ELSE [m EXCEPT !.touched = TRUE, !.last = Most(F), !.status = "notice_pending",
                    !.trigger = Least(back)]

-----------------------------------------------------------------------------
(* run_plan_monitor_cycle *)

\* The plans, and the time, are read once.
Begin ==
  /\ pc = "idle" /\ {p \in Plan : Watched(p)} # {}
  /\ cycle' = [size |-> Len(candles), over |-> over, todo |-> {p \in Plan : Watched(p)},
               seen |-> [p \in Plan |-> IF Watched(p) THEN db[p].monitor ELSE NewMonitor]]
  /\ Goto("next")
  /\ UNCHANGED <<candles, over, db, hand, user, message, passed, sent, lost, faults>>
End ==
  /\ pc = "next" /\ cycle.todo = {} /\ cycle' = NoCycle /\ Goto("idle")
  /\ UNCHANGED <<candles, over, db, hand, user, message, passed, sent, lost, faults>>

Holding(p, m, then) == hand' = [plan |-> p, monitor |-> m, read |-> NewMonitor, then |-> then]

\* A plan past its validity ends, a pending notice is handed over again, and
\* for the others the market is asked.

\* Mutant of Take: a pending notice does not end with the plan.
TakePending(p) == LET m == cycle.seen[p] IN
  /\ pc = "next" /\ p \in cycle.todo /\ cycle' = [cycle EXCEPT !.todo = @ \ {p}]
  /\ \/ /\ p \in cycle.over /\ m.status = "active"
        /\ Holding(p, [m EXCEPT !.status = "expired"], "next") /\ Goto("read")
     \/ /\ m.status = "notice_pending" /\ Holding(p, m, "next") /\ Goto("notify")
     \/ /\ p \notin cycle.over /\ m.status = "active"
        /\ Holding(p, m, "next") /\ Goto("market")
  /\ UNCHANGED <<candles, over, db, user, message, passed, sent, lost, faults>>
Take(p) == LET m == cycle.seen[p] IN
  /\ pc = "next" /\ p \in cycle.todo /\ cycle' = [cycle EXCEPT !.todo = @ \ {p}]
  /\ \/ /\ p \in cycle.over
        /\ Holding(p, [m EXCEPT !.status = "expired"], "next") /\ Goto("read")
     \/ /\ p \notin cycle.over /\ m.status = "notice_pending"
        /\ Holding(p, m, "next") /\ Goto("notify")
     \/ /\ p \notin cycle.over /\ m.status = "active"
        /\ Holding(p, m, "next") /\ Goto("market")
  /\ UNCHANGED <<candles, over, db, user, message, passed, sent, lost, faults>>

\* A failing feed leaves the plan to the next cycle.  A trigger is saved as a
\* pending notice before anybody is notified.
MarketFails ==
  /\ pc = "market" /\ Leave
  /\ UNCHANGED <<candles, over, db, cycle, user, message, passed, sent, lost, faults>>
Market == LET m == Evaluated(hand.plan, hand.monitor) IN
  /\ pc = "market"
  /\ IF Fresh(hand.plan, hand.monitor) = {} THEN Leave
     ELSE /\ Holding(hand.plan, m, IF m.status = "active" THEN "next" ELSE "notify")
          /\ Goto("read")
  /\ UNCHANGED <<candles, over, db, cycle, user, message, passed, sent, lost, faults>>

\* _save_monitor: the stored plan must still be watched and open; what the
\* cycle knows is merged over it and committed.  Otherwise nothing is saved
\* and nobody is notified.
SaveReads == LET p == hand.plan IN
  /\ pc = "read"
  /\ IF Watched(p) THEN hand' = [hand EXCEPT !.read = db[p].monitor] /\ Goto("write")
     ELSE Leave
  /\ UNCHANGED <<candles, over, db, cycle, user, message, passed, sent, lost, faults>>
SaveCommits == LET p == hand.plan IN
  /\ pc = "write"
  /\ IF hand.then = "notify" THEN Goto("notify") /\ UNCHANGED hand ELSE Leave
  /\ db' = [db EXCEPT ![p].monitor = hand.monitor,
                      ![p].state = IF hand.monitor.status = "expired" THEN "expired" ELSE @]
  /\ UNCHANGED <<candles, over, cycle, user, message, passed, sent, lost, faults>>

-----------------------------------------------------------------------------
(* _deliver_pending_notice, through the adapter and the conversation *)

\* The external id of a notice names the plan and the attempt.  A hand-over of an
\* attempt the conversation has accepted before is a repetition, and what is found
\* of its turn is looked for between its message and the next user message.

\* Mutant of Known: every hand-over is a new message.
KnownNever(p, n) == "none"
Known(p, n) == message[p][n]

\* The turn of a notice, or its delivery, has come to the point k: it is found
\* there unless another message was accepted in between.
Records(p, n, k) == message' = IF n \in passed[p] THEN message ELSE [message EXCEPT ![p][n] = k]

\* Another user message comes behind the notices of p that have no answer yet.
Overtaken(p) == passed' = [passed EXCEPT ![p] = @ \cup Accepted(p)]

Saving(status) == Holding(hand.plan, [hand.monitor EXCEPT !.status = status], "next") /\ Goto("read")

\* The message is accepted and its turn runs, or runs on.  One that has an answer
\* goes on to its delivery, and one whose delivery was started is not sent again.
NoticeBegins == LET p == hand.plan  n == hand.monitor.attempt IN
  /\ pc = "notify"
  /\ \/ /\ Known(p, n) = "none" /\ message' = [message EXCEPT ![p][n] = "accepted"]
        /\ Overtaken(p) /\ Goto("turn") /\ UNCHANGED hand
     \/ /\ Known(p, n) = "accepted" /\ Goto("turn") /\ UNCHANGED <<hand, message, passed>>
     \/ /\ Known(p, n) = "answered" /\ Goto("reply") /\ UNCHANGED <<hand, message, passed>>
     \/ /\ Known(p, n) \in {"started", "delivered"} /\ Saving("triggered")
        /\ UNCHANGED <<message, passed>>
  /\ UNCHANGED <<candles, over, db, cycle, user, sent, lost, faults>>

\* The turn ends with an answer, and the start of its delivery is recorded.
NoticeAnswered ==
  /\ pc = "turn" /\ Goto("reply") /\ Records(hand.plan, hand.monitor.attempt, "answered")
  /\ UNCHANGED <<candles, over, db, cycle, hand, user, passed, sent, lost, faults>>
NoticeStarts ==
  /\ pc = "reply" /\ Goto("send") /\ Records(hand.plan, hand.monitor.attempt, "started")
  /\ UNCHANGED <<candles, over, db, cycle, hand, user, passed, sent, lost, faults>>

\* What a hand-over that fails may leave of a notice found at k: a turn is closed
\* as aborted, the start of a delivery may be on disk.
Left(k) == {k} \cup {m \in {"aborted", "started"} :
                       \/ m = "aborted" /\ k = "accepted" /\ pc # "reply"
                       \/ m = "started" /\ k = "answered" /\ pc = "reply"}

\* The hand-over fails before the reply is sent: the session is busy, the turn
\* fails or was aborted when it was first tried, a record cannot be written.  The
\* next cycle uses a new attempt, whatever became of this one.  At the bound on
\* attempts one that has no answer stands for the next one too.
NoticeFails == LET p == hand.plan  n == hand.monitor.attempt IN
  /\ pc \in {"notify", "turn", "reply"} /\ Goto("read")
  /\ \/ /\ n <= MaxFails /\ Holding(p, [hand.monitor EXCEPT !.attempt = n + 1], "next")
        /\ \E m \in Left(Known(p, n)) : message' = [message EXCEPT ![p][n] = m]
     \/ /\ n > MaxFails /\ Holding(p, hand.monitor, "next")
        /\ Known(p, n) \in {"none", "accepted", "aborted"} /\ UNCHANGED message
  /\ UNCHANGED <<candles, over, db, cycle, user, passed, sent, lost, faults>>

\* The reply is sent, or the send fails after it may have arrived; either way
\* the plan counts as notified.
Send == LET p == hand.plan  n == hand.monitor.attempt IN
  /\ pc = "send" /\ sent' = [sent EXCEPT ![p] = Append(@, n)]
  /\ Records(p, n, "delivered") /\ Saving("triggered")
  /\ UNCHANGED <<candles, over, db, cycle, user, passed, lost, faults>>
SendFails ==
  /\ pc = "send" /\ Saving("triggered")
  /\ UNCHANGED <<candles, over, db, cycle, user, message, passed, sent, lost, faults>>

-----------------------------------------------------------------------------
(* The rest of the conversation, while no notice of p holds its turn guard *)

Quiet(p) == ~ (pc = "turn" /\ hand.plan = p)

\* Another message is accepted behind notices whose turn was cut off.
Speaks(p) ==
  /\ Quiet(p) /\ Accepted(p) \ passed[p] # {} /\ Overtaken(p)
  /\ UNCHANGED <<candles, over, db, pc, cycle, hand, user, message, sent, lost, faults>>

\* The answer of an earlier message that was cut off too comes late: it stands
\* where the answer of the notice is looked for.
LateAnswer(p) == \E n \in Accepted(p) \ passed[p], k \in {"answered", "started"} :
  /\ Quiet(p) /\ message' = [message EXCEPT ![p][n] = k]
  /\ UNCHANGED <<candles, over, db, pc, cycle, hand, user, passed, sent, lost, faults>>

-----------------------------------------------------------------------------
(* Faults *)

Fault == faults < MaxFaults /\ faults' = faults + 1

\* The notice of p is handed over, and the thread has yet to save that it was.
Told(p) == pc \in {"read", "write"} /\ hand.plan = p /\ hand.monitor.status = "triggered"
Forgets == lost' = [p \in Plan |-> IF Told(p) THEN lost[p] + 1 ELSE lost[p]]

\* The database fails under _save_monitor: the cycle goes on with the next plan.
SaveFails ==
  /\ pc \in {"read", "write"} /\ Fault /\ Forgets /\ Leave
  /\ UNCHANGED <<candles, over, db, cycle, user, message, passed, sent>>

\* The process dies; the database and the session log stay.
Crash ==
  /\ pc # "idle" /\ Fault /\ Forgets
  /\ Goto("idle") /\ cycle' = NoCycle /\ hand' = NoHand /\ user' = NoCancel
  /\ UNCHANGED <<candles, over, db, message, passed, sent>>

Poll == \/ Begin \/ End \/ Market \/ SaveReads \/ SaveCommits
        \/ NoticeBegins \/ NoticeAnswered \/ NoticeStarts \/ NoticeFails
        \/ Send \/ SendFails \/ (\E p \in Plan : Take(p))

Next == \/ CandleCloses \/ ValidityEnds \/ Poll \/ MarketFails \/ SaveFails \/ Crash
        \/ \E p \in Plan : \/ Start(p) \/ CancelReads(p) \/ CancelCommits(p)
                           \/ Speaks(p) \/ LateAnswer(p)

\* The thread polls on, and time passes; the feed may fail for ever.
Spec == Init /\ [][Next]_vars
             /\ WF_vars(Poll \/ MarketFails) /\ WF_vars(ValidityEnds) /\ WF_vars(CandleCloses)

-----------------------------------------------------------------------------
(* Properties *)

\* The rule of docs/28 section 3, read off all candles at once: some candle
\* after a close outside the zone reaches it, and that one or a later one
\* closes outside again.
Touches(p, n)  == Outside(db[p].side, candles[n - 1]) /\ Inside(candles[n])
Triggers(p, S) == {n \in S : /\ Outside(db[p].side, candles[n])
                             /\ \E k \in S : k <= n /\ Touches(p, k)}

\* However the candles were spread over cycles, and whatever died in between,
\* a plan has triggered at the first candle the rule names among those it has
\* consumed, and an active plan has consumed no such candle.
TriggerExact == \A p \in Plan :
  LET m == db[p].monitor
      T == Triggers(p, {n \in Eligible(p, Len(candles)) : n <= m.last})
  IN /\ m.trigger # 0 => T # {} /\ m.trigger = Least(T)
     /\ m.status = "active" => T = {}

\* A second notice has a cause.  Each one costs a death, or a failure of the
\* database, between the hand-over of a notice and the save that says so; and one
\* attempt is sent twice only if its turn was cut off and the conversation went on
\* to another message before it was answered.
RepeatsExplained == \A p \in Plan :
  /\ Len(sent[p]) <= 1 + lost[p]
  /\ \A i, j \in 1 .. Len(sent[p]) : i < j /\ sent[p][i] = sent[p][j] => sent[p][i] \in passed[p]

\* A restart of the bot does not repeat a notice (docs/28 section 3).
NoticeOnce == \A p \in Plan : Len(sent[p]) <= 1

\* A plan does not stay open for ever, whatever the feed and the provider do.
PlanEnds == \A p \in Plan : Watched(p) ~> ~Watched(p)

\* No notice is sent once the plan's validity is over (docs/28 section 3).
NoStaleNotice == [][\A p \in Plan : p \in over => sent'[p] = sent[p]]_vars
=============================================================================
