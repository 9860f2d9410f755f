# MarketAssAgent: verification project

TLA+ models of the program in this repository, checked with TLC and, for the
properties that matter most, proved with TLAPS for every value of the constants.
Everything is translated from the Python code under `src/src/` and `src/ops/`; where a document
or a test says something else, that is a finding (see "Findings"). Line numbers
of every definition are in `PROJECT.json` ("map").

## 1. The system

A market assistant reached through Feishu (and a small HTTP API). A message
becomes one *turn*: the agent loop asks a language model, runs the tools the
model calls, and the final text is sent back. Everything that is remembered of a
conversation is one append-only *event log* per session; nothing else is the
source of truth.

```
 FeishuLongConn ── FeishuAdapter ──┐                     ┌─ market data, charts,
   queue per session, drain thread │                     │  research (external)
                                   ▼                     │
 API ───────────────────▶ ConversationService.run ──▶ NativeAgentLoop ──▶ ToolExecutor ──▶ paper trading (SQL)
                           turn guard (flock)            │                     │           plan monitor (SQL)
                                   │                     │ ContextBuilder,     │           profile (fact file)
                                   ▼                     ▼ Compactor           │
                             SessionJournal ─────────────┴─────────────────────┘
                                   │  one method per kind of event
                                   ▼
                       LocalSessionEventStore
                        scope gate (flock) ▸ session lock (flock) ▸ partition files, blobs
```

### Components

| component | state it keeps | operations | hard behaviour | what makes it correct |
|---|---|---|---|---|
| **LocalSessionEventStore** (`infrastructure/memory/event_store.py`) | partition files, quarantine marker, per process health flag, locks | `append`, `read_events`, `projection`, `create_session`, `create_branch`, `activate_branch`, `rebuild_projections` | several processes; lock-free reads; crash inside a write; power loss; failing fsync; rotation | one fact one event; contiguous numbers; no two heads of a branch; what was confirmed survives |
| **Blobs and scope erasure** (same file) | blob files, trash, list of erased sessions, intents | `_put_blob_locked`, `read_blob`, `collect_blobs`, `erase_scope` | collector against writers; death in the middle of an erasure | no referenced blob is collected; an erased scope never comes back |
| **SessionJournal** (`session_journal.py`) | none of its own | one append per event kind, `reconcile_incomplete_tool_calls` | recovery of tool calls that a crash left open | every call gets a plan and a result, and the result is true |
| **ConversationService** (`conversation_service.py`) | turn guard | `run`, `begin_delivery`, `finish_delivery` | repeated deliveries, aborts, crashes; delivery outside the guard | one loop and one reply per message, no blind retry of a tool |
| **NativeAgentLoop, ToolExecutor** (`core/`) | position in the loop | request, answer, tool calls, overflow retry | failing model calls, step limit, rejected arguments | no tool before its start is logged |
| **FeishuAdapter** | none | send the reply, record the outcome | a send whose outcome is not known | "delivered" only if sent |
| **FeishuLongConn** | queue and thread per session | enqueue, drain | last message of a dying drain thread | no message is stranded |
| **ContextBuilder, Compactor** | compaction events of the log | select events, replace a prefix | a compaction next to open calls, repeated compaction | a call and its result are never separated |
| **Paper trading** (`domain/trading`, `persistence`) | an order and its idea per row, changed in one commit | create, cancel, reconcile | bars that arrive in batches; a call cut off between two commits | no price from before the order counts; a finished call leaves nothing undone; settled orders stay |
| **Plan monitor** (`tools/plan_tracking.py`) | idea and monitor per row (SQL) | start, cancel, poll cycle | cancel, end of validity and death between any two steps; notice and save are two steps; other messages of the conversation between them | the trigger the rule names; a second notice only after a lost save; no plan open for ever |
| **Profile and facts** (`core/json_fact_store.py`, `core/memory_api.py`) | one file of appended facts | read, merge, append | time stamps of one second; a stored value that no longer validates | a later read returns what the last update returned |
| **Asset catalogue** (`core/asset_catalog.py`, `tools/market_data.py`) | one file behind a cache of the process | look up, discover, register | threads and processes without a lock; truncate and write; queries whose normal form is empty | a query that was learned keeps its meaning, if it can be found again |
| **Market analysis** (`domain/market`) | none (pure) | fractals, key levels, zones | several cuts in a row, boundaries of intervals | no tested price missing behind a farther one |
| **Event log migration** (`ops/migrations`) | all session files, staged copies, backup | stage, replace, verify, restore, collect | failure or death between two files, also while files are put back or references collected | all sessions or none unless putting back fails; no blob of a readable file is lost |

The rest (language model client, presenters, wiring, charts) keeps
no state worth a model; `PROJECT.json` lists it with the reason.

### Interactions

* `run` holds the **turn guard** (one flock per session) from recovery to the
  end of the loop. Every event inside is a separate `append`, which takes the
  **session lock** for itself. Delivery (`begin_delivery`, the send,
  `finish_delivery`) happens after the guard is released and only uses the
  session lock.
* An append names the parent it expects (`expected_parent_seq`), read without a
  lock before; a stale parent is a `ParentConflict`, which no caller retries.
* Idempotency: every event kind has a key object; an append whose key is in the
  session returns the existing event. This is what makes recovery and repeated
  deliveries possible at all.
* Every append passes the **scope gate** (a shared flock), which `erase_scope`
  takes exclusively; an append that stores a blob also holds the collection lock
  from the blob to the event, against `collect_blobs`.
* Tools of one session run one at a time under its turn guard, so orders and the
  profile of a session have one writer; the plan monitor polls in a thread of the
  bot, beside them. A notice of the monitor is a message of the plan's
  conversation like any other, with an external id of plan and attempt.
* `analyze_market` reconciles the session's paper orders first and only logs it
  when that fails (`tools/registry.py:96`).
* The log is read again after a crash: `reconcile_incomplete_tool_calls` runs at
  the start of every turn.

## 2. Modules

| module | what it is |
|---|---|
| `EventLog` | the data of a session log: lines, heads, active branch, which line may follow (`_rebuild_projection`, `_validate_candidate`) |
| `DurableLog` | **abstract**: a log that events enter atomically; promised events stay, others may be forgotten |
| `EventStore` | `LocalSessionEventStore.append` step by step, with files, flock, crashes, power losses, failing fsyncs |
| `MCEventStore` + `EventStore_*.cfg` | instances for TLC |
| `EventStoreProofs` | TLAPS: types; lock, keys, branches, numbers; crashes, power losses and the refinement of `DurableLog` |
| `SessionTurn` | the messages of one session: turn guard, recovery, agent loop, tools, delivery, on top of an atomic log |
| `MCSessionTurn` + `SessionTurn_*.cfg` | instances for TLC |
| `SessionTurnProofs`, `SessionTurnEffects`, `SessionTurnOrder` | TLAPS: types, closed calls, aborts, deliveries; tool effects; what holds as long as messages or deliveries keep their order (one loop, one send, replies of their own) |
| `ScopeErasure` | `erase_scope`, the gate, storing and collecting blobs, and appends as far as they meet these |
| `ScopeErasureProofs` | TLAPS: types, `ListedStaysErased`, `ReferencedKept`, and when `ErasedStaysErased` holds |
| `ContextWindow` | what a request shows: context builder, compactor and the turns around them |
| `PaperTrading` | orders and ideas: create, cancel, reconcile against the bars of a moving market |
| `PaperTradingProofs` | TLAPS: types and the four other properties; where an overlooked stop must lie |
| `PlanMonitor` | watched plans, the poll cycle, cancel, the hand-over of notices |
| `PlanMonitorProofs` | TLAPS: types, the trigger, what a repeated notice costs; how late a notice can be |
| `LongConn` | the queues and drain threads of the Feishu connection |
| `Migration` | the offline migration of the event logs |
| `ProfileStore` | profile facts: read, merge, append |
| `AssetCatalog` | resolving a query to an asset, with cache, discovery and registration |
| `MarketLevels` | key levels, Fibonacci levels and zones as functions of the bars |
| `MCScopeErasure`, `MCPaperTrading`, `MCPlanMonitor`, `MCContextWindow` + cfgs | instances for TLC |
| `Parts` | the six smaller parts side by side (`ContextWindow`, `LongConn`, `Migration`, `ProfileStore`, `AssetCatalog`, `MarketLevels`). They share no state, so a behaviour is one of a single part, chosen in `Init`; the state spaces lie side by side |
| `MCParts` + `Parts.cfg` | small values for TLC |
| `PartsProofs` | TLAPS: the safety property of each part; when requests show all calls, when registrations stay |

The layers meet at the session log. `EventStore` shows when the files behave like
an atomic one (`ImplementsDurableLog`, one partition, working fsync);
`SessionTurn` uses one: `Put(e)` returns the event of an equal key or adds `e`
behind the head. `ContextWindow` keeps the events that decide what is shown, in
the order `SessionTurn` can produce (late turns included), and replaces the loop by
its requests. `PlanMonitor` knows of a notice's turn what the conversation finds
of it: nothing, accepted, answered, delivery started, delivered, aborted. Answer
and delivery are looked for by position (`_completed_turn`), so an attempt that
another message was accepted behind (`passed`) is not found again once it is
answered. `ScopeErasure` keeps of an append the locks, the check of the erased list and the write.

Operators with a comment "Mutant of X" are not used by any specification: they
are plausible bugs, and `PROJECT.json` ("mutants") says which property each one
breaks when it replaces X.

### EventStore: state and actions

| variable | in the code |
|---|---|
| `disk` | complete valid lines of all partitions of the session; a line carries its `seq`, partition, branch and parent |
| `nparts`, `tail` | partition files that exist, and what follows the last line of each (nothing, a partial line, a terminated line with a bad checksum) |
| `synced`, `doubtful` | what no power loss can take; lines whose fsync failed |
| `quarantined` | the quarantine marker |
| `lock`, `pc`, `op`, `healthy` | the session flock; where a process is in `append`, with which event; `_unhealthy_reason` is unset |
| `committed`, `deduped` | history: lines confirmed by their own append, lines returned for a repeated one |

`StartAppend` is the lock-free read of head and active branch; `Acquire` is the
locked read with tail repair and the decision (deduplicate, refuse, accept);
`Rotate`, `Write`/`WriteError`, `Fsync`/`FsyncError` and `Return` follow.
`ReadCorrupt` is any lock-free read that meets a bad line; `Rebuild` is
`rebuild_projections`. The steps are cut where a crash, a power loss or another
process can come in between; the scope gate is shared by all appends and only
exclusive for erasure, so it is part of `GiveUp`.

Abstracted: bytes and checksums (a line is good, partial or bad), payloads
(identity only), snapshots (a cache that the code verifies against the files),
byte limits of a line, tenants. The byte limit of a partition is there: any line
may be the one that does not fit.

### SessionTurn: state and actions

| variable | in the code |
|---|---|
| `log` | the events of the active branch, an event's number being its index |
| `guard` | holder of the turn guard |
| `pc`, `job` | where a worker is in `run`, the loop or the delivery, with its local variables |
| `effects`, `sent`, `answered` | history: tools that ran, replies that reached the user, replies that `run` returned |

One action per appended event, and one for every step between two appends at
which a crash matters: `Receive`/`Refused` (guard), `RecoverPlan`,
`RecoverResult`, `Recovered`, `Accept`; for a known message `Reuse`,
`StopIndeterminate`, `StopAborted`, `RunAgain`; `Request`, `Final`, `Calls`,
`CallFails`, `AppendAttempt`; `Plan`, `Start`, `Execute`/`Reject`, `Result`,
`Refuse`; `AppendAborted`, `AppendLocal`, `AbortBroken`; `PlanDelivery`,
`ReadDelivery`, `StartDelivery`, `Send`, `FinishDelivery`, `CloseDelivery`;
`Crash` and `AppendFails`.

Abstracted:

* the session header; compaction events (the context either fits or the turn is
  given up); texts, arguments and results;
* `AppendFails` stands for every reason why an append or the read before it
  raises: `ParentConflict` against a delivery outside the guard, `StoreBusy`, no
  space, an erasure. It may strike at any append, which is more than the code
  does for some of them. An append whose fsync fails after the line was written
  is an append followed by a crash for the log;
* a tool that reports an error of its own is a tool that ran ("succeeded"): the
  log's status distinguishes them, no property here does. "failed" is a call
  whose arguments were rejected before it ran;
* a reply whose rendering fails is replaced by a fallback text: one send.

### ScopeErasure: state and actions

| variable | in the code |
|---|---|
| `live`, `refs`, `rotten` | sessions with a file in the scope directory, the blobs their events refer to, files with an unreadable line |
| `trash`, `aside`, `tomb` | sessions moved to the trash, index and quarantine files, the list of erased sessions |
| `intent` | the intent file: none, fresh, or older than its timeout |
| `blobs`, `old` | stored blobs, and those past the grace period |
| `pc`, `job` | where a process is, with scope, session generation, blob and (collector) marked blobs |

`Store` is `append` up to the gate (session resolved, blob stored), `Enter`/`Busy`
the gate, `Write`/`Refuse` the rest. `Request`, `Acquire`/`GiveUp`, `Rename`,
`Strip`, `List`, `Purge`, `Drop` are `erase_scope` in the order of its file
operations; `Clear`, `FinishList`, `FinishPurge`, `FinishStrip`, `FinishDrop` are
`_clear_stale_erase_intent`, whose order differs (list, trash, index, intent).
`Mark` and `Sweep` are `collect_blobs`. Locks are derived from `pc`: flocks go with
their process. Abstracted: tenants, directory names, the retention of purged trash
(a moved blob is a removed one), contents of events.

### ContextWindow: state and actions

`log` holds the events that decide what is shown; a checkpoint carries the last
event it covers, the first it keeps, its size and, as history, the events its
summary was made from. `Build` and `Compact` are one look at the log (fits, or
choose a cut, or give up), `Commit` the model's summary and the checkpoint;
`TooLong` and `TooLongAgain` are the provider's refusal, `Accept`, `Resume`,
`Refuse`, `Answers`, `Calls`, `Fails`, `Crash` the turn around it. Tokens are
counts of events; a summary has any size; the chunks of one summary call are one
step.

### PaperTrading and PlanMonitor: state and actions

Both count time in bars or candles, the last bar being in progress (`PaperTrading`)
or only closed ones counting (`PlanMonitor`).

* `PaperTrading`: `row` is an order with its idea, since one commit changes both.
  `Begin` reads the active orders and fetches the bars once, `Pick` decides one
  order and commits, `Advance` carries on an order filled by `Pick` over the same
  bars in a second commit, `Return` ends the call and `CutOff` is its death or a
  database error between two commits. `Create`, `Cancel` are the tools. `done`
  and `from` are history. Limit orders of type `pullback_limit` and reported
  positions; prices are integers, a bar is its range.
* `PlanMonitor`: `Begin`, `Take`, `Market`/`MarketFails`, `SaveReads`,
  `SaveCommits`/`SaveFails`, `End` follow `run_plan_monitor_cycle`; the database is
  not held over market and model calls. A hand-over is `NoticeBegins` (a new
  message, or what is found of it), `NoticeAnswered`, `NoticeStarts` (the delivery),
  `Send`/`SendFails`, with `NoticeFails` before the send. `Speaks` and `LateAnswer`
  are the user's own messages in that conversation, as far as they change what is
  found of a notice: one accepted behind it, and the late answer of an earlier one
  that stands where the notice's is looked for. `sent` and `lost` are history.
  `CancelReads` and `CancelCommits` are the two halves of the user's cancel.
  A price is below, in or above the zone. An end of validity is an event of its
  own, so it falls between any two steps.

### The smaller parts

* `LongConn`: `pending` is the dictionary of queues and `threads` the drain
  threads, changed under one lock; `Join`, `Open`, `OpenFails`, `Ignored` are
  `_on_message`, `Take` and `Handle` are `_drain_session`. What a message does is
  `SessionTurn`.
* `Migration`: one action per file operation that another can fail behind. A file
  holds old records, or *all* migrated records of its session, as the code writes
  them, or it is torn: a copy that was cut off left a beginning of its old records.
  Every phase can fail: staging, replacing, verifying, putting the files back
  (`RestoreRaises`, `halfway`), reading the references (`Scan` passes over a file
  it cannot read, kept in `unread`), unlinking blobs (`CollectRaises`) and staged
  copies (`Cleanup`). The backup is one step (it precedes every change).
* `ProfileStore`: a profile is one scalar and one list; a fact is a time stamp of
  one second and a profile.
* `AssetCatalog`: a catalogue is a set of pairs of an asset and an alias of it, as
  the file keeps them. Queries are compared in a normal form of Latin letters,
  digits and Chinese characters (`_normalize_alias`), and an alias with fewer than
  two of them is dropped: `Legible` are the queries that keep two, legible queries
  of one normal form are one query, and `Found` finds no alias for the others. A
  name in Japanese kana or Korean script is such a query. `Look`/`Fill` are the cache's read and fill, `Truncate`/`Write`/`Clear` the
  three effects of a registration. Model and feed answer anything.
* `MarketLevels`: the windows are constants, their values in the code are noted
  beside them. Prices are integers, which makes the limits exact. The pass over the
  sorted candidates that forms clusters is the set of prices that begin one
  (`Starts`): a price begins a cluster if it does not join the one below it.

## 3. Runs

Twelve runs; "states" are distinct states.

| run | instance | shows | states |
|---|---|---|---|
| `EventStore_crash` | 2 processes, 1 key beside header and branch events, 2 partitions of 2 events, 2 crashes, 1 failing fsync | `WriterExclusive`, `Numbering`, `CrashNeverQuarantines`, `OnlyPowerLossForgets`, `TypeOK` | 181 thousand |
| `EventStore_branch` | 2 processes, 1 key, 1 fork, no faults | `UniqueKeys`, `BranchChain` while branches are created and activated | 512 thousand |
| `EventStore_power` | 2 processes, 1 key, 1 partition, 1 crash, 2 power losses, fair steps | `CommittedDurable`, the refinement `ImplementsDurableLog`, `LockReleased` | 78 thousand |
| `SessionTurn_guard` | 2 processes, 2 messages, 2 deliveries, 1 fault | `ResultTruth`, `DeliveredTruth`, `TypeOK` with overlapping turns and deliveries | 1.1 million |
| `SessionTurn_recover` | 1 process, 2 messages, 3 deliveries, answers with 2 calls, 2 faults, up to the first settled delivery | `CallsClosed`, `AbortSticks`, `EffectOnce`; a fault may hit recovery itself | 743 thousand |
| `SessionTurn_retry` | 1 process, 1 message, 3 deliveries, 2 loop steps, 2 faults, fair steps | `NoBlindRetry`, `OneLoop`, `SentOnce`, `GuardReleased`, `Answered` | 117 thousand |
| `ScopeErasure_fault` | 1 scope, 2 writers, 1 eraser, 1 blob, 2 generations, 1 fault, fair steps | `ListedStaysErased`, `ReferencedKept`, `ErasureFinishes` | 79 thousand |
| `PaperTrading_orders` | 1 order, 3 prices, 3 bars, 1 cut-off call | `NoLookBack`, `BatchComplete`, `ProfitSigned`, `TerminalStays`, `TypeOK` | 522 thousand |
| `PlanMonitor_cycles` | 1 plan, 3 candles, 2 deaths or failing saves, 1 failing hand-over, fair polling | `TriggerExact`, `RepeatsExplained`, `PlanEnds`, `TypeOK` | 1.1 million |
| `Parts` | six parts, see `Parts` and below | `NothingForgotten`, `PrepareEnds`, `Accounted`, `AllOrNothing`, `ReadsLastSteady`, `SameAnswer`, `RepeatedLevelShown` | 986 thousand |
| `PaperTrading_stop` | as `PaperTrading_orders`, no call cut off | finding 7 (violation of `StopNotOverlooked`) | |
| `ContextWindow_resume` | 2 messages, 1 call | finding 8 (violation of `CallsShown`) | |

Beside them, cfgs that show one behaviour each, to be given to TLC with the module
`MC<first part of the name>`, or with the module itself where there is no such MC
module:
`EventStore_dedup_ack`, `EventStore_rotation`, `EventStore_tail`,
`SessionTurn_loop`, `SessionTurn_reply`, `SessionTurn_resend`,
`ScopeErasure_revived`, `PlanMonitor_stale`, `PlanMonitor_again`,
`PlanMonitor_repeat`, `ProfileStore_second`, `ProfileStore_foreign`,
`MarketLevels_recent`, `Migration_unread`, `AssetCatalog_script` and
`AssetCatalog_race` end in a
counterexample (section 4); `Parts_types` checks the types of the six parts.

**Why these bounds are enough.** Two processes are all the guards distinguish
(holder, other). The key of an ordinary event, appended by both, is new once and
repeated afterwards; header, event and activation make three lines, so there is a
middle, and fill one partition and open the next. The second crash and the
second power loss find what the first one left half repaired. In `recover` the
second fault strikes the recovery from the first; two calls per answer give a
call before, at and behind the crash; the third delivery meets a turn that was
cut off and another that was aborted. That run stops at the first delivery that
is settled (`NoneSettled`), since what follows a settled delivery repeats what
`guard` explores; its three properties are also proved without any bound, as are all
safety properties of the other passing runs.
`LoopSteps = 2` gives one step that is not the last. The counters (`MaxParts`, `MaxCrashes`, `MaxPowerLosses`,
`MaxFsyncErrors`, `MaxDeliveries`, `MaxFaults`) bound the environment and nothing
else. The proofs cover the other values.

In `ScopeErasure_fault` one scope suffices, since gates, lists and
files are per scope and only blobs are shared; two writers make one that waits
inside the gate and one that resolved its session before the erase; generation 1
is the session after an erase; the fault is the death of an eraser, of a writer or
of a finisher, a failing operation, or an unreadable line. In
`PaperTrading_orders` orders are independent of each other except through the
loop, so one is enough; three bars give one before, one at and one after a fill,
and three prices a stop, an entry and a target in every order. In
`PlanMonitor_cycles` three candles give a touch, a reclaim and a candle of their
own outside, spread over cycles in every way; the first fault cuts a notice's turn
off or takes the save of its delivery away, the second does so with its repetition,
and the failing hand-over makes a second attempt. `Parts` keeps each part small
enough for the interesting case: three messages and three replies make a chain of
two compactions behind an aborted turn; two sessions with one and two files make a
rotated session fail behind one that was replaced; a second migration fault strikes
while the first one's files are put back; two updates in one second; two workers,
two legible queries and one that is not at the catalogue. The windows of `MarketLevels` are smaller than in the code
(`Wing = 1`, `LeastRows = 3`), so four bars have fractals and zones; its prices
lie so far apart that they make several zones.

**Symmetry** (processes, messages, ordinary keys) is used in safety runs only.
`EventStore` and `PaperTrading` have no deadlock, nor has `ScopeErasure`; in the
others the environment may have nothing more to deliver or the bounds on time and
messages are used up, so deadlock is not checked there.

**Fairness.** `WF_vars(Step(p))` per process, for the steps *inside* an append or
a turn: every lock wait in `append` has a deadline (`GiveUp`), a turn is one
synchronous call, and model and tool calls have timeouts. No process owes the
system a message, a new append, a crash or an error. `Answered` speaks of turns
that were accepted after the last fault: before that the code promises nothing.
`ScopeErasure`: a process in an append, an erasure or the end of an abandoned one
goes on (no step of these waits without a deadline), and an intent grows old.
Messages do arrive: an abandoned erasure is finished by the next guard only, so
`ErasureFinishes` says "if the scope is used again". `PlanMonitor`: the thread
polls (its loop catches every error of a cycle), validity ends and candles close;
the market may fail for ever. `ContextWindow`: the steps of preparing a request,
whose model calls have a timeout.

## 4. Findings

Where the code differs from what its documents, comments or tests say (details and
quotations in `PROJECT.json`); each has a cfg in which TLC finds the behaviour:

1. A *repeated* append is confirmed from the file without an fsync, although its
   first attempt may have died before its own (`EventStore_dedup_ack`).
2. Rotation does not fsync the partition it closes (`EventStore_rotation`).
3. A read *without* the lock quarantines a session whose last line only fails
   its checksum, instead of leaving it to be cut (`EventStore_tail`).
4. With two messages, one cut off and run late, its agent loop runs again at
   every further delivery: replies are looked up by position, not by turn
   (`SessionTurn_loop`). `NoBlindRetry` fails for the same reason with two
   messages: the unknown result lies behind the other message.
5. The same lookup returns one message's reply for the other (`SessionTurn_reply`).
6. Two processes that deliver the same reply both send it (`SessionTurn_resend`).
7. The next call skips every bar that started before a fill's commit. What the bar
   in progress does after its price filled an order is never looked at, and when a
   call is cut off between fill and close, none of the bars since the fill is: a stop
   hit there is overlooked and the position may close at its target
   (`PaperTrading_stop`).
8. A turn that is resumed behind a later, aborted message loses its own tool
   results from the next request: aborted turns are left out by position
   (`ContextWindow_resume`).
9. A guard that finishes an old erasure removes the intent file it finds, also the
   new one of an eraser that waits for the gate. If that eraser dies after its
   rename, its sessions are never listed as erased and the next message writes to
   the erased session again (`ScopeErasure_revived`).
10. A notice can be sent after the plan's validity has ended: the time is compared
    once per cycle (`PlanMonitor_stale`).
11. Of two profile updates within a second the earlier one is read back as the
    latest (`ProfileStore_second`).
12. A stored style that the schema does not know makes the profile read as the
    default one, and the next update stores that (`ProfileStore_foreign`).
13. The "latest three" key levels are the highest lows and the lowest highs
    (`MarketLevels_recent`).
14. The notice of a plan can be sent twice. A death behind the delivery takes the
    save away; if the repeated hand-over then fails, because the user's own turn
    holds the session, the next one has a new id and starts anew
    (`PlanMonitor_again`). Under one id it is sent twice if its turn was cut off and
    answered behind another message (`PlanMonitor_repeat`), which is finding 4 again.
15. The migration passes over a file it cannot read and then removes the blobs this
    file refers to (`Migration_unread`).
16. A query without Latin letters, digits or Chinese characters registers a candidate
    whose name was compared with nothing, and does not find it again: the next
    answer may be another asset (`AssetCatalog_script`).

Hence `OneLoop`, `NoBlindRetry` and `SentOnce` are shown to hold only where the
code provides them: checked for one message, one process, any faults and repeated
deliveries, and proved as long as messages and deliveries keep their order
(`InOrder`, `OneDelivery`). Findings 4 to 10 and 14 to 16 have a counterpart each in section 5,
a theorem that says under which condition on the schedule it cannot happen, or
where it must lie:

| finding | property | holds | theorem |
|---|---|---|---|
| 4, 5 | `OneLoop`, `NoBlindRetry`; `ReplyOwn` | if no message comes again after a later one was accepted (`InOrder`) | `OneLoopInOrder`, `NoBlindRetryInOrder`, `RepliesOwn` |
| 6 | `SentOnce` | if no two processes deliver at the same time (`OneDelivery`) | `RepliesSentOnce` |
| 7 | `StopNotOverlooked` | but for bars between a fill and its commit | `OverlookedOnlyAtTheFill` |
| 8 | `CallsShown` | while the turn that runs is the latest message's (`LatestRuns`) | `CallsShownInOrder` |
| 9 | `ErasedStaysErased` | if nobody removes the intent of an eraser beside it (`Undisturbed`) | `ErasedStayErasedUndisturbed` |
| 10 | `NoStaleNotice` | but for a validity that ends within the sending cycle | `LateOnlyWithinACycle` |
| 14 | `NoticeOnce` | but for one repetition per lost save, and under one id only behind another message (`RepeatsExplained`) | `RepeatsHaveCauses` |
| 15 | `OnlyUnreferencedRemoved` | for files that could be read when references were collected (`AllOrNothing`) | `MigratesAllOrNothing` |
| 16 | `EveryAnswerSame` | for legible queries, without overlaps (`SameAnswer`) | `LearnedQueryKeepsMeaning` |

Likewise `ListedStaysErased` speaks of *listed* sessions, `ReadsLastSteady` of updates in
different seconds with known styles, and `NothingForgotten` of turns that were
answered before the next message.

Behaviour that no document speaks of and that the models show or that was met
while reading:

* Migration: a session with more than one file always fails verification (every
  file gets all of its migrated records), everything is put back, and the quarantine marker of that
  session stays. A directory that cannot be synced after a file was replaced
  leaves that file migrated. A run that died, or that failed in putting files back,
  leaves mixed files, perhaps a torn one, which make the next run stop before it
  changes anything; so do staged copies that could not be removed. A failure while
  blobs are collected ends the run with an error although every file is migrated.
* The late answer of another message can stand where the answer of a notice is
  looked for. A plan whose notice was cut off can then be saved as triggered
  without its notice being sent.
* A blob that the collector moves aside keeps its age, so the default retention
  purges it in the same pass.
* A file with an unreadable line contributes only the references in front of it
  (`Doubtful`), which is why `ReferencedKept` speaks of readable files.
* An eraser that dies between the steps of finishing an abandoned erasure leaves
  index or quarantine files behind.
* A zone may be wider than 1.2 % of the price: the limit is at least 1 unit.
* Two threads that register assets at once can lose one registration, and a fill
  of the cache can bring back an old catalogue (`AssetCatalog_race`); `SameAnswer`
  excludes exactly these.
* Messages queued in memory are lost in a restart, after the platform was told
  that they had arrived.

## 5. Proofs

TLC finds out on small instances; TLAPS proves these for all values of the
constants that satisfy `ParamAssumption` (`EventStore`), `TurnAssumption`
(`SessionTurn`), `ErasureAssumption` (`ScopeErasure`), `TradingAssumption`
(`PaperTrading`), `MonitorAssumption` (`PlanMonitor`) and the assumptions of `Parts`:
finitely or infinitely many processes, messages, keys, scopes, blobs, orders and
prices, any bounds. Three assumptions beside the types are worth a word: there is
a plan to monitor, a query to ask, and the catalogue of assets is finite.

| theorem | property | argument |
|---|---|---|
| `TypeCorrect` | `EventStore!TypeOK` | inductive as it stands |
| `LogWellFormed`, and from it `LockSerialises`, `KeysUnique`, `BranchesLinear`, `NumbersContiguous` | `WriterExclusive`, `UniqueKeys`, `BranchChain`, `Numbering` | their conjunction `LogInv` is inductive given the types: the decision taken under the lock still holds at the write because nobody else can write, so the new line has a new key, the head as parent and the next number. Tail repair cuts nothing contiguous, a power loss only takes lines |
| `CrashesHarmless` | `CrashNeverQuarantines` | `CrashInv`: before the first power loss no tail is "bad" |
| `LinesStay` | `OnlyPowerLossForgets` | action property from the two invariants above |
| `CommitsDurable` | `CommittedDurable` | `SyncInv`: the durable lines are a prefix of the log and, once a process is past its fsync, all of it. The prefix matters: without it a later repair could cut a confirmed line behind a hole |
| `StoreImplementsLog` | `ImplementsDurableLog` | for `MaxParts = 1` and `MaxFsyncErrors = 0`; step by step: `Write` is `Enter`, `Return` is `Promise`, `PowerLoss` is `Forget`, all else stutters. Findings 1 and 2 show why the hypotheses are there |
| `TurnTypeCorrect` | `SessionTurn!TypeOK` | `Typed`: a turn knows its message and user event (`TurnKnown`), has a call at hand where it handles one (`CallAtHand`), every answer lies behind some user event (`CallsInTurn`), otherwise recovery would plan a call of turn "none" |
| `CallsAlwaysClosed` | `CallsClosed` | `GuardHeld` (only the holder of the guard is inside `run`) and `CleanAccept` (past recovery nothing is open): between recovery and the user event only deliveries append |
| `AbortsStick` | `AbortSticks` | `LoopFresh`: a turn in the loop has no abort, and a start is preceded by a plan of the same turn; `Referenced`: aborts name user events, so a new turn has none |
| `DeliveredWasSent` | `DeliveredTruth` | `Delivering`: past its plan a delivery holds that plan and its reply, and past a successful send the reply was sent. Holds for any number of workers delivering the same reply |
| `CallsRunOnce`, `ResultsTrue` | `EffectOnce`, `ResultTruth` | under `DistinctCalls` (the calls of one answer have different ids); `CallPlace`: the plan at hand is open and has not run before `Execute`, later calls of the answer are unplanned; `PlanRefs`: starts, results and effects belong to plans |
| `RepliesSentOnce`, `OneWorkerSendsOnce` | `SentOnce` | if no two workers deliver at the same time (`OneDelivery`), in particular with one worker; `SentInv`: a reply has one delivery plan (`PlansOnce`), a reply that was sent has a started plan (`SentStarted`), and who is about to start found the plan not started (`SendPlace`), which stays so while nobody else delivers |
| `OneLoopInOrder`, `NoBlindRetryInOrder`, `OneMessageInOrder` | `OneLoop`, `NoBlindRetry` (and `ReplyOwn`) | if no message comes again after a later one was accepted (`InOrder`), for any number of workers; with one message that is always so (`UserOnce`: a message has one user event). `OrderInv`: answers and results lie in the group of their turn (`InTheirTurns`), what recovery has to close is of the last turn (`OpenLast`), and a turn in the loop is the last one, without an answer and without an unknown result (`Looping`). So the code's lookup by position finds what belongs to the turn |
| `RepliesOwn` | `ReplyOwn` | under `InOrder`, on top of `OrderInv`. `OwnInv`: the turn of whoever is inside `run` is a turn of the message in hand (`TurnOwn`), a turn that ends with a local reply is the last one (`EndsLast`), so local replies, too, lie in the group of their turn (`LocalsIn`), where the code's lookup finds them, and what `run` returned was written for its message (`AnswersOwn`) |
| `ErasureTypes`, `ListedErased`, `BlobsKept` | `ScopeErasure`: `TypeOK`, `ListedStaysErased`, `ReferencedKept` | `IInv`, one step lemma per conjunct: the gate is exclusive (`GateApart`); past the rename the scope has no file and past the list its sessions are listed (`MovedAside`); collecting excludes writers with a blob (`CollectApart`); a writer with a blob in hand finds it stored until its event is written (`Carried`); a collector that marked keeps what readable events refer to (`Kept`); what these refer to is stored (`Stored`, from which the property follows). Without `Carried` a blob could go between storing and writing, without `Kept` between mark and sweep |
| `ErasedStayErasedUndisturbed` | `ScopeErasure!ErasedStaysErased` | under `Undisturbed`, on top of `IInv`. `Awaited`: what was moved aside is listed or waits to be, and as long as something waits its scope has no file and an intent. `Ordered`: an eraser at the gate or about to rename finds its intent, a writer inside the gate finds everything listed, and so does whoever deletes the trash or removes an intent. So a death between rename and list leaves an intent, which the next guard finishes before anyone writes |
| `TradingTypes`, `NeverLooksBack`, `BatchesComplete`, `ProfitHasItsSign`, `TerminalStay` | `PaperTrading`: `TypeOK`, `NoLookBack`, `BatchComplete`, `ProfitSigned`, `TerminalStays` | `IInv`: every row is good (`Rows`: types, order and idea paired, times in order, price and reason paired, stop and target on their sides of the entry), the order in hand was filled by the bar where `Advance` goes on (`InHand`), orders still to do and done are apart (`Apart`), and `BatchComplete` itself. `LeastIn` gives the one fact about CHOOSE: a nonempty set of bars has a first one |
| `OverlookedOnlyAtTheFill` | bounds `StopNotOverlooked` | an action property. `Fetched`: the bars of a call are the market's but for the last one, which may have grown since. The closing bar is the first one of those looked at that meets stop or target, so none before it met the stop; those looked at begin behind the last change of the order, or at its fill if the same call filled it. What is left lies between the fill and its commit, which is finding 7 |
| `TypeCorrect`, `TriggersExactly`, `RepeatsHaveCauses` | `PlanMonitor`: `TypeOK`, `TriggerExact`, `RepeatsExplained` | `IInv`: a monitor is copied into the cycle, the hand and a cancel, and back; what the rule says of the stored one it says of every copy (`Copies`), so any of them may be saved at any time. `Exact` also describes what a monitor without a trigger has seen: it has touched if a candle did, and no candle fires. `Owed`: as long as some copy of a plan may still lead to a notice (`Sendable`), every notice so far has a lost save of its own, so one more is covered too. `InPlace`: an attempt that was sent is found delivered, or another message was accepted behind it; the attempt in hand is found where the thread is |
| `LateOnlyWithinACycle` | bounds `NoStaleNotice` | an action property. `Valid`: on the way to a hand-over the plan was valid when the cycle started and its monitor is pending; with `Copies` that monitor has triggered, and its trigger is the first candle the rule names among all of the plan's validity (`FirstOfAll`). So a notice is due when its cycle starts, and late at most by that cycle (finding 10) |
| `EveryMessageAccounted` | `LongConn!Accounted` | `ConnInv`: a session is drained (no queue, no thread, all handled) or draining (one queue, one thread, which has at most one message in hand, and the rest waits) |
| `MigratesAllOrNothing` | `Migration!AllOrNothing` | `MigInv`: files a run has not replaced, or has put back, are what they were, the others are migrated, as long as no directory sync and no restore failed (`MigFiles`); what is put back is of the old form, so a copy that is cut off refers to no blob that the whole file does not (`TornFinds`); every file that could be read finds its blobs as it is, as it was and, once staged, as it will be, and none of these is collected (`MigBlobs`), so neither replacing nor restoring nor collecting loses one, wherever each of them fails |
| `ProfileReadsLast` | `ProfileStore!ReadsLastSteady` | `ProfInv`: facts lie in the order of their time and none is of the future, so an update in a new second is the latest |
| `LearnedQueryKeepsMeaning` | `AssetCatalog!SameAnswer` | `CatInv`, as long as nothing was spoilt: who writes is alone (`Alone`), a file that is whole and the cache hold all that was learned, the catalogue in a worker's hand holds what was known when it was asked (`Holds`), and no catalogue that is read later lacks what an earlier one held (`GrowsOnly`), so an alias search with a legible query finds the registered asset or more (`Searched`), and a symbol that was found stays listed |
| `RegistrationsKeptUnspoilt` | `AssetCatalog!RegistrationKept` | the same `CatInv`: when no worker is inside a registration the file is whole, and then holds all that was learned, where a legible query finds it. `AssetCatalog_race` shows the overlap that the hypothesis excludes |
| `TurnsNotForgotten` | `ContextWindow!NothingForgotten` | `WinInv`: turns before the checkpoint that were answered in place are told by its summary (`Covered`). For a new checkpoint that needs: what lies between the old cut and the new one is visible, so the summary was made from it. A turn that was answered in place is visible because it is not left out, and that because it was not aborted (`NotBoth`), since only a message without a reply in its place and without an abort runs (`Prepared`); and cuts lie at messages (`NamesMessages`), so none divides a turn. `Frozen`: what is told of a message with a later one behind it does not change |
| `CallsShownInOrder` | `ContextWindow!CallsShown` | under `LatestRuns`, on top of `WinInv`. `CallsInTurn`: every call lies in the span of the message whose turn made it. That message is the latest one, so no cut reaches its span and no aborted message behind it takes calls away; a request then shows them word by word |
| `RepeatedLevelsShown` | `MarketLevels!RepeatedLevelShown` | the invariant says only that there are bars and a price; all else is about the functions. The begins of clusters can be found price by price (`StartsExist`: were there prices up to which they cannot, there would be a least one, and it has no reason not to), so `Starts` is what its CHOOSE says; from that the clusters cover the candidates (`ClustersCover`) and are as narrow as `Near` says (`ClustersNarrow`). For the selection: the n nearest of a finite set (`TopCount`), everything nearer than one of them is one too (`TopBefore`), and taking the nearest of each set before the nearest of their union loses none (`TopOfUnion`) |

`Act`, `AddsOne` and `Wrote` (in `SessionTurnProofs`) factor the proofs: a step of
one worker leaves all others alone, adds at most one event, and only an event that
fits its place. Each invariant is then proved against `Wrote` and not against the
thirty actions.

`DistinctCalls` is a hypothesis of two theorems and not an assumption of the
model: nothing in the code checks it. Two calls of one answer with the same id
and tool share an operation, and both run under one start (listed under hazards).

`OneDelivery`, `InOrder`, `LatestRuns` and `Undisturbed` are hypotheses too: conditions
on the schedule that usually hold and that nothing in the code enforces. Findings
4, 5, 6, 8 and 9 show that the properties fail without them. The theorems hold for
every behaviour that keeps to them, whatever crashes, fails or is delivered again.
Under `InOrder` there is any number of workers and messages; under `LatestRuns`
turns may be cut off, aborted, refused and resumed; under `Undisturbed` any number
of erasers may wait for the same gate and die, and old intents are still finished
and removed when nobody else erases.

Doing the proofs corrected the project in three places. The quantifier of
`Migration!Verify` reached over the whole action, so without any session the step
left the next state open, where the code verifies an empty list and goes on. No
instance of TLC's had that case. The clusters and zones of `MarketLevels` were
recursive functions over the sorted prices, about which nothing could be shown for
every input; they are sets now, with the same values. And finding 7 was described
as the effect of a call that is cut off: the attempt to prove `StopNotOverlooked`
for calls that end by themselves failed at the bar in progress, and that is what
the counterexample shows.

The composition `Parts` has its
properties in the same module as the steps, so that the proofs are about the
definitions the run checks; a theorem about one part takes the steps of the others
as stutters of its variables.

**Only model-checked**:

* liveness (`LockReleased`, `GuardReleased`, `Answered`, `ErasureFinishes`,
  `PlanEnds`, `PrepareEnds`), which is out of the prover's reach under fairness, as
  is ENABLED;
* the types of the six parts (`Parts_types`), as far as their invariants above do
  not contain them;
* the counterexamples of section 4, and that a hypothesis of a theorem cannot be
  dropped.

No module uses a RECURSIVE operator.

## 6. Not modelled

* **Event store**: snapshots (a cache that is verified against the files), byte
  limits of a line, several tenants.
* **Paper trading**: orders of type `zone_reclaim_close`, the lookup of a repeated
  order request (a hazard without a property: tools of one session run one at a
  time, so two requests meet only across processes), statistics.
* **Market analysis**: trend structure, patterns, floating-point indicators,
  scores and plan texts. They are arithmetic on floats without state; integer
  prices would check something else.
* **Migration**: what a migrated record looks like in detail (field by field
  clean-up), and the database schema (alembic), which another tool executes.
* **Language model, market data, research, Feishu**: external services; the models
  let them answer or fail in every way the code distinguishes.
* **Presenters, envelopes, API, web page, command line, settings, analysis snapshots**:
  formatting, wiring, or independent rows.
* **Conversation**: texts, arguments and results, rendering of replies; a
  conversation that is erased between two attempts of a notice, which then are
  attempts in different sessions.

Possible next steps: equal call ids within an answer in `SessionTurn`, two orders
in one `PaperTrading` instance, and proofs of the part types that `Parts_types`
checks.
