---------------------------- MODULE PaperTrading ----------------------------
(***************************************************************************)
(* The simulated orders of one session: creating, cancelling and bringing  *)
(* them up to date against price bars.  The tools of a session run one at  *)
(* a time under its turn guard; the market moves between any two of their  *)
(* steps, and a process can die between two commits.                       *)
(*                                                                         *)
(* Time is counted in bars: bar n starts at time n, the last one is in     *)
(* progress, and "now" lies inside it.  A bar's price range is all that    *)
(* the limit orders the tools create look at.                              *)
(***************************************************************************)
EXTENDS Integers, Sequences, FiniteSets

CONSTANTS
  Order,     \* order ids
  Price,     \* price levels
  MaxBars,   \* bound: bars of the market
  MaxFaults  \* bound: calls that die or lose the database half way

ASSUME TradingAssumption ==
  /\ Order # {} /\ Price \subseteq Nat \ {0}
  /\ MaxBars \in Nat \ {0} /\ MaxFaults \in Nat

VARIABLES
  bars,   \* the market: low and high of every bar so far
  row,    \* the idea and the order of an order id, one commit changes both
  pc,     \* where the running tool call is
  todo,   \* orders the running call has still to look at
  rows,   \* the bars that the running call has fetched
  item,   \* the order in hand and the bars that remain for it
  done,   \* history: orders the running call has finished with
  from,   \* history: the first bar the call had to look at
  faults  \* calls cut off so far

vars == <<bars, row, pc, todo, rows, item, done, from, faults>>

Sides  == {"long", "short"}
Active == {"pending_trigger", "filled"}
Final  == {"closed", "expired", "cancelled"}
\* Only bars that are still there are counted: no row, no bar, no price is 0.
Times  == 0 .. MaxBars

RowType == [status : {"none"} \cup Active \cup Final,
            idea : {"none", "watch", "open", "closed", "expired", "cancelled"},
            side : Sides, entry : Nat, stop : Nat, target : Nat,
            until : Times, created : Times, updated : Times,
            filled : Times, closed : Times, price : Nat, reason : {"", "tp", "sl", "cancelled"}]

NoRow == [status |-> "none", idea |-> "none", side |-> "long", entry |-> 0, stop |-> 0,
          target |-> 0, until |-> 0, created |-> 0, updated |-> 0, filled |-> 0,
          closed |-> 0, price |-> 0, reason |-> ""]

\* An order and its idea change together (docs/18 section 5.1).
Paired(r) == <<r.status, r.idea>> \in
  {<<"none", "none">>, <<"pending_trigger", "watch">>, <<"filled", "open">>,
   <<"closed", "closed">>, <<"expired", "expired">>, <<"cancelled", "cancelled">>}

BarType == [low : Price, high : Price]

TypeOK ==
  /\ bars \in Seq(BarType) /\ Len(bars) \in 1 .. MaxBars
  /\ row \in [Order -> RowType] /\ \A o \in Order : Paired(row[o])
  /\ pc \in {"idle", "next", "advance"} /\ todo \subseteq Order
  /\ rows \in Seq(BarType) /\ Len(rows) <= Len(bars)
  /\ item \in [order : Order, first : Times]
  /\ done \subseteq Order /\ from \in [Order -> 0 .. MaxBars + 1] /\ faults \in 0 .. MaxFaults

Init ==
  /\ bars \in {<<[low |-> p, high |-> p]>> : p \in Price}
  /\ row = [o \in Order |-> NoRow]
  /\ pc = "idle" /\ todo = {} /\ rows = <<>> /\ done = {}
  /\ item = [order |-> CHOOSE o \in Order : TRUE, first |-> 0]
  /\ from = [o \in Order |-> 0] /\ faults = 0

Now == Len(bars)

-----------------------------------------------------------------------------
(* Bars and orders *)

\* The first bar of a set for which a test holds.
Least(S) == CHOOSE n \in S : \A k \in S : n <= k

\* A pullback_limit order fills at its limit, a position closes at its stop
\* or target.
Reaches(r, bar)  == IF r.side = "long" THEN bar.low <= r.entry ELSE bar.high >= r.entry
HitsStop(r, bar) == IF r.side = "long" THEN bar.low <= r.stop ELSE bar.high >= r.stop
HitsTarget(r, bar) == IF r.side = "long" THEN bar.high >= r.target ELSE bar.low <= r.target

Fills(r, S)  == {n \in S : Reaches(r, rows[n])}
Closes(r, S) == {n \in S : HitsStop(r, rows[n]) \/ HitsTarget(r, rows[n])}

\* _filter_candidate_bars: bars that started after the order last changed.

\* Mutant of Candidates: the bar in progress at the last change counts again.
CandidatesFromUpdate(r) == {n \in DOMAIN rows : n >= r.updated}
Candidates(r) == {n \in DOMAIN rows : n > r.updated}
Behind(first) == {n \in DOMAIN rows : n >= first}

\* decide_reconcile_action on a set of bars.  The stop wins within a bar.
Expires(r, S) == /\ r.status = "pending_trigger" /\ r.until # 0
                 /\ \E n \in S : n >= r.until
CanFill(r, S)  == r.status = "pending_trigger" /\ ~Expires(r, S) /\ Fills(r, S) # {}
CanClose(r, S) == r.status = "filled" /\ Closes(r, S) # {}

\* Mutant of Expired: the idea goes on watching.
ExpiredOrder(r) == [r EXCEPT !.status = "expired", !.updated = Now]
Expired(r) == [r EXCEPT !.status = "expired", !.idea = "expired", !.updated = Now]
Filled(r, n) == [r EXCEPT !.status = "filled", !.idea = "open", !.filled = n, !.updated = Now]
Closed(r, n) ==
  [r EXCEPT !.status = "closed", !.idea = "closed", !.closed = n, !.updated = Now,
            !.reason = IF HitsStop(r, rows[n]) THEN "sl" ELSE "tp",
            !.price  = IF HitsStop(r, rows[n]) THEN r.stop ELSE r.target]

\* The sign of realized_pnl_pct, relative to the entry.
Gain(r) == IF r.side = "long" THEN r.price - r.entry ELSE r.entry - r.price

Commit(o, r) == row' = [row EXCEPT ![o] = r]

-----------------------------------------------------------------------------
(* The market *)

Include(bar, p) == [low |-> IF p < bar.low THEN p ELSE bar.low,
                    high |-> IF p > bar.high THEN p ELSE bar.high]

Move == \E p \in Price :
  /\ bars' = [bars EXCEPT ![Now] = Include(@, p)]
  /\ UNCHANGED <<row, pc, todo, rows, item, done, from, faults>>
NewBar == \E p \in Price :
  /\ Now < MaxBars /\ bars' = Append(bars, [low |-> p, high |-> p])
  /\ UNCHANGED <<row, pc, todo, rows, item, done, from, faults>>

-----------------------------------------------------------------------------
(* Creating and cancelling *)

\* _build_prepared_order: the stop lies on the losing side of the entry.

\* Mutant of Prepared: only the target is compared with the entry.
PreparedByTarget(side, entry, stop, target) ==
  IF side = "long" THEN entry < target ELSE target < entry
Prepared(side, entry, stop, target) ==
  IF side = "long" THEN stop < entry /\ entry < target
                   ELSE target < entry /\ entry < stop

\* A pending order, or a position that the user reports as open.
Placed(side, e, s, t, open, until) ==
  [NoRow EXCEPT !.side = side, !.entry = e, !.stop = s, !.target = t, !.until = until,
                !.status = IF open THEN "filled" ELSE "pending_trigger",
                !.idea = IF open THEN "open" ELSE "watch",
                !.filled = IF open THEN Now ELSE 0, !.created = Now, !.updated = Now]

Create(o) == \E side \in Sides, e, s, t \in Price, open \in BOOLEAN, until \in Times :
  /\ pc = "idle" /\ row[o].status = "none" /\ Prepared(side, e, s, t)
  /\ Commit(o, Placed(side, e, s, t, open, until))
  /\ UNCHANGED <<bars, pc, todo, rows, item, done, from, faults>>

\* cancel_order: a second cancel changes nothing, a position is refused.

\* Mutant of Cancellable: any order can be cancelled.
CancellableAny(r) == r.status # "none"
Cancellable(r) == r.status = "pending_trigger"

Cancel(o) ==
  /\ pc = "idle" /\ Cancellable(row[o])
  /\ Commit(o, [row[o] EXCEPT !.status = "cancelled", !.idea = "cancelled",
                  !.reason = "cancelled", !.updated = Now])
  /\ UNCHANGED <<bars, pc, todo, rows, item, done, from, faults>>

-----------------------------------------------------------------------------
(* reconcile_orders *)

\* list_active_orders, then the bars are fetched once; without bars every
\* order is left as it is.
Begin ==
  /\ pc = "idle" /\ todo' = {o \in Order : row[o].status \in Active} /\ todo' # {}
  /\ rows' = bars /\ pc' = "next" /\ done' = {}
  /\ UNCHANGED <<bars, row, item, from, faults>>

Skip(o) ==
  /\ todo' = todo \ {o} /\ done' = done \cup {o} /\ pc' = "next"

\* A bar after the order's last change expires or fills it, or closes a
\* position; a fill leaves the later bars, the matched one included, to Advance.
Pick(o) == LET r == row[o]  S == Candidates(r) IN
  /\ pc = "next" /\ o \in todo
  /\ from' = [from EXCEPT ![o] = IF r.status = "filled" THEN r.updated + 1 ELSE r.created + 1]
  /\ \/ /\ Expires(r, S) /\ Commit(o, Expired(r)) /\ Skip(o) /\ UNCHANGED item
     \/ /\ CanFill(r, S) /\ Commit(o, Filled(r, Least(Fills(r, S))))
        /\ item' = [order |-> o, first |-> Least(Fills(r, S))] /\ pc' = "advance"
        /\ todo' = todo \ {o} /\ UNCHANGED done
     \/ /\ CanClose(r, S) /\ Commit(o, Closed(r, Least(Closes(r, S))))
        /\ Skip(o) /\ UNCHANGED item
     \/ /\ ~Expires(r, S) /\ ~CanFill(r, S) /\ ~CanClose(r, S)
        /\ Skip(o) /\ UNCHANGED <<row, item>>
  /\ UNCHANGED <<bars, rows, faults>>

\* The loop goes on with a position it has just filled.

\* Mutant of Advance: a filled order waits for the next call.
AdvanceLater ==
  /\ pc = "advance" /\ Skip(item.order) /\ UNCHANGED <<bars, row, rows, item, from, faults>>
Advance == LET o == item.order  r == row[o]  S == Behind(item.first) IN
  /\ pc = "advance"
  /\ IF CanClose(r, S) THEN Commit(o, Closed(r, Least(Closes(r, S)))) ELSE UNCHANGED row
  /\ Skip(o) /\ UNCHANGED <<bars, rows, item, from, faults>>

Return == /\ pc = "next" /\ todo = {} /\ pc' = "idle" /\ rows' = <<>> /\ done' = {}
          /\ UNCHANGED <<bars, row, todo, item, from, faults>>

\* The process dies, or the database fails and the call ends with an error:
\* what was committed stays.
CutOff == /\ pc # "idle" /\ faults < MaxFaults /\ faults' = faults + 1
          /\ pc' = "idle" /\ todo' = {} /\ rows' = <<>> /\ done' = {}
          /\ UNCHANGED <<bars, row, item, from>>

Next == \/ Move \/ NewBar \/ Begin \/ Advance \/ Return \/ CutOff
        \/ \E o \in Order : Create(o) \/ Cancel(o) \/ Pick(o)
Spec == Init /\ [][Next]_vars

-----------------------------------------------------------------------------
(* Properties *)

\* An order is filled and closed by bars that started after it was created,
\* and closed by the bar that filled it or a later one: prices from before
\* the order existed never count, whatever batches the bars come in.
NoLookBack == \A o \in Order : LET r == row[o] IN
  /\ r.closed # 0 => r.filled <= r.closed /\ r.created < r.closed
  /\ r.filled # 0 => r.created <= r.filled

\* When reconcile has finished with an order, no bar it fetched would change
\* it: a waiting order was not reached since its creation, however often it
\* was looked at before, and a position, also one filled in this call, was
\* carried on to the last bar (docs/18 section 1.3: until nothing changes).
BatchComplete == \A o \in done : LET r == row[o] IN
  /\ r.status = "pending_trigger" => \A n \in DOMAIN rows : n >= from[o] => ~Reaches(r, rows[n])
  /\ r.status = "filled" => \A n \in DOMAIN rows :
       n >= from[o] /\ n >= r.filled => ~HitsStop(r, rows[n]) /\ ~HitsTarget(r, rows[n])

\* A position closed at its target has gained, one closed at its stop has lost.
ProfitSigned == \A o \in Order :
  /\ row[o].reason = "tp" => Gain(row[o]) > 0
  /\ row[o].reason = "sl" => Gain(row[o]) < 0

\* A closed, expired or cancelled order never changes again.
Settled(o) == row[o].status \in Final => row'[o] = row[o]
TerminalStays == [][\A o \in Order : Settled(o)]_vars

\* A stop that was hit since the fill is not passed over for a later target
\* (docs/18 section 5.3: a position whose stop is met is closed with sl).
StopNotOverlooked == \A o \in Order : row[o].reason = "tp" =>
  \A n \in row[o].filled .. row[o].closed - 1 : n > row[o].created => ~HitsStop(row[o], bars[n])
=============================================================================
