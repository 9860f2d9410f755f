-------------------------- MODULE PaperTradingProofs --------------------------
(***************************************************************************)
(* The safety properties of PaperTrading, for any orders, prices, market   *)
(* and any number of calls cut off.                                        *)
(*                                                                         *)
(* A decision looks at bars after the order's last change, and the last    *)
(* change of a waiting order is its creation, of a position its fill or    *)
(* creation: dates therefore come in order.  The order in hand between a   *)
(* fill and its close is out of the list, so nothing else changes it.      *)
(***************************************************************************)
EXTENDS PaperTrading, NaturalsInduction, WellFoundedInduction, TLAPS

USE TradingAssumption

-----------------------------------------------------------------------------
(* The invariant *)

\* When an order was created, filled, closed and last changed.
DatedRow(r, now) ==
  /\ r.created <= r.updated /\ r.updated <= now
  /\ r.status = "none" => r.created = 0 /\ r.updated = 0
  /\ r.status = "pending_trigger" => r.updated = r.created
  /\ r.status \in {"none", "pending_trigger", "expired", "cancelled"} => r.filled = 0
  /\ r.status = "filled" => r.created <= r.filled /\ r.filled <= r.updated
  /\ r.status # "closed" => r.closed = 0
  /\ r.status = "closed" => /\ r.created <= r.filled /\ r.filled <= r.closed
                            /\ r.created < r.closed

\* Why and at which price an order was closed.
PaidRow(r) ==
  /\ r.reason = "tp" => r.price = r.target /\ r.status = "closed"
  /\ r.reason = "sl" => r.price = r.stop /\ r.status = "closed"

\* Entry, stop and target of an order stand as they were prepared.
GoodRow(r, now) ==
  /\ r \in RowType /\ Paired(r) /\ DatedRow(r, now) /\ PaidRow(r)
  /\ r.status # "none" => Prepared(r.side, r.entry, r.stop, r.target)
Rows == \A o \in Order : GoodRow(row[o], Now)

\* The order that a call has just filled and goes on with.
InHand == pc = "advance" => LET r == row[item.order] IN
  /\ r.status = "filled" /\ item.first = r.filled /\ r.created < r.filled
  /\ item.order \notin todo \cup done

\* An order is to be looked at, or done with.
Apart == todo \cap done = {} /\ (pc = "idle" => done = {} /\ todo = {})

\* The inductive invariant.
IInv == TypeOK /\ Rows /\ InHand /\ Apart /\ BatchComplete

-----------------------------------------------------------------------------
(* Numbers and bars *)

\* A set of numbers that is not empty has a least member.
LEMMA LeastIn ==
  ASSUME NEW S, S \subseteq Nat, S # {}
  PROVE  Least(S) \in S /\ \A k \in S : Least(S) <= k
<1>1. \E n \in S : \A k \in S : ~ (<<k, n>> \in OpToRel(<, Nat))
  BY NatLessThanWellFounded, WFMin
<1>2. \A k, n \in S : k < n => <<k, n>> \in OpToRel(<, Nat)
  BY DEF OpToRel
<1>3. PICK n \in S : \A k \in S : ~ (k < n)
  BY <1>1, <1>2
<1>4. \A k \in S : n <= k
  BY <1>3
<1> QED
  BY <1>4 DEF Least

\* The last bar, and the bars a call has fetched, are bars of the market.
LEMMA BarTimes ==
  ASSUME TypeOK
  PROVE  /\ Now \in Times /\ Now > 0 /\ Times \subseteq Nat /\ 0 \in Times
         /\ DOMAIN rows \subseteq 1 .. Now /\ DOMAIN rows \subseteq Times \ {0}
<1>1. Len(bars) \in 1 .. MaxBars /\ Len(rows) \in Nat /\ Len(rows) <= Len(bars)
      /\ DOMAIN rows = 1 .. Len(rows)
  BY DEF TypeOK
<1> QED
  BY <1>1 DEF Now, Times

\* The times of a row are numbers.
LEMMA RowNumbers ==
  ASSUME NEW r \in RowType
  PROVE  r.created \in Nat /\ r.updated \in Nat /\ r.filled \in Nat /\ r.closed \in Nat
<1>1. Times \subseteq Nat
  BY DEF Times
<1>2. /\ r.created \in Times /\ r.updated \in Times
      /\ r.filled \in Times /\ r.closed \in Times
  BY DEF RowType
<1> QED
  BY <1>1, <1>2

-----------------------------------------------------------------------------
(* What a commit makes of a row *)

\* A new order is a good row.
LEMMA CreatedGood ==
  ASSUME Now \in Times, NEW side \in Sides, NEW e \in Price, NEW s \in Price, NEW t \in Price,
         NEW open \in BOOLEAN, NEW until \in Times, Prepared(side, e, s, t)
  PROVE  GoodRow(Placed(side, e, s, t, open, until), Now)
<1> DEFINE new == Placed(side, e, s, t, open, until)
<1>1. Now \in Nat /\ 0 \in Times /\ e \in Nat /\ s \in Nat /\ t \in Nat
  BY DEF Times
<1>2. new \in RowType
  BY <1>1 DEF Placed, NoRow, RowType, Sides, Active, Final
<1>3. /\ new.status = (IF open THEN "filled" ELSE "pending_trigger")
      /\ new.idea = (IF open THEN "open" ELSE "watch")
      /\ new.filled = (IF open THEN Now ELSE 0)
      /\ new.side = side /\ new.entry = e /\ new.stop = s /\ new.target = t
      /\ new.created = Now /\ new.updated = Now /\ new.closed = 0 /\ new.reason = ""
  BY DEF Placed, NoRow
<1> HIDE DEF new
<1>4. Paired(new) /\ PaidRow(new) /\ Prepared(new.side, new.entry, new.stop, new.target)
  BY <1>3 DEF Paired, PaidRow
<1>5. DatedRow(new, Now)
  <2>1. CASE open
    <3>1. /\ new.status = "filled" /\ new.filled = Now /\ new.closed = 0
          /\ new.created = Now /\ new.updated = Now
      BY <1>3, <2>1
    <3> QED
      BY <1>1, <3>1 DEF DatedRow
  <2>2. CASE ~open
    <3>1. /\ new.status = "pending_trigger" /\ new.filled = 0 /\ new.closed = 0
          /\ new.created = Now /\ new.updated = Now
      BY <1>3, <2>2
    <3> QED
      BY <1>1, <3>1 DEF DatedRow
  <2> QED
    BY <2>1, <2>2
<1> QED
  BY <1>2, <1>4, <1>5 DEF GoodRow, new

\* So is a cancelled order,
LEMMA CancelledGood ==
  ASSUME Now \in Times, NEW r, GoodRow(r, Now), r.status = "pending_trigger"
  PROVE  GoodRow([r EXCEPT !.status = "cancelled", !.idea = "cancelled",
                           !.reason = "cancelled", !.updated = Now], Now)
<1> DEFINE new == [r EXCEPT !.status = "cancelled", !.idea = "cancelled",
                           !.reason = "cancelled", !.updated = Now]
<1>1. /\ Now \in Nat /\ Times \subseteq Nat /\ r \in RowType
  BY DEF Times, GoodRow
<1>2. new \in RowType
  BY <1>1 DEF RowType, Active, Final
<1>3. /\ new.status = "cancelled" /\ new.idea = "cancelled" /\ new.reason = "cancelled"
      /\ new.updated = Now
      /\ new.side = r.side /\ new.entry = r.entry /\ new.stop = r.stop
      /\ new.target = r.target /\ new.until = r.until /\ new.created = r.created
      /\ new.filled = r.filled /\ new.closed = r.closed /\ new.price = r.price
  BY <1>1 DEF RowType
<1>4. r.created \in Nat /\ r.updated \in Nat /\ r.filled \in Nat
  BY <1>1, RowNumbers
<1> HIDE DEF new
<1>5. Paired(new) /\ PaidRow(new)
  BY <1>3 DEF GoodRow, Paired, PaidRow
<1>6. DatedRow(new, Now)
  BY <1>1, <1>3, <1>4 DEF GoodRow, DatedRow
<1>7. Prepared(new.side, new.entry, new.stop, new.target)
  BY <1>3 DEF GoodRow
<1> QED
  BY <1>2, <1>5, <1>6, <1>7 DEF GoodRow, new

\* an expired one,
LEMMA ExpiredGood ==
  ASSUME Now \in Times, NEW r, GoodRow(r, Now), r.status = "pending_trigger"
  PROVE  GoodRow(Expired(r), Now)
<1> DEFINE new == Expired(r)
<1>1. /\ Now \in Nat /\ Times \subseteq Nat /\ r \in RowType
  BY DEF Times, GoodRow
<1>2. new \in RowType
  BY <1>1 DEF RowType, Active, Final, Expired
<1>3. /\ new.status = "expired" /\ new.idea = "expired" /\ new.updated = Now
      /\ new.side = r.side /\ new.entry = r.entry /\ new.stop = r.stop
      /\ new.target = r.target /\ new.until = r.until /\ new.created = r.created
      /\ new.filled = r.filled /\ new.closed = r.closed /\ new.price = r.price
      /\ new.reason = r.reason
  BY <1>1 DEF RowType, Expired
<1>4. r.created \in Nat /\ r.updated \in Nat /\ r.filled \in Nat
  BY <1>1, RowNumbers
<1> HIDE DEF new
<1>5. Paired(new) /\ PaidRow(new)
  BY <1>3 DEF GoodRow, Paired, PaidRow
<1>6. DatedRow(new, Now)
  BY <1>1, <1>3, <1>4 DEF GoodRow, DatedRow
<1>7. Prepared(new.side, new.entry, new.stop, new.target)
  BY <1>3 DEF GoodRow
<1> QED
  BY <1>2, <1>5, <1>6, <1>7 DEF GoodRow, new

\* one that is filled by a later bar than its creation,
LEMMA FilledGood ==
  ASSUME Now \in Times, NEW r, GoodRow(r, Now), r.status = "pending_trigger",
         NEW n \in Times, r.created < n, n <= Now
  PROVE  GoodRow(Filled(r, n), Now)
<1> DEFINE new == Filled(r, n)
<1>1. /\ Now \in Nat /\ Times \subseteq Nat /\ r \in RowType
  BY DEF Times, GoodRow
<1>2. new \in RowType
  BY <1>1 DEF RowType, Active, Final, Filled
<1>3. /\ new.status = "filled" /\ new.idea = "open" /\ new.filled = n
      /\ new.updated = Now
      /\ new.side = r.side /\ new.entry = r.entry /\ new.stop = r.stop
      /\ new.target = r.target /\ new.until = r.until /\ new.created = r.created
      /\ new.closed = r.closed /\ new.price = r.price /\ new.reason = r.reason
  BY <1>1 DEF RowType, Filled
<1>4. r.created \in Nat /\ r.updated \in Nat /\ r.filled \in Nat
  BY <1>1, RowNumbers
<1> HIDE DEF new
<1>5. Paired(new) /\ PaidRow(new)
  BY <1>3 DEF GoodRow, Paired, PaidRow
<1>6. DatedRow(new, Now)
  BY <1>1, <1>3, <1>4 DEF GoodRow, DatedRow
<1>7. Prepared(new.side, new.entry, new.stop, new.target)
  BY <1>3 DEF GoodRow
<1> QED
  BY <1>2, <1>5, <1>6, <1>7 DEF GoodRow, new

\* and one that is closed by the bar that filled it or a later one.
LEMMA ClosedGood ==
  ASSUME Now \in Times, NEW r, GoodRow(r, Now), r.status = "filled",
         NEW n \in Times, r.created < n, r.filled <= n
  PROVE  GoodRow(Closed(r, n), Now)
<1> DEFINE new == Closed(r, n)
<1>1. /\ Now \in Nat /\ Times \subseteq Nat /\ r \in RowType
  BY DEF Times, GoodRow
<1>2. new \in RowType
  BY <1>1 DEF RowType, Active, Final, Closed
<1>3. /\ new.status = "closed" /\ new.idea = "closed" /\ new.closed = n
      /\ new.updated = Now
      /\ new.reason = (IF HitsStop(r, rows[n]) THEN "sl" ELSE "tp")
      /\ new.price = (IF HitsStop(r, rows[n]) THEN r.stop ELSE r.target)
      /\ new.side = r.side /\ new.entry = r.entry /\ new.stop = r.stop
      /\ new.target = r.target /\ new.until = r.until /\ new.created = r.created
      /\ new.filled = r.filled
  BY <1>1 DEF RowType, Closed
<1>4. r.created \in Nat /\ r.updated \in Nat /\ r.filled \in Nat
  BY <1>1, RowNumbers
<1> HIDE DEF new
<1>5. Paired(new) /\ PaidRow(new)
  BY <1>3 DEF GoodRow, Paired, PaidRow
<1>6. DatedRow(new, Now)
  BY <1>1, <1>3, <1>4 DEF GoodRow, DatedRow
<1>7. Prepared(new.side, new.entry, new.stop, new.target)
  BY <1>3 DEF GoodRow
<1> QED
  BY <1>2, <1>5, <1>6, <1>7 DEF GoodRow, new

\* A good row stays good while time passes.
LEMMA LaterGood ==
  ASSUME NEW r, NEW now \in Nat, NEW then \in Nat, now <= then, GoodRow(r, now)
  PROVE  GoodRow(r, then)
<1>1. r \in RowType /\ r.updated <= now
  BY DEF GoodRow, DatedRow
<1>2. r.updated \in Nat
  BY <1>1, RowNumbers
<1>3. r.updated <= then
  BY <1>1, <1>2
<1> QED
  BY <1>3 DEF GoodRow, DatedRow

-----------------------------------------------------------------------------
(* What a step decides *)

\* The bars that decide lie after the order's creation, in the market's time.
LEMMA Looked ==
  ASSUME TypeOK, NEW r, GoodRow(r, Now)
  PROVE  /\ \A n \in Candidates(r) : n \in Times /\ r.updated < n /\ r.created < n /\ n <= Now
         /\ \A f \in Nat : \A n \in Behind(f) : n \in Times /\ f <= n /\ n <= Now
         /\ Candidates(r) \subseteq Nat
<1>1. r.created \in Nat /\ r.updated \in Nat /\ r.created <= r.updated
  <2>1. r \in RowType /\ r.created <= r.updated
    BY DEF GoodRow, DatedRow
  <2> QED
    BY <2>1, RowNumbers
<1>2. /\ DOMAIN rows \subseteq 1 .. Now /\ DOMAIN rows \subseteq Times
      /\ Times \subseteq Nat /\ Now \in Nat
  BY BarTimes
<1>3. \A n \in DOMAIN rows : n \in Times /\ n \in Nat /\ n <= Now
  BY <1>2
<1> QED
  BY <1>1, <1>3 DEF Candidates, Behind

\* Picking an order leaves its row, or expires, fills or closes it.
LEMMA PickDecides ==
  ASSUME IInv, NEW o \in Order, Pick(o)
  PROVE  \/ /\ row' = row /\ pc' = "next" /\ ~Expires(row[o], Candidates(row[o]))
            /\ ~CanFill(row[o], Candidates(row[o])) /\ ~CanClose(row[o], Candidates(row[o]))
         \/ /\ row[o].status = "pending_trigger" /\ Commit(o, Expired(row[o])) /\ pc' = "next"
         \/ \E n \in Times : /\ row[o].status = "pending_trigger" /\ row[o].created < n /\ n <= Now
                             /\ Commit(o, Filled(row[o], n)) /\ pc' = "advance"
                             /\ item' = [order |-> o, first |-> n] /\ done' = done
         \/ \E n \in Times : /\ row[o].status = "filled" /\ row[o].created < n
                             /\ row[o].filled <= n /\ Commit(o, Closed(row[o], n)) /\ pc' = "next"
<1> DEFINE r == row[o]
           S == Candidates(r)
<1>1. GoodRow(r, Now) /\ TypeOK
  BY DEF IInv, Rows
<1>2. /\ \A n \in S : n \in Times /\ r.updated < n /\ r.created < n /\ n <= Now
      /\ S \subseteq Nat
  BY <1>1, Looked
<1>3. CASE Expires(r, S) /\ Commit(o, Expired(r)) /\ Skip(o)
  BY <1>3 DEF Expires, Skip
<1>4. CASE /\ CanFill(r, S) /\ Commit(o, Filled(r, Least(Fills(r, S))))
           /\ item' = [order |-> o, first |-> Least(Fills(r, S))] /\ pc' = "advance"
           /\ done' = done
  <2>1. Least(Fills(r, S)) \in S
    BY <1>2, <1>4, LeastIn DEF CanFill, Fills
  <2> QED
    BY <1>2, <1>4, <2>1 DEF CanFill
<1>5. CASE CanClose(r, S) /\ Commit(o, Closed(r, Least(Closes(r, S)))) /\ Skip(o)
  <2>1. Least(Closes(r, S)) \in S
    BY <1>2, <1>5, LeastIn DEF CanClose, Closes
  <2>2. \A n \in S : r.filled <= n
    <3>1. r \in RowType /\ r.filled <= r.updated
      BY <1>1, <1>5 DEF GoodRow, DatedRow, CanClose
    <3>2. r.filled \in Nat /\ r.updated \in Nat
      BY <3>1, RowNumbers
    <3> QED
      BY <1>2, <3>1, <3>2
  <2> QED
    BY <1>2, <1>5, <2>1, <2>2 DEF CanClose, Skip
<1>6. CASE row' = row /\ Skip(o) /\ ~Expires(r, S) /\ ~CanFill(r, S) /\ ~CanClose(r, S)
  BY <1>6 DEF Skip
<1> QED
  BY <1>3, <1>4, <1>5, <1>6 DEF Pick

\* Advancing leaves the row of the order in hand, or closes it.
LEMMA AdvanceDecides ==
  ASSUME IInv, Advance
  PROVE  /\ item.order \in Order /\ row[item.order].status = "filled"
         /\ \/ row' = row /\ ~CanClose(row[item.order], Behind(item.first))
            \/ \E n \in Times : /\ row[item.order].created < n /\ row[item.order].filled <= n
                                /\ Commit(item.order, Closed(row[item.order], n))
<1> DEFINE o == item.order
           r == row[o]
           S == Behind(item.first)
<1>1. o \in Order /\ r.status = "filled" /\ item.first = r.filled /\ r.created < r.filled
  BY DEF IInv, InHand, TypeOK, Advance
<1>2. r.created \in Nat /\ r.filled \in Nat /\ TypeOK /\ GoodRow(r, Now)
  <2>1. TypeOK /\ GoodRow(r, Now) /\ r \in RowType
    BY <1>1 DEF IInv, Rows, GoodRow
  <2> QED
    BY <2>1, RowNumbers
<1>3. \A n \in S : n \in Times /\ n \in Nat /\ r.filled <= n
  BY <1>1, <1>2, Looked, BarTimes
<1>4. CASE CanClose(r, S) /\ Commit(o, Closed(r, Least(Closes(r, S))))
  <2>1. Least(Closes(r, S)) \in S
    BY <1>3, <1>4, LeastIn DEF CanClose, Closes
  <2> QED
    BY <1>1, <1>2, <1>3, <1>4, <2>1
<1> QED
  BY <1>1, <1>4 DEF Advance

-----------------------------------------------------------------------------
(* Every step keeps the invariant *)

\* Time does not run backwards, and the market's bars keep their type.
LEMMA MarketStep ==
  ASSUME TypeOK, [Next]_vars
  PROVE  /\ bars' \in Seq(BarType) /\ Len(bars') \in 1 .. MaxBars /\ Now <= Now'
         /\ bars' = bars \/ (row' = row /\ UNCHANGED <<pc, todo, rows, item, done, from, faults>>)
<1>1. bars \in Seq(BarType) /\ Len(bars) \in 1 .. MaxBars
  BY DEF TypeOK
<1>2. CASE Move
  <2>1. PICK p \in Price : bars' = [bars EXCEPT ![Now] = Include(bars[Now], p)]
    BY <1>2 DEF Move
  <2>2. bars[Now] \in BarType
    BY <1>1 DEF Now
  <2>3. Include(bars[Now], p) \in BarType
    BY <2>2 DEF Include, BarType
  <2> QED
    BY <1>1, <1>2, <2>1, <2>3 DEF Now, Move
<1>3. CASE NewBar
  <2>1. PICK p \in Price : Now < MaxBars /\ bars' = Append(bars, [low |-> p, high |-> p])
    BY <1>3 DEF NewBar
  <2>2. [low |-> p, high |-> p] \in BarType
    BY DEF BarType
  <2> QED
    BY <1>1, <1>3, <2>1, <2>2 DEF Now, NewBar
<1>4. CASE bars' = bars
  BY <1>1, <1>4 DEF Now
<1> QED
  BY <1>2, <1>3, <1>4 DEF Next, Create, Cancel, Begin, Pick, Advance, Return, CutOff, vars

\* Every commit leaves good rows behind.
LEMMA RowsStep ==
  ASSUME IInv, [Next]_vars
  PROVE  row' \in [Order -> RowType] /\ Rows'
<1>1. TypeOK /\ row \in [Order -> RowType] /\ \A o \in Order : GoodRow(row[o], Now)
  BY DEF IInv, TypeOK, Rows
<1>2. Now \in Times /\ Now \in Nat /\ Now' \in Nat /\ Now <= Now'
  BY <1>1, BarTimes, MarketStep DEF Now
<1>3. CASE row' = row
  BY <1>1, <1>2, <1>3, LaterGood DEF Rows
<1>4. ASSUME NEW o \in Order, NEW r, Commit(o, r), GoodRow(r, Now)
      PROVE  row' \in [Order -> RowType] /\ Rows'
  <2>1. row' = [row EXCEPT ![o] = r] /\ r \in RowType
    BY <1>4 DEF Commit, GoodRow
  <2>2. \A q \in Order : GoodRow(row'[q], Now)
    BY <1>1, <1>4, <2>1
  <2>3. \A q \in Order : GoodRow(row'[q], Now')
    BY <1>2, <2>2, LaterGood
  <2> QED
    BY <1>1, <2>1, <2>3 DEF Rows
<1>5. ASSUME NEW o \in Order, Create(o) PROVE row' \in [Order -> RowType] /\ Rows'
  <2>1. PICK side \in Sides, e, s, t \in Price, open \in BOOLEAN, until \in Times :
          Prepared(side, e, s, t) /\ Commit(o, Placed(side, e, s, t, open, until))
    BY <1>5 DEF Create
  <2> QED
    BY <1>2, <1>4, <2>1, CreatedGood
<1>6. ASSUME NEW o \in Order, Cancel(o) PROVE row' \in [Order -> RowType] /\ Rows'
  BY <1>1, <1>2, <1>4, <1>6, CancelledGood DEF Cancel, Cancellable
<1>7. ASSUME NEW o \in Order, Pick(o) PROVE row' \in [Order -> RowType] /\ Rows'
  <2>1. GoodRow(row[o], Now)
    BY <1>1
  <2>2. CASE row' = row
    BY <1>3, <2>2
  <2>3. CASE row[o].status = "pending_trigger" /\ Commit(o, Expired(row[o]))
    BY <1>2, <1>4, <2>1, <2>3, ExpiredGood
  <2>4. ASSUME NEW n \in Times, row[o].status = "pending_trigger", row[o].created < n,
               n <= Now, Commit(o, Filled(row[o], n))
        PROVE  row' \in [Order -> RowType] /\ Rows'
    BY <1>2, <1>4, <2>1, <2>4, FilledGood
  <2>5. ASSUME NEW n \in Times, row[o].status = "filled", row[o].created < n,
               row[o].filled <= n, Commit(o, Closed(row[o], n))
        PROVE  row' \in [Order -> RowType] /\ Rows'
    BY <1>2, <1>4, <2>1, <2>5, ClosedGood
  <2> QED
    BY <1>7, <2>2, <2>3, <2>4, <2>5, PickDecides
<1>8. CASE Advance
  BY <1>1, <1>2, <1>3, <1>4, <1>8, AdvanceDecides, ClosedGood
<1> QED
  BY <1>3, <1>5, <1>6, <1>7, <1>8 DEF Next, Move, NewBar, Begin, Return, CutOff, vars

\* Every step keeps the types.
LEMMA TypeStep ==
  ASSUME IInv, [Next]_vars
  PROVE  TypeOK'
<1>1. row' \in [Order -> RowType] /\ \A o \in Order : Paired(row'[o])
  BY RowsStep DEF Rows, GoodRow
<1>2. bars' \in Seq(BarType) /\ Len(bars') \in 1 .. MaxBars /\ Len(bars) <= Len(bars')
  BY MarketStep DEF IInv, Now
<1>3. /\ pc' \in {"idle", "next", "advance"} /\ todo' \subseteq Order /\ done' \subseteq Order
      /\ rows' \in Seq(BarType) /\ Len(rows') <= Len(bars')
      /\ item' \in [order : Order, first : Times]
      /\ from' \in [Order -> 0 .. MaxBars + 1] /\ faults' \in 0 .. MaxFaults
  <2> DEFINE Goal == /\ pc' \in {"idle", "next", "advance"}
                     /\ todo' \subseteq Order /\ done' \subseteq Order
                     /\ rows' \in Seq(BarType) /\ Len(rows') <= Len(bars')
                     /\ item' \in [order : Order, first : Times]
                     /\ from' \in [Order -> 0 .. MaxBars + 1] /\ faults' \in 0 .. MaxFaults
  <2>1. /\ pc \in {"idle", "next", "advance"} /\ todo \subseteq Order /\ done \subseteq Order
        /\ bars \in Seq(BarType) /\ rows \in Seq(BarType) /\ Len(rows) <= Len(bars)
        /\ item \in [order : Order, first : Times]
        /\ from \in [Order -> 0 .. MaxBars + 1] /\ faults \in 0 .. MaxFaults
        /\ Len(rows) \in Nat /\ Len(bars) \in Nat /\ Len(bars') \in Nat
    BY <1>2 DEF IInv, TypeOK
  <2>2. CASE UNCHANGED <<pc, todo, rows, item, done, from, faults>>
    BY <1>2, <2>1, <2>2
  <2>3. ASSUME NEW o \in Order, Pick(o) PROVE Goal
    <3>1. row[o].updated \in Times /\ row[o].created \in Times
      BY DEF IInv, TypeOK, RowType
    <3>2. row[o].updated + 1 \in 0 .. MaxBars + 1 /\ row[o].created + 1 \in 0 .. MaxBars + 1
      BY <3>1 DEF Times
    <3>3. from' \in [Order -> 0 .. MaxBars + 1]
      BY <2>1, <2>3, <3>2 DEF Pick
    <3>4. pc' \in {"next", "advance"} /\ todo' \subseteq Order /\ done' \subseteq Order
      BY <2>1, <2>3 DEF Pick, Skip
    <3>5. item' \in [order : Order, first : Times]
      <4>1. item' = item \/ \E n \in Times : item' = [order |-> o, first |-> n]
        BY <2>3, LeastIn, Looked DEF Pick, CanFill, Fills, IInv, Rows
      <4> QED
        BY <2>1, <4>1
    <3> QED
      BY <2>1, <2>3, <3>3, <3>4, <3>5 DEF Pick
  <2>4. CASE Advance
    BY <2>1, <2>4 DEF Advance, Skip
  <2>5. CASE Begin
    BY <2>1, <2>5 DEF Begin
  <2>6. CASE Return
    BY <1>2, <2>1, <2>6 DEF Return
  <2>7. CASE CutOff
    <3>1. faults' \in 0 .. MaxFaults
      BY <2>1, <2>7 DEF CutOff
    <3> QED
      BY <1>2, <2>1, <2>7, <3>1 DEF CutOff
  <2> QED
    BY <2>2, <2>3, <2>4, <2>5, <2>6, <2>7 DEF Next, Create, Cancel, Move, NewBar, vars
<1> QED
  BY <1>1, <1>2, <1>3 DEF TypeOK

\* The order in hand stays a filled one, and out of the lists.
LEMMA HandStep ==
  ASSUME IInv, [Next]_vars
  PROVE  InHand' /\ Apart'
<1> USE DEF IInv, Apart
<1>1. /\ row \in [Order -> RowType] /\ item \in [order : Order, first : Times]
      /\ pc \in {"idle", "next", "advance"}
  BY DEF TypeOK
<1>2. ASSUME NEW o \in Order, Pick(o) PROVE InHand' /\ Apart'
  <2>1. pc = "next" /\ o \in todo /\ todo' = todo \ {o} /\ done' \in {done, done \cup {o}}
    BY <1>2 DEF Pick, Skip
  <2>2. CASE pc' = "next"
    BY <2>1, <2>2 DEF InHand
  <2>3. ASSUME NEW n \in Times, row[o].status = "pending_trigger", row[o].created < n,
               done' = done, pc' = "advance",
               Commit(o, Filled(row[o], n)), item' = [order |-> o, first |-> n]
        PROVE  InHand' /\ Apart'
    <3>1. row'[o] = Filled(row[o], n) /\ row[o] \in RowType
      BY <1>1, <2>3 DEF Commit
    <3>2. row'[o].status = "filled" /\ row'[o].filled = n /\ row'[o].created = row[o].created
      BY <3>1 DEF Filled, RowType
    <3>3. item'.order = o /\ item'.first = n /\ o \notin todo' \cup done'
      BY <2>1, <2>3
    <3> QED
      BY <2>1, <2>3, <3>2, <3>3 DEF InHand
  <2> QED
    BY <1>2, <2>2, <2>3, PickDecides
<1>3. CASE Advance
  BY <1>3 DEF Advance, Skip, InHand
<1>4. CASE Begin \/ Return \/ CutOff
  BY <1>4 DEF Begin, Return, CutOff, InHand
<1>5. ASSUME NEW o \in Order, Create(o) \/ Cancel(o) PROVE InHand' /\ Apart'
  BY <1>5 DEF Create, Cancel, InHand
<1>6. CASE UNCHANGED <<row, pc, todo, item, done>>
  BY <1>6 DEF InHand
<1> QED
  BY <1>2, <1>3, <1>4, <1>5, <1>6 DEF Next, Move, NewBar, vars

\* What a call has finished with stays settled on the bars it fetched.
LEMMA BatchStep ==
  ASSUME IInv, [Next]_vars
  PROVE  BatchComplete'
<1> USE DEF IInv
<1>1. row \in [Order -> RowType] /\ from \in [Order -> 0 .. MaxBars + 1] /\ done \subseteq Order
  BY DEF TypeOK
<1>2. ASSUME NEW o \in Order, NEW r, row' = [row EXCEPT ![o] = r], UNCHANGED rows,
             \A q \in Order : q # o => from'[q] = from[q], done' \subseteq done \cup {o},
             r.status = "pending_trigger" /\ o \in done' =>
               \A n \in DOMAIN rows : n >= from'[o] => ~Reaches(r, rows[n]),
             r.status = "filled" /\ o \in done' => \A n \in DOMAIN rows :
               n >= from'[o] /\ n >= r.filled => ~HitsStop(r, rows[n]) /\ ~HitsTarget(r, rows[n])
      PROVE  BatchComplete'
  <2>1. row'[o] = r /\ \A q \in Order : q # o => row'[q] = row[q]
    BY <1>1, <1>2
  <2> SUFFICES ASSUME NEW q \in done'
               PROVE  /\ row'[q].status = "pending_trigger" => \A n \in DOMAIN rows :
                           n >= from'[q] => ~Reaches(row'[q], rows[n])
                      /\ row'[q].status = "filled" => \A n \in DOMAIN rows :
                           n >= from'[q] /\ n >= row'[q].filled =>
                             ~HitsStop(row'[q], rows[n]) /\ ~HitsTarget(row'[q], rows[n])
    BY <1>2 DEF BatchComplete, Reaches, HitsStop, HitsTarget
  <2>2. CASE q = o
    BY <1>2, <2>1, <2>2
  <2>3. CASE q # o
    BY <1>1, <1>2, <2>1, <2>3 DEF BatchComplete
  <2> QED
    BY <2>2, <2>3
<1>3. ASSUME NEW o \in Order, Pick(o) PROVE BatchComplete'
  <2> DEFINE r == row[o]
             S == Candidates(r)
  <2>1. /\ o \in todo /\ o \notin done /\ rows' = rows /\ r \in RowType
        /\ from' = [from EXCEPT ![o] = IF r.status = "filled" THEN r.updated + 1 ELSE r.created + 1]
        /\ done' = done \/ done' = done \cup {o}
    BY <1>1, <1>3 DEF Pick, Skip, Apart
  <2>2. \A q \in Order : q # o => from'[q] = from[q]
    BY <1>1, <2>1
  <2>3. CASE row' = [row EXCEPT ![o] = Expired(r)]
    <3>1. Expired(r).status = "expired"
      BY <2>1 DEF Expired, RowType
    <3> QED
      BY <1>2, <2>1, <2>2, <2>3, <3>1
  <2>4. ASSUME NEW n \in Times, row' = [row EXCEPT ![o] = Filled(r, n)], done' = done
        PROVE  BatchComplete'
    BY <1>2, <2>1, <2>2, <2>4
  <2>5. ASSUME NEW n \in Times, row' = [row EXCEPT ![o] = Closed(r, n)]
        PROVE  BatchComplete'
    <3>1. Closed(r, n).status = "closed"
      BY <2>1 DEF Closed, RowType
    <3> QED
      BY <1>2, <2>1, <2>2, <2>5, <3>1
  <2>6. CASE row' = row /\ ~Expires(r, S) /\ ~CanFill(r, S) /\ ~CanClose(r, S)
    <3>1. row' = [row EXCEPT ![o] = r]
      BY <1>1, <2>6
    <3>2. r.created \in Nat /\ r.updated \in Nat /\ r.filled \in Nat /\ DOMAIN rows \subseteq Nat
      BY <2>1, RowNumbers, BarTimes
    <3>3. ASSUME r.status = "pending_trigger", NEW n \in DOMAIN rows, n >= from'[o]
          PROVE  ~Reaches(r, rows[n])
      <4>1. from'[o] = r.created + 1 /\ r.updated = r.created
        BY <1>1, <2>1, <3>3 DEF Rows, GoodRow, DatedRow
      <4>2. n \in S
        BY <3>2, <3>3, <4>1 DEF Candidates
      <4> QED
        BY <2>6, <3>3, <4>2 DEF CanFill, Fills
    <3>4. ASSUME r.status = "filled", NEW n \in DOMAIN rows, n >= from'[o]
          PROVE  ~HitsStop(r, rows[n]) /\ ~HitsTarget(r, rows[n])
      <4>1. from'[o] = r.updated + 1
        BY <1>1, <2>1, <3>4
      <4>2. n \in S
        BY <3>2, <3>4, <4>1 DEF Candidates
      <4> QED
        BY <2>6, <3>4, <4>2 DEF CanClose, Closes
    <3> QED
      BY <1>2, <2>1, <2>2, <3>1, <3>3, <3>4
  <2>7. \/ row' = [row EXCEPT ![o] = Expired(r)]
        \/ \E n \in Times : row' = [row EXCEPT ![o] = Filled(r, n)] /\ done' = done
        \/ \E n \in Times : row' = [row EXCEPT ![o] = Closed(r, n)]
        \/ row' = row /\ ~Expires(r, S) /\ ~CanFill(r, S) /\ ~CanClose(r, S)
    BY <1>3, PickDecides DEF Commit
  <2> QED
    BY <2>3, <2>4, <2>5, <2>6, <2>7
<1>4. CASE Advance
  <2> DEFINE o == item.order
             r == row[o]
             S == Behind(item.first)
  <2>1. /\ o \in Order /\ rows' = rows /\ from' = from /\ done' = done \cup {o}
        /\ r.status = "filled" /\ item.first = r.filled /\ r \in RowType
    BY <1>1, <1>4, AdvanceDecides DEF Advance, Skip, InHand
  <2>2. ASSUME NEW n \in Times, row' = [row EXCEPT ![o] = Closed(r, n)]
        PROVE  BatchComplete'
    <3>1. Closed(r, n).status = "closed"
      BY <2>1 DEF Closed, RowType
    <3> QED
      BY <1>2, <2>1, <2>2, <3>1
  <2>3. CASE row' = row /\ ~CanClose(r, S)
    <3>1. row' = [row EXCEPT ![o] = r]
      BY <1>1, <2>3
    <3>2. ASSUME NEW n \in DOMAIN rows, n >= r.filled
          PROVE  ~HitsStop(r, rows[n]) /\ ~HitsTarget(r, rows[n])
      BY <2>1, <2>3, <3>2 DEF CanClose, Closes, Behind
    <3> QED
      BY <1>2, <2>1, <3>1, <3>2
  <2> QED
    BY <1>4, <2>2, <2>3, AdvanceDecides DEF Commit
<1>5. CASE done' = {}
  BY <1>5 DEF BatchComplete
<1>6. CASE UNCHANGED <<row, rows, done, from>>
  BY <1>6 DEF BatchComplete, Reaches, HitsStop, HitsTarget
<1>7. ASSUME NEW o \in Order, Create(o) \/ Cancel(o) PROVE BatchComplete'
  BY <1>7 DEF Create, Cancel, Apart, BatchComplete
<1> QED
  BY <1>3, <1>4, <1>5, <1>6, <1>7 DEF Next, Move, NewBar, Begin, Return, CutOff, vars

\* At the start there is one bar and no order.
LEMMA InitInv == Init => IInv
<1> SUFFICES ASSUME Init PROVE IInv
  OBVIOUS
<1>1. 0 \in Times /\ 0 \in Nat /\ 0 \in 0 .. MaxFaults /\ 0 \in 0 .. MaxBars + 1
  BY DEF Times
<1>2. NoRow \in RowType
  BY <1>1 DEF NoRow, RowType, Sides
<1>3. bars \in Seq(BarType) /\ Len(bars) = 1
  <2>1. PICK p \in Price : bars = <<[low |-> p, high |-> p]>>
    BY DEF Init
  <2>2. [low |-> p, high |-> p] \in BarType
    BY DEF BarType
  <2> QED
    BY <2>1, <2>2
<1>4. TypeOK
  <2>1. (CHOOSE o \in Order : TRUE) \in Order
    OBVIOUS
  <2>2. Paired(NoRow)
    BY DEF Paired, NoRow
  <2> QED
    BY <1>1, <1>2, <1>3, <2>1, <2>2 DEF Init, TypeOK
<1>5. GoodRow(NoRow, Now)
  <2>1. 0 <= 0 /\ 0 <= Now
    BY <1>3 DEF Now
  <2>2. DatedRow(NoRow, Now)
    BY <2>1 DEF DatedRow, NoRow
  <2>3. Paired(NoRow) /\ PaidRow(NoRow) /\ NoRow.status = "none"
    BY DEF Paired, PaidRow, NoRow
  <2> QED
    BY <1>2, <2>2, <2>3 DEF GoodRow
<1>6. Rows /\ InHand /\ Apart /\ BatchComplete
  BY <1>5 DEF Init, Rows, InHand, Apart, BatchComplete
<1> QED
  BY <1>4, <1>6 DEF IInv

\* Every reachable state satisfies the inductive invariant.
LEMMA AlwaysInv == Spec => []IInv
<1>1. IInv /\ [Next]_vars => IInv'
  BY TypeStep, RowsStep, HandStep, BatchStep DEF IInv
<1> QED
  BY InitInv, <1>1, PTL DEF Spec

-----------------------------------------------------------------------------
(* The theorems *)

\* The rows keep their types, and order and idea of an id go together.
THEOREM TradingTypes == Spec => []TypeOK
<1>1. IInv => TypeOK
  BY DEF IInv
<1> QED
  BY AlwaysInv, <1>1, PTL

\* No order is filled or closed by a bar from before it was created.
THEOREM NeverLooksBack == Spec => []NoLookBack
<1>1. ASSUME IInv PROVE NoLookBack
  <2> SUFFICES ASSUME NEW o \in Order
               PROVE  /\ row[o].closed # 0 => /\ row[o].filled <= row[o].closed
                                              /\ row[o].created < row[o].closed
                      /\ row[o].filled # 0 => row[o].created <= row[o].filled
    BY DEF NoLookBack
  <2>1. GoodRow(row[o], Now) /\ row[o] \in RowType
    BY <1>1 DEF IInv, Rows, GoodRow
  <2>2. row[o].status \in {"none", "pending_trigger", "filled", "closed", "expired", "cancelled"}
    BY <2>1 DEF RowType, Active, Final
  <2> QED
    BY <2>1, <2>2 DEF GoodRow, DatedRow
<1> QED
  BY AlwaysInv, <1>1, PTL

\* What reconcile has finished with, no bar that it fetched would change.
THEOREM BatchesComplete == Spec => []BatchComplete
<1>1. IInv => BatchComplete
  BY DEF IInv
<1> QED
  BY AlwaysInv, <1>1, PTL

\* A close at the target is a gain, a close at the stop a loss.
THEOREM ProfitHasItsSign == Spec => []ProfitSigned
<1>1. ASSUME IInv PROVE ProfitSigned
  <2> SUFFICES ASSUME NEW o \in Order
               PROVE  /\ row[o].reason = "tp" => Gain(row[o]) > 0
                      /\ row[o].reason = "sl" => Gain(row[o]) < 0
    BY DEF ProfitSigned
  <2> DEFINE r == row[o]
  <2>1. GoodRow(r, Now) /\ r \in RowType
    BY <1>1 DEF IInv, Rows, GoodRow
  <2>2. r.entry \in Nat /\ r.stop \in Nat /\ r.target \in Nat /\ r.side \in {"long", "short"}
    BY <2>1 DEF RowType, Sides
  <2>3. ASSUME r.reason \in {"tp", "sl"} PROVE Prepared(r.side, r.entry, r.stop, r.target)
    BY <2>1, <2>3 DEF GoodRow, PaidRow
  <2> QED
    BY <2>1, <2>2, <2>3 DEF GoodRow, PaidRow, Prepared, Gain
<1> QED
  BY AlwaysInv, <1>1, PTL

\* A closed, expired or cancelled order never changes again.
THEOREM TerminalStay == Spec => TerminalStays
<1>1. ASSUME IInv, [Next]_vars PROVE [\A o \in Order : Settled(o)]_vars
  <2> SUFFICES ASSUME NEW o \in Order, row[o].status \in Final PROVE row'[o] = row[o]
    BY DEF Settled
  <2>1. row \in [Order -> RowType]
    BY <1>1 DEF IInv, TypeOK
  <2>2. row[o].status \notin {"none", "pending_trigger", "filled"}
    BY DEF Final
  <2>3. ASSUME NEW q \in Order, NEW r, Commit(q, r),
               row[q].status \in {"none", "pending_trigger", "filled"}
        PROVE  row'[o] = row[o]
    BY <2>1, <2>2, <2>3 DEF Commit
  <2>4. ASSUME NEW q \in Order, Pick(q) PROVE row'[o] = row[o]
    BY <1>1, <2>3, <2>4, PickDecides
  <2>5. CASE Advance
    BY <1>1, <2>3, <2>5, AdvanceDecides
  <2>6. ASSUME NEW q \in Order, Create(q) \/ Cancel(q) PROVE row'[o] = row[o]
    BY <2>3, <2>6 DEF Create, Cancel, Cancellable
  <2> QED
    BY <1>1, <2>4, <2>5, <2>6 DEF Next, Move, NewBar, Begin, Return, CutOff, vars
<1> QED
  BY AlwaysInv, <1>1, PTL DEF Spec, TerminalStays

-----------------------------------------------------------------------------
(* Which stops can be passed over *)

\* A call works on the market's bars; only the last one it fetched may still
\* have moved since.
Fetched == \A n \in DOMAIN rows : n < Len(rows) => rows[n] = bars[n]

\* A step closes a position at its target, and the market did not meet its stop
\* before in any bar behind the position's last change, nor, when the same call
\* had filled it, in any bar since the fill.
TakesTarget(o) == row[o].reason # "tp" /\ row'[o].reason = "tp"
StopsSeen(o) == \A n \in row[o].filled .. row'[o].closed - 1 :
  n > row[o].updated \/ pc = "advance" => ~HitsStop(row[o], bars[n])

\* The market adds to its last bar or begins one, and a call fetches all of them.
LEMMA FetchedStep == ASSUME TypeOK, Fetched, [Next]_vars PROVE Fetched'
<1>1. /\ bars \in Seq(BarType) /\ rows \in Seq(BarType) /\ Len(bars) \in Nat /\ Len(rows) \in Nat
      /\ Len(rows) <= Len(bars) /\ DOMAIN rows = 1 .. Len(rows) /\ DOMAIN bars = 1 .. Len(bars)
  BY DEF TypeOK
<1>2. CASE UNCHANGED <<bars, rows>>
  BY <1>2 DEF Fetched
<1>3. CASE (rows' = bars /\ bars' = bars) \/ rows' = <<>>
  BY <1>3 DEF Fetched
<1>4. ASSUME rows' = rows, \A n \in 1 .. Len(bars) - 1 : bars'[n] = bars[n] PROVE Fetched'
  <2> SUFFICES ASSUME NEW n \in DOMAIN rows, n < Len(rows) PROVE rows[n] = bars'[n]
    BY <1>4 DEF Fetched
  <2>1. rows[n] = bars[n]
    BY DEF Fetched
  <2>2. n \in 1 .. Len(bars) - 1
    BY <1>1
  <2> QED
    BY <1>4, <2>1, <2>2
<1>5. CASE Move
  <2>1. PICK p \in Price : bars' = [bars EXCEPT ![Now] = Include(bars[Now], p)]
    BY <1>5 DEF Move
  <2>2. ASSUME NEW n \in 1 .. Len(bars) - 1 PROVE bars'[n] = bars[n]
    <3>1. ASSUME NEW l \in Nat, n \in 1 .. l - 1 PROVE n \in 1 .. l /\ n # l
      BY <3>1
    <3>2. n \in 1 .. Len(bars) /\ n # Len(bars) /\ DOMAIN bars = 1 .. Len(bars)
      BY <1>1, <3>1
    <3> QED
      BY <2>1, <3>2 DEF Now
  <2> QED
    BY <1>4, <1>5, <2>2 DEF Move
<1>6. CASE NewBar
  <2>1. PICK p \in Price : bars' = Append(bars, [low |-> p, high |-> p])
    BY <1>6 DEF NewBar
  <2>2. \A n \in 1 .. Len(bars) - 1 : bars'[n] = bars[n]
    BY <1>1, <2>1
  <2> QED
    BY <1>4, <1>6, <2>2 DEF NewBar
<1> QED
  BY <1>2, <1>3, <1>5, <1>6
  DEF Next, Create, Cancel, Begin, Pick, Advance, Return, CutOff, vars

\* The first bar that closes a position has none before it, of those looked at,
\* that meets the stop.
LEMMA FirstClose ==
  ASSUME TypeOK, Fetched, NEW r, NEW S \in SUBSET DOMAIN rows, CanClose(r, S)
  PROVE  /\ Least(Closes(r, S)) \in DOMAIN rows
         /\ \A n \in S : n < Least(Closes(r, S)) => ~HitsStop(r, bars[n])
<1> DEFINE m == Least(Closes(r, S))
<1>1. DOMAIN rows = 1 .. Len(rows) /\ Len(rows) \in Nat
  BY DEF TypeOK
<1>2. Closes(r, S) \subseteq S /\ Closes(r, S) # {} /\ Closes(r, S) \subseteq Nat
  BY <1>1 DEF Closes, CanClose
<1>3. m \in Closes(r, S) /\ \A k \in Closes(r, S) : m <= k
  BY <1>2, LeastIn
<1> HIDE DEF m
<1>4. m \in DOMAIN rows
  BY <1>2, <1>3
<1>5. ASSUME NEW n \in S, n < m PROVE ~HitsStop(r, bars[n])
  <2>1. n \in DOMAIN rows /\ n < Len(rows) /\ ~ m <= n
    BY <1>1, <1>4, <1>5
  <2>2. n \notin Closes(r, S)
    BY <1>3, <2>1
  <2>3. rows[n] = bars[n]
    BY <2>1 DEF Fetched
  <2> QED
    BY <2>2, <2>3 DEF Closes
<1> QED
  BY <1>4, <1>5 DEF m

\* What a close at the target saw.
LEMMA ClosesSeeing ==
  ASSUME IInv, Fetched, NEW o \in Order, NEW S \in SUBSET DOMAIN rows,
         CanClose(row[o], S), Commit(o, Closed(row[o], Least(Closes(row[o], S)))),
         pc = "advance" => row[o].filled # 0,
         \A n \in DOMAIN rows : n >= row[o].filled /\ (n > row[o].updated \/ pc = "advance")
                                  => n \in S
  PROVE  StopsSeen(o)
<1> DEFINE m == Least(Closes(row[o], S))
<1>1. TypeOK /\ row[o] \in RowType /\ row[o].created <= row[o].filled
  BY DEF IInv, TypeOK, Rows, GoodRow, DatedRow, CanClose
<1>2. m \in DOMAIN rows /\ \A n \in S : n < m => ~HitsStop(row[o], bars[n])
  BY <1>1, FirstClose
<1> HIDE DEF m
<1>3. row'[o].closed = m
  BY <1>1 DEF Commit, Closed, TypeOK, RowType, m
<1>4. row[o].filled \in Nat /\ row[o].updated \in Nat
  BY <1>1, RowNumbers
<1>5. ASSUME NEW n \in row[o].filled .. m - 1, n > row[o].updated \/ pc = "advance"
      PROVE  ~HitsStop(row[o], bars[n])
  <2>1. DOMAIN rows = 1 .. Len(rows) /\ Len(rows) \in Nat
    BY <1>1 DEF TypeOK
  <2>2. n \in Nat /\ n >= row[o].filled /\ n < m /\ n <= Len(rows)
    BY <1>2, <1>4, <2>1
  <2>3. n # 0
    BY <1>4, <1>5, <2>2
  <2>4. n \in S
    BY <1>5, <2>1, <2>2, <2>3
  <2> QED
    BY <1>2, <2>2, <2>4
<1> QED
  BY <1>3, <1>5 DEF StopsSeen

\* No other step gives the reason "tp".
LEMMA OnlyClosesTake ==
  ASSUME IInv, NEW o \in Order, NEW q \in Order, TakesTarget(o),
         NEW r, Commit(q, r), r.reason # "tp" \/ r.reason = row[q].reason
  PROVE  FALSE
BY DEF IInv, TypeOK, Commit, TakesTarget

\* A stop that is passed over for a later target lies between a fill and its
\* commit: the step that closes a position at its target has looked at every bar
\* behind the position's last change, and since the fill if the same call filled
\* it, and the market met the stop in none of them before.
THEOREM OverlookedOnlyAtTheFill ==
  Spec => [][\A o \in Order : TakesTarget(o) => StopsSeen(o)]_vars
<1> DEFINE Sees == \A o \in Order : TakesTarget(o) => StopsSeen(o)
<1>1. ASSUME IInv, Fetched, [Next]_vars PROVE [Sees]_vars
  <2> SUFFICES ASSUME NEW o \in Order, TakesTarget(o) PROVE StopsSeen(o)
    OBVIOUS
  <2>t. TypeOK /\ row \in [Order -> RowType]
    BY <1>1 DEF IInv, TypeOK
  <2>1. row' # row
    BY DEF TakesTarget
  <2>2. ASSUME NEW q \in Order, Pick(q) PROVE StopsSeen(o)
    <3> DEFINE r == row[q]
               S == Candidates(r)
    <3>1. /\ r \in RowType /\ Expired(r).reason = r.reason
          /\ \A n : Filled(r, n).reason = r.reason
      BY <2>t DEF RowType, Expired, Filled
    <3>2. CanClose(r, S) /\ Commit(q, Closed(r, Least(Closes(r, S)))) /\ pc = "next"
      <4> HIDE DEF r, S
      <4>1. ~ Commit(q, Expired(r)) /\ \A n : ~ Commit(q, Filled(r, n))
        BY <1>1, <3>1, OnlyClosesTake DEF r
      <4> QED
        BY <2>1, <2>2, <4>1 DEF Pick, r, S
    <3>3. q = o
      <4>1. \A p \in Order : p # q => row'[p] = row[p]
        BY <2>t, <3>2 DEF Commit
      <4> QED
        BY <4>1 DEF TakesTarget
    <3>4. S \in SUBSET DOMAIN rows /\ \A n \in DOMAIN rows : n > r.updated => n \in S
      BY DEF Candidates
    <3> QED
      BY <1>1, <3>2, <3>3, <3>4, ClosesSeeing
  <2>3. CASE Advance
    <3> DEFINE q == item.order
               S == Behind(item.first)
    <3>1. /\ q \in Order /\ item.first = row[q].filled /\ row[q].created < row[q].filled
          /\ row[q] \in RowType
      BY <1>1, <2>t, <2>3, AdvanceDecides DEF IInv, InHand, Advance
    <3>2. CanClose(row[q], S) /\ Commit(q, Closed(row[q], Least(Closes(row[q], S))))
      BY <2>1, <2>3 DEF Advance
    <3>3. q = o
      <4>1. \A p \in Order : p # q => row'[p] = row[p]
        BY <2>t, <3>2 DEF Commit
      <4> QED
        BY <4>1 DEF TakesTarget
    <3>4. S \in SUBSET DOMAIN rows /\ \A n \in DOMAIN rows : n >= row[q].filled => n \in S
      BY <3>1 DEF Behind
    <3>5. row[q].filled # 0
      <4>1. row[q].created \in Nat
        BY <3>1, RowNumbers
      <4> QED
        BY <3>1, <4>1
    <3> QED
      BY <1>1, <3>2, <3>3, <3>4, <3>5, ClosesSeeing
  <2>4. ASSUME NEW q \in Order, Create(q) \/ Cancel(q) PROVE FALSE
    <3>1. CASE Create(q)
      <4>1. PICK side \in Sides, e, s, t \in Price, open \in BOOLEAN, until \in Times :
              Commit(q, Placed(side, e, s, t, open, until))
        BY <3>1 DEF Create
      <4>2. Placed(side, e, s, t, open, until).reason = ""
        BY DEF Placed, NoRow
      <4> QED
        BY <1>1, <4>1, <4>2, OnlyClosesTake
    <3>2. CASE Cancel(q)
      <4> DEFINE r == [row[q] EXCEPT !.status = "cancelled", !.idea = "cancelled",
                                     !.reason = "cancelled", !.updated = Now]
      <4>1. row[q] \in RowType /\ Commit(q, r)
        BY <2>t, <3>2 DEF Cancel
      <4>2. r.reason = "cancelled"
        BY <4>1 DEF RowType
      <4> HIDE DEF r
      <4> QED
        BY <1>1, <4>1, <4>2, OnlyClosesTake
    <3> QED
      BY <2>4, <3>1, <3>2
  <2> QED
    BY <1>1, <2>1, <2>2, <2>3, <2>4 DEF Next, Move, NewBar, Begin, Return, CutOff, vars
<1>2. Init => Fetched
  BY DEF Init, Fetched
<1>3. IInv => TypeOK
  BY DEF IInv
<1>4. TypeOK /\ Fetched /\ [Next]_vars => Fetched'
  BY FetchedStep
<1> HIDE DEF Sees
<1>5. IInv /\ Fetched /\ [Next]_vars => [Sees]_vars
  BY <1>1
<1>6. Spec => [][Sees]_vars
  BY AlwaysInv, <1>2, <1>3, <1>4, <1>5, PTL DEF Spec
<1> QED
  BY <1>6 DEF Sees
=============================================================================
