------------------------- MODULE PlanMonitorProofs -------------------------
(***************************************************************************)
(* The safety properties of PlanMonitor, for any plans, any candles and    *)
(* any number of faults and of failing notices.                            *)
(*                                                                         *)
(* A plan's monitor is copied: into the cycle that reads it, into the hand *)
(* that works on it, into a cancel, and back.  What the rule says of the   *)
(* stored one it says of every copy, so a copy may be saved at any time.   *)
(* As long as some copy may lead to a notice, the user was sent no more    *)
(* than faults account for; and an attempt that was sent is found as       *)
(* delivered, unless another message has passed it.                        *)
(***************************************************************************)
EXTENDS PlanMonitor, NaturalsInduction, WellFoundedInduction, TLAPS

USE MonitorAssumption

-----------------------------------------------------------------------------
(* The invariant *)

\* Places of the thread in which the hand holds a plan.
Busy == {"market", "read", "write", "notify", "turn", "reply", "send"}

\* The rule for a plan d over given candles, among those a monitor has
\* consumed: the candles up to the last one that count, those that touch the
\* zone, and those at which the plan triggers.
Past(d, last) == {n \in 1 .. last : n > d.born + 1 /\ n <= d.until}
Touch(cs, d, n) == Outside(d.side, cs[n - 1]) /\ Inside(cs[n])
Fired(cs, d, S) == {n \in S : Outside(d.side, cs[n]) /\ \E k \in S : k <= n /\ Touch(cs, d, k)}

\* A monitor says of the candles it has consumed what the rule says of them.
Exact(cs, d, m) == LET S == Past(d, m.last) IN
  /\ m.last <= Len(cs)
  /\ m.trigger = 0 => Fired(cs, d, S) = {} /\ (m.touched <=> \E k \in S : Touch(cs, d, k))
  /\ m.trigger # 0 => Fired(cs, d, S) # {} /\ m.trigger = Least(Fired(cs, d, S))
  /\ m.status = "active" => m.trigger = 0
  /\ m.status = "notice_pending" => m.trigger # 0
Good(p, m) == Exact(candles, db[p], m)

\* Every copy of a monitor is good.
Copies ==
  /\ \A p \in Plan : Good(p, db[p].monitor)
  /\ \A p \in cycle.todo : Good(p, cycle.seen[p])
  /\ pc \in Busy => Good(hand.plan, hand.monitor)
  /\ \A p \in Plan : user.plan = {p} => Good(p, user.monitor)

\* The thread and the user hold plans that were started; the plan in hand is
\* off the cycle's list; the market is asked about active plans only.
Held ==
  /\ cycle.size <= Len(candles)
  /\ \A p \in cycle.todo : db[p].state # "none"
  /\ pc \in Busy => db[hand.plan].state # "none" /\ hand.plan \notin cycle.todo
  /\ \A p \in Plan : user.plan = {p} => db[p].state # "none"
  /\ pc = "market" => hand.monitor.status = "active"

\* The thread is on its way to hand a notice over.
Handing == {"notify", "turn", "reply", "send"}
Notifying == pc \in Handing \/ (pc \in {"read", "write"} /\ hand.then = "notify")

\* It got there with a plan that was valid when the cycle started, and whose
\* monitor has triggered.
Valid == /\ pc = "market" \/ Notifying => hand.plan \notin cycle.over
         /\ Notifying => hand.monitor.status = "notice_pending"

\* A plan of which some copy may still lead to a notice.
Sendable(p) == \/ Watched(p) /\ ~ Told(p)
               \/ p \in cycle.todo
               \/ pc \in Busy /\ hand.plan = p /\ hand.monitor.status # "triggered"

\* Its notices so far are accounted for by faults, and one more is owed at most.
Owes(p) ==
  /\ Len(sent[p]) <= 1 + lost[p]
  /\ Sendable(p) => Len(sent[p]) <= lost[p]
  /\ db[p].state = "none" => sent[p] = <<>>
  /\ pc = "write" /\ hand.plan = p /\ db[p].state = "watch" => Watched(p)
Owed == \A p \in Plan : Owes(p)

\* What is found of the attempts: one that was sent is delivered, or was passed;
\* the one in hand has come as far as the thread has, or was passed.
Sent(p) == {sent[p][i] : i \in 1 .. Len(sent[p])}
Seen(p) ==
  /\ \A i, j \in 1 .. Len(sent[p]) : i < j /\ sent[p][i] = sent[p][j] => sent[p][i] \in passed[p]
  /\ \A n \in Sent(p) \ passed[p] : message[p][n] = "delivered"
  /\ \A n \in passed[p] : message[p][n] \in {"accepted", "aborted"}
Reached(p) == hand.plan = p =>
  LET n == hand.monitor.attempt IN
  /\ pc = "turn" => message[p][n] = "accepted"
  /\ pc = "reply" => n \in passed[p] \/ message[p][n] = "answered"
  /\ pc = "send" => n \in passed[p] \/ message[p][n] = "started"
InPlace == \A p \in Plan : Seen(p) /\ Reached(p)

\* The inductive invariant.
IInv == TypeOK /\ Held /\ Copies /\ Valid /\ Owed /\ InPlace

-----------------------------------------------------------------------------
(* Numbers, prices and the pass over the candles *)

\* A set of numbers that is not empty has a least member.
LEMMA LeastIn ==
  ASSUME NEW S, S \subseteq Nat, S # {}
  PROVE  Least(S) \in S /\ \A k \in S : Least(S) <= k
<1>1. \E n \in S : \A k \in S : ~ (<<k, n>> \in OpToRel(<, Nat))
  BY NatLessThanWellFounded, WFMin
<1>2. \A k, n \in S : k < n => <<k, n>> \in OpToRel(<, Nat)
  BY DEF OpToRel
<1>3. PICK n \in S : \A k \in S : ~ (k < n)
  BY <1>1, <1>2
<1>4. \A k \in S : n <= k
  BY <1>3
<1> QED
  BY <1>4 DEF Least

\* There is one least member.
LEMMA LeastIs ==
  ASSUME NEW S, S \subseteq Nat, NEW n \in S, \A k \in S : n <= k
  PROVE  Least(S) = n
<1>1. Least(S) \in S /\ Least(S) <= n
  BY LeastIn
<1>2. Least(S) \in Nat /\ n \in Nat /\ n <= Least(S)
  BY <1>1
<1> QED
  BY <1>1, <1>2

\* A bounded set of numbers that is not empty has a greatest member.
LEMMA MostIn ==
  ASSUME NEW S, NEW b \in Nat, S \subseteq 0 .. b, S # {}
  PROVE  Most(S) \in S /\ \A k \in S : k <= Most(S)
<1> DEFINE U == {b - k : k \in S}
<1>1. U \subseteq Nat /\ U # {}
  <2>1. \A k \in S : k \in 0 .. b /\ b - k \in Nat
    OBVIOUS
  <2> QED
    BY <2>1
<1>2. Least(U) \in U /\ \A u \in U : Least(U) <= u
  BY <1>1, LeastIn
<1>3. PICK n \in S : Least(U) = b - n
  BY <1>2
<1>4. \A k \in S : k <= n
  <2> TAKE k \in S
  <2>1. b - k \in U
    OBVIOUS
  <2>2. b - n <= b - k
    BY <1>2, <1>3, <2>1
  <2> QED
    BY <2>2
<1> QED
  BY <1>4 DEF Most

\* What one candle after another is found to be by the pass, read off at once.
LEMMA ScanValue ==
  ASSUME NEW side, NEW touched \in BOOLEAN, NEW F, F \subseteq Nat,
         \A n \in F : n # Least(F) => n - 1 \in F
  PROVE  \A n \in F : Scan(side, F, touched)[n] =
           (touched \/ \E k \in F : k <= n /\ Outside(side, candles[k - 1])
                                           /\ Inside(candles[k]))
<1> DEFINE touch(k) == Outside(side, candles[k - 1]) /\ Inside(candles[k])
           found(n) == touched \/ \E k \in F : k <= n /\ touch(k)
           body(g) == [n \in F |->
              LET before == IF n = Least(F) THEN touched ELSE g[n - 1]
              IN before \/ touch(n)]
           W == [n \in F |-> found(n)]
<1>1. \A n \in F : n = Least(F) => (found(n) <=> (touched \/ touch(n)))
  <2> SUFFICES ASSUME NEW n \in F, n = Least(F) PROVE found(n) <=> (touched \/ touch(n))
    OBVIOUS
  <2>1. \A k \in F : k <= n => k = n
    <3>1. \A k \in F : n <= k /\ k \in Nat /\ n \in Nat
      BY LeastIn
    <3> QED
      BY <3>1
  <2>2. n <= n
    OBVIOUS
  <2> HIDE DEF touch
  <2> QED
    BY <2>1, <2>2
<1>2. \A n \in F : n # Least(F) => (found(n) <=> (found(n - 1) \/ touch(n)))
  <2> SUFFICES ASSUME NEW n \in F, n # Least(F)
               PROVE found(n) <=> (found(n - 1) \/ touch(n))
    OBVIOUS
  <2>1. \A k \in F : k <= n <=> (k <= n - 1 \/ k = n)
    OBVIOUS
  <2> HIDE DEF touch
  <2> QED
    BY <2>1
<1> \A n \in F : found(n) \in BOOLEAN
  OBVIOUS
<1> HIDE DEF found, touch
<1>3. W = body(W)
  <2>1. \A n \in F : n # Least(F) => W[n - 1] = found(n - 1)
    OBVIOUS
  <2>2. \A n \in F : found(n) = ((IF n = Least(F) THEN touched ELSE W[n - 1]) \/ touch(n))
    BY <1>1, <1>2, <2>1
  <2> QED
    BY <2>2
<1>4. Scan(side, F, touched) = CHOOSE g : g = body(g)
  BY DEF Scan, touch
<1>5. Scan(side, F, touched) = body(Scan(side, F, touched))
  <2> HIDE DEF W, body
  <2> QED
    BY <1>3, <1>4
<1> DEFINE g == Scan(side, F, touched)
<1> HIDE DEF g
<1>6. \A n \in F : g[n] = ((IF n = Least(F) THEN touched ELSE g[n - 1]) \/ touch(n))
  <2>1. g = body(g)
    BY <1>5 DEF g
  <2> QED
    BY <2>1
<1> DEFINE Bad == {n \in F : g[n] # found(n)}
<1>7. Bad = {}
  <2> SUFFICES ASSUME Bad # {} PROVE FALSE
    OBVIOUS
  <2> DEFINE n == Least(Bad)
  <2>1. n \in Bad /\ \A k \in Bad : n <= k
    BY LeastIn
  <2> HIDE DEF n
  <2>2. CASE n = Least(F)
    BY <1>1, <1>6, <2>1, <2>2 DEF found
  <2>3. CASE n # Least(F)
    <3>1. n - 1 \in F /\ n - 1 \notin Bad
      BY <2>1, <2>3
    <3>2. g[n - 1] = found(n - 1)
      BY <3>1
    <3>3. g[n] = (g[n - 1] \/ touch(n))
      BY <1>6, <2>1, <2>3
    <3>4. found(n) <=> (found(n - 1) \/ touch(n))
      BY <1>2, <2>1, <2>3
    <3> QED
      BY <2>1, <3>2, <3>3, <3>4 DEF found
  <2> QED
    BY <2>2, <2>3
<1> QED
  BY <1>7 DEF g, found, touch

-----------------------------------------------------------------------------
(* The rule and the pass *)

\* What a monitor says stays true when another candle closes.
LEMMA ExactGrows ==
  ASSUME NEW cs \in Seq(Candle), NEW c \in Candle, NEW d \in PlanType, NEW m \in MonitorType,
         Exact(cs, d, m)
  PROVE  Exact(Append(cs, c), d, m)
<1> DEFINE S == Past(d, m.last)
           cs2 == Append(cs, c)
<1>1. m.last \in Nat /\ m.last <= Len(cs) /\ d.born \in Nat
  BY DEF Exact, MonitorType, PlanType, Times
<1>2. Len(cs2) = Len(cs) + 1 /\ \A n \in 1 .. Len(cs) : cs2[n] = cs[n]
  OBVIOUS
<1>3. \A n \in S : n \in 1 .. Len(cs) /\ n - 1 \in 1 .. Len(cs)
  BY <1>1 DEF Past
<1>4. \A n \in S : Touch(cs2, d, n) = Touch(cs, d, n) /\ cs2[n] = cs[n]
  BY <1>2, <1>3 DEF Touch
<1>5. Fired(cs2, d, S) = Fired(cs, d, S)
  BY <1>4 DEF Fired
<1>6. m.last <= Len(cs2)
  BY <1>1, <1>2
<1> HIDE DEF cs2
<1>7. (\E k \in S : Touch(cs2, d, k)) <=> (\E k \in S : Touch(cs, d, k))
  BY <1>4
<1>8. Exact(cs2, d, m)
  BY <1>5, <1>6, <1>7 DEF Exact
<1> QED
  BY <1>8 DEF cs2

\* A new monitor says nothing yet.
LEMMA ExactNew ==
  ASSUME NEW cs \in Seq(Candle), NEW d
  PROVE  Exact(cs, d, NewMonitor)
<1>1. Past(d, 0) = {} /\ Len(cs) \in Nat
  BY DEF Past
<1> QED
  BY <1>1 DEF Exact, NewMonitor, Fired

\* Nothing but the status and the attempt of a monitor may change at will.
LEMMA ExactStatus ==
  ASSUME NEW cs, NEW d, NEW m \in MonitorType, Exact(cs, d, m),
         NEW s \in {"expired", "cancelled", "triggered"}
  PROVE  Exact(cs, d, [m EXCEPT !.status = s])
BY DEF Exact, MonitorType

\* The pass over the fresh candles leaves a monitor that says what the rule
\* says, and keeps its attempt.
LEMMA PassExact ==
  ASSUME TypeOK, NEW p \in Plan, NEW m \in MonitorType, Good(p, m), m.status = "active",
         cycle.size <= Len(candles), Fresh(p, m) # {}
  PROVE  /\ Evaluated(p, m) \in MonitorType
         /\ Good(p, Evaluated(p, m))
         /\ Evaluated(p, m).attempt = m.attempt
<1> DEFINE d == db[p]
           F == Fresh(p, m)
           top == Most(F)
           scan == Scan(d.side, F, m.touched)
           back == {n \in F : scan[n] /\ Outside(d.side, candles[n])}
           C == Past(d, m.last)
           D == Past(d, top)
           e == Evaluated(p, m)
<1>1. d \in PlanType /\ d.born \in Nat /\ d.until \in Nat
  <2>1. d \in PlanType
    BY DEF TypeOK
  <2> QED
    BY <2>1 DEF PlanType, Times
<1>a. m.last \in Nat /\ m.touched \in BOOLEAN
  BY DEF MonitorType, Times
<1>b. cycle.size \in Nat /\ Len(candles) \in Nat /\ Len(candles) <= MaxCandles
  <2>1. cycle \in CycleType /\ candles \in Seq(Candle) /\ Len(candles) <= MaxCandles
    BY DEF TypeOK
  <2> QED
    BY <2>1 DEF CycleType, Times
<1>2. F = {n \in 1 .. cycle.size : n > d.born + 1 /\ n <= d.until /\ n > m.last}
  BY DEF Fresh, Eligible
<1>3. F \subseteq Nat /\ F \subseteq 0 .. cycle.size
  BY <1>b, <1>2
<1> HIDE DEF F
<1>4. top \in F /\ (\A k \in F : k <= top) /\ Least(F) \in F /\ \A k \in F : Least(F) <= k
  BY <1>b, <1>3, LeastIn, MostIn DEF F
<1>5. top \in Times /\ top > m.last /\ top <= Len(candles) /\ top # 0 /\ top \in Nat
  <2>1. top \in 1 .. cycle.size /\ top > m.last
    BY <1>2, <1>4
  <2> QED
    BY <1>a, <1>b, <2>1 DEF Times
<1> HIDE DEF d, top, scan
<1>6. D = C \cup F
  <2>1. \A n \in F : n \in 1 .. top
    BY <1>b, <1>2, <1>3, <1>4, <1>5
  <2>2. F \subseteq D
    BY <1>2, <2>1 DEF Past
  <2>3. C \subseteq D
    BY <1>a, <1>5 DEF Past
  <2>4. \A n \in D : n \in C \cup F
    BY <1>1, <1>a, <1>b, <1>2, <1>4, <1>5 DEF Past
  <2> QED
    BY <2>2, <2>3, <2>4
<1>7. \A n \in F : n # Least(F) => n - 1 \in F
  <2> TAKE n \in F
  <2> HAVE n # Least(F)
  <2>1. n \in Nat /\ Least(F) \in Nat /\ Least(F) <= n - 1 /\ n <= cycle.size
    BY <1>b, <1>2, <1>4
  <2>2. Least(F) > d.born + 1 /\ Least(F) > m.last /\ Least(F) >= 1
    <3> DEFINE k == Least(F)
    <3>1. k \in F
      BY <1>4
    <3> HIDE DEF k
    <3>2. k > d.born + 1 /\ k > m.last /\ k >= 1
      BY <1>1, <1>a, <1>b, <1>2, <3>1
    <3> QED
      BY <3>2 DEF k
  <2>3. n <= d.until
    BY <1>2
  <2> QED
    BY <1>1, <1>a, <1>b, <1>2, <2>1, <2>2, <2>3
<1>c. \A n \in F : scan[n] = (m.touched \/ \E k \in F :
        k <= n /\ Outside(d.side, candles[k - 1]) /\ Inside(candles[k]))
  <2> DEFINE side == d.side
             touched == m.touched
  <2> HIDE DEF side, touched
  <2>1. touched \in BOOLEAN
    BY <1>a DEF touched
  <2>2. \A n \in F : Scan(side, F, touched)[n] = (touched \/ \E k \in F :
          k <= n /\ Outside(side, candles[k - 1]) /\ Inside(candles[k]))
    BY <1>3, <1>7, <2>1, ScanValue
  <2> QED
    BY <2>2 DEF scan, side, touched
<1>8. \A n \in C, k \in F : n < k /\ n \in Nat /\ k \in Nat
  BY <1>a, <1>b, <1>2 DEF Past
<1>9. /\ m.trigger = 0 /\ Fired(candles, d, C) = {}
      /\ m.touched <=> \E k \in C : Touch(candles, d, k)
  BY DEF Good, Exact, d
<1>10. \A n \in F : scan[n] <=> \E k \in D : k <= n /\ Touch(candles, d, k)
  <2>1. \A n \in F : scan[n] = (m.touched \/ \E k \in F : k <= n /\ Touch(candles, d, k))
    BY <1>c DEF Touch
  <2>2. \A n \in F : \A k \in C : k <= n
    BY <1>8
  <2> HIDE DEF C, D
  <2> QED
    BY <1>6, <1>9, <2>1, <2>2
<1>11. Fired(candles, d, D) = back
  <2>1. \A n \in C : n \notin Fired(candles, d, D)
    <3> SUFFICES ASSUME NEW n \in C, n \in Fired(candles, d, D) PROVE FALSE
      OBVIOUS
    <3>1. PICK k \in D : k <= n /\ Touch(candles, d, k)
      BY DEF Fired
    <3>2. k \in C
      BY <1>6, <1>8, <3>1
    <3>3. n \in Fired(candles, d, C)
      BY <3>1, <3>2 DEF Fired
    <3> QED
      BY <1>9, <3>3
  <2> HIDE DEF C, D
  <2>2. \A n \in F : n \in Fired(candles, d, D) <=> n \in back
    BY <1>6, <1>10 DEF Fired
  <2>3. Fired(candles, d, D) \subseteq C \cup F /\ back \subseteq F
    BY <1>6 DEF Fired
  <2> QED
    BY <2>1, <2>2, <2>3
<1>12. CASE back = {}
  <2>1. e = [m EXCEPT !.touched = scan[top], !.last = top]
    BY <1>12 DEF Evaluated, F, top, scan, d
  <2>2. scan[top] <=> \E k \in D : Touch(candles, d, k)
    <3>1. \A k \in D : k <= top
      BY <1>a, <1>5 DEF Past
    <3> HIDE DEF D
    <3> QED
      BY <1>4, <1>10, <3>1
  <2>3. scan[top] \in BOOLEAN
    BY <1>4, <1>c
  <2>4. e \in MonitorType /\ e.last = top /\ e.touched = scan[top] /\ e.trigger = 0
        /\ e.status = "active" /\ e.attempt = m.attempt
    BY <1>5, <1>9, <2>1, <2>3 DEF MonitorType
  <2> QED
    BY <1>5, <1>11, <1>12, <2>2, <2>4 DEF Good, Exact, d
<1>13. CASE back # {}
  <2>1. e = [m EXCEPT !.touched = TRUE, !.last = top, !.status = "notice_pending",
                      !.trigger = Least(back)]
    BY <1>13 DEF Evaluated, F, top, scan, d
  <2>2. Least(back) \in F
    BY <1>3, <1>13, LeastIn
  <2>3. Least(back) \in Times /\ Least(back) # 0
    BY <1>b, <1>2, <2>2 DEF Times
  <2>4. e \in MonitorType /\ e.last = top /\ e.trigger = Least(back)
        /\ e.status = "notice_pending" /\ e.attempt = m.attempt
    BY <1>5, <2>1, <2>3 DEF MonitorType, Statuses
  <2> QED
    BY <1>5, <1>11, <1>13, <2>3, <2>4 DEF Good, Exact, d
<1> QED
  BY <1>12, <1>13

-----------------------------------------------------------------------------
(* Types *)

\* What the thread and the user hold of no plan has its type.
LEMMA Blank ==
  /\ NewMonitor \in MonitorType /\ NoPlan \in PlanType
  /\ NoHand \in HandType /\ NoCycle \in CycleType
  /\ NoCancel \in [plan : SUBSET Plan, monitor : MonitorType]
<1>1. NewMonitor \in MonitorType
  BY DEF NewMonitor, MonitorType, Statuses, Times, Attempts
<1>2. NoPlan \in PlanType
  BY <1>1 DEF NoPlan, PlanType, Sides, Times
<1>3. NoHand \in HandType
  BY <1>1 DEF NoHand, HandType
<1>4. NoCycle \in CycleType
  BY <1>1 DEF NoCycle, CycleType, Times
<1>5. NoCancel \in [plan : SUBSET Plan, monitor : MonitorType]
  BY <1>1 DEF NoCancel
<1> QED
  BY <1>1, <1>2, <1>3, <1>4, <1>5

\* A step keeps the types.
LEMMA TypeStep ==
  ASSUME TypeOK, Held, Copies, [Next]_vars
  PROVE  TypeOK'
<1> USE DEF TypeOK
<1> DEFINE MT == MonitorType
<1>a. /\ hand \in HandType /\ hand.plan \in Plan /\ hand.monitor \in MT
      /\ hand.read \in MT /\ hand.then \in {"next", "notify"}
      /\ hand.monitor.attempt \in Attempts
  BY DEF HandType, MonitorType
<1>b. \A p \in Plan : cycle.seen[p] \in MT /\ db[p].monitor \in MT /\ db[p] \in PlanType
  BY DEF CycleType, PlanType
<1>c. \A p \in Plan, m \in MT, r \in MT, t \in {"next", "notify"} :
        [plan |-> p, monitor |-> m, read |-> r, then |-> t] \in HandType
  BY DEF HandType
<1>d. \A m \in MT, s \in Statuses : [m EXCEPT !.status = s] \in MT
  BY DEF MonitorType
<1>e. \A m \in MT, n \in Attempts : [m EXCEPT !.attempt = n] \in MT
  BY DEF MonitorType
<1>f. NewMonitor \in MT
  BY Blank
<1>g. \A p \in Plan, m \in MT, t \in {"next", "notify"} : Holding(p, m, t) => hand' \in HandType
  <2> HIDE DEF TypeOK, MT
  <2> QED
    BY <1>c, <1>f DEF Holding
<1> DEFINE Log == [Plan -> [Attempts -> Found]]
           Behind == [Plan -> SUBSET Attempts]
           History == [Plan -> Seq(Attempts)]
<1>h. \A p \in Plan, n \in Attempts, v \in Found :
        message[p][n] \in Found /\ [message EXCEPT ![p][n] = v] \in Log
  OBVIOUS
<1>i. message \in Log /\ {"accepted", "answered", "started", "delivered", "aborted"} \subseteq Found
  BY DEF Found
<1>j. \A p \in Plan : Overtaken(p) => passed' \in Behind
  BY DEF Overtaken, Accepted
<1>k. \A v \in Found : Records(hand.plan, hand.monitor.attempt, v) => message' \in Log
  <2> HIDE DEF TypeOK
  <2> QED
    BY <1>a, <1>h, <1>i DEF Records
<1>l. sent \in History /\ \A p \in Plan, n \in Attempts :
        [sent EXCEPT ![p] = Append(sent[p], n)] \in History
  OBVIOUS
<1>m. Fault => faults' \in 0 .. MaxFaults
  BY DEF Fault
<1>n. Forgets => lost' \in [Plan -> Nat]
  BY DEF Forgets
<1> HIDE DEF MT, Log, Behind, History
<1>1. CASE CandleCloses
  BY <1>1 DEF CandleCloses
<1>2. CASE ValidityEnds
  BY <1>2 DEF ValidityEnds
<1>3. ASSUME NEW p \in Plan, Start(p) PROVE TypeOK'
  <2>1. PICK side \in Sides, until \in Len(candles) .. MaxCandles :
          db' = [db EXCEPT ![p] = [state |-> "watch", side |-> side, born |-> Len(candles),
                                   until |-> until, monitor |-> NewMonitor]]
    BY <1>3 DEF Start
  <2>2. Len(candles) \in Times /\ until \in Times
    BY DEF Times
  <2>3. db'[p] \in PlanType /\ db'[p].monitor = NewMonitor
    BY <2>1, <2>2, Blank DEF PlanType
  <2>4. db' \in [Plan -> PlanType]
    BY <2>1, <2>3
  <2>5. \A q \in Plan : db'[q].monitor.status = "notice_pending" => db'[q].monitor.trigger # 0
    BY <2>1, <2>3 DEF NewMonitor
  <2> QED
    BY <1>3, <2>4, <2>5 DEF Start
<1>4. ASSUME NEW p \in Plan, CancelReads(p) PROVE TypeOK'
  BY <1>4, <1>b DEF CancelReads, MT
<1>5. ASSUME NEW p \in Plan, CancelCommits(p) PROVE TypeOK'
  <2> DEFINE m == [user.monitor EXCEPT !.status = "cancelled"]
  <2>1. m \in MonitorType /\ m.status = "cancelled"
    BY DEF MonitorType, Statuses
  <2>2. db' = [db EXCEPT ![p].state = "cancelled", ![p].monitor = m]
    BY <1>5 DEF CancelCommits
  <2> HIDE DEF m
  <2>3. db'[p] \in PlanType /\ db'[p].monitor = m
    BY <2>1, <2>2, <1>b DEF PlanType
  <2>4. db' \in [Plan -> PlanType]
    BY <2>2, <2>3
  <2>5. \A q \in Plan : db'[q].monitor.status = "notice_pending" => db'[q].monitor.trigger # 0
    BY <2>1, <2>2, <2>3
  <2> QED
    BY <1>5, <2>4, <2>5, Blank DEF CancelCommits
<1>6. CASE Begin
  <2>1. cycle' \in CycleType
    <3>1. Len(candles) \in Times /\ over \in SUBSET Plan
          /\ {p \in Plan : Watched(p)} \in SUBSET Plan
      BY DEF Times
    <3>2. [p \in Plan |-> IF Watched(p) THEN db[p].monitor ELSE NewMonitor] \in [Plan -> MonitorType]
      BY <1>b, <1>f DEF MT
    <3> QED
      BY <1>6, <3>1, <3>2 DEF Begin, CycleType
  <2> QED
    BY <1>6, <2>1 DEF Begin, Goto
<1>7. CASE End
  BY <1>7, Blank DEF End, Goto
<1>8. ASSUME NEW p \in Plan, Take(p) PROVE TypeOK'
  <2>1. cycle' \in CycleType
    BY <1>8 DEF Take, CycleType
  <2>2. hand' \in HandType
    <3>1. cycle.seen[p] \in MT /\ [cycle.seen[p] EXCEPT !.status = "expired"] \in MT
      BY <1>b, <1>d DEF Statuses
    <3> QED
      BY <1>8, <1>g, <3>1 DEF Take
  <2>3. pc' \in {"read", "notify", "market"}
    BY <1>8 DEF Take, Goto
  <2> QED
    BY <1>8, <2>1, <2>2, <2>3 DEF Take
<1>9. CASE MarketFails
  BY <1>9, Blank DEF MarketFails, Leave
<1>10. CASE Market
  <2>1. CASE Fresh(hand.plan, hand.monitor) = {}
    BY <1>10, <2>1, Blank DEF Market, Leave
  <2>2. CASE Fresh(hand.plan, hand.monitor) # {}
    <3>1. Evaluated(hand.plan, hand.monitor) \in MT
      BY <1>10, <1>a, <2>2, PassExact DEF Market, Held, Copies, Busy, MT
    <3>2. hand' \in HandType /\ pc' = "read"
      BY <1>10, <1>a, <1>g, <2>2, <3>1 DEF Market, Goto
    <3> QED
      BY <1>10, <3>2 DEF Market
  <2> QED
    BY <2>1, <2>2
<1>11. CASE SaveReads
  <2>1. hand' \in HandType /\ pc' \in {"write", "next"}
    <3>1. [hand EXCEPT !.read = db[hand.plan].monitor] \in HandType
      BY <1>a, <1>b DEF HandType, MT
    <3> QED
      BY <1>11, <3>1, Blank DEF SaveReads, Leave, Goto
  <2> QED
    BY <1>11, <2>1 DEF SaveReads
<1>12. CASE SaveCommits
  <2> DEFINE p == hand.plan
             s == IF hand.monitor.status = "expired" THEN "expired" ELSE db[p].state
  <2>1. db' = [db EXCEPT ![p].monitor = hand.monitor, ![p].state = s]
    BY <1>12, <1>a, <1>b DEF SaveCommits, PlanType
  <2>2. s \in {"none", "watch", "expired", "cancelled"} /\ p \in Plan
    BY <1>a, <1>b DEF PlanType
  <2>3. pc = "write" /\ Good(p, hand.monitor)
    BY <1>12 DEF SaveCommits, Copies, Busy
  <2> HIDE DEF s, p
  <2>4. db'[p] \in PlanType /\ db'[p].monitor = hand.monitor
    BY <2>1, <2>2, <1>a, <1>b DEF PlanType, MT
  <2>5. db' \in [Plan -> PlanType]
    BY <2>1, <2>2, <2>4
  <2>6. \A q \in Plan : db'[q].monitor.status = "notice_pending" => db'[q].monitor.trigger # 0
    BY <2>1, <2>3, <2>4 DEF Good, Exact
  <2>7. hand' \in HandType /\ pc' \in {"notify", "next"}
    BY <1>12, Blank DEF SaveCommits, Leave, Goto
  <2> QED
    BY <1>12, <2>5, <2>6, <2>7 DEF SaveCommits
<1>13. CASE NoticeBegins
  <2>1. hand' \in HandType /\ pc' \in {"turn", "reply", "read"}
    BY <1>13, <1>a, <1>d, <1>g DEF NoticeBegins, Saving, Goto, Statuses
  <2>2. message' \in Log /\ passed' \in Behind
    <3>1. passed \in Behind
      BY DEF Behind
    <3> HIDE DEF TypeOK
    <3> QED
      BY <1>13, <1>a, <1>h, <1>i, <1>j, <3>1 DEF NoticeBegins
  <2> QED
    BY <1>13, <2>1, <2>2 DEF NoticeBegins, Log, Behind
<1>14. CASE NoticeAnswered
  BY <1>14, <1>i, <1>k DEF NoticeAnswered, Goto, Log
<1>15. CASE NoticeStarts
  BY <1>15, <1>i, <1>k DEF NoticeStarts, Goto, Log
<1>16. CASE NoticeFails
  <2>1. hand.monitor.attempt <= MaxFails => hand.monitor.attempt + 1 \in Attempts
    BY <1>a DEF Attempts
  <2>2. hand' \in HandType /\ pc' = "read"
    <3>1. hand.monitor.attempt <= MaxFails
            => [hand.monitor EXCEPT !.attempt = hand.monitor.attempt + 1] \in MT
      BY <1>a, <1>e, <2>1
    <3> QED
      BY <1>16, <1>a, <1>g, <3>1 DEF NoticeFails, Goto
  <2>3. message' \in Log
    <3>1. Left(Known(hand.plan, hand.monitor.attempt)) \subseteq Found
      BY <1>a, <1>h, <1>i DEF Known, Left
    <3>2. message' = message \/ \E v \in Found :
            message' = [message EXCEPT ![hand.plan][hand.monitor.attempt] = v]
      BY <1>16, <3>1 DEF NoticeFails
    <3> HIDE DEF TypeOK
    <3>3. \A v \in Found : [message EXCEPT ![hand.plan][hand.monitor.attempt] = v] \in Log
      BY <1>a, <1>h
    <3> QED
      BY <1>i, <3>2, <3>3
  <2> QED
    BY <1>16, <2>2, <2>3 DEF NoticeFails, Log
<1>17. CASE Send
  <2>1. hand' \in HandType /\ pc' = "read"
    BY <1>17, <1>a, <1>d, <1>g DEF Send, Saving, Goto, Statuses
  <2>2. message' \in Log /\ sent' \in History
    BY <1>17, <1>a, <1>i, <1>k, <1>l DEF Send
  <2> QED
    BY <1>17, <2>1, <2>2 DEF Send, Log, History
<1>18. CASE SendFails
  <2>1. hand' \in HandType /\ pc' = "read"
    BY <1>18, <1>a, <1>d, <1>g DEF SendFails, Saving, Goto, Statuses
  <2> QED
    BY <1>18, <2>1 DEF SendFails
<1>19. CASE SaveFails
  BY <1>19, <1>m, <1>n, Blank DEF SaveFails, Leave
<1>20. CASE Crash
  BY <1>20, <1>m, <1>n, Blank DEF Crash, Goto
<1>21. ASSUME NEW p \in Plan, Speaks(p) PROVE TypeOK'
  BY <1>21, <1>j DEF Speaks, Behind
<1>22. ASSUME NEW p \in Plan, LateAnswer(p) PROVE TypeOK'
  <2>1. PICK n \in Attempts, k \in {"answered", "started"} : message' = [message EXCEPT ![p][n] = k]
    BY <1>22 DEF LateAnswer, Accepted
  <2>2. message' \in Log
    BY <1>h, <1>i, <2>1
  <2> QED
    BY <1>22, <2>2 DEF LateAnswer, Log
<1>23. CASE UNCHANGED vars
  BY <1>23 DEF vars
<1> QED
  BY <1>1, <1>2, <1>3, <1>4, <1>5, <1>6, <1>7, <1>8, <1>9, <1>10, <1>11, <1>12, <1>13, <1>14,
     <1>15, <1>16, <1>17, <1>18, <1>19, <1>20, <1>21, <1>22, <1>23 DEF Next, Poll

-----------------------------------------------------------------------------
(* The copies of a monitor *)

\* The rule for a plan is read off its side and its times.
LEMMA ExactPlan ==
  ASSUME NEW cs, NEW d, NEW e, NEW m,
         d.side = e.side, d.born = e.born, d.until = e.until, Exact(cs, d, m)
  PROVE  Exact(cs, e, m)
<1>1. Past(e, m.last) = Past(d, m.last)
  BY DEF Past
<1>2. \A n : Touch(cs, e, n) = Touch(cs, d, n)
  BY DEF Touch
<1>3. \A S : Fired(cs, e, S) = Fired(cs, d, S)
  BY <1>2 DEF Fired
<1> QED
  BY <1>1, <1>2, <1>3 DEF Exact

\* Side and times of a plan are fixed when it starts, and a started plan stays.
LEMMA Fixed ==
  ASSUME TypeOK, [Next]_vars, NEW p \in Plan, ~ Start(p)
  PROVE  /\ db'[p].side = db[p].side /\ db'[p].born = db[p].born /\ db'[p].until = db[p].until
         /\ db[p].state # "none" => db'[p].state # "none"
<1> DEFINE Same(q) == /\ db'[q].side = db[q].side /\ db'[q].born = db[q].born
                      /\ db'[q].until = db[q].until
                      /\ db[q].state # "none" => db'[q].state # "none"
<1>a. db \in [Plan -> PlanType] /\ db[p] \in PlanType
  BY DEF TypeOK
<1>1. ASSUME NEW q \in Plan, Start(q) PROVE Same(p)
  <2>1. q # p
    BY <1>1
  <2> QED
    BY <1>1, <1>a, <2>1 DEF Start
<1>2. ASSUME NEW q \in Plan, CancelCommits(q) PROVE Same(p)
  BY <1>2, <1>a DEF CancelCommits, PlanType
<1>3. CASE SaveCommits
  BY <1>3, <1>a DEF SaveCommits, PlanType
<1>4. CASE db' = db
  BY <1>4
<1> QED
  BY <1>1, <1>2, <1>3, <1>4 DEF Next, Poll, vars, CandleCloses, ValidityEnds, CancelReads,
     Begin, End, Market, SaveReads, NoticeBegins, NoticeAnswered, NoticeStarts, NoticeFails,
     Send, SendFails, Take, MarketFails, SaveFails, Crash, Speaks, LateAnswer

\* What a monitor says of a plan it goes on saying after any step but the start.
LEMMA Carried ==
  ASSUME TypeOK, [Next]_vars, NEW p \in Plan, ~ Start(p), NEW m \in MonitorType, Good(p, m)
  PROVE  Exact(candles', db'[p], m)
<1>a. candles \in Seq(Candle) /\ db[p] \in PlanType /\ Exact(candles, db[p], m)
  BY DEF TypeOK, Good
<1>1. CASE CandleCloses
  <2>1. PICK c \in Candle : candles' = Append(candles, c) /\ db' = db
    BY <1>1 DEF CandleCloses
  <2> QED
    BY <1>a, <2>1, ExactGrows
<1>2. CASE candles' = candles
  BY <1>2, <1>a, Fixed, ExactPlan
<1> QED
  BY <1>1, <1>2 DEF Next, Poll, vars, ValidityEnds, Start, CancelReads, CancelCommits,
     Begin, End, Market, SaveReads, SaveCommits, NoticeBegins, NoticeAnswered, NoticeStarts,
     NoticeFails, Send, SendFails, Take, MarketFails, SaveFails, Crash, Speaks, LateAnswer

\* What a step stores of a plan that it does not start is good.
LEMMA GoodStored ==
  ASSUME TypeOK, Held, Copies, [Next]_vars, NEW p \in Plan, ~ Start(p)
  PROVE  Good(p, db'[p].monitor)
<1>a. db \in [Plan -> PlanType] /\ db[p] \in PlanType /\ Good(p, db[p].monitor)
  BY DEF TypeOK, Copies
<1>1. ASSUME NEW q \in Plan, Start(q) PROVE Good(p, db'[p].monitor)
  <2>1. q # p
    BY <1>1
  <2> QED
    BY <1>1, <1>a, <2>1 DEF Start
<1>2. ASSUME NEW q \in Plan, CancelCommits(q) PROVE Good(p, db'[p].monitor)
  <2>1. CASE q = p
    <3>1. user.monitor \in MonitorType /\ Good(p, user.monitor)
      BY <1>2, <2>1 DEF CancelCommits, Copies, TypeOK
    <3>2. db'[p].monitor = [user.monitor EXCEPT !.status = "cancelled"]
      BY <1>2, <1>a, <2>1 DEF CancelCommits, PlanType
    <3>3. Good(p, [user.monitor EXCEPT !.status = "cancelled"])
      BY <3>1, ExactStatus DEF Good
    <3> QED
      BY <3>2, <3>3
  <2>2. CASE q # p
    BY <1>2, <1>a, <2>2 DEF CancelCommits
  <2> QED
    BY <2>1, <2>2
<1>3. CASE SaveCommits
  <2>1. hand.plan \in Plan /\ Good(hand.plan, hand.monitor)
    BY <1>3 DEF SaveCommits, Copies, Busy, TypeOK, HandType
  <2>2. hand.plan = p => db'[p].monitor = hand.monitor
    BY <1>3, <1>a DEF SaveCommits, PlanType
  <2>3. hand.plan # p => db'[p] = db[p]
    BY <1>3, <1>a, <2>1 DEF SaveCommits
  <2> QED
    BY <1>a, <2>1, <2>2, <2>3
<1>4. CASE db' = db
  BY <1>4, <1>a
<1> QED
  BY <1>1, <1>2, <1>3, <1>4 DEF Next, Poll, vars, CandleCloses, ValidityEnds, CancelReads,
     Begin, End, Market, SaveReads, NoticeBegins, NoticeAnswered, NoticeStarts, NoticeFails,
     Send, SendFails, Take, MarketFails, SaveFails, Crash, Speaks, LateAnswer

\* What the cycle has read of the plans it has still to do is good.
LEMMA GoodSeen ==
  ASSUME TypeOK, Held, Copies, [Next]_vars, NEW p \in cycle'.todo
  PROVE  p \in Plan /\ Good(p, cycle'.seen[p]) /\ db[p].state # "none"
<1>a. cycle \in CycleType /\ cycle.todo \subseteq Plan
  BY DEF TypeOK, CycleType
<1>1. CASE Begin
  BY <1>1 DEF Begin, Copies, Watched
<1>2. CASE cycle' = NoCycle
  BY <1>2 DEF NoCycle
<1>3. ASSUME NEW q \in Plan, Take(q)
      PROVE p \in Plan /\ Good(p, cycle'.seen[p]) /\ db[p].state # "none"
  <2>1. p \in cycle.todo /\ cycle'.seen = cycle.seen
    BY <1>3, <1>a DEF Take, CycleType
  <2> QED
    BY <1>a, <2>1 DEF Copies, Held
<1>4. CASE cycle' = cycle
  BY <1>4, <1>a DEF Copies, Held
<1> QED
  BY <1>1, <1>2, <1>3, <1>4 DEF Next, Poll, vars, CandleCloses, ValidityEnds, Start,
     CancelReads, CancelCommits, End, Market, SaveReads, SaveCommits, NoticeBegins,
     NoticeAnswered, NoticeStarts, NoticeFails, Send, SendFails, MarketFails, SaveFails,
     Crash, Speaks, LateAnswer

\* What is in hand is good, and of a plan that the cycle has not to do any more.
LEMMA GoodHand ==
  ASSUME TypeOK, Held, Copies, [Next]_vars, pc' \in Busy
  PROVE  /\ hand'.plan \in Plan /\ Good(hand'.plan, hand'.monitor)
         /\ db[hand'.plan].state # "none" /\ hand'.plan \notin cycle'.todo
         /\ pc' = "market" => hand'.monitor.status = "active"
<1> DEFINE Fine == /\ hand'.plan \in Plan /\ Good(hand'.plan, hand'.monitor)
                   /\ db[hand'.plan].state # "none" /\ hand'.plan \notin cycle'.todo
                   /\ pc' = "market" => hand'.monitor.status = "active"
<1>a. /\ hand \in HandType /\ hand.plan \in Plan /\ hand.monitor \in MonitorType
      /\ cycle \in CycleType /\ cycle.todo \subseteq Plan
  BY DEF TypeOK, HandType, CycleType
<1>b. \A p \in cycle.todo : cycle.seen[p] \in MonitorType
  BY <1>a DEF CycleType
<1>c. pc \in Busy => /\ Good(hand.plan, hand.monitor) /\ db[hand.plan].state # "none"
                     /\ hand.plan \notin cycle.todo
  BY DEF Held, Copies
<1>d. \A s \in {"expired", "cancelled", "triggered"} :
        pc \in Busy => Good(hand.plan, [hand.monitor EXCEPT !.status = s])
  BY <1>a, <1>c, ExactStatus DEF Good
<1>1. CASE pc' = pc /\ hand' = hand /\ cycle' = cycle
  BY <1>1, <1>a, <1>c DEF Held
<1>2. ASSUME NEW p \in Plan, Take(p) PROVE Fine
  <2>1. p \in cycle.todo /\ p \notin cycle'.todo /\ db[p].state # "none"
    BY <1>2, <1>a DEF Take, Held, CycleType
  <2>2. Good(p, cycle.seen[p]) /\ Good(p, [cycle.seen[p] EXCEPT !.status = "expired"])
    BY <1>b, <2>1, ExactStatus DEF Copies, Good
  <2>3. /\ hand'.plan = p
        /\ hand'.monitor \in {cycle.seen[p], [cycle.seen[p] EXCEPT !.status = "expired"]}
        /\ pc' = "market" => hand'.monitor.status = "active"
    BY <1>2 DEF Take, Holding, Goto
  <2> QED
    BY <2>1, <2>2, <2>3
<1>3. CASE Market
  <2>1. /\ pc = "market" /\ hand'.plan = hand.plan /\ pc' = "read" /\ cycle' = cycle
        /\ hand'.monitor = Evaluated(hand.plan, hand.monitor)
        /\ Fresh(hand.plan, hand.monitor) # {}
    BY <1>3 DEF Market, Leave, Holding, Goto, Busy
  <2>2. Good(hand.plan, Evaluated(hand.plan, hand.monitor))
    BY <1>a, <1>c, <2>1, PassExact DEF Busy, Held
  <2> QED
    BY <1>a, <1>c, <2>1, <2>2 DEF Busy
<1>4. CASE SaveReads
  <2>1. /\ pc = "read" /\ hand' = [hand EXCEPT !.read = db[hand.plan].monitor]
        /\ pc' = "write" /\ cycle' = cycle
    BY <1>4 DEF SaveReads, Leave, Goto, Busy
  <2>2. hand'.plan = hand.plan /\ hand'.monitor = hand.monitor
    BY <1>a, <2>1 DEF HandType
  <2> QED
    BY <1>a, <1>c, <2>1, <2>2 DEF Busy
<1>5. CASE SaveCommits
  BY <1>5, <1>a, <1>c DEF SaveCommits, Leave, Goto, Busy
<1>6. CASE Saving("triggered") /\ pc \in Busy /\ cycle' = cycle
  BY <1>6, <1>a, <1>c, <1>d DEF Saving, Holding, Goto
<1>7. CASE NoticeBegins
  <2>1. CASE Saving("triggered")
    BY <1>6, <1>7, <2>1 DEF NoticeBegins, Busy
  <2>2. CASE pc' \in {"turn", "reply"} /\ hand' = hand
    BY <1>7, <2>2, <1>a, <1>c DEF NoticeBegins, Busy
  <2> QED
    BY <1>7, <2>1, <2>2 DEF NoticeBegins, Goto
<1>8. CASE NoticeFails
  <2>1. pc \in Busy /\ pc' = "read" /\ cycle' = cycle /\ hand'.plan = hand.plan
        /\ hand'.monitor \in {hand.monitor,
                              [hand.monitor EXCEPT !.attempt = hand.monitor.attempt + 1]}
    BY <1>8 DEF NoticeFails, Holding, Goto, Busy
  <2>2. Good(hand.plan, [hand.monitor EXCEPT !.attempt = hand.monitor.attempt + 1])
    BY <1>a, <1>c, <2>1 DEF Good, Exact, MonitorType, Busy
  <2> QED
    BY <1>a, <1>c, <2>1, <2>2 DEF Busy
<1>9. CASE pc' \in {"idle", "next"}
  BY <1>9 DEF Busy
<1>10. CASE Send \/ SendFails
  BY <1>6, <1>10 DEF Send, SendFails, Busy
<1>11. CASE NoticeAnswered \/ NoticeStarts
  BY <1>11, <1>a, <1>c DEF NoticeAnswered, NoticeStarts, Goto, Busy
<1> QED
  BY <1>1, <1>2, <1>3, <1>4, <1>5, <1>7, <1>8, <1>9, <1>10, <1>11 DEF Next, Poll, vars,
     CandleCloses, ValidityEnds, Start, CancelReads, CancelCommits, Begin, End, MarketFails,
     SaveFails, Speaks, LateAnswer, Leave, Goto, Crash

\* What a cancel holds is good, and of a started plan.
LEMMA GoodCancel ==
  ASSUME TypeOK, Held, Copies, [Next]_vars, NEW p \in Plan, user'.plan = {p}
  PROVE  Good(p, user'.monitor) /\ db[p].state # "none"
<1>1. ASSUME NEW q \in Plan, CancelReads(q) PROVE Good(p, user'.monitor) /\ db[p].state # "none"
  BY <1>1 DEF CancelReads, Copies
<1>2. CASE user' = NoCancel
  BY <1>2 DEF NoCancel
<1>3. CASE user' = user
  BY <1>3 DEF Copies, Held
<1> QED
  BY <1>1, <1>2, <1>3 DEF Next, Poll, vars, CandleCloses, ValidityEnds, Start, CancelCommits,
     Begin, End, Market, SaveReads, SaveCommits, NoticeBegins, NoticeAnswered, NoticeStarts,
     NoticeFails, Send, SendFails, Take, MarketFails, SaveFails, Crash, Speaks, LateAnswer

\* A plan of which something is held does not start again.
LEMMA HeldStep ==
  ASSUME TypeOK, Held, Copies, [Next]_vars
  PROVE  Held'
<1>a. \A p \in Plan : db[p].state # "none" => ~ Start(p)
  BY DEF Start
<1>b. \A p \in Plan : db[p].state # "none" => db'[p].state # "none"
  BY <1>a, Fixed
<1>1. cycle'.size <= Len(candles')
  <2>a. candles \in Seq(Candle) /\ cycle.size \in Nat /\ Len(candles) \in Nat
    BY DEF TypeOK, CycleType, Times
  <2>1. Len(candles) <= Len(candles')
    <3>1. CASE CandleCloses
      BY <3>1, <2>a DEF CandleCloses
    <3>2. CASE candles' = candles
      BY <3>2, <2>a
    <3> QED
      BY <3>1, <3>2 DEF Next, Poll, vars, ValidityEnds, Start, CancelReads, CancelCommits,
         Begin, End, Market, SaveReads, SaveCommits, NoticeBegins, NoticeAnswered, NoticeStarts,
         NoticeFails, Send, SendFails, Take, MarketFails, SaveFails, Crash, Speaks, LateAnswer
  <2>2. cycle'.size \in {0, cycle.size, Len(candles)}
    <3>1. CASE cycle' = NoCycle
      BY <3>1 DEF NoCycle
    <3>2. CASE Begin
      BY <3>2 DEF Begin
    <3>3. ASSUME NEW p \in Plan, Take(p) PROVE cycle'.size = cycle.size
      BY <3>3 DEF Take, TypeOK, CycleType
    <3>4. CASE cycle' = cycle
      BY <3>4
    <3> QED
      BY <3>1, <3>2, <3>3, <3>4 DEF Next, Poll, vars, CandleCloses, ValidityEnds, Start,
         CancelReads, CancelCommits, End, Market, SaveReads, SaveCommits, NoticeBegins,
         NoticeAnswered, NoticeStarts, NoticeFails, Send, SendFails, MarketFails, SaveFails,
         Crash, Speaks, LateAnswer
  <2>3. Len(candles') \in Nat
    BY TypeStep DEF TypeOK
  <2> QED
    BY <2>a, <2>1, <2>2, <2>3 DEF Held
<1>2. \A p \in cycle'.todo : db'[p].state # "none"
  BY <1>b, GoodSeen
<1>3. pc' \in Busy => db'[hand'.plan].state # "none" /\ hand'.plan \notin cycle'.todo
  BY <1>b, GoodHand
<1>4. \A p \in Plan : user'.plan = {p} => db'[p].state # "none"
  BY <1>b, GoodCancel
<1>5. pc' = "market" => hand'.monitor.status = "active"
  BY GoodHand DEF Busy
<1> QED
  BY <1>1, <1>2, <1>3, <1>4, <1>5 DEF Held, Busy

\* Every copy stays good.
LEMMA CopiesStep ==
  ASSUME TypeOK, Held, Copies, [Next]_vars
  PROVE  Copies'
<1>a. \A p \in Plan : db[p].state # "none" => ~ Start(p)
  BY DEF Start
<1>b. /\ \A p \in Plan : db'[p].monitor \in MonitorType
      /\ \A p \in Plan : cycle'.seen[p] \in MonitorType
      /\ hand'.monitor \in MonitorType /\ user'.monitor \in MonitorType
  BY TypeStep DEF TypeOK, PlanType, CycleType, HandType
<1>1. ASSUME NEW p \in Plan PROVE Exact(candles', db'[p], db'[p].monitor)
  <2>1. CASE Start(p)
    <3>1. db'[p].monitor = NewMonitor /\ candles' = candles /\ candles \in Seq(Candle)
      BY <2>1 DEF Start, TypeOK
    <3> QED
      BY <3>1, ExactNew
  <2>2. CASE ~ Start(p)
    BY <1>b, <2>2, GoodStored, Carried
  <2> QED
    BY <2>1, <2>2
<1>2. ASSUME NEW p \in cycle'.todo PROVE Exact(candles', db'[p], cycle'.seen[p])
  BY <1>a, <1>b, GoodSeen, Carried
<1>3. ASSUME pc' \in Busy PROVE Exact(candles', db'[hand'.plan], hand'.monitor)
  BY <1>3, <1>a, <1>b, GoodHand, Carried
<1>4. ASSUME NEW p \in Plan, user'.plan = {p} PROVE Exact(candles', db'[p], user'.monitor)
  BY <1>4, <1>a, <1>b, GoodCancel, Carried
<1> QED
  BY <1>1, <1>2, <1>3, <1>4 DEF Copies, Good, Busy

-----------------------------------------------------------------------------
(* What is handed over was valid *)

\* The thread hands over what was valid when its cycle started.
LEMMA ValidStep == ASSUME TypeOK, Held, Valid, [Next]_vars PROVE Valid'
<1>1. hand \in HandType /\ hand.monitor \in MonitorType /\ hand.plan \in Plan
  BY DEF TypeOK, HandType
<1>2. CASE UNCHANGED <<pc, cycle, hand>>
  BY <1>2 DEF Valid, Notifying, Handing
<1>3. CASE pc' \in {"idle", "next"}
  BY <1>3 DEF Valid, Notifying, Handing
<1>4. ASSUME NEW p \in Plan, Take(p) PROVE Valid'
  BY <1>4 DEF Take, Holding, Goto, Valid, Notifying, Handing
<1>5. CASE Market
  <2>1. pc = "market" /\ hand.monitor.status = "active" /\ hand.plan \notin cycle.over
    BY <1>5 DEF Market, Held, Valid
  <2>2. Evaluated(hand.plan, hand.monitor).status \in {"active", "notice_pending"}
    BY <1>1, <2>1 DEF Evaluated, MonitorType
  <2>3. CASE Fresh(hand.plan, hand.monitor) = {}
    BY <1>5, <2>3 DEF Market, Leave, Valid, Notifying, Handing
  <2>4. CASE Fresh(hand.plan, hand.monitor) # {}
    <3> DEFINE m == Evaluated(hand.plan, hand.monitor)
    <3>1. /\ pc' = "read" /\ cycle' = cycle /\ hand'.plan = hand.plan /\ hand'.monitor = m
          /\ hand'.then = IF m.status = "active" THEN "next" ELSE "notify"
      BY <1>5, <2>4 DEF Market, Holding, Goto
    <3> HIDE DEF m
    <3>2. hand'.then = "notify" => m.status = "notice_pending"
      BY <2>2, <3>1 DEF m
    <3> QED
      BY <2>1, <3>1, <3>2 DEF Valid, Notifying, Handing
  <2> QED
    BY <2>3, <2>4
<1>6. CASE SaveReads
  <2>1. CASE pc' = "write"
    BY <1>1, <1>6, <2>1 DEF SaveReads, Goto, Leave, HandType, Valid, Notifying, Handing
  <2> QED
    BY <1>3, <1>6, <2>1 DEF SaveReads, Goto, Leave
<1>7. CASE SaveCommits
  BY <1>7 DEF SaveCommits, Goto, Leave, Valid, Notifying, Handing
<1>8. CASE NoticeBegins
  BY <1>8 DEF NoticeBegins, Goto, Saving, Holding, Valid, Notifying, Handing
<1>9. CASE NoticeFails
  BY <1>9 DEF NoticeFails, Goto, Holding, Valid, Notifying, Handing
<1>10. CASE Send \/ SendFails
  BY <1>10 DEF Send, SendFails, Saving, Goto, Holding, Valid, Notifying, Handing
<1>11. CASE NoticeAnswered \/ NoticeStarts
  BY <1>11 DEF NoticeAnswered, NoticeStarts, Goto, Valid, Notifying, Handing
<1> QED
  BY <1>2, <1>3, <1>4, <1>5, <1>6, <1>7, <1>8, <1>9, <1>10, <1>11
  DEF Next, Poll, vars, CandleCloses, ValidityEnds, Start, CancelReads, CancelCommits,
      Begin, End, MarketFails, SaveFails, Crash, Speaks, LateAnswer, Goto, Leave

-----------------------------------------------------------------------------
(* What is owed *)

\* An open plan was open before, or it has just started.
LEMMA WatchedBefore ==
  ASSUME TypeOK, Owed, [Next]_vars, NEW p \in Plan, Watched(p)'
  PROVE  Watched(p) \/ Start(p)
<1>a. db \in [Plan -> PlanType] /\ db[p] \in PlanType
  BY DEF TypeOK
<1>1. ASSUME NEW q \in Plan, Start(q), q # p PROVE db'[p] = db[p]
  BY <1>1, <1>a DEF Start
<1>2. ASSUME NEW q \in Plan, CancelCommits(q) PROVE db'[p] = db[p]
  <2>1. q # p
    BY <1>2, <1>a DEF CancelCommits, PlanType, Watched
  <2> QED
    BY <1>2, <1>a, <2>1 DEF CancelCommits
<1>3. CASE SaveCommits /\ hand.plan = p
  <2>1. db[p].state = "watch"
    BY <1>3, <1>a DEF SaveCommits, PlanType, Watched
  <2> QED
    BY <1>3, <2>1 DEF SaveCommits, Owed, Owes
<1>4. SaveCommits /\ hand.plan # p => db'[p] = db[p]
  BY <1>a DEF SaveCommits
<1>5. db'[p] = db[p] => Watched(p)
  BY DEF Watched
<1> QED
  BY <1>1, <1>2, <1>3, <1>4, <1>5 DEF Next, Poll, vars, CandleCloses, ValidityEnds,
     CancelReads, Begin, End, Market, SaveReads, NoticeBegins, NoticeAnswered, NoticeStarts,
     NoticeFails, Send, SendFails, Take, MarketFails, SaveFails, Crash, Speaks, LateAnswer

\* A step that sends nothing, forgets nothing and makes no notice possible.
LEMMA OwesKept ==
  ASSUME NEW p \in Plan, Owes(p), sent'[p] = sent[p], lost'[p] = lost[p],
         Sendable(p)' => Sendable(p), db'[p].state = "none" => db[p].state = "none",
         pc' = "write" /\ hand'.plan = p /\ db'[p].state = "watch" => Watched(p)'
  PROVE  Owes(p)'
BY DEF Owes

\* Starting a plan and cancelling one leave what is owed of every plan.
LEMMA OwesUser ==
  ASSUME TypeOK, Held, Owed, NEW p \in Plan, NEW q \in Plan, Start(q) \/ CancelCommits(q)
  PROVE  Owes(p)'
<1>a. db \in [Plan -> PlanType] /\ db[p] \in PlanType /\ Owes(p) /\ lost[p] \in Nat
  BY DEF TypeOK, Owed
<1>b. UNCHANGED <<pc, cycle, hand, sent, lost>>
  BY DEF Start, CancelCommits
<1>c. Told(p)' <=> Told(p)
  BY <1>b DEF Told
<1>1. CASE q # p
  <2>1. db'[p] = db[p]
    BY <1>1, <1>a DEF Start, CancelCommits
  <2>2. Watched(p)' <=> Watched(p)
    BY <2>1 DEF Watched
  <2>3. Sendable(p)' <=> Sendable(p)
    BY <1>b, <1>c, <2>2 DEF Sendable
  <2> QED
    BY <1>a, <1>b, <2>1, <2>2, <2>3, OwesKept DEF Owes
<1>2. CASE Start(p)
  <2>1. sent[p] = <<>> /\ db'[p].state = "watch"
    BY <1>2, <1>a DEF Start, Owes
  <2>2. Len(sent[p]) = 0 /\ sent'[p] = sent[p] /\ lost'[p] = lost[p]
    BY <1>b, <2>1
  <2>3. ~ (pc' = "write" /\ hand'.plan = p)
    BY <1>2, <1>b DEF Start, Held, Busy
  <2> QED
    BY <1>a, <2>1, <2>2, <2>3 DEF Owes
<1>3. CASE CancelCommits(p)
  <2>1. db'[p].state = "cancelled"
    BY <1>3, <1>a DEF CancelCommits, PlanType
  <2>2. ~ Watched(p)'
    BY <2>1 DEF Watched
  <2>3. Sendable(p)' => Sendable(p)
    BY <1>b, <2>2 DEF Sendable
  <2> QED
    BY <1>a, <1>b, <2>1, <2>3, OwesKept
<1> QED
  BY <1>1, <1>2, <1>3

\* So do the steps of a cycle that read, ask the market and save.
LEMMA OwesCycle ==
  ASSUME TypeOK, Held, Valid, Owed, NEW p \in Plan,
         Begin \/ End \/ Market \/ MarketFails \/ SaveReads \/ \E q \in Plan : Take(q)
  PROVE  Owes(p)'
<1>a. /\ hand \in HandType /\ hand.plan \in Plan /\ cycle \in CycleType
      /\ cycle.todo \subseteq Plan /\ Owes(p)
  BY DEF TypeOK, HandType, CycleType, Owed
<1>b. UNCHANGED <<db, sent, lost>>
  BY DEF Begin, End, Market, MarketFails, SaveReads, Take
<1>c. Watched(p)' <=> Watched(p)
  BY <1>b DEF Watched
<1>1. CASE Begin
  <2>1. /\ pc = "idle" /\ pc' = "next"
        /\ p \in cycle'.todo => Watched(p)
    BY <1>1 DEF Begin, Goto
  <2>2. Sendable(p)' => Sendable(p)
    BY <1>c, <2>1 DEF Sendable, Told, Busy
  <2> QED
    BY <1>a, <1>b, <2>1, <2>2, OwesKept
<1>2. CASE End
  <2>1. pc = "next" /\ pc' = "idle" /\ cycle'.todo = {}
    BY <1>2 DEF End, Goto, NoCycle
  <2>2. Sendable(p)' => Sendable(p)
    BY <1>c, <2>1 DEF Sendable, Told, Busy
  <2> QED
    BY <1>a, <1>b, <2>1, <2>2, OwesKept
<1>3. CASE Market
  <2>1. /\ pc = "market" /\ cycle' = cycle /\ pc' \in {"next", "read"}
        /\ pc' = "read" => hand'.plan = hand.plan
    BY <1>3 DEF Market, Leave, Holding, Goto
  <2>2. hand.monitor.status = "active"
    BY <2>1 DEF Held
  <2>3. Sendable(p)' => Sendable(p)
    BY <1>c, <2>1, <2>2 DEF Sendable, Told, Busy
  <2> QED
    BY <1>a, <1>b, <2>1, <2>3, OwesKept
<1>4. CASE MarketFails
  <2>1. pc = "market" /\ pc' = "next" /\ cycle' = cycle
    BY <1>4 DEF MarketFails, Leave
  <2>2. Sendable(p)' => Sendable(p)
    BY <1>c, <2>1 DEF Sendable, Told, Busy
  <2> QED
    BY <1>a, <1>b, <2>1, <2>2, OwesKept
<1>5. CASE SaveReads
  <2>1. CASE Watched(hand.plan)
    <3>1. /\ pc = "read" /\ pc' = "write" /\ cycle' = cycle
          /\ hand'.plan = hand.plan /\ hand'.monitor = hand.monitor
      BY <1>5, <1>a, <2>1 DEF SaveReads, Goto, HandType
    <3>2. Sendable(p)' => Sendable(p)
      BY <1>c, <3>1 DEF Sendable, Told, Busy
    <3>3. hand'.plan = p => Watched(p)'
      BY <1>c, <2>1, <3>1
    <3> QED
      BY <1>a, <1>b, <3>2, <3>3, OwesKept
  <2>2. CASE ~ Watched(hand.plan)
    <3>1. pc = "read" /\ pc' = "next" /\ cycle' = cycle
      BY <1>5, <2>2 DEF SaveReads, Leave
    <3>2. Sendable(p)' => Sendable(p)
      BY <1>c, <2>2, <3>1 DEF Sendable, Told, Busy
    <3> QED
      BY <1>a, <1>b, <3>1, <3>2, OwesKept
  <2> QED
    BY <2>1, <2>2
<1>6. ASSUME NEW q \in Plan, Take(q) PROVE Owes(p)'
  <2>1. /\ pc = "next" /\ q \in cycle.todo /\ cycle'.todo = cycle.todo \ {q}
        /\ hand'.plan = q /\ pc' \in {"read", "notify", "market"}
    BY <1>6, <1>a DEF Take, Holding, Goto, CycleType
  <2>2. Sendable(p)' => Sendable(p)
    BY <1>c, <2>1 DEF Sendable, Told, Busy
  <2> QED
    BY <1>a, <1>b, <2>1, <2>2, OwesKept
<1> QED
  BY <1>1, <1>2, <1>3, <1>4, <1>5, <1>6

\* And the steps of a hand-over; a plan that was told is not open once that is
\* saved.
LEMMA OwesNotice ==
  ASSUME TypeOK, Held, Valid, Owed, [Next]_vars, NEW p \in Plan,
         \/ SaveCommits \/ NoticeBegins \/ NoticeAnswered \/ NoticeStarts
         \/ NoticeFails \/ Send \/ SendFails
  PROVE  Owes(p)'
<1>a. /\ hand \in HandType /\ hand.plan \in Plan /\ hand.monitor \in MonitorType
      /\ db \in [Plan -> PlanType] /\ db[p] \in PlanType /\ Owes(p)
      /\ sent \in [Plan -> Seq(Attempts)] /\ sent[p] \in Seq(Attempts) /\ Len(sent[p]) \in Nat
      /\ lost[p] \in Nat
  BY DEF TypeOK, HandType, Owed
<1>b. pc \in Handing => hand.monitor.status = "notice_pending"
  BY DEF Valid, Notifying
<1>c. cycle' = cycle /\ lost' = lost
  BY DEF SaveCommits, NoticeBegins, NoticeAnswered, NoticeStarts, NoticeFails, Send, SendFails
<1>1. CASE SaveCommits
  <2>1. /\ pc = "write" /\ pc' \in {"next", "notify"} /\ sent' = sent
        /\ pc' = "notify" => hand' = hand /\ hand.then = "notify"
    BY <1>1 DEF SaveCommits, Goto, Leave
  <2>2. pc' = "notify" => hand.monitor.status = "notice_pending"
    BY <2>1 DEF Valid, Notifying
  <2>3. Watched(p)' => Watched(p)
    <3>1. ~ Start(p)
      BY <2>1 DEF Start
    <3> QED
      BY <3>1, WatchedBefore
  <2>4. Watched(p)' => ~ Told(p)
    <3>1. hand.plan = p => db'[p].monitor = hand.monitor
      BY <1>1, <1>a DEF SaveCommits, PlanType
    <3> QED
      BY <3>1 DEF Told, Watched, Open
  <2>5. Sendable(p)' => Sendable(p)
    BY <1>c, <2>1, <2>2, <2>3, <2>4 DEF Sendable, Busy
  <2>6. db'[p].state = "none" => db[p].state = "none"
    BY <1>1, <1>a DEF SaveCommits, PlanType
  <2> QED
    BY <1>a, <1>c, <2>1, <2>5, <2>6, OwesKept
<1>2. CASE Send
  <2>1. /\ pc = "send" /\ pc' = "read" /\ db' = db /\ hand'.plan = hand.plan
        /\ hand'.monitor.status = "triggered"
        /\ sent' = [sent EXCEPT ![hand.plan] = Append(sent[hand.plan], hand.monitor.attempt)]
    BY <1>2, <1>a DEF Send, Saving, Holding, Goto, MonitorType
  <2>2. Watched(p)' <=> Watched(p)
    BY <2>1 DEF Watched
  <2>3. CASE hand.plan = p
    <3>1. Len(sent[p]) <= lost[p]
      BY <1>a, <1>b, <2>1, <2>3 DEF Owes, Sendable, Busy, Handing
    <3>2. Len(sent'[p]) = Len(sent[p]) + 1
      BY <1>a, <2>1, <2>3
    <3>3. ~ Sendable(p)' /\ db'[p].state # "none"
      BY <1>c, <2>1, <2>3 DEF Sendable, Told, Held, Busy
    <3> QED
      BY <1>a, <1>c, <2>1, <3>1, <3>2, <3>3 DEF Owes
  <2>4. CASE hand.plan # p
    <3>1. sent'[p] = sent[p]
      BY <1>a, <2>1, <2>4
    <3>2. Sendable(p)' => Sendable(p)
      BY <1>c, <2>1, <2>2, <2>4 DEF Sendable, Told
    <3> QED
      BY <1>a, <1>c, <2>1, <3>1, <3>2, OwesKept
  <2> QED
    BY <2>3, <2>4
<1>3. CASE NoticeBegins \/ NoticeAnswered \/ NoticeStarts \/ NoticeFails \/ SendFails
  <2>1. /\ pc \in Handing /\ db' = db /\ sent' = sent /\ hand'.plan = hand.plan
        /\ pc' \in {"read", "turn", "reply", "send"}
    BY <1>3, <1>a DEF NoticeBegins, NoticeAnswered, NoticeStarts, NoticeFails, SendFails,
       Saving, Holding, Goto, Handing
  <2>2. Watched(p)' <=> Watched(p)
    BY <2>1 DEF Watched
  <2>3. Sendable(p)' => Sendable(p)
    BY <1>b, <1>c, <2>1, <2>2 DEF Sendable, Told, Busy, Handing
  <2> QED
    BY <1>a, <1>c, <2>1, <2>3, OwesKept
<1> QED
  BY <1>1, <1>2, <1>3

\* A fault after the hand-over makes another notice possible, and is counted.
LEMMA OwesFault ==
  ASSUME TypeOK, Owed, NEW p \in Plan, SaveFails \/ Crash
  PROVE  Owes(p)'
<1>a. /\ cycle \in CycleType /\ Owes(p) /\ Len(sent[p]) \in Nat
      /\ lost \in [Plan -> Nat] /\ lost[p] \in Nat
  BY DEF TypeOK, Owed
<1>b. /\ UNCHANGED <<db, sent>> /\ pc' \in {"idle", "next"}
      /\ p \in cycle'.todo => p \in cycle.todo
      /\ lost' = [q \in Plan |-> IF Told(q) THEN lost[q] + 1 ELSE lost[q]]
  BY DEF SaveFails, Crash, Forgets, Leave, Goto, NoCycle
<1>c. Watched(p)' <=> Watched(p)
  BY <1>b DEF Watched
<1>1. CASE Told(p)
  <2>1. lost'[p] = lost[p] + 1
    BY <1>1, <1>b
  <2> QED
    BY <1>a, <1>b, <2>1 DEF Owes
<1>2. CASE ~ Told(p)
  <2>1. lost'[p] = lost[p]
    BY <1>2, <1>b
  <2>2. Sendable(p)' => Sendable(p)
    BY <1>2, <1>b, <1>c DEF Sendable, Busy
  <2> QED
    BY <1>a, <1>b, <2>1, <2>2, OwesKept
<1> QED
  BY <1>1, <1>2

\* What is owed of the plans is kept by every step.
LEMMA OwedStep ==
  ASSUME TypeOK, Held, Valid, Owed, [Next]_vars
  PROVE  Owed'
<1> SUFFICES ASSUME NEW p \in Plan PROVE Owes(p)'
  BY DEF Owed
<1>1. CASE UNCHANGED <<db, pc, cycle, hand, sent, lost>>
  BY <1>1 DEF Owed, Owes, Sendable, Watched, Told
<1> QED
  BY <1>1, OwesUser, OwesCycle, OwesNotice, OwesFault
  DEF Next, Poll, vars, CandleCloses, ValidityEnds, CancelReads, Speaks, LateAnswer

-----------------------------------------------------------------------------
(* What is found of the attempts *)

\* A step that sends nothing, and leaves what was sent as delivered or passed.
LEMMA SeenKept ==
  ASSUME NEW p \in Plan, Seen(p), sent'[p] = sent[p], passed[p] \subseteq passed'[p],
         \A n \in passed'[p] : message'[p][n] \in {"accepted", "aborted"},
         \A n \in Sent(p) \ passed'[p] : message'[p][n] = "delivered"
  PROVE  Seen(p)'
<1>1. Sent(p)' = Sent(p)
  BY DEF Sent
<1>2. \A i, j \in 1 .. Len(sent'[p]) :
        i < j /\ sent'[p][i] = sent'[p][j] => sent'[p][i] \in passed'[p]
  BY DEF Seen
<1> QED
  BY <1>1, <1>2 DEF Seen

\* So does a step that records another point of one attempt: one that was passed
\* stays accepted or aborted, one that was delivered is not recorded again.
LEMMA SeenPoint ==
  ASSUME TypeOK, NEW p \in Plan, Seen(p), sent'[p] = sent[p], passed'[p] = passed[p],
         NEW q \in Plan, NEW n \in Attempts, NEW k \in Found,
         message' = [message EXCEPT ![q][n] = k],
         message[q][n] # "delivered", n \in passed[q] => k \in {"accepted", "aborted"}
  PROVE  Seen(p)'
<1>a. message \in [Plan -> [Attempts -> Found]] /\ passed[p] \subseteq Attempts
  BY DEF TypeOK
<1>1. Sent(p) \subseteq Attempts
  BY DEF Sent, TypeOK
<1>2. \A m \in Attempts : message'[p][m] = IF p = q /\ m = n THEN k ELSE message[p][m]
  BY <1>a
<1>3. \A m \in passed'[p] : message'[p][m] \in {"accepted", "aborted"}
  BY <1>a, <1>2 DEF Seen
<1>4. \A m \in Sent(p) \ passed'[p] : message'[p][m] = "delivered"
  BY <1>1, <1>2 DEF Seen
<1> QED
  BY <1>3, <1>4, SeenKept

\* And a step after which another message is behind the accepted ones.
LEMMA SeenOvertaken ==
  ASSUME TypeOK, NEW p \in Plan, Seen(p), sent'[p] = sent[p], NEW q \in Plan, Overtaken(q),
         \A n \in Attempts : message'[p][n] # message[p][n]
                             => message[p][n] = "none" /\ message'[p][n] = "accepted"
  PROVE  Seen(p)'
<1>a. passed \in [Plan -> SUBSET Attempts] /\ passed[p] \subseteq Attempts
  BY DEF TypeOK
<1>1. passed'[p] = IF p = q THEN passed[p] \cup Accepted(p) ELSE passed[p]
  BY <1>a DEF Overtaken
<1>2. Sent(p) \subseteq Attempts
  BY DEF Sent, TypeOK
<1>3. \A n \in passed'[p] : n \in Attempts /\ message[p][n] \in {"accepted", "aborted"}
  BY <1>a, <1>1 DEF Seen, Accepted
<1>4. \A n \in passed'[p] : message'[p][n] \in {"accepted", "aborted"}
  BY <1>3
<1>5. \A n \in Sent(p) \ passed'[p] : message'[p][n] = "delivered"
  <2>1. \A n \in Sent(p) \ passed'[p] : n \in Attempts /\ message[p][n] = "delivered"
    BY <1>1, <1>2 DEF Seen
  <2> QED
    BY <2>1
<1> QED
  BY <1>1, <1>4, <1>5, SeenKept

\* The send of a notice is its first, unless its attempt was passed.
LEMMA SeenSend ==
  ASSUME TypeOK, NEW p \in Plan, Seen(p), Reached(p), Send
  PROVE  Seen(p)'
<1> DEFINE q == hand.plan
           n == hand.monitor.attempt
<1>a. /\ q \in Plan /\ n \in Attempts /\ message \in [Plan -> [Attempts -> Found]]
      /\ sent \in [Plan -> Seq(Attempts)] /\ sent[p] \in Seq(Attempts) /\ Len(sent[p]) \in Nat
  BY DEF TypeOK, HandType, MonitorType
<1>b. /\ sent' = [sent EXCEPT ![q] = Append(sent[q], n)] /\ passed' = passed
      /\ message' = IF n \in passed[q] THEN message ELSE [message EXCEPT ![q][n] = "delivered"]
      /\ pc = "send"
  BY DEF Send, Records
<1> HIDE DEF q, n
<1>1. CASE q # p
  <2>1. sent'[p] = sent[p] /\ message'[p] = message[p]
    BY <1>1, <1>a, <1>b
  <2> QED
    BY <1>b, <2>1, SeenKept DEF Seen
<1>2. CASE q = p
  <2>1. n \in passed[p] \/ message[p][n] = "started"
    BY <1>2, <1>b DEF Reached, q, n
  <2>2. sent'[p] = Append(sent[p], n)
    BY <1>2, <1>a, <1>b
  <2>3. \A i \in 1 .. Len(sent[p]) : sent[p][i] = n => n \in passed[p]
    BY <2>1 DEF Seen, Sent
  <2>4. \A i, j \in 1 .. Len(sent'[p]) :
          i < j /\ sent'[p][i] = sent'[p][j] => sent'[p][i] \in passed'[p]
    <3> SUFFICES ASSUME NEW i \in 1 .. Len(sent'[p]), NEW j \in 1 .. Len(sent'[p]), i < j,
                        sent'[p][i] = sent'[p][j]
                 PROVE  sent'[p][i] \in passed[p]
      BY <1>b
    <3>1. /\ Len(sent'[p]) = Len(sent[p]) + 1 /\ sent'[p][Len(sent[p]) + 1] = n
          /\ \A m \in 1 .. Len(sent[p]) : sent'[p][m] = sent[p][m]
      BY <1>a, <2>2
    <3>2. i \in 1 .. Len(sent[p]) /\ (j \in 1 .. Len(sent[p]) \/ j = Len(sent[p]) + 1)
      BY <1>a, <3>1
    <3> QED
      BY <2>3, <3>1, <3>2 DEF Seen
  <2>5. Sent(p)' \subseteq Sent(p) \cup {n}
    <3>1. Sent(p)' = {sent'[p][i] : i \in 1 .. Len(sent'[p])}
      BY DEF Sent
    <3>2. /\ Len(sent'[p]) = Len(sent[p]) + 1 /\ sent'[p][Len(sent[p]) + 1] = n
          /\ \A m \in 1 .. Len(sent[p]) : sent'[p][m] = sent[p][m]
      BY <1>a, <2>2
    <3>3. \A i \in 1 .. Len(sent'[p]) : i \in 1 .. Len(sent[p]) \/ i = Len(sent[p]) + 1
      BY <1>a, <3>2
    <3> QED
      BY <3>1, <3>2, <3>3 DEF Sent
  <2>6. Sent(p) \subseteq Attempts /\ passed[p] \subseteq Attempts
    BY DEF Sent, TypeOK
  <2>7. \A m \in Attempts : message'[p][m] = IF m = n /\ n \notin passed[p] THEN "delivered"
                                                                          ELSE message[p][m]
    BY <1>2, <1>a, <1>b
  <2>8. \A m \in Sent(p)' \ passed'[p] : message'[p][m] = "delivered"
    BY <1>a, <1>b, <2>5, <2>6, <2>7 DEF Seen
  <2>9. \A m \in passed'[p] : message'[p][m] \in {"accepted", "aborted"}
    BY <1>b, <2>6, <2>7 DEF Seen
  <2> QED
    BY <2>4, <2>8, <2>9 DEF Seen
<1> QED
  BY <1>1, <1>2

\* A hand-over that goes on, or fails, records what its place allows.
LEMMA SeenHandOver ==
  ASSUME TypeOK, InPlace, NEW p \in Plan,
         NoticeBegins \/ NoticeAnswered \/ NoticeStarts \/ NoticeFails
  PROVE  Seen(p)'
<1> DEFINE q == hand.plan
           n == hand.monitor.attempt
<1>a. /\ q \in Plan /\ n \in Attempts /\ message \in [Plan -> [Attempts -> Found]]
      /\ passed[q] \subseteq Attempts
  BY DEF TypeOK, HandType, MonitorType
<1>b. Seen(p) /\ Seen(q) /\ Reached(q)
  BY <1>a DEF InPlace
<1>c. sent' = sent
  BY DEF NoticeBegins, NoticeAnswered, NoticeStarts, NoticeFails
<1>d. n \in passed[q] => message[q][n] \in {"accepted", "aborted"}
  BY <1>b DEF Seen
<1> HIDE DEF q, n
<1>e. CASE message' = message /\ passed' = passed
  BY <1>b, <1>c, <1>e, SeenKept DEF Seen
<1>1. CASE NoticeBegins
  <2>1. CASE /\ message[q][n] = "none" /\ Overtaken(q)
             /\ message' = [message EXCEPT ![q][n] = "accepted"]
    <3>1. \A m \in Attempts : message'[p][m] # message[p][m]
                               => message[p][m] = "none" /\ message'[p][m] = "accepted"
      BY <1>a, <2>1
    <3> QED
      BY <1>a, <1>b, <1>c, <2>1, <3>1, SeenOvertaken
  <2> QED
    BY <1>1, <1>e, <2>1 DEF NoticeBegins, Known, q, n
<1>2. ASSUME NEW k \in Found, Records(q, n, k), passed' = passed,
             n \in passed[q] \/ message[q][n] # "delivered"
      PROVE  Seen(p)'
  <2>1. CASE n \in passed[q]
    BY <1>2, <1>e, <2>1 DEF Records
  <2>2. CASE n \notin passed[q]
    BY <1>2, <1>a, <1>b, <1>c, <2>2, SeenPoint DEF Records
  <2> QED
    BY <2>1, <2>2
<1>3. CASE NoticeAnswered
  <2>1. Records(q, n, "answered") /\ passed' = passed /\ message[q][n] = "accepted"
    BY <1>3, <1>b DEF NoticeAnswered, Reached, q, n
  <2> QED
    BY <1>2, <2>1 DEF Found
<1>4. CASE NoticeStarts
  <2>1. Records(q, n, "started") /\ passed' = passed
        /\ (n \in passed[q] \/ message[q][n] = "answered")
    BY <1>4, <1>b DEF NoticeStarts, Reached, q, n
  <2> QED
    BY <1>2, <2>1 DEF Found
<1>5. CASE NoticeFails
  <2>1. CASE message' # message
    <3>1. PICK k \in Left(message[q][n]) : message' = [message EXCEPT ![q][n] = k]
      BY <1>5, <2>1 DEF NoticeFails, Known, q, n
    <3>2. k # message[q][n]
      BY <1>a, <2>1, <3>1
    <3>3. /\ k \in Found /\ message[q][n] # "delivered"
          /\ n \in passed[q] => k = "aborted"
      BY <1>d, <3>1, <3>2 DEF Left, Found
    <3>4. passed' = passed
      BY <1>5 DEF NoticeFails
    <3> QED
      BY <1>a, <1>b, <1>c, <3>1, <3>3, <3>4, SeenPoint
  <2> QED
    BY <1>5, <1>e, <2>1 DEF NoticeFails
<1> QED
  BY <1>1, <1>3, <1>4, <1>5

\* What was sent is delivered or was passed, after every step.
LEMMA SeenStep ==
  ASSUME TypeOK, InPlace, [Next]_vars, NEW p \in Plan
  PROVE  Seen(p)'
<1>a. Seen(p) /\ Reached(p) /\ message \in [Plan -> [Attempts -> Found]]
  BY DEF InPlace, TypeOK
<1>1. CASE UNCHANGED <<message, passed, sent>>
  BY <1>1, <1>a, SeenKept DEF Seen
<1>2. ASSUME NEW q \in Plan, Speaks(q) PROVE Seen(p)'
  BY <1>2, <1>a, SeenOvertaken DEF Speaks
<1>3. ASSUME NEW q \in Plan, LateAnswer(q) PROVE Seen(p)'
  <2>1. PICK n \in Accepted(q) \ passed[q], k \in {"answered", "started"} :
          message' = [message EXCEPT ![q][n] = k] /\ sent' = sent /\ passed' = passed
    BY <1>3 DEF LateAnswer
  <2>2. n \in Attempts /\ message[q][n] = "accepted" /\ k \in Found
    BY <2>1 DEF Accepted, Found
  <2> QED
    BY <1>a, <2>1, <2>2, SeenPoint
<1> QED
  BY <1>1, <1>2, <1>3, <1>a, SeenSend, SeenHandOver
  DEF Next, Poll, vars, CandleCloses, ValidityEnds, Start, CancelReads, CancelCommits, Begin,
      End, Market, SaveReads, SaveCommits, SendFails, Take, MarketFails, SaveFails, Crash

\* The attempt in hand is found where the thread is, or was passed.
LEMMA ReachedStep ==
  ASSUME TypeOK, InPlace, [Next]_vars, NEW p \in Plan
  PROVE  Reached(p)'
<1> DEFINE n == hand.monitor.attempt
<1>a. /\ hand.plan \in Plan /\ n \in Attempts /\ message \in [Plan -> [Attempts -> Found]]
      /\ passed \in [Plan -> SUBSET Attempts]
  BY DEF TypeOK, HandType, MonitorType
<1>b. Reached(p)
  BY DEF InPlace
<1>1. CASE pc' \notin {"turn", "reply", "send"}
  BY <1>1 DEF Reached
<1>2. CASE UNCHANGED <<pc, hand, message, passed>>
  BY <1>2, <1>b DEF Reached
<1>3. ASSUME NEW q \in Plan, Speaks(q) PROVE Reached(p)'
  <2>1. passed[p] \subseteq passed'[p] /\ UNCHANGED <<pc, hand, message>>
    BY <1>3, <1>a DEF Speaks, Overtaken
  <2> QED
    BY <1>b, <2>1 DEF Reached
<1>4. ASSUME NEW q \in Plan, LateAnswer(q) PROVE Reached(p)'
  <2>1. PICK m \in Accepted(q) \ passed[q], k \in {"answered", "started"} :
          message' = [message EXCEPT ![q][m] = k] /\ UNCHANGED <<pc, hand, passed>> /\ Quiet(q)
    BY <1>4 DEF LateAnswer
  <2>2. m \in Attempts /\ message[q][m] = "accepted" /\ m \notin passed[q]
    BY <2>1 DEF Accepted
  <2>3. \A i \in Attempts : message'[p][i] = IF p = q /\ i = m THEN k ELSE message[p][i]
    BY <1>a, <2>1, <2>2
  <2>4. SUFFICES ASSUME hand.plan = p
                 PROVE  /\ pc = "turn" => message'[p][n] = "accepted"
                        /\ pc = "reply" => n \in passed[p] \/ message'[p][n] = "answered"
                        /\ pc = "send" => n \in passed[p] \/ message'[p][n] = "started"
    BY <2>1 DEF Reached
  <2>5. /\ pc = "turn" => message[p][n] = "accepted"
        /\ pc = "reply" => n \in passed[p] \/ message[p][n] = "answered"
        /\ pc = "send" => n \in passed[p] \/ message[p][n] = "started"
    BY <1>b, <2>4 DEF Reached
  <2>6. pc = "turn" => p # q
    BY <2>1, <2>4 DEF Quiet
  <2> HIDE DEF n
  <2> QED
    BY <1>a, <2>2, <2>3, <2>5, <2>6
<1>5. ASSUME NEW k \in Found, Records(hand.plan, n, k), hand' = hand, passed' = passed
      PROVE  hand'.plan = p => n \in passed'[p] \/ message'[p][n] = k
  BY <1>5, <1>a DEF Records
<1>6. CASE NoticeBegins
  <2>1. CASE pc' = "turn"
    <3>1. hand' = hand /\ message'[hand.plan][n] = "accepted"
      BY <1>6, <1>a, <2>1 DEF NoticeBegins, Known, Saving, Goto
    <3> QED
      BY <2>1, <3>1 DEF Reached
  <2>2. CASE pc' = "reply"
    <3>1. hand' = hand /\ message'[hand.plan][n] = "answered"
      BY <1>6, <1>a, <2>2 DEF NoticeBegins, Known, Saving, Goto
    <3> QED
      BY <2>2, <3>1 DEF Reached
  <2>3. pc' \in {"turn", "reply", "read"}
    BY <1>6 DEF NoticeBegins, Saving, Goto
  <2> QED
    BY <1>1, <2>1, <2>2, <2>3
<1>7. CASE NoticeAnswered
  BY <1>7, <1>5 DEF NoticeAnswered, Goto, Reached, Found
<1>8. CASE NoticeStarts
  BY <1>8, <1>5 DEF NoticeStarts, Goto, Reached, Found
<1> QED
  BY <1>1, <1>2, <1>3, <1>4, <1>6, <1>7, <1>8
  DEF Next, Poll, vars, CandleCloses, ValidityEnds, Start, CancelReads, CancelCommits, Begin,
      End, Market, SaveReads, SaveCommits, NoticeFails, Send, SendFails, Take, MarketFails,
      SaveFails, Crash, Saving, Leave, Goto

\* Both together.
LEMMA InPlaceStep ==
  ASSUME TypeOK, InPlace, [Next]_vars
  PROVE  InPlace'
BY SeenStep, ReachedStep DEF InPlace

-----------------------------------------------------------------------------
(* The theorems *)

\* The invariant holds at the start.
LEMMA InitInv == Init => IInv
<1> SUFFICES ASSUME Init PROVE IInv
  OBVIOUS
<1> USE DEF Init
<1>1. candles \in Seq(Candle) /\ Len(candles) = 0
  OBVIOUS
<1>2. \A p \in Plan : db[p] = NoPlan /\ db[p].monitor = NewMonitor
  BY DEF NoPlan
<1>3. TypeOK
  <2>1. message \in [Plan -> [Attempts -> Found]]
    BY DEF Found
  <2>2. \A p \in Plan : db[p].monitor.status # "notice_pending"
    BY <1>2 DEF NewMonitor
  <2> QED
    BY <1>1, <1>2, <2>1, <2>2, Blank DEF TypeOK
<1>4. Held
  BY <1>1 DEF Held, NoCycle, NoCancel, Busy
<1>5. Copies
  BY <1>1, <1>2, ExactNew DEF Copies, Good, NoCycle, NoCancel, Busy
<1>6. Valid
  BY DEF Valid, Notifying, Handing
<1>7. Owed
  <2>1. \A p \in Plan : ~ Sendable(p)
    BY <1>2 DEF Sendable, Watched, NoPlan, NoCycle, Busy
  <2>2. \A p \in Plan : sent[p] = <<>> /\ Len(sent[p]) = 0 /\ lost[p] = 0
    OBVIOUS
  <2> QED
    BY <2>1, <2>2 DEF Owed, Owes
<1>8. InPlace
  <2>1. \A p \in Plan : passed[p] = {} /\ Len(sent[p]) = 0
    OBVIOUS
  <2>2. \A p \in Plan : Sent(p) = {}
    BY <2>1 DEF Sent
  <2> QED
    BY <2>1, <2>2 DEF InPlace, Seen, Reached
<1> QED
  BY <1>3, <1>4, <1>5, <1>6, <1>7, <1>8 DEF IInv

\* Every step keeps the invariant.
LEMMA NextInv == IInv /\ [Next]_vars => IInv'
<1> SUFFICES ASSUME IInv, [Next]_vars PROVE IInv'
  OBVIOUS
<1>1. TypeOK /\ Held /\ Copies /\ Valid /\ Owed /\ InPlace
  BY DEF IInv
<1>2. TypeOK' /\ Held' /\ Copies'
  BY <1>1, TypeStep, HeldStep, CopiesStep
<1>3. Valid' /\ Owed' /\ InPlace'
  BY <1>1, ValidStep, OwedStep, InPlaceStep
<1> QED
  BY <1>2, <1>3 DEF IInv

\* The invariant holds of every behaviour.
LEMMA Invariance == Spec => []IInv
BY InitInv, NextInv, PTL DEF Spec

\* What a good monitor says is what the property asks of it.
LEMMA GoodIsExact == ASSUME TypeOK, Copies PROVE TriggerExact
<1> SUFFICES ASSUME NEW p \in Plan
             PROVE  LET m == db[p].monitor
                        T == Triggers(p, {n \in Eligible(p, Len(candles)) : n <= m.last})
                    IN /\ m.trigger # 0 => T # {} /\ m.trigger = Least(T)
                       /\ m.status = "active" => T = {}
  BY DEF TriggerExact
<1> DEFINE m == db[p].monitor
           S == {n \in Eligible(p, Len(candles)) : n <= m.last}
<1>1. Exact(candles, db[p], m) /\ m.last \in Nat /\ candles \in Seq(Candle)
  BY DEF Copies, Good, TypeOK, PlanType, MonitorType, Times
<1>2. S = Past(db[p], m.last)
  BY <1>1 DEF Exact, Eligible, Past
<1>3. Triggers(p, S) = Fired(candles, db[p], S)
  BY DEF Triggers, Fired, Touches, Touch
<1> HIDE DEF S, m
<1>4. /\ m.trigger # 0 => Triggers(p, S) # {} /\ m.trigger = Least(Triggers(p, S))
      /\ m.status = "active" => Triggers(p, S) = {}
  BY <1>1, <1>2, <1>3 DEF Exact
<1> QED
  BY <1>4 DEF S, m

\* Every variable keeps its type, and a pending notice has its trigger candle.
THEOREM TypeCorrect == Spec => []TypeOK
<1>1. IInv => TypeOK
  BY DEF IInv
<1> QED
  BY <1>1, Invariance, PTL

\* However the candles are spread over cycles, cancels and deaths, a plan
\* triggers at the candle the rule names and at no other.
THEOREM TriggersExactly == Spec => []TriggerExact
<1>1. IInv => TriggerExact
  BY GoodIsExact DEF IInv
<1> QED
  BY <1>1, Invariance, PTL

\* A notice is repeated for a cause only: over any number of faults and failing
\* hand-overs, each further notice costs a fault between a hand-over and its save,
\* and no attempt is sent twice unless the conversation has passed it.
THEOREM RepeatsHaveCauses == Spec => []RepeatsExplained
<1>1. IInv => RepeatsExplained
  BY DEF IInv, Owed, Owes, InPlace, Seen, RepeatsExplained
<1> QED
  BY <1>1, Invariance, PTL

-----------------------------------------------------------------------------
(* Which notices can be late *)

\* The plan was valid when the cycle started, and the rule names a candle of its
\* validity; the monitor in hand has the first one.
Founded(p) == LET T == Triggers(p, Eligible(p, Len(candles))) IN
  p \notin cycle.over /\ T # {} /\ hand.monitor.trigger = Least(T)

\* The trigger of a monitor is the first candle the rule names among all of them,
\* not only among those the monitor has consumed: what came later is later.
LEMMA FirstOfAll ==
  ASSUME IInv, NEW p \in Plan, NEW m \in MonitorType, Good(p, m), m.trigger # 0
  PROVE  LET T == Triggers(p, Eligible(p, Len(candles))) IN T # {} /\ m.trigger = Least(T)
<1> DEFINE S == Past(db[p], m.last)
           F == Fired(candles, db[p], S)
           T == Triggers(p, Eligible(p, Len(candles)))
<1>1. /\ Len(candles) \in Nat /\ m.last \in Nat /\ m.last <= Len(candles)
      /\ db[p].born \in Nat /\ db[p].until \in Nat
  BY DEF IInv, TypeOK, PlanType, MonitorType, Times, Good, Exact
<1>2. F # {} /\ m.trigger = Least(F)
  BY DEF Good, Exact
<1>3. S = {n \in Eligible(p, Len(candles)) : n <= m.last}
  BY <1>1 DEF Past, Eligible
<1>4. F \subseteq Nat /\ T \subseteq Nat /\ S \subseteq Nat
  BY <1>1 DEF Fired, Triggers, Past, Eligible
<1>5. \A n : n \in F <=> n \in T /\ n <= m.last
  <2>1. ASSUME NEW n \in S PROVE n \in F <=> n \in T
    <3> DEFINE E == Eligible(p, Len(candles))
    <3>1. S \subseteq E /\ n \in E /\ n \in Nat /\ n <= m.last
      BY <1>3, <1>4
    <3>2. \A k \in E : k \in Nat /\ (k <= n => k \in S)
      BY <1>1, <1>3, <3>1 DEF Eligible
    <3> HIDE DEF S, E
    <3>3. (\E k \in S : k <= n /\ Touch(candles, db[p], k))
            <=> (\E k \in E : k <= n /\ Touch(candles, db[p], k))
      BY <3>1, <3>2
    <3>4. n \in F <=> Outside(db[p].side, candles[n]) /\ \E k \in S : k <= n /\ Touch(candles, db[p], k)
      BY DEF F, Fired
    <3>5. n \in T <=> Outside(db[p].side, candles[n]) /\ \E k \in E : k <= n /\ Touch(candles, db[p], k)
      BY <3>1 DEF E, T, Triggers, Touches, Touch
    <3> QED
      BY <3>3, <3>4, <3>5
  <2>2. \A n \in F : n \in S
    BY DEF Fired
  <2>3. \A n \in T : n \in Eligible(p, Len(candles))
    BY DEF Triggers
  <2> QED
    BY <1>3, <2>1, <2>2, <2>3
<1> HIDE DEF S, F, T
<1>6. m.trigger \in F /\ \A n \in F : m.trigger <= n
  <2>1. Least(F) \in F /\ \A n \in F : Least(F) <= n
    BY <1>2, <1>4, LeastIn
  <2> QED
    BY <1>2, <2>1
<1>7. m.trigger \in T /\ \A n \in T : m.trigger <= n
  <2>1. m.trigger \in T /\ m.trigger <= m.last
    BY <1>5, <1>6
  <2>2. ASSUME NEW n \in T PROVE m.trigger <= n
    <3>1. n \in Nat /\ m.trigger \in Nat
      BY <1>4, <2>1
    <3> QED
      BY <1>1, <1>5, <1>6, <2>1, <3>1
  <2> QED
    BY <2>1, <2>2
<1>8. m.trigger = Least(T)
  BY <1>4, <1>7, LeastIs
<1> QED
  BY <1>7, <1>8 DEF T

\* A late notice was due when its cycle started: a notice is sent only of a plan
\* that was valid at the start of the cycle that sends it, and only with the
\* first candle of its validity that the rule names, whatever cancels, deaths and
\* failing attempts came before.
THEOREM LateOnlyWithinACycle ==
  Spec => [][\A p \in Plan : sent'[p] # sent[p] => Founded(p)]_vars
<1> DEFINE Sound == \A p \in Plan : sent'[p] # sent[p] => Founded(p)
<1>1. ASSUME IInv, [Next]_vars PROVE [Sound]_vars
  <2> SUFFICES ASSUME NEW p \in Plan, sent'[p] # sent[p] PROVE Founded(p)
    OBVIOUS
  <2>1. Send
    BY <1>1 DEF Next, Poll, vars, CandleCloses, ValidityEnds, Start, CancelReads,
       CancelCommits, Begin, End, Market, SaveReads, SaveCommits, NoticeBegins,
       NoticeAnswered, NoticeStarts, NoticeFails, SendFails, Take, MarketFails, SaveFails, Crash, Speaks, LateAnswer
  <2>2. hand \in HandType /\ hand.monitor \in MonitorType /\ sent \in [Plan -> Seq(Attempts)]
    BY <1>1 DEF IInv, TypeOK, HandType
  <2>3. pc = "send" /\ p = hand.plan
    BY <2>1, <2>2 DEF Send
  <2>4. p \notin cycle.over /\ hand.monitor.status = "notice_pending"
    BY <1>1, <2>3 DEF IInv, Valid, Notifying, Handing
  <2>5. Good(p, hand.monitor)
    BY <1>1, <2>3 DEF IInv, Copies, Busy
  <2>6. hand.monitor.trigger # 0
    BY <2>4, <2>5 DEF Good, Exact
  <2> QED
    BY <1>1, <2>2, <2>4, <2>5, <2>6, FirstOfAll DEF Founded
<1> QED
  BY <1>1, Invariance, PTL DEF Spec
=============================================================================
