-------------------------- MODULE RateLimitProofs --------------------------
(***************************************************************************)
(* The bound on the rate limit's counters, for any number of requests, any *)
(* limit and any interval.                                                 *)
(*                                                                         *)
(* CountersBounded is inductive once the types of what it mentions are     *)
(* known: a request joins Pending only when it read a counter below the    *)
(* limit, and then at most all of Proc is pending; it leaves Pending as it *)
(* increments the counter.                                                 *)
(***************************************************************************)
EXTENDS RateLimit, FiniteSetTheorems, TLAPS

RateInv == RateTypeOK /\ CountersBounded

LEMMA Sizes ==
    /\ Cardinality(Proc) \in Nat
    /\ Cardinality(Proc) >= 1
    /\ Limit \in Nat
    /\ Limit >= 1
<1>1. Cardinality(Proc) \in Nat /\ Cardinality(Proc) # 0
  BY RateAssumption, FS_CardinalityType, FS_EmptySet
<1> QED
  BY <1>1, RateAssumption

LEMMA SubsetSize ==
    ASSUME NEW S \in SUBSET Proc
    PROVE  /\ IsFiniteSet(S)
           /\ Cardinality(S) \in Nat
           /\ Cardinality(S) <= Cardinality(Proc)
BY RateAssumption, FS_Subset, FS_CardinalityType

LEMMA PendingSize ==
    ASSUME NEW k
    PROVE  /\ IsFiniteSet(Pending(k)) /\ IsFiniteSet(Pending(k)')
           /\ Cardinality(Pending(k)) \in Nat
           /\ Cardinality(Pending(k)') \in Nat
           /\ Cardinality(Pending(k)) <= Cardinality(Proc)
           /\ Cardinality(Pending(k)') <= Cardinality(Proc)
<1>1. Pending(k) \in SUBSET Proc
  BY DEF Pending
<1>2. Pending(k)' \in SUBSET Proc
  BY DEF Pending
<1> QED
  BY <1>1, <1>2, SubsetSize

\* The clock runs through two intervals, and SlotAt tells which one it is.
LEMMA TwoSlots ==
    ASSUME clock \in 0..(2 * Interval - 1)
    PROVE  SlotAt(clock) \in Slot
<1> DEFINE q == clock \div Interval
           r == clock % Interval
<1>1. Interval \in Nat /\ Interval > 1 /\ clock \in Nat /\ clock < 2 * Interval
  BY RateAssumption
<1>2. q \in Int /\ r \in 0..(Interval - 1) /\ clock = Interval * q + r
  BY <1>1
<1>3. q < 2
  <2>1. SUFFICES ASSUME q >= 2 PROVE FALSE
    BY <1>2
  <2>2. Interval * q >= Interval * 2
    BY <1>1, <1>2, <2>1
  <2> QED
    BY <1>1, <1>2, <2>2
<1>4. q >= 0
  <2>1. SUFFICES ASSUME q <= -1 PROVE FALSE
    BY <1>2
  <2>2. Interval * q <= Interval * (-1)
    BY <1>1, <1>2, <2>1
  <2> QED
    BY <1>1, <1>2, <2>2
<1> QED
  BY <1>2, <1>3, <1>4 DEF SlotAt, Slot

LEMMA ClockTurns ==
    ASSUME clock \in 0..(2 * Interval - 1)
    PROVE  (clock + 1) % (2 * Interval) \in 0..(2 * Interval - 1)
BY RateAssumption

\* A step after which fewer requests are pending and no counter is higher.
LEMMA Lowered ==
    ASSUME RateInv,
           count' \in [Slot -> Nat],
           \A k \in Slot : count'[k] <= count[k],
           \A k \in Slot : Pending(k)' \subseteq Pending(k)
    PROVE  CountersBounded' /\ count' \in [Slot -> 0..Most]
<1>1. \A k \in Slot : count'[k] + Cardinality(Pending(k)') <= Most
  <2> SUFFICES ASSUME NEW k \in Slot
               PROVE  count'[k] + Cardinality(Pending(k)') <= Most
    OBVIOUS
  <2>1. Cardinality(Pending(k)') <= Cardinality(Pending(k))
    BY PendingSize, FS_Subset
  <2>2. count[k] + Cardinality(Pending(k)) <= Most
    BY DEF RateInv, CountersBounded
  <2>3. count[k] \in Int /\ count'[k] \in Int /\ count'[k] <= count[k]
    BY DEF RateInv, RateTypeOK
  <2>4. Most \in Int
    BY Sizes DEF Most
  <2> QED
    BY <2>1, <2>2, <2>3, <2>4, PendingSize
<1>2. Most' = Most
  BY DEF Most
<1>3. \A k \in Slot : count'[k] \in 0..Most
  BY <1>1, PendingSize, Sizes DEF Most
<1> QED
  BY <1>1, <1>2, <1>3 DEF CountersBounded

LEMMA RateInvInit == RateInit => RateInv
<1> SUFFICES ASSUME RateInit
             PROVE  RateInv
  OBVIOUS
<1> USE DEF RateInit
<1>1. \A k \in Slot : Cardinality(Pending(k)) = 0
  BY FS_EmptySet DEF Pending
<1>2. CountersBounded
  BY <1>1, Sizes DEF CountersBounded, Most
<1>3. RateTypeOK
  <2>1. Interval \in Nat /\ Interval >= 2 /\ Most \in Nat
    BY Sizes, RateAssumption DEF Most
  <2>2. clock \in 0..(2 * Interval - 1) /\ since \in 0..Interval
    BY <2>1
  <2>3. count \in [Slot -> 0..Most] /\ left \in [Slot -> 0..(Interval - 1)]
    BY <2>1
  <2>4. /\ step \in [Proc -> {"idle", "get", "exec", "reset0", "reset1"}]
        /\ slot \in [Proc -> Slot]
    BY DEF Slot
  <2> QED
    BY <2>2, <2>3, <2>4 DEF RateTypeOK
<1> QED
  BY <1>2, <1>3 DEF RateInv

-----------------------------------------------------------------------------
\* The steps that start no increment and make none.
LEMMA LowerSteps ==
    ASSUME RateInv,
           \/ Tick
           \/ \E p \in Proc : Call(p) \/ Refuse(p) \/ FailOpen(p) \/ Reset(p)
    PROVE  RateInv'
<1> USE DEF RateInv, RateTypeOK
<1>1. CASE Tick
  <2>1. count' \in [Slot -> Nat]
    BY <1>1 DEF Tick, Expire
  <2>2. \A k \in Slot : count'[k] <= count[k]
    BY <1>1 DEF Tick, Expire
  <2>3. \A k \in Slot : Pending(k)' \subseteq Pending(k)
    BY <1>1 DEF Tick, Pending
  <2>4. clock' \in 0..(2 * Interval - 1)
    BY <1>1, ClockTurns DEF Tick
  <2>5. left' \in [Slot -> 0..(Interval - 1)]
    BY <1>1, RateAssumption DEF Tick, Expire
  <2>6. used' \in Nat /\ since' \in 0..Interval
    BY <1>1, RateAssumption DEF Tick
  <2>10. late' \in BOOLEAN
    <3>1. late' = late \/ late' = (Busy \/ (late /\ count # [k \in Slot |-> 0]))
      BY <1>1 DEF Tick
    <3> HIDE DEF Busy
    <3> QED
      BY <3>1, Zenon
  <2>7. step' = step /\ slot' = slot
    BY <1>1 DEF Tick
  <2>8. CountersBounded' /\ count' \in [Slot -> 0..Most]
    BY <2>1, <2>2, <2>3, Lowered
  <2>9. Most' = Most
    BY DEF Most
  <2> QED
    BY <2>4, <2>5, <2>6, <2>7, <2>8, <2>9, <2>10
<1>2. ASSUME NEW p \in Proc, Call(p) \/ Refuse(p) \/ FailOpen(p)
      PROVE  RateInv'
  <2>1. UNCHANGED <<clock, count, left, used, late, since>>
    BY <1>2 DEF Call, Refuse, FailOpen
  <2>2. step' \in [Proc -> {"idle", "get", "exec", "reset0", "reset1"}]
    BY <1>2 DEF Call, Refuse, FailOpen, Goto
  <2>3. slot' \in [Proc -> Slot]
    <3>1. CASE Call(p)
      BY <3>1, TwoSlots DEF Call
    <3>2. CASE Refuse(p) \/ FailOpen(p)
      BY <3>2 DEF Refuse, FailOpen
    <3> QED
      BY <1>2, <3>1, <3>2
  <2>4. \A k \in Slot : Pending(k)' \subseteq Pending(k)
    BY <1>2 DEF Call, Refuse, FailOpen, Goto, Pending
  <2>5. count' \in [Slot -> Nat] /\ \A k \in Slot : count'[k] <= count[k]
    BY <2>1, Sizes DEF Most
  <2>6. CountersBounded' /\ count' \in [Slot -> 0..Most]
    BY <2>4, <2>5, Lowered
  <2>7. Most' = Most
    BY DEF Most
  <2> QED
    BY <2>1, <2>2, <2>3, <2>6, <2>7
<1>3. ASSUME NEW p \in Proc, Reset(p)
      PROVE  RateInv'
  <2>1. \/ UNCHANGED <<count, left, used, since>>
        \/ \E k \in Slot : Drop(k)
    BY <1>3 DEF Reset, Slot
  <2>2. UNCHANGED <<clock, slot, late>>
    BY <1>3 DEF Reset, Drop
  <2>3. step' \in [Proc -> {"idle", "get", "exec", "reset0", "reset1"}]
    BY <1>3 DEF Reset, Goto
  <2>4. \A k \in Slot : Pending(k)' \subseteq Pending(k)
    BY <1>3 DEF Reset, Drop, Goto, Pending
  <2>5. count' \in [Slot -> Nat] /\ \A k \in Slot : count'[k] <= count[k]
    BY <2>1, Sizes DEF Drop, Most
  <2>6. left' \in [Slot -> 0..(Interval - 1)] /\ used' \in Nat /\ since' \in 0..Interval
    BY <2>1, RateAssumption DEF Drop
  <2>7. CountersBounded' /\ count' \in [Slot -> 0..Most]
    BY <2>4, <2>5, Lowered
  <2>8. Most' = Most
    BY DEF Most
  <2> QED
    BY <2>2, <2>3, <2>6, <2>7, <2>8
<1> QED
  BY <1>1, <1>2, <1>3

\* A request that read a counter below the limit joins those pending.
LEMMA GetStep ==
    ASSUME RateInv, NEW p \in Proc, Get(p)
    PROVE  RateInv'
<1> USE DEF RateInv, RateTypeOK
<1>1. UNCHANGED <<clock, count, left, slot, used, late, since>>
  BY DEF Get
<1>2. step' \in [Proc -> {"idle", "get", "exec", "reset0", "reset1"}]
  BY DEF Get, Goto
<1>3. Most' = Most
  BY DEF Most
<1>4. ASSUME NEW k \in Slot
      PROVE  count[k] + Cardinality(Pending(k)') <= Most
  <2>1. CASE k = slot[p]
    <3>1. count[k] \in Int /\ count[k] <= Limit - 1
      BY <2>1, Sizes DEF Get, Below
    <3> QED
      BY <3>1, PendingSize, Sizes DEF Most
  <2>2. CASE k # slot[p]
    <3>1. Pending(k)' = Pending(k)
      BY <2>2 DEF Get, Goto, Pending
    <3> QED
      BY <3>1 DEF CountersBounded
  <2> QED
    BY <2>1, <2>2
<1>5. CountersBounded'
  BY <1>1, <1>3, <1>4 DEF CountersBounded
<1> QED
  BY <1>1, <1>2, <1>3, <1>5

\* It leaves them as it increments the counter.
LEMMA ExecStep ==
    ASSUME RateInv, NEW p \in Proc, Exec(p)
    PROVE  RateInv'
<1> USE DEF RateInv, RateTypeOK
<1>0. PICK c \in Slot : c = slot[p]
  OBVIOUS
<1>1. Alt(c) \in Slot /\ Alt(c) # c
  BY DEF Slot, Alt
<1>2. step' \in [Proc -> {"idle", "get", "exec", "reset0", "reset1"}]
  BY DEF Exec, Goto
<1>3. Most' = Most /\ Most \in Int
  BY Sizes DEF Most
<1>4. UNCHANGED <<clock, slot, late>>
  BY DEF Exec
<1>5. count' = [count EXCEPT ![c] = count[c] + 1, ![Alt(c)] = 0]
  BY <1>0 DEF Exec
<1>6. Cardinality(Pending(c)') = Cardinality(Pending(c)) - 1
  <2>1. p \in Pending(c)
    BY <1>0 DEF Exec, Pending
  <2>2. Pending(c)' = Pending(c) \ {p}
    BY <1>0 DEF Exec, Goto, Pending
  <2> QED
    BY <2>1, <2>2, PendingSize, FS_RemoveElement
<1>7. ASSUME NEW k \in Slot
      PROVE  count'[k] \in Nat /\ count'[k] + Cardinality(Pending(k)') <= Most
  <2>1. CASE k = c
    <3>1. count'[k] = count[c] + 1 /\ count[c] \in Nat
      BY <1>1, <1>3, <1>5, <2>1
    <3>2. count[c] + Cardinality(Pending(c)) <= Most
      BY <1>1 DEF CountersBounded
    <3> QED
      BY <1>3, <1>6, <2>1, <3>1, <3>2, PendingSize
  <2>2. CASE k = Alt(c)
    <3>1. count'[k] = 0
      BY <1>1, <1>5, <2>2
    <3> QED
      BY <3>1, PendingSize, Sizes DEF Most
  <2> QED
    BY <1>1, <2>1, <2>2 DEF Slot, Alt
<1>8. count' \in [Slot -> 0..Most]
  <2>1. \A k \in Slot : count'[k] \in 0..Most
    BY <1>3, <1>7, PendingSize
  <2> QED
    BY <1>5, <2>1
<1>9. left' \in [Slot -> 0..(Interval - 1)] /\ used' \in Nat /\ since' \in 0..Interval
  BY <1>0, <1>1, RateAssumption DEF Exec, Life
<1>10. CountersBounded'
  BY <1>3, <1>7 DEF CountersBounded
<1> QED
  BY <1>2, <1>3, <1>4, <1>8, <1>9, <1>10

LEMMA RateInvStep == RateInv /\ [RateNext]_vars => RateInv'
<1> SUFFICES ASSUME RateInv, [RateNext]_vars
             PROVE  RateInv'
  OBVIOUS
<1>1. CASE RateNext
  BY <1>1, LowerSteps, GetStep, ExecStep DEF RateNext
<1>2. CASE UNCHANGED vars
  BY <1>2 DEF vars, RateInv, RateTypeOK, CountersBounded, Most, Pending
<1> QED
  BY <1>1, <1>2

-----------------------------------------------------------------------------
(***************************************************************************)
(* The counters of RateLimit.call and all local variables keep their types;*)
(* in particular each counter stays between 0 and Limit+|Proc|-1.          *)
(***************************************************************************)
THEOREM RateTypes == RateSpec => []RateTypeOK
<1>1. RateInv => RateTypeOK
  BY DEF RateInv
<1> QED
  BY RateInvInit, RateInvStep, <1>1, PTL DEF RateSpec

(***************************************************************************)
(* GET and the transaction of RateLimit.call are not atomic together, but  *)
(* however they interleave, across intervals and resets too, a counter     *)
(* never passes the limit by more than the requests then in progress.      *)
(***************************************************************************)
THEOREM RateLimitBounded == RateSpec => []CountersBounded
<1>1. RateInv => CountersBounded
  BY DEF RateInv
<1> QED
  BY RateInvInit, RateInvStep, <1>1, PTL DEF RateSpec

-----------------------------------------------------------------------------
(* What is counted in one interval *)

\* A counter has an expiration as long as it is there.
Expiring == \A k \in Slot : count[k] = 0 <=> left[k] = 0

\* How far into its interval the clock is.
Second == clock % Interval

\* As long as nothing crossed an interval: the requests use its own counter, which
\* has what was used but for what expires in the last second, and the counter of the
\* interval before is gone by then.
Timely ==
    /\ \A p \in Proc : step[p] \in {"get", "exec"} => slot[p] = Current
    /\ count[Current] # 0 => left[Current] + Second >= Interval - 1
    /\ count[Alt(Current)] # 0 => left[Alt(Current)] + Second <= Interval - 1
    /\ ~LastSecond => used = count[Current]
    /\ LastSecond => used >= count[Current] /\ used <= count[Current] + Most

IntervalInv == RateInv /\ Expiring /\ (~late => Timely)

LEMMA Divided ==
    ASSUME NEW t \in 0..(2 * Interval - 1)
    PROVE  /\ t < Interval => t \div Interval = 0 /\ t % Interval = t
           /\ t >= Interval => t \div Interval = 1 /\ t % Interval = t - Interval
<1> DEFINE q == t \div Interval
           r == t % Interval
<1>1. Interval \in Nat /\ Interval > 1 /\ t \in Nat /\ t < 2 * Interval
  BY RateAssumption
<1>2. q \in Int /\ r \in 0..(Interval - 1) /\ t = Interval * q + r
  BY <1>1
<1>3. q < 2
  <2>1. SUFFICES ASSUME q >= 2 PROVE FALSE
    BY <1>2
  <2>2. Interval * q >= Interval * 2
    BY <1>1, <1>2, <2>1
  <2> QED BY <1>1, <1>2, <2>2
<1>4. q >= 0
  <2>1. SUFFICES ASSUME q <= -1 PROVE FALSE
    BY <1>2
  <2>2. Interval * q <= Interval * (-1)
    BY <1>1, <1>2, <2>1
  <2> QED BY <1>1, <1>2, <2>2
<1>5. q = 0 \/ q = 1
  BY <1>2, <1>3, <1>4
<1>6. CASE q = 0
  <2>1. t = r
    BY <1>1, <1>2, <1>6
  <2> QED BY <1>1, <1>2, <1>6, <2>1
<1>7. CASE q = 1
  <2>1. t = Interval + r
    BY <1>1, <1>2, <1>7
  <2> QED BY <1>1, <1>2, <1>7, <2>1
<1> QED BY <1>5, <1>6, <1>7

\* What the clock says.
LEMMA ClockReads ==
    ASSUME RateInv
    PROVE  /\ Interval \in Nat /\ Interval >= 2 /\ clock \in Nat /\ clock < 2 * Interval
           /\ Current \in Slot /\ Alt(Current) \in Slot /\ Alt(Current) # Current
           /\ Second \in 0..(Interval - 1) /\ (LastSecond <=> Second = Interval - 1)
           /\ Current = (IF clock < Interval THEN 0 ELSE 1)
           /\ Second = (IF clock < Interval THEN clock ELSE clock - Interval)
<1>1. /\ Interval \in Nat /\ Interval >= 2 /\ clock \in 0..(2 * Interval - 1)
      /\ clock \in Nat /\ clock < 2 * Interval
  BY RateAssumption DEF RateInv, RateTypeOK
<1>2. /\ clock < Interval => Current = 0 /\ Second = clock
      /\ clock >= Interval => Current = 1 /\ Second = clock - Interval
  BY <1>1, Divided DEF Current, Second
<1>3. LastSecond <=> Second = Interval - 1
  BY DEF LastSecond, Second
<1> QED BY <1>1, <1>2, <1>3 DEF Slot, Alt

\* What a second does to it.
LEMMA ClockMoves ==
    ASSUME RateInv, RateInv', clock' = (clock + 1) % (2 * Interval)
    PROVE  \/ Second < Interval - 1 /\ Current' = Current /\ Second' = Second + 1
           \/ Second = Interval - 1 /\ Current' = Alt(Current) /\ Second' = 0
<1>1. /\ Interval \in Nat /\ Interval >= 2 /\ clock \in Nat /\ clock < 2 * Interval
      /\ Current = (IF clock < Interval THEN 0 ELSE 1)
      /\ Second = (IF clock < Interval THEN clock ELSE clock - Interval)
  BY ClockReads
<1>2. /\ Current' = (IF clock' < Interval THEN 0 ELSE 1)
      /\ Second' = (IF clock' < Interval THEN clock' ELSE clock' - Interval)
  <2>1. PICK t \in 0..(2 * Interval - 1) : t = clock'
    BY DEF RateInv, RateTypeOK
  <2>2. Current' = t \div Interval /\ Second' = t % Interval
    BY <2>1 DEF Current, Second
  <2>3. /\ t < Interval => t \div Interval = 0 /\ t % Interval = t
        /\ t >= Interval => t \div Interval = 1 /\ t % Interval = t - Interval
    BY Divided
  <2> QED BY <1>1, <2>1, <2>2, <2>3
<1>3. clock' = IF clock = 2 * Interval - 1 THEN 0 ELSE clock + 1
  <2>1. PICK m \in Nat : m = 2 * Interval
    BY <1>1
  <2>2. CASE clock = m - 1
    <3>1. m % m = 0
      BY <1>1, <2>1
    <3> QED BY <1>1, <2>1, <2>2, <3>1
  <2>3. CASE clock < m - 1
    <3>1. (clock + 1) % m = clock + 1
      BY <1>1, <2>1, <2>3
    <3> QED BY <1>1, <2>1, <2>3, <3>1
  <2> QED BY <1>1, <2>1, <2>2, <2>3
<1> QED BY <1>1, <1>2, <1>3 DEF Alt

LEMMA IntervalInitial == RateInit => IntervalInv
<1> SUFFICES ASSUME RateInit PROVE IntervalInv
  OBVIOUS
<1>1. RateInv
  BY RateInvInit
<1>2. Current \in Slot /\ Alt(Current) \in Slot /\ Most \in Nat
  BY <1>1, ClockReads, Sizes DEF Most
<1>3. Expiring
  BY DEF RateInit, Expiring
<1>4. Timely
  BY <1>2 DEF RateInit, Timely
<1> QED BY <1>1, <1>3, <1>4 DEF IntervalInv

\* A step that touches no counter: a call picks the counter of the interval.
LEMMA UncountedKeeps ==
    ASSUME IntervalInv, RateInv', UNCHANGED <<clock, count, left, used, late>>,
           \A p \in Proc : step'[p] \in {"get", "exec"} =>
              \/ step[p] \in {"get", "exec"} /\ slot'[p] = slot[p]
              \/ slot'[p] = Current
    PROVE  IntervalInv'
BY DEF IntervalInv, Expiring, Timely, Current, Second, LastSecond, Most, Alt

LEMMA ExecKeeps ==
    ASSUME IntervalInv, RateInv', NEW p \in Proc, Exec(p) PROVE IntervalInv'
<1>1. PICK c \in Slot : c = slot[p]
  BY DEF IntervalInv, RateInv, RateTypeOK
<1>2. Alt(c) \in Slot /\ Alt(c) # c /\ Slot = {c, Alt(c)} /\ Interval \in Nat /\ Interval >= 2
  BY RateAssumption DEF Slot, Alt
<1>3. /\ count \in [Slot -> 0..Most] /\ left \in [Slot -> 0..(Interval - 1)] /\ used \in Nat
      /\ Most \in Nat
  BY Sizes DEF IntervalInv, RateInv, RateTypeOK, Most
<1>4. /\ count'[c] = count[c] + 1 /\ count'[Alt(c)] = 0
      /\ left'[c] = Interval - 1 /\ left'[Alt(c)] = 0
      /\ UNCHANGED <<clock, slot, late>>
  BY <1>1, <1>2, <1>3 DEF Exec, Life
<1>5. Expiring'
  BY <1>2, <1>3, <1>4 DEF Expiring
<1>6. ASSUME ~late PROVE Timely'
  <2>1. Timely /\ c = Current
    BY <1>1, <1>6 DEF IntervalInv, Timely, Exec
  <2>2. used' = used + 1
    BY <1>1, <2>1 DEF Exec
  <2>3. /\ Current' = c /\ Second' = Second /\ (LastSecond' <=> LastSecond) /\ Most' = Most
        /\ Second \in 0..(Interval - 1)
    BY <1>4, <2>1, ClockReads DEF Current, Second, LastSecond, Most, IntervalInv
  <2>4. \A q \in Proc : step'[q] \in {"get", "exec"} => slot'[q] = c
    BY <1>4, <2>1 DEF Exec, Goto, Timely, IntervalInv, RateInv, RateTypeOK
  <2>5. left'[c] + Second >= Interval - 1
    BY <1>2, <1>4, <2>3
  <2>6. count'[c] \in Nat /\ used' \in Nat
    BY <1>2, <1>3, <1>4, <2>2
  <2>7. ~LastSecond => used' = count'[c]
    BY <1>2, <1>3, <1>4, <2>1, <2>2 DEF Timely
  <2>8. LastSecond => used' >= count'[c] /\ used' <= count'[c] + Most
    BY <1>2, <1>3, <1>4, <2>1, <2>2 DEF Timely
  <2> QED BY <1>4, <2>3, <2>4, <2>5, <2>7, <2>8 DEF Timely
<1> QED BY <1>4, <1>5, <1>6 DEF IntervalInv

LEMMA DropKeeps ==
    ASSUME IntervalInv, RateInv', NEW p \in Proc, NEW k \in Slot, Drop(k),
           step'[p] \notin {"get", "exec"}, \A q \in Proc \ {p} : step'[q] = step[q]
    PROVE  IntervalInv'
<1>1. /\ count \in [Slot -> 0..Most] /\ left \in [Slot -> 0..(Interval - 1)] /\ used \in Nat
      /\ Most \in Nat /\ Current \in Slot /\ Alt(Current) \in Slot /\ Alt(Current) # Current
  BY ClockReads, Sizes DEF IntervalInv, RateInv, RateTypeOK, Most
<1>2. /\ count'[k] = 0 /\ left'[k] = 0
      /\ \A j \in Slot \ {k} : count'[j] = count[j] /\ left'[j] = left[j]
      /\ used' = (IF k = Current THEN 0 ELSE used)
      /\ UNCHANGED <<clock, slot, late>>
  BY <1>1 DEF Drop
<1>3. Expiring'
  BY <1>2 DEF Expiring, IntervalInv
<1>4. ASSUME ~late PROVE Timely'
  <2>1. /\ Current' = Current /\ Second' = Second /\ (LastSecond' <=> LastSecond)
        /\ Most' = Most
    BY <1>2 DEF Current, Second, LastSecond, Most
  <2>2. Timely
    BY <1>4 DEF IntervalInv
  <2>3. \A q \in Proc : step'[q] \in {"get", "exec"} => slot'[q] = Current
    BY <1>2, <2>2 DEF Timely
  <2> QED BY <1>1, <1>2, <2>1, <2>2, <2>3 DEF Timely, Alt
<1> QED BY <1>2, <1>3, <1>4 DEF IntervalInv

\* A second passes, and perhaps the interval with it.
LEMMA TickKeeps == ASSUME IntervalInv, RateInv', Tick PROVE IntervalInv'
<1>1. /\ count \in [Slot -> 0..Most] /\ left \in [Slot -> 0..(Interval - 1)] /\ used \in Nat
      /\ Most \in Nat /\ Most' = Most /\ Interval \in Nat /\ Interval >= 2
      /\ Current \in Slot /\ Alt(Current) \in Slot /\ Alt(Current) # Current
      /\ Second \in 0..(Interval - 1)
  BY ClockReads, Sizes DEF IntervalInv, RateInv, RateTypeOK, Most
<1>2. /\ \A k \in Slot : /\ left'[k] = IF left[k] = 0 THEN 0 ELSE left[k] - 1
                         /\ count'[k] = IF left[k] <= 1 THEN 0 ELSE count[k]
      /\ step' = step /\ slot' = slot
  BY DEF Tick, Expire
<1>3. Expiring'
  BY <1>1, <1>2 DEF IntervalInv, Expiring
<1>4. /\ LastSecond <=> Second = Interval - 1
      /\ LastSecond' <=> Second' = Interval - 1
  BY DEF LastSecond, Second
<1>5. \/ Second < Interval - 1 /\ Current' = Current /\ Second' = Second + 1
      \/ Second = Interval - 1 /\ Current' = Alt(Current) /\ Second' = 0
  BY ClockMoves DEF Tick, IntervalInv
<1>6. CASE Second < Interval - 1 /\ Current' = Current /\ Second' = Second + 1
  <2>1. used' = used /\ late' = late
    BY <1>6 DEF Tick, Current
  <2>2. ASSUME ~late PROVE Timely'
    <3>1. Timely /\ used = count[Current]
      BY <1>1, <1>4, <1>6, <2>2 DEF IntervalInv, Timely
    <3>2. \A p \in Proc : step'[p] \in {"get", "exec"} => slot'[p] = Current'
      BY <1>2, <1>6, <3>1 DEF Timely
    <3>3. count'[Current] # 0 => left'[Current] + Second + 1 >= Interval - 1
      BY <1>1, <1>2, <3>1 DEF Timely
    <3>4. count'[Alt(Current)] # 0 => left'[Alt(Current)] + Second + 1 <= Interval - 1
      BY <1>1, <1>2, <3>1 DEF Timely
    <3>5. /\ count'[Current'] # 0 => left'[Current'] + Second' >= Interval - 1
          /\ count'[Alt(Current)'] # 0 => left'[Alt(Current)'] + Second' <= Interval - 1
      <4>1. Alt(Current)' = Alt(Current)
        BY <1>6 DEF Alt
      <4>2. left'[Current] \in Nat /\ left'[Alt(Current)] \in Nat
        BY <1>1, <1>2
      <4> QED BY <1>1, <1>6, <3>3, <3>4, <4>1, <4>2
    <3>6. /\ ~LastSecond' => used' = count'[Current']
          /\ LastSecond' => used' >= count'[Current'] /\ used' <= count'[Current'] + Most'
      <4>1. CASE count'[Current] = count[Current]
        BY <1>1, <1>6, <2>1, <3>1, <4>1
      <4>2. CASE count'[Current] # count[Current]
        <5>1. count'[Current] = 0 /\ count[Current] # 0 /\ left[Current] <= 1
          BY <1>1, <1>2, <4>2
        <5>2. Second + 1 = Interval - 1
          BY <1>1, <1>6, <3>1, <5>1 DEF Timely
        <5> QED BY <1>1, <1>4, <1>6, <2>1, <3>1, <5>1, <5>2
      <4> QED BY <4>1, <4>2
    <3> QED BY <3>2, <3>5, <3>6 DEF Timely
  <2> QED BY <1>3, <2>1, <2>2 DEF IntervalInv
<1>7. CASE Second = Interval - 1 /\ Current' = Alt(Current) /\ Second' = 0
  <2>1. used' = 0 /\ (~late' => ~Busy /\ (~late \/ count = [k \in Slot |-> 0]))
    BY <1>1, <1>7 DEF Tick, Current
  <2>2. ASSUME ~late' PROVE Timely'
    <3>1. \A p \in Proc : step'[p] \notin {"get", "exec"}
      BY <1>2, <2>1, <2>2 DEF Busy
    <3>2. count'[Alt(Current)] = 0
      <4>1. CASE count = [k \in Slot |-> 0]
        BY <1>1, <1>2, <4>1
      <4>2. CASE ~late
        <5>1. count[Alt(Current)] # 0 => left[Alt(Current)] + Second <= Interval - 1
          BY <4>2 DEF IntervalInv, Timely
        <5> QED BY <1>1, <1>2, <1>7, <5>1
      <4> QED BY <2>1, <2>2, <4>1, <4>2
    <3>3. left'[Current] <= Interval - 1 /\ left'[Current] \in Nat
      BY <1>1, <1>2
    <3>4. Alt(Alt(Current)) = Current
      BY <1>1 DEF Alt, Slot
    <3> QED BY <1>1, <1>4, <1>7, <2>1, <3>1, <3>2, <3>3, <3>4 DEF Timely, Alt
  <2> QED BY <1>3, <2>2 DEF IntervalInv
<1> QED BY <1>5, <1>6, <1>7

LEMMA IntervalStep == IntervalInv /\ [RateNext]_vars => IntervalInv'
<1> SUFFICES ASSUME IntervalInv, [RateNext]_vars PROVE IntervalInv'
  OBVIOUS
<1>1. RateInv'
  BY RateInvStep DEF IntervalInv
<1>2. ASSUME NEW p \in Proc, Call(p) \/ Get(p) \/ Refuse(p) \/ FailOpen(p) PROVE IntervalInv'
  <2>1. UNCHANGED <<clock, count, left, used, late>>
    BY <1>2 DEF Call, Get, Refuse, FailOpen
  <2>2. \A q \in Proc : step'[q] \in {"get", "exec"} =>
           \/ step[q] \in {"get", "exec"} /\ slot'[q] = slot[q]
           \/ slot'[q] = Current
    BY <1>2 DEF Call, Get, Refuse, FailOpen, Goto, SlotAt, Current, IntervalInv, RateInv,
                RateTypeOK
  <2> QED BY <1>1, <2>1, <2>2, UncountedKeeps
<1>3. ASSUME NEW p \in Proc, Reset(p) PROVE IntervalInv'
  <2>1. /\ step'[p] \in {"reset0", "reset1", "idle"}
        /\ \A q \in Proc \ {p} : step'[q] = step[q]
    BY <1>3 DEF Reset, Goto, IntervalInv, RateInv, RateTypeOK
  <2>2. CASE UNCHANGED <<clock, count, left, slot, used, late, since>>
    BY <1>1, <2>1, <2>2, UncountedKeeps
  <2>3. CASE \E k \in Slot : Drop(k)
    BY <1>1, <2>1, <2>3, DropKeeps
  <2> QED BY <1>3, <2>2, <2>3 DEF Reset, Slot
<1>4. CASE UNCHANGED vars
  BY <1>1, <1>4, UncountedKeeps DEF vars
<1> QED BY <1>1, <1>2, <1>3, <1>4, ExecKeeps, TickKeeps DEF RateNext

LEMMA IntervalInvariant == RateSpec => []IntervalInv
BY IntervalInitial, IntervalStep, PTL DEF RateSpec

(***************************************************************************)
(* The transaction of RateLimit.call deletes the other counter, EXPIRE     *)
(* ends its own before the next interval but one, and reset deletes both:  *)
(* in one interval without late requests no more than Most calls are       *)
(* counted, and twice as many with its last second.                        *)
(***************************************************************************)
THEOREM IntervalIsBounded == RateSpec => []IntervalBounded
<1>1. IntervalInv => IntervalBounded
  <2> SUFFICES ASSUME IntervalInv, ~late
               PROVE  used <= IF LastSecond THEN 2 * Most ELSE Most
    BY DEF IntervalBounded
  <2>1. count[Current] \in 0..Most /\ used \in Nat /\ Most \in Nat
    BY ClockReads, Sizes DEF IntervalInv, RateInv, RateTypeOK, Most
  <2> QED BY <2>1 DEF IntervalInv, Timely
<1> QED BY <1>1, IntervalInvariant, PTL

(***************************************************************************)
(* A call is refused (the counter it reads has reached the limit) only     *)
(* when that many calls were counted in its own interval.                  *)
(***************************************************************************)
THEOREM RefusalsHaveCause == RateSpec => RefusedForCause
<1> DEFINE Cause == \A p \in Proc : (Refuse(p) /\ ~late) => used >= Limit
<1>1. IntervalInv => Cause
  <2> SUFFICES ASSUME IntervalInv, NEW p \in Proc, Refuse(p), ~late PROVE used >= Limit
    OBVIOUS
  <2>1. slot[p] = Current /\ Timely
    BY DEF Refuse, IntervalInv, Timely
  <2>2. count[Current] >= Limit
    BY <2>1, Sizes, ClockReads DEF Refuse, Below, IntervalInv, RateInv, RateTypeOK, Most
  <2>3. count[Current] \in 0..Most /\ used \in Nat /\ Most \in Nat
    BY ClockReads, Sizes DEF IntervalInv, RateInv, RateTypeOK, Most
  <2> QED BY <2>1, <2>2, <2>3, Sizes DEF Timely
<1> QED BY <1>1, IntervalInvariant, PTL DEF RefusedForCause
=============================================================================
