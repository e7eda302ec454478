----------------------------- MODULE RateLimit -----------------------------
(***************************************************************************)
(* RateLimit.call and RateLimit.reset of ratelimit.py for one user and one *)
(* service; SessionAuth.account_login uses them, with                      *)
(* interval=LOGIN_LOCKOUT_INTERVAL, to lock an account out.                *)
(*                                                                         *)
(* Two redis counters serve even and odd intervals of the epoch clock.  A  *)
(* call picks its counter by the clock, reads it, and in a transaction     *)
(* increments it, gives it Interval-1 seconds and deletes the other one.   *)
(* Requests of several processes interleave between these steps.           *)
(***************************************************************************)
EXTENDS Integers, FiniteSets

CONSTANTS
    Proc,     \* requests in progress
    Interval, \* seconds
    Limit     \* calls granted per interval

ASSUME RateAssumption ==
    /\ IsFiniteSet(Proc)
    /\ Proc # {}
    /\ Interval \in Nat \ {0, 1}
    /\ Limit \in Nat \ {0}

VARIABLES
    clock, \* seconds modulo two intervals
    count, \* the two redis counters; 0 is an absent key
    left,  \* seconds until redis drops each of them
    step,  \* per request: where it is in call() or reset()
    slot,  \* per request: the counter it picked
    used,  \* calls counted in the current interval, since the last reset
    late,  \* a call or reset that crossed an interval still has an effect
    since  \* seconds since the limit was reached, up to Interval

vars == <<clock, count, left, step, slot, used, late, since>>

Slot == {0, 1}
Alt(k) == 1 - k
EndlessSlot(t) == 0                                   \* mutant: one counter only
SlotAt(t) == t \div Interval
HalfLife == Interval \div 2                           \* mutant: EXPIRE too soon
Life == Interval - 1

\* The interval the clock is in, to count what happens in it.
Current == clock \div Interval

\* Bound on a counter: see CountersBounded.
Most == Limit + Cardinality(Proc) - 1

RateTypeOK ==
    /\ clock \in 0..(2 * Interval - 1)
    /\ count \in [Slot -> 0..Most]
    /\ left \in [Slot -> 0..(Interval - 1)]
    /\ step \in [Proc -> {"idle", "get", "exec", "reset0", "reset1"}]
    /\ slot \in [Proc -> Slot]
    /\ used \in Nat
    /\ late \in BOOLEAN
    /\ since \in 0..Interval

RateInit ==
    /\ clock = 0
    /\ count = [k \in Slot |-> 0]
    /\ left = [k \in Slot |-> 0]
    /\ step = [p \in Proc |-> "idle"]
    /\ slot = [p \in Proc |-> 0]
    /\ used = 0
    /\ late = FALSE
    /\ since = Interval

-----------------------------------------------------------------------------
Goto(p, s) == step' = [step EXCEPT ![p] = s]

Call(p) ==
    /\ step[p] = "idle"
    /\ Goto(p, "get")
    /\ slot' = [slot EXCEPT ![p] = SlotAt(clock)]
    /\ UNCHANGED <<clock, count, left, used, late, since>>

\* GET: below the limit, go on; otherwise the call is refused.
AtMost(p) == count[slot[p]] <= Limit                  \* mutant: <= for <
Below(p) == count[slot[p]] < Limit

Get(p) ==
    /\ step[p] = "get"
    /\ Below(p)
    /\ Goto(p, "exec")
    /\ UNCHANGED <<clock, count, left, slot, used, late, since>>

Refuse(p) ==
    /\ step[p] = "get"
    /\ ~Below(p)
    /\ Goto(p, "idle")
    /\ UNCHANGED <<clock, count, left, slot, used, late, since>>

\* redis fails: the call is let through and not counted.
FailOpen(p) ==
    /\ step[p] \in {"get", "exec"}
    /\ Goto(p, "idle")
    /\ UNCHANGED <<clock, count, left, slot, used, late, since>>

\* INCR, EXPIRE and DELETE of the other counter, in one transaction.
Exec(p) ==
    /\ step[p] = "exec"
    /\ count' = [count EXCEPT ![slot[p]] = @ + 1, ![Alt(slot[p])] = 0]
    /\ left' = [left EXCEPT ![slot[p]] = Life, ![Alt(slot[p])] = 0]
    /\ used' = IF slot[p] = Current THEN used + 1 ELSE used
    /\ since' = IF count[slot[p]] + 1 = Limit THEN 0 ELSE since
    /\ Goto(p, "idle")
    /\ UNCHANGED <<clock, slot, late>>

\* reset(): after a login that succeeded, two DELETEs.
Drop(k) ==
    /\ count' = [count EXCEPT ![k] = 0]
    /\ left' = [left EXCEPT ![k] = 0]
    /\ used' = IF k = Current THEN 0 ELSE used
    /\ since' = Interval
    /\ UNCHANGED <<clock, slot, late>>
Reset(p) ==
    \/ /\ step[p] = "idle"
       /\ Goto(p, "reset0")
       /\ UNCHANGED <<clock, count, left, slot, used, late, since>>
    \/ step[p] = "reset0" /\ Drop(0) /\ Goto(p, "reset1")
    \/ step[p] = "reset1" /\ Drop(1) /\ Goto(p, "idle")

Busy == \E p \in Proc : step[p] # "idle"

\* One second; a new interval begins when the clock reaches a multiple.
Unexpired == UNCHANGED <<count, left>>                 \* mutant: no EXPIRE
Expire ==
    /\ left' = [k \in Slot |-> IF left[k] = 0 THEN 0 ELSE left[k] - 1]
    /\ count' = [k \in Slot |-> IF left[k] <= 1 THEN 0 ELSE count[k]]
Tick ==
    /\ Expire
    /\ clock' = (clock + 1) % (2 * Interval)
    /\ IF clock' \div Interval = Current
       THEN UNCHANGED <<used, late>>
       ELSE /\ used' = 0
            /\ late' = (Busy \/ (late /\ count # [k \in Slot |-> 0]))
    /\ since' = IF since < Interval THEN since + 1 ELSE since
    /\ UNCHANGED <<step, slot>>

RateNext ==
    \/ Tick
    \/ \E p \in Proc :
        Call(p) \/ Get(p) \/ Refuse(p) \/ FailOpen(p) \/ Exec(p) \/ Reset(p)

RateSpec == RateInit /\ [][RateNext]_vars

\* Time passes; nobody has to call.
FairRateSpec == RateSpec /\ WF_vars(Tick)

-----------------------------------------------------------------------------
Pending(k) == {p \in Proc : step[p] = "exec" /\ slot[p] = k}

(***************************************************************************)
(* However the requests interleave, late ones included, no counter passes  *)
(* the limit by more than the requests that read it before it was reached. *)
(***************************************************************************)
CountersBounded == \A k \in Slot : count[k] + Cardinality(Pending(k)) <= Most

(***************************************************************************)
(* In one interval, between resets, no more calls than that are counted,   *)
(* unless a call or a reset crossed an interval (its DELETE then hits the  *)
(* new interval's counter).  The last second is an exception: a counter    *)
(* set in the first second and untouched since lives Interval-1 seconds,   *)
(* so it is gone by then, and as many calls again are let through.         *)
(***************************************************************************)
LastSecond == clock % Interval = Interval - 1
IntervalBounded == ~late => used <= IF LastSecond THEN 2 * Most ELSE Most

(***************************************************************************)
(* "each API key can be invoked its granted number of calls over this      *)
(* interval": with the same proviso a call is refused only after Limit     *)
(* calls of its own interval, never for calls of an earlier one.           *)
(***************************************************************************)
RefusedForCause ==
    [][\A p \in Proc : (Refuse(p) /\ ~late) => used >= Limit]_vars

(***************************************************************************)
(* "The keys expire ... to keep the cache clear after the user stops       *)
(* sending calls": no counter lasts.                                       *)
(***************************************************************************)
CountersVanish == \A k \in Slot : count[k] # 0 ~> count[k] = 0

(***************************************************************************)
(* login_lockout_interval is "How long to lock out an account after        *)
(* unsuccessful attempts" (service_config.yaml:378): no attempt is let     *)
(* through for that long after the one that reached the limit, give or take*)
(* the second by which the key expires early.                              *)
(***************************************************************************)
LockoutLasts ==
    [][\A p \in Proc : Exec(p) => since >= Interval - 1]_vars
=============================================================================
