------------------------------- MODULE Quota -------------------------------
(***************************************************************************)
(* Metrics.store of metrics.py for one metric of style grant and one user. *)
(* The first use of a period creates a key with the credit left, which     *)
(* expires with the period; each later use reads it and decrements it.     *)
(* GET, the notice and SET or DECR are separate steps, so uses by several  *)
(* processes interleave between them, the key can expire there, and a use  *)
(* can fail at each.  A command may be executed and its reply lost: then   *)
(* the use is not allowed, though it was counted.                          *)
(***************************************************************************)
EXTENDS Integers, FiniteSets

CONSTANTS
    Proc,   \* requests and workers that use the resource
    Limits, \* values an administrator gives the user's grant
    Notify, \* percentage that triggers the user's notification; 0 is never
    Period, \* of the metric
    NoKey,  \* what GET returns for an absent key
    MaxDrops \* bound: commands that fail after a notice, while one key lasts

ASSUME QuotaAssumption ==
    /\ IsFiniteSet(Proc)
    /\ Proc # {}
    /\ Limits \subseteq Nat
    /\ Notify \in 0..99
    /\ Period \in Nat \ {0}
    /\ NoKey \notin Int
    /\ MaxDrops \in Nat

VARIABLES
    key,    \* credit left in redis
    left,   \* time until redis drops the key; 0 is a key without expiration
    limit,  \* what Grants.get returns
    step,   \* per process: idle, after GET, or after the notice
    seen,   \* per process: what its GET returned
    quota,  \* the grant when the key was created
    uses,   \* uses allowed since then
    steady, \* the grant is still that one
    alone,  \* no stores overlapped since then
    told,   \* notices sent since the key was last set
    dropped, \* those whose DECR was not executed
    clean,  \* since then no stores overlapped and the grant did not change
    crossed \* a key expired under a store that had read it

code == <<key, left, limit, step, seen>>
overdraw == <<quota, uses, steady, alone>>
notice == <<told, dropped, clean>>
vars == <<code, overdraw, notice, crossed>>

P == Cardinality(Proc)
\* A grant of 0 allows the first use all the same.
Allowance(l) == IF l = 0 THEN 1 ELSE l

QuotaTypeOK ==
    /\ key \in Int \cup {NoKey}
    /\ left \in 0..Period
    /\ key = NoKey => left = 0
    /\ limit \in Limits
    /\ step \in [Proc -> {"idle", "got", "sent"}]
    /\ seen \in [Proc -> Int \cup {NoKey}]
    /\ quota \in Limits \cup {0}
    /\ uses \in Nat
    /\ told \in Nat
    /\ dropped \in 0..MaxDrops
    /\ {steady, alone, clean, crossed} \subseteq BOOLEAN

QuotaInit ==
    /\ key = NoKey
    /\ left = 0
    /\ limit \in Limits
    /\ step = [p \in Proc |-> "idle"]
    /\ seen = [p \in Proc |-> NoKey]
    /\ quota = 0 /\ uses = 0
    /\ told = 0 /\ dropped = 0
    /\ steady = TRUE /\ alone = TRUE /\ clean = TRUE
    /\ crossed = FALSE

-----------------------------------------------------------------------------
Got == {p \in Proc : step[p] # "idle"}

Get(p) ==
    /\ step[p] = "idle"
    /\ step' = [step EXCEPT ![p] = "got"]
    /\ seen' = [seen EXCEPT ![p] = key]
    /\ UNCHANGED <<key, left, limit, overdraw, notice, crossed>>

Done(p) ==
    /\ step' = [step EXCEPT ![p] = "idle"]
    /\ seen' = [seen EXCEPT ![p] = NoKey]
    /\ UNCHANGED <<limit, crossed>>

\* The use is allowed when its process hears of it.
Counted(p, answered) ==
    /\ quota' = IF key = NoKey THEN limit ELSE quota
    /\ uses' = IF answered THEN uses + 1 ELSE uses
    /\ steady' = steady
    /\ alone' = (alone /\ Got = {p})

\* An absent key, or credit that a lower grant does not justify, is replaced.
Counting(p) == seen[p] # NoKey /\ seen[p] < limit

\* SET with the period as expiration.
ForeverSet == key' = limit - 1 /\ left' = 0           \* mutant: no expiration
SwappedSet == key' = Period - 1 /\ left' = limit      \* mutant: swapped arguments
SetKey == key' = limit - 1 /\ left' = Period
Refill(p, answered) ==
    /\ step[p] = "got" /\ ~Counting(p)
    /\ SetKey
    /\ Done(p) /\ Counted(p, answered)
    /\ told' = 0 /\ dropped' = 0
    /\ clean' = (Got = {p})

OnlyZero(p) == seen[p] = 0                            \* mutant: = for <=
Spent(p) == seen[p] <= 0

Refuse(p) ==
    /\ step[p] = "got" /\ Counting(p)
    /\ Spent(p)
    /\ Done(p)
    /\ UNCHANGED <<key, left, overdraw, notice>>

\* The use that takes the credit below 100 - Notify percent of the grant.
EveryUseBelow(c) == (c - 1) * 100 < (100 - Notify) * limit  \* mutant: no lower bound
Threshold(c) ==
    /\ Notify # 0
    /\ c * 100 >= (100 - Notify) * limit
    /\ (c - 1) * 100 < (100 - Notify) * limit

\* func_send, before the credit is taken.
Notice(p) ==
    /\ step[p] = "got" /\ Counting(p) /\ ~Spent(p)
    /\ Threshold(seen[p])
    /\ step' = [step EXCEPT ![p] = "sent"]
    /\ told' = told + 1
    /\ UNCHANGED <<key, left, limit, seen, overdraw, dropped, clean, crossed>>

\* DECR keeps the expiration; on an absent key it creates one without.
Decrement ==
    /\ key' = IF key = NoKey THEN -1 ELSE key - 1
    /\ left' = left
Drawing(p) ==
    \/ step[p] = "sent"
    \/ step[p] = "got" /\ Counting(p) /\ ~Spent(p)
Use(p, answered) ==
    /\ Drawing(p)
    /\ step[p] = "got" => ~Threshold(seen[p])
    /\ Decrement
    /\ Done(p) /\ Counted(p, answered)
    /\ clean' = (clean /\ Got = {p})
    /\ UNCHANGED <<told, dropped>>

\* The lookup of the grant, the notice or a command of redis raises: nothing is stored.
Fail(p) ==
    /\ step[p] # "idle"
    /\ step[p] = "sent" => dropped < MaxDrops
    /\ dropped' = IF step[p] = "sent" THEN dropped + 1 ELSE dropped
    /\ Done(p)
    /\ UNCHANGED <<key, left, overdraw, told, clean>>

\* An administrator changes the grant.
SetLimit(l) ==
    /\ l # limit
    /\ limit' = l
    /\ steady' = (key = NoKey)
    /\ clean' = FALSE
    /\ UNCHANGED <<key, left, step, seen, quota, uses, alone, told, dropped, crossed>>

\* Redis: the key expires.
Expire ==
    /\ key' = NoKey
    /\ quota' = 0 /\ uses' = 0 /\ steady' = TRUE /\ alone' = TRUE
    /\ told' = 0 /\ dropped' = 0 /\ clean' = (Got = {})
    /\ crossed' = (crossed \/ \E p \in Got : seen[p] # NoKey)
Tick ==
    /\ left > 0
    /\ left' = left - 1
    /\ IF left > 1 THEN UNCHANGED <<key, overdraw, notice, crossed>> ELSE Expire
    /\ UNCHANGED <<limit, step, seen>>

QuotaNext ==
    \/ Tick
    \/ \E l \in Limits : SetLimit(l)
    \/ \E p \in Proc :
         \/ Get(p) \/ Refuse(p) \/ Notice(p) \/ Fail(p)
         \/ \E answered \in BOOLEAN : Refill(p, answered) \/ Use(p, answered)

QuotaSpec == QuotaInit /\ [][QuotaNext]_vars

\* Redis expires keys by itself.
FairQuotaSpec == QuotaSpec /\ WF_vars(Tick)

-----------------------------------------------------------------------------
(***************************************************************************)
(* The grant is a limit, from the creation of the key until it expires.    *)
(* Stores that overlap may all find no key, and each sets it anew: then    *)
(* every process adds the grant once more, and those that read the last    *)
(* unit together one use each.  A grant changed while the key lasts adds   *)
(* nothing to what was granted when it was created, as long as no stores   *)
(* overlap, except that a grant of 0 allows one use.                       *)
(***************************************************************************)
OverdrawBounded ==
    /\ steady => uses <= Allowance(quota) + (P - 1) * (Allowance(quota) + P - 1)
    /\ alone => uses <= quota + 1

(***************************************************************************)
(* "If it counts down to zero before expiration the user is denied access  *)
(* to the resource until the key expires" (metrics.py:44): access returns, *)
(* unless the key expired under a store, whose DECR then leaves a key that *)
(* never expires.                                                          *)
(***************************************************************************)
Denied == key # NoKey /\ key <= 0
AccessReturns == Denied ~> (~Denied \/ crossed)

(***************************************************************************)
(* The same without the exception.                                         *)
(***************************************************************************)
DeniedUntilExpiry == Denied ~> ~Denied

(***************************************************************************)
(* A user whose credit was used up has been notified once, when a use      *)
(* other than the first takes it below the threshold, and again only for   *)
(* each notice whose DECR then failed; overlapping stores may skip or      *)
(* repeat the notice.                                                      *)
(***************************************************************************)
NoticedOnce ==
    (clean /\ Denied /\ ~crossed /\ \E c \in 1..(limit - 1) : Threshold(c))
        => told = 1 + dropped
=============================================================================
