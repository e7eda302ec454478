---------------------------- MODULE QuotaProofs ----------------------------
(***************************************************************************)
(* The bounds on the overdraft of a granted quota and the notice of its    *)
(* use, for any number of processes, any grants and any period.            *)
(*                                                                         *)
(* OverdrawBounded is not inductive: a use is allowed by what its process  *)
(* read earlier.  Reckoned counts what those that read can still do: each  *)
(* that found no key sets the grant anew, and each that read credit takes  *)
(* a unit of whatever is there by then.                                    *)
(***************************************************************************)
EXTENDS Quota, FiniteSetTheorems, TLAPS

\* Between its GET and its end, a store will take a unit, set the key or be refused.
Drawers == {p \in Proc : Drawing(p)}
Setters == {p \in Proc : step[p] = "got" /\ ~Counting(p)}

\* After n uses, with t and s of them and v units left.
Reckoned(n, t, s, v, l, w) ==
    /\ s <= w - 1
    /\ n + (IF v > 0 THEN v + (w - 1 - s) ELSE t) + s * (l + (w - 1))
          <= l + (w - 1) * (l + (w - 1))

NoKeyInv == key = NoKey => quota = 0 /\ uses = 0

SteadyInv ==
    key # NoKey /\ steady =>
        /\ quota = limit /\ key < limit
        /\ Reckoned(uses, Cardinality(Drawers), Cardinality(Setters), key,
                    Allowance(limit), P)

\* Without overlaps a store sees the key as it is, and each use lowers it.
AloneInv ==
    key # NoKey /\ alone =>
        /\ \A p \in Got : seen[p] = key
        /\ key >= -1 /\ key + uses <= quota

SentInv == \A p \in Proc : step[p] = "sent" => seen[p] # NoKey /\ seen[p] > 0

QuotaInv == QuotaTypeOK /\ NoKeyInv /\ SteadyInv /\ AloneInv /\ SentInv

LEMMA Numbers ==
    /\ P \in Nat
    /\ P >= 1
    /\ Period \in Nat
    /\ Period >= 1
    /\ \A l \in Limits : l \in Nat /\ Allowance(l) >= 1 /\ Allowance(l) >= l
                               /\ Allowance(l) \in Nat
    /\ Allowance(0) = 1
<1>1. Cardinality(Proc) \in Nat /\ Cardinality(Proc) # 0
  BY QuotaAssumption, FS_CardinalityType, FS_EmptySet
<1> QED
  BY <1>1, QuotaAssumption DEF P, Allowance

\* The quota the key was set from allows at least one use.
LEMMA Allowed ==
    ASSUME quota \in Limits \cup {0}
    PROVE  /\ quota \in Nat
           /\ Allowance(quota) \in Nat
           /\ Allowance(quota) >= 1
           /\ Allowance(quota) >= quota
BY Numbers

\* Sets of stores, and their sizes.
LEMMA Sizes ==
    ASSUME NEW S \in SUBSET Proc, NEW R \in SUBSET Proc
    PROVE  /\ Cardinality(S) \in Nat /\ Cardinality(R) \in Nat
           /\ R \subseteq S => Cardinality(R) <= Cardinality(S)
           /\ \A p \in S : R \subseteq S \ {p} => Cardinality(R) + 1 <= Cardinality(S)
           /\ S \cap R = {} => Cardinality(S) + Cardinality(R) <= P
           /\ \A p \in Proc : S \cap R = {} /\ p \notin S /\ p \notin R
                 => Cardinality(S) + Cardinality(R) <= P - 1
<1>1. IsFiniteSet(S) /\ IsFiniteSet(R) /\ IsFiniteSet(S \cup R)
  BY QuotaAssumption, FS_Subset, FS_Union
<1>2. Cardinality(S) \in Nat /\ Cardinality(R) \in Nat /\ Cardinality(S \cup R) \in Nat
  BY <1>1, FS_CardinalityType
<1>3. R \subseteq S => Cardinality(R) <= Cardinality(S)
  BY <1>1, FS_Subset
<1>4. ASSUME NEW p \in S, R \subseteq S \ {p} PROVE Cardinality(R) + 1 <= Cardinality(S)
  <2>1. IsFiniteSet(S \ {p}) /\ Cardinality(S \ {p}) = Cardinality(S) - 1
    BY <1>1, FS_RemoveElement
  <2>2. Cardinality(R) <= Cardinality(S \ {p})
    BY <1>4, <2>1, FS_Subset
  <2> QED BY <1>2, <2>1, <2>2
<1>5. S \cap R = {} => Cardinality(S \cup R) = Cardinality(S) + Cardinality(R)
  <2>1. Cardinality(S \cup R) = Cardinality(S) + Cardinality(R) - Cardinality(S \cap R)
    BY <1>1, FS_Union
  <2>2. Cardinality({}) = 0
    BY FS_EmptySet
  <2> QED BY <1>2, <2>1, <2>2
<1>6. Cardinality(S \cup R) <= P
  BY QuotaAssumption, FS_Subset DEF P
<1>7. ASSUME NEW p \in Proc, p \notin S, p \notin R PROVE Cardinality(S \cup R) <= P - 1
  <2>1. IsFiniteSet(Proc \ {p}) /\ Cardinality(Proc \ {p}) = P - 1
    BY QuotaAssumption, FS_RemoveElement DEF P
  <2>2. S \cup R \subseteq Proc \ {p}
    BY <1>7
  <2> QED BY <2>1, <2>2, FS_Subset
<1> QED BY <1>2, <1>3, <1>4, <1>5, <1>6, <1>7

-----------------------------------------------------------------------------
(* Reckoning *)

LEMMA Times ==
    ASSUME NEW s \in Nat, NEW r \in Nat, NEW c \in Nat, c >= 1
    PROVE  /\ s * c \in Nat /\ r * c \in Nat
           /\ r <= s => r * c + (s - r) <= s * c
           /\ r + 1 <= s => r * c + c <= s * c
<1>1. s * c \in Nat /\ r * c \in Nat
  OBVIOUS
<1>2. ASSUME NEW m \in Nat PROVE m <= m * c
  <2>1. PICK k \in Nat : c = 1 + k
    OBVIOUS
  <2>2. m * c = m + m * k /\ m * k \in Nat
    BY <2>1
  <2> QED BY <2>2
<1>3. ASSUME r <= s PROVE r * c + (s - r) <= s * c
  <2>1. PICK k \in Nat : s = r + k
    BY <1>3
  <2>2. s * c = r * c + k * c /\ k * c \in Nat
    BY <2>1
  <2> QED BY <1>1, <1>2, <2>1, <2>2
<1>4. ASSUME r + 1 <= s PROVE r * c + c <= s * c
  <2>1. PICK k \in Nat : s = r + 1 + k
    BY <1>4
  <2>2. s * c = r * c + c + k * c /\ k * c \in Nat
    BY <2>1
  <2> QED BY <1>1, <2>2
<1> QED BY <1>1, <1>3, <1>4

\* Fewer stores on their way, or one more that has read credit.
LEMMA ReckonFewer ==
    ASSUME NEW n \in Nat, NEW t \in Nat, NEW s \in Nat, NEW u \in Nat, NEW r \in Nat,
           NEW v \in Int, NEW l \in Nat, NEW w \in Nat, l >= 1, w >= 1,
           Reckoned(n, t, s, v, l, w), u <= t \/ v > 0, r <= s
    PROVE  Reckoned(n, u, r, v, l, w)
<1>1. PICK c \in Nat : c = l + (w - 1) /\ c >= 1
  OBVIOUS
<1>2. PICK sc, rc \in Nat : sc = s * c /\ rc = r * c /\ rc + (s - r) <= sc
  BY <1>1, Times
<1>3. PICK b \in Int : b = l + (w - 1) * c
  BY <1>1
<1>4. s <= w - 1 /\ n + (IF v > 0 THEN v + (w - 1 - s) ELSE t) + sc <= b
  BY <1>1, <1>2, <1>3 DEF Reckoned
<1>5. r <= w - 1 /\ n + (IF v > 0 THEN v + (w - 1 - r) ELSE u) + rc <= b
  BY <1>2, <1>4
<1> QED BY <1>1, <1>2, <1>3, <1>5 DEF Reckoned

\* The key is created, by a SET or a DECR.
LEMMA ReckonFirst ==
    ASSUME NEW n \in Nat, n <= 1, NEW u \in Nat, NEW r \in Nat, NEW v \in Int,
           NEW l \in Nat, NEW w \in Nat, l >= 1, w >= 1, v <= l - 1, u + r <= w - 1
    PROVE  Reckoned(n, u, r, v, l, w)
<1>1. PICK c \in Nat : c = l + (w - 1) /\ c >= 1
  OBVIOUS
<1>2. PICK rc, wc \in Nat : rc = r * c /\ wc = (w - 1) * c /\ rc + (w - 1 - r) <= wc
  <2>1. w - 1 \in Nat /\ r <= w - 1
    OBVIOUS
  <2> QED BY <1>1, <2>1, Times
<1>3. r <= w - 1 /\ n + (IF v > 0 THEN v + (w - 1 - r) ELSE u) + rc <= l + wc
  BY <1>2
<1> QED BY <1>1, <1>2, <1>3 DEF Reckoned

\* It is set again, by a store that found none.
LEMMA ReckonAgain ==
    ASSUME NEW n \in Nat, NEW t \in Nat, NEW s \in Nat, NEW m \in Nat, m <= n + 1,
           NEW u \in Nat, NEW r \in Nat, NEW v \in Int, NEW k \in Int,
           NEW l \in Nat, NEW w \in Nat, l >= 1, w >= 1,
           Reckoned(n, t, s, v, l, w), k <= l - 1, u + r <= w - 1, r + 1 <= s
    PROVE  Reckoned(m, u, r, k, l, w)
<1>1. PICK c \in Nat : c = l + (w - 1) /\ c >= 1
  OBVIOUS
<1>2. PICK sc, rc \in Nat : sc = s * c /\ rc = r * c /\ rc + c <= sc
  BY <1>1, Times
<1>3. PICK b \in Int : b = l + (w - 1) * c
  BY <1>1
<1>4. s <= w - 1 /\ n + (IF v > 0 THEN v + (w - 1 - s) ELSE t) + sc <= b
  BY <1>1, <1>2, <1>3 DEF Reckoned
<1>5. r <= w - 1 /\ m + (IF k > 0 THEN k + (w - 1 - r) ELSE u) + rc <= b
  BY <1>1, <1>2, <1>4
<1> QED BY <1>1, <1>2, <1>3, <1>5 DEF Reckoned

\* One takes a unit.
LEMMA ReckonTake ==
    ASSUME NEW n \in Nat, NEW t \in Nat, NEW s \in Nat, NEW m \in Nat, m <= n + 1,
           NEW u \in Nat, NEW r \in Nat, NEW v \in Int,
           NEW l \in Nat, NEW w \in Nat, l >= 1, w >= 1,
           Reckoned(n, t, s, v, l, w), t + s <= w, u + 1 <= t, r <= s
    PROVE  Reckoned(m, u, r, v - 1, l, w)
<1>1. PICK c \in Nat : c = l + (w - 1) /\ c >= 1
  OBVIOUS
<1>2. PICK sc, rc \in Nat : sc = s * c /\ rc = r * c /\ rc + (s - r) <= sc
  BY <1>1, Times
<1>3. PICK b \in Int : b = l + (w - 1) * c
  BY <1>1
<1>4. s <= w - 1 /\ n + (IF v > 0 THEN v + (w - 1 - s) ELSE t) + sc <= b
  BY <1>1, <1>2, <1>3 DEF Reckoned
<1>5. PICK k \in Int : k = v - 1
  OBVIOUS
<1>6. r <= w - 1 /\ m + (IF k > 0 THEN k + (w - 1 - r) ELSE u) + rc <= b
  BY <1>2, <1>4, <1>5
<1> QED BY <1>1, <1>2, <1>3, <1>5, <1>6 DEF Reckoned

-----------------------------------------------------------------------------
(* The steps *)

LEMMA Stores ==
    /\ Drawers \in SUBSET Proc /\ Setters \in SUBSET Proc /\ Drawers \cap Setters = {}
    /\ Drawers' \in SUBSET Proc /\ Setters' \in SUBSET Proc
BY DEF Drawers, Setters, Drawing

LEMMA QuotaInvInit == QuotaInit => QuotaInv
<1> SUFFICES ASSUME QuotaInit
             PROVE  QuotaInv
  OBVIOUS
<1>1. QuotaTypeOK
  <2>1. left \in 0..Period /\ (key = NoKey => left = 0) /\ 0 \in 0..MaxDrops
    BY Numbers, QuotaAssumption DEF QuotaInit
  <2>2. /\ step \in [Proc -> {"idle", "got", "sent"}]
        /\ seen \in [Proc -> Int \cup {NoKey}]
    BY DEF QuotaInit
  <2> QED
    BY <2>1, <2>2 DEF QuotaInit, QuotaTypeOK
<1>2. NoKeyInv /\ SteadyInv /\ AloneInv /\ SentInv
  BY DEF QuotaInit, NoKeyInv, SteadyInv, AloneInv, SentInv
<1> QED
  BY <1>1, <1>2 DEF QuotaInv

\* What a process that finishes its store does to its local variables.
LEMMA DoneStep ==
    ASSUME QuotaTypeOK, SentInv, NEW p \in Proc, Done(p)
    PROVE  /\ step' \in [Proc -> {"idle", "got", "sent"}]
           /\ seen' \in [Proc -> Int \cup {NoKey}]
           /\ limit' = limit /\ crossed' = crossed
           /\ Drawers' = Drawers \ {p} /\ Setters' = Setters \ {p} /\ Got' = Got \ {p}
           /\ \A q \in Got' : seen'[q] = seen[q]
           /\ SentInv'
<1>1. /\ step' \in [Proc -> {"idle", "got", "sent"}]
      /\ seen' \in [Proc -> Int \cup {NoKey}]
      /\ limit' = limit /\ crossed' = crossed
  BY DEF Done, QuotaTypeOK
<1>2. /\ step'[p] = "idle"
      /\ \A q \in Proc \ {p} : step'[q] = step[q] /\ seen'[q] = seen[q]
  BY DEF Done, QuotaTypeOK
<1>3. Drawers' = Drawers \ {p} /\ Setters' = Setters \ {p} /\ Got' = Got \ {p}
  BY <1>1, <1>2 DEF Drawers, Setters, Got, Drawing, Counting, Spent
<1> QED
  BY <1>1, <1>2, <1>3 DEF SentInv, Got

LEMMA GetStep ==
    ASSUME QuotaInv, NEW p \in Proc, Get(p)
    PROVE  QuotaInv'
<1> USE DEF QuotaInv
<1>1. UNCHANGED <<key, left, limit, quota, uses, steady, alone, told, dropped, clean, crossed>>
  BY DEF Get, overdraw, notice
<1>2. /\ step'[p] = "got" /\ seen'[p] = key
      /\ \A q \in Proc \ {p} : step'[q] = step[q] /\ seen'[q] = seen[q]
  BY DEF Get, QuotaTypeOK
<1>3. QuotaTypeOK'
  BY <1>1 DEF Get, QuotaTypeOK
<1>4. NoKeyInv' /\ SentInv' /\ AloneInv'
  BY <1>1, <1>2 DEF NoKeyInv, SentInv, AloneInv, Got
<1>5. SteadyInv'
  <2> SUFFICES ASSUME key # NoKey, steady
               PROVE  Reckoned(uses, Cardinality(Drawers'), Cardinality(Setters'), key,
                               Allowance(limit), P)
    BY <1>1 DEF SteadyInv, P, Allowance
  <2>1. /\ Reckoned(uses, Cardinality(Drawers), Cardinality(Setters), key, Allowance(limit), P)
        /\ key < limit /\ key \in Int /\ uses \in Nat /\ Allowance(limit) \in Nat
        /\ Allowance(limit) >= 1
    BY Numbers DEF SteadyInv, QuotaTypeOK
  <2>2. Setters' \subseteq Setters /\ (key > 0 \/ Drawers' \subseteq Drawers)
    BY <1>1, <1>2, <2>1 DEF Setters, Drawers, Drawing, Counting, Spent
  <2>3. Cardinality(Setters') <= Cardinality(Setters)
    BY <2>2, Stores, Sizes
  <2>4. Cardinality(Drawers') <= Cardinality(Drawers) \/ key > 0
    BY <2>2, Stores, Sizes
  <2>5. PICK t, u, s, r \in Nat :
           /\ t = Cardinality(Drawers) /\ u = Cardinality(Drawers')
           /\ s = Cardinality(Setters) /\ r = Cardinality(Setters')
    BY Stores, Sizes
  <2> QED
    BY <2>1, <2>3, <2>4, <2>5, Numbers, ReckonFewer
<1> QED
  BY <1>3, <1>4, <1>5

\* The end of a store that stored nothing.
LEMMA IdleStep ==
    ASSUME QuotaInv, NEW p \in Proc, Refuse(p) \/ Fail(p)
    PROVE  QuotaInv'
<1> USE DEF QuotaInv
<1>1. /\ Done(p) /\ UNCHANGED <<key, left, quota, uses, steady, alone, told, clean>>
      /\ dropped' \in 0..MaxDrops
  BY QuotaAssumption DEF Refuse, Fail, overdraw, notice, QuotaTypeOK
<1>2. QuotaTypeOK' /\ SentInv'
  BY <1>1, DoneStep DEF QuotaTypeOK
<1>3. NoKeyInv' /\ AloneInv'
  BY <1>1, DoneStep DEF NoKeyInv, AloneInv
<1>4. SteadyInv'
  <2> SUFFICES ASSUME key # NoKey, steady
               PROVE  Reckoned(uses, Cardinality(Drawers'), Cardinality(Setters'), key,
                               Allowance(limit), P)
    BY <1>1, DoneStep DEF SteadyInv, P, Allowance
  <2>1. /\ Reckoned(uses, Cardinality(Drawers), Cardinality(Setters), key, Allowance(limit), P)
        /\ key \in Int /\ uses \in Nat /\ Allowance(limit) \in Nat /\ Allowance(limit) >= 1
    BY Numbers DEF SteadyInv, QuotaTypeOK
  <2>2. PICK t, u, s, r \in Nat :
           /\ t = Cardinality(Drawers) /\ u = Cardinality(Drawers')
           /\ s = Cardinality(Setters) /\ r = Cardinality(Setters')
           /\ u <= t /\ r <= s
    <3>1. Drawers' \subseteq Drawers /\ Setters' \subseteq Setters
      BY <1>1, DoneStep
    <3> QED BY <3>1, Stores, Sizes
  <2> QED
    BY <2>1, <2>2, Numbers, ReckonFewer
<1> QED
  BY <1>2, <1>3, <1>4

\* A notice changes nothing that is counted.
LEMMA SendStep ==
    ASSUME QuotaInv, NEW p \in Proc, Notice(p)
    PROVE  QuotaInv'
<1> USE DEF QuotaInv
<1>1. /\ UNCHANGED <<key, left, limit, seen, quota, uses, steady, alone, dropped, clean, crossed>>
      /\ step[p] = "got" /\ Counting(p) /\ ~Spent(p)
  BY DEF Notice, overdraw
<1>2. step'[p] = "sent" /\ \A q \in Proc \ {p} : step'[q] = step[q]
  BY DEF Notice, QuotaTypeOK
<1>3. QuotaTypeOK'
  BY <1>1 DEF Notice, QuotaTypeOK
<1>4. Got' = Got /\ Drawers' = Drawers /\ Setters' = Setters
  BY <1>1, <1>2 DEF Got, Drawers, Setters, Drawing, Counting, Spent
<1>5. SentInv'
  BY <1>1, <1>2 DEF SentInv, Counting, Spent, QuotaTypeOK
<1> QED
  BY <1>1, <1>3, <1>4, <1>5 DEF NoKeyInv, SteadyInv, AloneInv, P, Allowance

\* A store that wrote: the key was created, set again or decremented.
LEMMA WriteStep ==
    ASSUME QuotaInv, NEW p \in Proc, NEW answered \in BOOLEAN,
           Refill(p, answered) \/ Use(p, answered)
    PROVE  QuotaInv'
<1> USE DEF QuotaInv
<1>1. /\ Done(p) /\ steady' = steady /\ alone' = (alone /\ Got = {p})
      /\ quota' = IF key = NoKey THEN limit ELSE quota
      /\ uses' = IF answered THEN uses + 1 ELSE uses
  BY DEF Refill, Use, Counted
<1>2. PICK m \in Nat : m = uses' /\ m <= uses + 1
  <2>1. uses' = uses \/ uses' = uses + 1
    BY <1>1
  <2> QED BY <2>1 DEF QuotaTypeOK
<1>3. limit \in Nat /\ limit \in Limits /\ Allowance(limit) \in Nat
      /\ Allowance(limit) >= 1 /\ Allowance(limit) >= limit
  BY Numbers DEF QuotaTypeOK
<1>4. PICK k \in Int :
         /\ k = key' /\ k # NoKey
         /\ \/ Refill(p, answered) /\ k = limit - 1
            \/ Use(p, answered) /\ k = IF key = NoKey THEN -1 ELSE key - 1
  <2>1. CASE Refill(p, answered)
    <3>1. key' = limit - 1 /\ limit - 1 \in Int
      BY <1>3, <2>1 DEF Refill, SetKey
    <3> QED BY <2>1, <3>1, QuotaAssumption
  <2>2. CASE Use(p, answered)
    BY <1>3, <2>2, QuotaAssumption DEF Use, Decrement, QuotaTypeOK
  <2> QED BY <2>1, <2>2
<1>5. k \in Int /\ k = key' /\ k # NoKey /\ (key = NoKey => uses = 0 /\ k < limit)
  BY <1>3, <1>4, QuotaAssumption DEF NoKeyInv
<1>6. QuotaTypeOK'
  <2>1. left' \in 0..Period /\ told' \in Nat /\ dropped' \in 0..MaxDrops
    BY Numbers, QuotaAssumption DEF Refill, SetKey, Use, Decrement, QuotaTypeOK
  <2>2. quota' \in Limits \cup {0} /\ uses' \in Nat
    BY <1>1, <1>2, <1>3 DEF QuotaTypeOK
  <2>3. alone' \in BOOLEAN /\ clean' \in BOOLEAN
    BY <1>1, Zenon DEF Refill, Use
  <2> QED
    BY <1>1, <1>3, <1>5, <2>1, <2>2, <2>3, DoneStep DEF QuotaTypeOK
<1>7. SentInv' /\ NoKeyInv'
  BY <1>1, <1>5, DoneStep DEF NoKeyInv
<1>8. ASSUME alone' PROVE (\A q \in Got' : seen'[q] = key') /\ k >= -1 /\ k + m <= quota'
  <2>1. Got' = {} /\ alone /\ Got = {p}
    BY <1>1, <1>8, DoneStep
  <2>2. CASE key = NoKey
    <3>1. k >= -1
      BY <1>3, <1>4, <2>2
    <3>2. PICK a \in Int, n, u \in Nat : a = k /\ n = limit /\ u = m /\ a < n
      BY <1>2, <1>3, <1>5, <2>2
    <3>3. quota' = n
      BY <1>1, <2>2, <3>2
    <3>4. u <= 1
      BY <1>2, <1>5, <2>2, <3>2
    <3>5. a + u <= n
      BY <3>2, <3>4
    <3>6. k + m <= quota'
      BY <3>2, <3>3, <3>5
    <3> QED BY <2>1, <3>1, <3>6
  <2>3. CASE key # NoKey
    <3>1. seen[p] = key /\ key >= -1 /\ key + uses <= quota /\ key \in Int /\ quota \in Nat
      BY <2>1, <2>3, Allowed DEF AloneInv, QuotaTypeOK
    <3>2. k <= key - 1 /\ k >= -1
      <4>1. CASE Refill(p, answered) /\ k = limit - 1
        BY <1>3, <2>3, <3>1, <4>1 DEF Refill, Counting
      <4>2. CASE Use(p, answered) /\ k = IF key = NoKey THEN -1 ELSE key - 1
        BY <2>3, <3>1, <4>2 DEF Use, Drawing, Spent, SentInv
      <4> QED BY <1>4, <4>1, <4>2
    <3> QED BY <1>1, <1>2, <2>1, <2>3, <3>1, <3>2 DEF QuotaTypeOK
  <2> QED BY <2>2, <2>3
<1>9. AloneInv'
  BY <1>2, <1>5, <1>8 DEF AloneInv
<1>10. ASSUME steady
       PROVE  /\ quota' = limit /\ k < limit
              /\ Reckoned(m, Cardinality(Drawers'), Cardinality(Setters'), k,
                          Allowance(limit), P)
  <2>1. PICK t, u, s, r, l, w \in Nat :
           /\ t = Cardinality(Drawers) /\ u = Cardinality(Drawers')
           /\ s = Cardinality(Setters) /\ r = Cardinality(Setters')
           /\ l = Allowance(limit) /\ w = P /\ l >= 1 /\ w >= 1
    BY <1>3, Numbers, Stores, Sizes
  <2>2. /\ Drawers' = Drawers \ {p} /\ Setters' = Setters \ {p}
    BY <1>1, DoneStep
  <2>3. u + r <= w - 1
    <3>1. Drawers' \cap Setters' = {} /\ p \notin Drawers' /\ p \notin Setters'
      BY <2>2, Stores
    <3> QED BY <2>1, <3>1, Stores, Sizes
  <2>4. u <= t /\ r <= s /\ t + s <= w
    <3>1. Drawers' \subseteq Drawers /\ Setters' \subseteq Setters
      BY <2>2
    <3> QED BY <2>1, <3>1, Stores, Sizes
  <2>5. CASE key = NoKey
    <3>1. m \in Nat /\ m <= 1 /\ k <= l - 1 /\ quota' = limit
      BY <1>1, <1>2, <1>3, <1>5, <2>1, <2>5
    <3> QED BY <1>5, <2>1, <2>3, <2>5, <3>1, ReckonFirst
  <2>6. CASE key # NoKey
    <3>1. /\ quota' = limit /\ key < limit /\ key \in Int /\ uses \in Nat
          /\ Reckoned(uses, t, s, key, l, w)
      BY <1>1, <1>10, <2>1, <2>6 DEF SteadyInv, QuotaTypeOK
    <3>2. CASE Refill(p, answered) /\ k = limit - 1
      <4>1. p \in Setters
        BY <3>2 DEF Refill, Setters
      <4>2. r + 1 <= s
        BY <2>1, <2>2, <4>1, Stores, Sizes
      <4>3. k <= l - 1
        BY <1>3, <2>1, <3>2
      <4>4. Reckoned(m, u, r, k, l, w)
        BY <1>2, <2>1, <2>3, <3>1, <4>2, <4>3, ReckonAgain
      <4> QED BY <1>3, <2>1, <3>1, <3>2, <4>4
    <3>3. CASE Use(p, answered) /\ k = IF key = NoKey THEN -1 ELSE key - 1
      <4>1. p \in Drawers
        BY <3>3 DEF Use, Drawers
      <4>2. u + 1 <= t
        BY <2>1, <2>2, <4>1, Stores, Sizes
      <4>3. k = key - 1 /\ k < limit
        BY <1>3, <2>6, <3>1, <3>3
      <4>4. Reckoned(m, u, r, key - 1, l, w)
        BY <1>2, <2>1, <2>4, <3>1, <4>2, ReckonTake
      <4> QED BY <2>1, <3>1, <4>3, <4>4
    <3> QED BY <1>4, <3>2, <3>3
  <2> QED BY <2>5, <2>6
<1>11. SteadyInv'
  <2>1. limit' = limit
    BY <1>1, DoneStep
  <2> QED BY <1>1, <1>2, <1>5, <1>10, <2>1 DEF SteadyInv, P, Allowance
<1> QED
  BY <1>6, <1>7, <1>9, <1>11

LEMMA TickStep ==
    ASSUME QuotaInv, Tick
    PROVE  QuotaInv'
<1> USE DEF QuotaInv
<1>1. left' = left - 1 /\ left > 0 /\ UNCHANGED <<limit, step, seen>>
  BY DEF Tick
<1>2. Got' = Got /\ Drawers' = Drawers /\ Setters' = Setters
  BY <1>1 DEF Got, Drawers, Setters, Drawing, Counting, Spent
<1>3. left' \in 0..Period /\ 0 \in 0..MaxDrops
  BY <1>1, Numbers, QuotaAssumption DEF QuotaTypeOK
<1>4. CASE left > 1
  <2>1. UNCHANGED <<key, quota, uses, steady, alone, told, dropped, clean, crossed>>
    BY <1>4 DEF Tick, overdraw, notice
  <2>2. QuotaTypeOK'
    BY <1>1, <1>3, <2>1 DEF QuotaTypeOK
  <2> QED
    BY <1>1, <1>2, <2>1, <2>2 DEF NoKeyInv, SteadyInv, AloneInv, SentInv, P, Allowance
<1>5. CASE ~(left > 1)
  <2>1. /\ key' = NoKey /\ quota' = 0 /\ uses' = 0 /\ told' = 0 /\ dropped' = 0 /\ left' = 0
        /\ steady' = TRUE /\ alone' = TRUE
    BY <1>1, <1>5 DEF Tick, Expire, QuotaTypeOK
  <2>2. clean' \in BOOLEAN /\ crossed' \in BOOLEAN
    BY <1>5, Zenon DEF Tick, Expire, QuotaTypeOK
  <2>3. QuotaTypeOK'
    BY <1>1, <1>3, <2>1, <2>2 DEF QuotaTypeOK
  <2> QED
    BY <1>1, <2>1, <2>3 DEF NoKeyInv, SteadyInv, AloneInv, SentInv
<1> QED
  BY <1>4, <1>5

LEMMA LimitStep ==
    ASSUME QuotaInv, NEW l \in Limits, SetLimit(l)
    PROVE  QuotaInv'
<1> USE DEF QuotaInv
<1>1. /\ UNCHANGED <<key, left, step, seen, quota, uses, alone, told, dropped, crossed>>
      /\ limit' = l /\ steady' = (key = NoKey) /\ clean' = FALSE
  BY DEF SetLimit
<1>2. steady' \in BOOLEAN
  BY <1>1, Zenon
<1>3. QuotaTypeOK'
  BY <1>1, <1>2 DEF QuotaTypeOK
<1> QED
  BY <1>1, <1>3 DEF NoKeyInv, SteadyInv, AloneInv, SentInv, Got

LEMMA QuotaInvStep == QuotaInv /\ [QuotaNext]_vars => QuotaInv'
<1> SUFFICES ASSUME QuotaInv, [QuotaNext]_vars
             PROVE  QuotaInv'
  OBVIOUS
<1>1. CASE QuotaNext
  BY <1>1, TickStep, LimitStep, GetStep, IdleStep, SendStep, WriteStep DEF QuotaNext
<1>2. CASE UNCHANGED vars
  BY <1>2 DEF vars, code, overdraw, notice, QuotaInv, QuotaTypeOK, NoKeyInv, SteadyInv,
              AloneInv, SentInv, Got, Drawers, Setters, Drawing, Counting, Spent, P, Allowance
<1> QED
  BY <1>1, <1>2

-----------------------------------------------------------------------------
(***************************************************************************)
(* The key, its expiration and the local variables of Metrics.store keep   *)
(* their types; an absent key never has an expiration.                     *)
(***************************************************************************)
THEOREM QuotaTypes == QuotaSpec => []QuotaTypeOK
<1>1. QuotaInv => QuotaTypeOK
  BY DEF QuotaInv
<1> QED
  BY QuotaInvInit, QuotaInvStep, <1>1, PTL DEF QuotaSpec

(***************************************************************************)
(* Metrics.store reads and writes in two commands.  From the creation of   *)
(* the key to its expiration, while the grant stays, stores that overlap   *)
(* allow the grant once for each process and, for each that sets the key   *)
(* again, one use of each other process; stores that do not overlap allow  *)
(* what was granted at first, and one more once the grant is 0.            *)
(***************************************************************************)
THEOREM QuotaOverdrawBounded == QuotaSpec => []OverdrawBounded
<1>1. QuotaInv => OverdrawBounded
  <2> SUFFICES ASSUME QuotaInv
               PROVE  OverdrawBounded
    OBVIOUS
  <2>1. /\ uses \in Nat /\ quota \in Nat /\ key \in Int \cup {NoKey}
        /\ Allowance(quota) \in Nat /\ Allowance(quota) >= 1
    BY Allowed DEF QuotaInv, QuotaTypeOK
  <2>2. PICK l, w, c, wc \in Nat :
           /\ l = Allowance(quota) /\ w = P /\ w >= 1
           /\ c = l + (w - 1) /\ wc = (w - 1) * c
    <3>1. PICK l, w, c \in Nat : l = Allowance(quota) /\ w = P /\ w >= 1 /\ c = l + (w - 1)
      BY <2>1, Numbers
    <3>2. w - 1 \in Nat
      BY <3>1
    <3>3. (w - 1) * c \in Nat
      BY <3>1, <3>2
    <3> QED BY <3>1, <3>3
  <2>3. CASE key = NoKey
    <3>1. uses = 0
      BY <2>3 DEF QuotaInv, NoKeyInv
    <3>2. uses <= l + wc /\ uses <= quota + 1
      BY <2>1, <2>2, <3>1
    <3> QED BY <2>2, <3>2 DEF OverdrawBounded
  <2>4. CASE key # NoKey
    <3>1. ASSUME steady PROVE uses <= l + wc
      <4>1. PICK t, s, sc \in Nat :
               /\ t = Cardinality(Drawers) /\ s = Cardinality(Setters) /\ sc = s * c
        <5>1. PICK t, s \in Nat : t = Cardinality(Drawers) /\ s = Cardinality(Setters)
          BY Stores, Sizes
        <5> QED BY <5>1, <2>2
      <4>2. Reckoned(uses, t, s, key, l, w)
        BY <2>2, <2>4, <3>1, <4>1 DEF QuotaInv, SteadyInv
      <4>3. s <= w - 1 /\ uses + (IF key > 0 THEN key + (w - 1 - s) ELSE t) + sc <= l + wc
        BY <2>2, <4>1, <4>2 DEF Reckoned
      <4> QED BY <2>1, <2>2, <2>4, <4>1, <4>3
    <3>2. alone => uses <= quota + 1
      BY <2>1, <2>4 DEF QuotaInv, AloneInv
    <3> QED BY <2>2, <3>1, <3>2 DEF OverdrawBounded
  <2> QED BY <2>3, <2>4
<1> QED
  BY QuotaInvInit, QuotaInvStep, <1>1, PTL DEF QuotaSpec

-----------------------------------------------------------------------------
(* The notification *)

\* The credit has passed the threshold, where a use of c units' credit crosses it.
Passed == \E c \in (key + 1)..(limit - 1) : Threshold(c)
Senders == {p \in Proc : step[p] = "sent"}

\* As long as stores do not overlap, a process in between saw the key as it is, and a
\* notice was sent when the credit passed the threshold, by each process that has yet
\* to take the unit, and by each that failed to.
Noticed ==
    clean =>
        /\ \A p \in Got : seen[p] = key
        /\ \A p \in Senders : key < limit /\ Threshold(key)
        /\ key # NoKey => told = dropped + Cardinality(Senders) + IF Passed THEN 1 ELSE 0

NoticeInv == QuotaInv /\ Noticed

LEMMA SendersSize ==
    /\ Senders \subseteq Got
    /\ Cardinality(Senders) \in Nat
    /\ \A p \in Proc : /\ Cardinality({p}) = 1
                       /\ p \in Senders => Cardinality(Senders \ {p}) = Cardinality(Senders) - 1
                       /\ p \notin Senders
                             => Cardinality(Senders \cup {p}) = Cardinality(Senders) + 1
    /\ Cardinality({}) = 0
<1>1. Senders \subseteq Got /\ Senders \subseteq Proc
  BY DEF Senders, Got
<1>2. IsFiniteSet(Senders)
  BY <1>1, QuotaAssumption, FS_Subset
<1> QED
  BY <1>1, <1>2, FS_CardinalityType, FS_RemoveElement, FS_AddElement, FS_Singleton, FS_EmptySet

LEMMA NoticeInitial == QuotaInit => NoticeInv
<1> SUFFICES ASSUME QuotaInit PROVE NoticeInv
  OBVIOUS
<1>1. QuotaInv
  BY QuotaInvInit
<1>2. Noticed
  BY DEF QuotaInit, Noticed, Got, Senders
<1> QED BY <1>1, <1>2 DEF NoticeInv

\* The credit passes the threshold once.
LEMMA ThresholdOnce ==
    ASSUME QuotaTypeOK, NEW c \in Int, NEW d \in Int, Threshold(c), Threshold(d)
    PROVE  c = d
<1>1. limit \in Int /\ Notify \in Int
  BY Numbers, QuotaAssumption DEF QuotaTypeOK
<1>2. PICK t \in Int : t = (100 - Notify) * limit
  BY <1>1
<1> QED BY <1>2 DEF Threshold

LEMMA NoticeUse ==
    ASSUME NoticeInv, NEW p \in Proc, NEW answered \in BOOLEAN, Use(p, answered)
    PROVE  Noticed'
<1> SUFFICES ASSUME clean' PROVE Noticed'
  BY DEF Noticed
<1>1. clean /\ Got = {p} /\ QuotaTypeOK /\ SentInv
  BY Zenon DEF Use, NoticeInv, QuotaInv
<1>2. seen[p] = key /\ key # NoKey
  BY <1>1 DEF NoticeInv, Noticed, Use, Drawing, Counting, SentInv
<1>3. key \in Int /\ limit \in Nat
  BY <1>1, <1>2, Numbers DEF QuotaTypeOK
<1>4. PICK n \in Nat : n = Cardinality(Senders)
  BY SendersSize
<1>5. told = dropped + n + (IF Passed THEN 1 ELSE 0)
  BY <1>1, <1>2, <1>4 DEF NoticeInv, Noticed
<1>6. key' = key - 1 /\ limit' = limit /\ told' = told /\ dropped' = dropped /\ Done(p)
  BY <1>2 DEF Use, Decrement, Done
<1>7. Got' = {} /\ Senders' = {}
  BY <1>1, <1>6 DEF Done, Got, Senders, QuotaTypeOK
<1>8. \A c : Threshold(c)' <=> Threshold(c)
  BY <1>6 DEF Threshold
<1>9. told \in Nat /\ dropped \in Nat
  BY <1>1, QuotaAssumption DEF QuotaTypeOK
<1>10. key < limit => (key' + 1)..(limit' - 1) = {key} \cup ((key + 1)..(limit - 1))
  BY <1>3, <1>6
<1>11. ~(key < limit) => (key' + 1)..(limit' - 1) = {} /\ (key + 1)..(limit - 1) = {}
  BY <1>3, <1>6
<1>12. CASE step[p] = "sent"
  <2>1. Senders = {p} /\ Threshold(key) /\ key < limit
    BY <1>1, <1>12 DEF Senders, Got, NoticeInv, Noticed
  <2>2. n = 1
    BY <1>4, <2>1, SendersSize
  <2>3. ~Passed
    <3> SUFFICES ASSUME NEW c \in (key + 1)..(limit - 1), Threshold(c) PROVE FALSE
      BY DEF Passed
    <3>1. c \in Int /\ c # key
      BY <1>3
    <3> QED BY <1>1, <1>3, <2>1, <3>1, ThresholdOnce
  <2>4. Passed'
    BY <1>8, <1>10, <2>1 DEF Passed
  <2> QED BY <1>5, <1>6, <1>7, <1>9, <2>2, <2>3, <2>4, SendersSize DEF Noticed
<1>13. CASE step[p] # "sent"
  <2>1. Senders = {} /\ ~Threshold(key)
    BY <1>1, <1>2, <1>13 DEF Senders, Got, Use, Drawing
  <2>2. n = 0
    BY <1>4, <2>1, SendersSize
  <2>3. Passed' <=> Passed
    BY <1>3, <1>8, <1>10, <1>11, <2>1 DEF Passed
  <2> QED BY <1>5, <1>6, <1>7, <1>9, <2>2, <2>3, SendersSize DEF Noticed
<1> QED BY <1>12, <1>13

LEMMA NoticeRefill ==
    ASSUME NoticeInv, NEW p \in Proc, NEW answered \in BOOLEAN, Refill(p, answered)
    PROVE  Noticed'
<1> SUFFICES ASSUME clean' PROVE Noticed'
  BY DEF Noticed
<1>1. Got = {p} /\ Done(p)
  BY Zenon DEF Refill
<1>2. Got' = {} /\ Senders' = {}
  BY <1>1 DEF Done, Got, Senders, NoticeInv, QuotaInv, QuotaTypeOK
<1>3. /\ key' = limit - 1 /\ limit' = limit /\ told' = 0 /\ dropped' = 0
      /\ limit \in Nat
  BY <1>1, Numbers DEF Refill, SetKey, Done, NoticeInv, QuotaInv, QuotaTypeOK
<1>4. (key' + 1)..(limit' - 1) = {}
  BY <1>3
<1>5. ~Passed'
  BY <1>4 DEF Passed
<1> QED BY <1>2, <1>3, <1>5, SendersSize DEF Noticed

\* The notice itself: the credit is still above the threshold.
LEMMA NoticeSend ==
    ASSUME NoticeInv, NEW p \in Proc, Notice(p)
    PROVE  Noticed'
<1> SUFFICES ASSUME clean' PROVE Noticed'
  BY DEF Noticed
<1>1. /\ UNCHANGED <<key, limit, seen, dropped>> /\ told' = told + 1 /\ clean
      /\ step[p] = "got" /\ Threshold(seen[p]) /\ Counting(p)
  BY DEF Notice
<1>2. step'[p] = "sent" /\ \A q \in Proc \ {p} : step'[q] = step[q]
  BY DEF Notice, NoticeInv, QuotaInv, QuotaTypeOK
<1>3. Got' = Got /\ Senders' = Senders \cup {p} /\ p \notin Senders /\ p \in Got
  BY <1>1, <1>2 DEF Got, Senders
<1>4. seen[p] = key /\ key # NoKey
  BY <1>1, <1>3 DEF NoticeInv, Noticed, Counting
<1>5. PICK n \in Nat : n = Cardinality(Senders) /\ Cardinality(Senders') = n + 1
  BY <1>3, SendersSize
<1>6. (Passed' <=> Passed) /\ (\A c : Threshold(c)' <=> Threshold(c))
  BY <1>1 DEF Passed, Threshold
<1>7. told = dropped + n + (IF Passed THEN 1 ELSE 0)
  BY <1>1, <1>4, <1>5 DEF NoticeInv, Noticed
<1>8. told \in Nat /\ dropped \in Nat
  BY QuotaAssumption DEF NoticeInv, QuotaInv, QuotaTypeOK
<1>9. \A q \in Got' : seen'[q] = key'
  BY <1>1, <1>3 DEF NoticeInv, Noticed
<1>10. \A q \in Senders' : key' < limit' /\ Threshold(key)'
  BY <1>1, <1>4, <1>6 DEF Counting
<1>11. told' = dropped' + (n + 1) + (IF Passed' THEN 1 ELSE 0)
  BY <1>1, <1>6, <1>7, <1>8
<1> QED BY <1>5, <1>9, <1>10, <1>11 DEF Noticed

\* It went out and the unit was not taken.
LEMMA NoticeDrop ==
    ASSUME NoticeInv, NEW p \in Proc, Fail(p), step[p] = "sent"
    PROVE  Noticed'
<1> SUFFICES ASSUME clean' PROVE Noticed'
  BY DEF Noticed
<1>1. /\ UNCHANGED <<key, limit, told>> /\ dropped' = dropped + 1 /\ clean /\ Done(p)
  BY DEF Fail, Done
<1>2. /\ step'[p] = "idle"
      /\ \A q \in Proc \ {p} : step'[q] = step[q] /\ seen'[q] = seen[q]
  BY <1>1 DEF Done, NoticeInv, QuotaInv, QuotaTypeOK
<1>3. Got' = Got \ {p} /\ Senders' = Senders \ {p} /\ p \in Senders
  BY <1>2 DEF Got, Senders
<1>4. PICK n \in Nat : n = Cardinality(Senders) /\ Cardinality(Senders') = n - 1
  BY <1>3, SendersSize
<1>5. (Passed' <=> Passed) /\ (\A c : Threshold(c)' <=> Threshold(c))
  BY <1>1 DEF Passed, Threshold
<1>6. told \in Nat /\ dropped \in Nat
  BY QuotaAssumption DEF NoticeInv, QuotaInv, QuotaTypeOK
<1>7. \A q \in Got' : seen'[q] = key'
  BY <1>1, <1>2, <1>3 DEF NoticeInv, Noticed, Got
<1>8. \A q \in Senders' : key' < limit' /\ Threshold(key)'
  BY <1>1, <1>3, <1>5 DEF NoticeInv, Noticed
<1>9. key' # NoKey => told' = dropped' + (n - 1) + (IF Passed' THEN 1 ELSE 0)
  BY <1>1, <1>4, <1>5, <1>6 DEF NoticeInv, Noticed
<1> QED BY <1>4, <1>7, <1>8, <1>9 DEF Noticed

\* A step that leaves the key, the grant and the notices as they are.
LEMMA NoticeIdle ==
    ASSUME NoticeInv, UNCHANGED <<key, limit, told, dropped, clean>>, Senders' = Senders,
           \A p \in Got' : seen'[p] = key \/ (p \in Got /\ seen'[p] = seen[p])
    PROVE  Noticed'
<1>1. (Passed' <=> Passed) /\ (Threshold(key)' <=> Threshold(key))
  BY DEF Passed, Threshold
<1> QED BY <1>1 DEF NoticeInv, Noticed

LEMMA NoticeStep == NoticeInv /\ [QuotaNext]_vars => NoticeInv'
<1> SUFFICES ASSUME NoticeInv, [QuotaNext]_vars PROVE NoticeInv'
  OBVIOUS
<1> USE DEF NoticeInv
<1>1. QuotaInv'
  BY QuotaInvStep
<1> SUFFICES Noticed'
  BY <1>1
<1>2. ASSUME NEW p \in Proc, Get(p) \/ Refuse(p) \/ (Fail(p) /\ step[p] # "sent")
      PROVE  Noticed'
  <2>1. UNCHANGED <<key, limit, told, dropped, clean>>
    BY <1>2 DEF Get, Refuse, Fail, Done, notice
  <2>2. /\ \A q \in Got' : seen'[q] = key \/ (q \in Got /\ seen'[q] = seen[q])
        /\ Senders' = Senders
    BY <1>2 DEF Get, Refuse, Fail, Done, Got, Senders, QuotaInv, QuotaTypeOK
  <2> QED BY <2>1, <2>2, NoticeIdle
<1>3. ASSUME NEW p \in Proc, NEW answered \in BOOLEAN,
             \/ Refill(p, answered) \/ Use(p, answered) \/ Notice(p)
             \/ Fail(p) /\ step[p] = "sent"
      PROVE  Noticed'
  BY <1>3, NoticeRefill, NoticeUse, NoticeSend, NoticeDrop
<1>4. ASSUME NEW l \in Limits, SetLimit(l) PROVE Noticed'
  BY <1>4 DEF SetLimit, Noticed
<1>5. CASE Tick
  <2>1. CASE left > 1
    BY <1>5, <2>1, NoticeIdle DEF Tick, Got, Senders, notice
  <2>2. CASE ~(left > 1)
    <3>1. key' = NoKey /\ UNCHANGED <<step, seen>>
      BY <1>5, <2>2 DEF Tick, Expire
    <3>2. clean' => Got = {}
      BY <1>5, <2>2, Zenon DEF Tick, Expire
    <3> QED BY <3>1, <3>2 DEF Noticed, Got, Senders
  <2> QED BY <2>1, <2>2
<1>6. CASE UNCHANGED vars
  BY <1>6, NoticeIdle DEF vars, code, notice, Got, Senders
<1>7. CASE QuotaNext
  <2>1. ASSUME NEW p \in Proc,
               \/ Get(p) \/ Refuse(p) \/ Notice(p) \/ Fail(p)
               \/ \E answered \in BOOLEAN : Refill(p, answered) \/ Use(p, answered)
        PROVE  Noticed'
    BY <1>2, <1>3, <2>1
  <2> QED BY <1>4, <1>5, <1>7, <2>1 DEF QuotaNext
<1> QED BY <1>6, <1>7

(***************************************************************************)
(* Metrics.store notifies before it takes the unit that brings the credit  *)
(* below the threshold: a user who has used a grant up, by stores that did *)
(* not overlap, was notified once, and once more for each notice whose     *)
(* unit was then not taken because redis failed.                           *)
(***************************************************************************)
THEOREM QuotaNoticedOnce == QuotaSpec => []NoticedOnce
<1>1. NoticeInv => NoticedOnce
  <2> SUFFICES ASSUME NoticeInv, clean, Denied, NEW c \in 1..(limit - 1), Threshold(c)
               PROVE  told = 1 + dropped
    BY DEF NoticedOnce
  <2>1. key # NoKey /\ key \in Int /\ key <= 0 /\ limit \in Nat
    BY Numbers DEF Denied, NoticeInv, QuotaInv, QuotaTypeOK
  <2>2. c \in (key + 1)..(limit - 1)
    BY <2>1
  <2>3. Passed
    BY <2>2 DEF Passed
  <2>4. Senders = {}
    <3> SUFFICES ASSUME NEW p \in Senders PROVE FALSE
      OBVIOUS
    <3>1. p \in Got /\ p \in Proc /\ step[p] = "sent"
      BY SendersSize DEF Senders
    <3>2. seen[p] = key /\ seen[p] > 0
      BY <3>1 DEF NoticeInv, Noticed, QuotaInv, SentInv
    <3> QED BY <2>1, <3>2
  <2>5. Cardinality(Senders) = 0 /\ dropped \in Nat
    BY <2>4, SendersSize, QuotaAssumption DEF NoticeInv, QuotaInv, QuotaTypeOK
  <2> QED BY <2>1, <2>3, <2>5 DEF NoticeInv, Noticed
<1> QED BY <1>1, NoticeInitial, NoticeStep, PTL DEF QuotaSpec
=============================================================================
