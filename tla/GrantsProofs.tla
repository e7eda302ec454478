---------------------------- MODULE GrantsProofs ----------------------------
(***************************************************************************)
(* The grants cache and the count check, for any number of processes, any  *)
(* limits and any life of the cache.                                       *)
(*                                                                         *)
(* StaleWithinTtl and OwnEditServed are inductive.  RecordsBounded needs   *)
(* BelowPeak: no cache holds a limit that has never been in force.         *)
(* The steps fall into three kinds: those that leave the grant alone and   *)
(* at most read or drop an entry (Quiet), edits of the grant, and time.    *)
(***************************************************************************)
EXTENDS Grants, FiniteSetTheorems, TLAPS

Entry == [limit : Values \cup {0}, left : 0..Ttl]

BelowPeak ==
    /\ InForce <= peak
    /\ \A p \in Proc : cache[p].limit <= peak

GrantsInv ==
    /\ GrantsTypeOK
    /\ BelowPeak
    /\ RecordsBounded
    /\ StaleWithinTtl
    /\ OwnEditServed

\* Entries are kept, read from the database, or dropped.
Quiet ==
    /\ UNCHANGED <<row, live, peak, since, edit>>
    /\ \A q \in Proc : cache'[q] \in {cache[q], Fresh, Empty}

LEMMA Numbers ==
    /\ Cardinality(Proc) \in Nat
    /\ Cardinality(Proc) >= 1
    /\ Ttl \in Nat
    /\ Ttl >= 1
    /\ Values \subseteq Nat
    /\ Empty \in Entry
<1>1. Cardinality(Proc) \in Nat /\ Cardinality(Proc) # 0
  BY GrantsAssumption, FS_CardinalityType, FS_EmptySet
<1> QED
  BY <1>1, GrantsAssumption DEF Values, Empty, Entry

LEMMA Entries == \A e \in Entry : e.limit \in Nat /\ e.left \in 0..Ttl
<1>1. ASSUME NEW e \in Entry
      PROVE  e.limit \in Values \cup {0} /\ e.left \in 0..Ttl
  BY DEF Entry
<1>2. Values \cup {0} \subseteq Nat
  BY Numbers
<1> QED
  BY <1>1, <1>2

LEMMA Lookups ==
    ASSUME GrantsTypeOK
    PROVE  /\ InForce \in Values
           /\ Fresh \in Entry
           /\ \A p \in Proc : /\ cache[p] \in Entry
                              /\ Get(p) \in Entry
                              /\ Get(p) \in {cache[p], Fresh}
<1>1. InForce \in Values
  BY DEF GrantsTypeOK, InForce, Values
<1>2. Fresh \in Entry
  BY <1>1, Numbers DEF Fresh, Entry
<1>3. \A p \in Proc : cache[p] \in Entry
  BY DEF GrantsTypeOK, Entry
<1> QED
  BY <1>1, <1>2, <1>3 DEF Get

LEMMA PendingSize ==
    /\ IsFiniteSet(Pending) /\ IsFiniteSet(Pending')
    /\ Cardinality(Pending) \in Nat
    /\ Cardinality(Pending') \in Nat /\ Cardinality(Pending') <= Cardinality(Proc)
<1>1. Pending \in SUBSET Proc /\ Pending' \in SUBSET Proc
  BY DEF Pending
<1> QED
  BY <1>1, GrantsAssumption, FS_Subset, FS_CardinalityType

LEMMA GrantsInvInit == GrantsInit => GrantsInv
<1> SUFFICES ASSUME GrantsInit
             PROVE  GrantsInv
  OBVIOUS
<1> USE DEF GrantsInit
<1>1. GrantsTypeOK
  <2>1. cache \in [Proc -> [limit : Values \cup {0}, left : 0..Ttl]]
    BY Numbers DEF Entry
  <2>2. edit \in [by : Proc \cup {Nobody}, how : Requests]
    BY DEF Requests
  <2>3. since \in 0..Ttl /\ peak \in Values
    BY Numbers DEF Values
  <2>4. doing \in [Proc -> {"idle", "insert", "post", "put"}]
    OBVIOUS
  <2> QED
    BY <2>1, <2>2, <2>3, <2>4 DEF GrantsTypeOK
<1>2. BelowPeak
  BY Numbers DEF BelowPeak, InForce, Empty, Values
<1>3. Cardinality(Pending) = 0
  BY FS_EmptySet DEF Pending
<1>4. RecordsBounded
  BY <1>3, Numbers DEF RecordsBounded, Values
<1>5. StaleWithinTtl /\ OwnEditServed
  BY DEF StaleWithinTtl, OwnEditServed, Serves, Cached, Empty
<1> QED
  BY <1>1, <1>2, <1>4, <1>5 DEF GrantsInv

-----------------------------------------------------------------------------
\* A quiet step does not disturb what is said of the caches.
LEMMA QuietStep ==
    ASSUME GrantsInv, Quiet
    PROVE  BelowPeak' /\ StaleWithinTtl' /\ OwnEditServed' /\ peak' = peak
<1> USE DEF GrantsInv
<1>1. InForce' = InForce /\ peak' = peak /\ since' = since /\ edit' = edit
  BY DEF Quiet, InForce
<1>2. InForce \in Nat /\ peak \in Nat
  BY Lookups, Numbers DEF GrantsTypeOK
<1>3. ASSUME NEW q \in Proc
      PROVE  \/ cache'[q] = cache[q]
             \/ cache'[q].limit = InForce
             \/ cache'[q].left = 0 /\ cache'[q].limit = 0
  BY <1>3 DEF Quiet, Fresh, Empty
<1>4. BelowPeak'
  BY <1>1, <1>2, <1>3 DEF BelowPeak
<1>5. ASSUME NEW q \in Proc
      PROVE  /\ Serves(q) => Serves(q)'
             /\ \/ cache'[q] = cache[q]
                \/ Serves(q)'
  BY <1>1, <1>3, <1>5 DEF Serves, Cached
<1>6. StaleWithinTtl'
  BY <1>1, <1>5 DEF StaleWithinTtl
<1>7. OwnEditServed'
  BY <1>1, <1>5 DEF OwnEditServed
<1> QED
  BY <1>1, <1>4, <1>6, <1>7

\* An edit may leave any entry stale, but it is stale from now on.
LEMMA EditStep ==
    ASSUME GrantsInv, NEW p \in Proc \cup {Nobody}, NEW how \in Requests,
           row' \in Limits \cup {NoRow}, live' \in BOOLEAN, Changed(p, how),
           \A q \in Proc : cache'[q] \in {cache[q], Empty},
           p \in Proc /\ how \in {"post", "update"} => cache'[p] = Empty
    PROVE  /\ peak' \in Values /\ since' \in 0..Ttl
           /\ edit' \in [by : Proc \cup {Nobody}, how : Requests]
           /\ peak' >= peak
           /\ BelowPeak' /\ StaleWithinTtl' /\ OwnEditServed'
<1> USE DEF GrantsInv
<1>1. InForce' \in Values
  BY DEF InForce, Values
<1>2. /\ peak' \in Values /\ peak' >= peak /\ peak' >= InForce'
      /\ peak \in Nat /\ peak' \in Nat
  <2>1. peak \in Values
    BY DEF GrantsTypeOK
  <2>2. peak' = IF InForce' > peak THEN InForce' ELSE peak
    BY DEF Changed
  <2>3. peak \in Nat /\ InForce' \in Nat
    BY <1>1, <2>1, Numbers
  <2> QED
    BY <1>1, <2>1, <2>2, <2>3
<1>3. since' \in 0..Ttl /\ since \in 0..Ttl
  BY Numbers DEF Changed, GrantsTypeOK
<1>4. edit' = [by |-> p, how |-> how]
  BY DEF Changed
<1>5. ASSUME NEW q \in Proc
      PROVE  /\ cache'[q] \in Entry /\ cache[q] \in Entry
             /\ cache'[q].limit <= peak
             /\ cache'[q] = cache[q] \/ cache'[q] = Empty
             /\ cache'[q] = Empty => Serves(q)'
  <2>1. cache'[q] \in {cache[q], Empty}
    OBVIOUS
  <2>2. cache[q] \in Entry
    BY Lookups
  <2>3. cache[q].limit <= peak /\ Empty.limit <= peak
    BY <1>2 DEF BelowPeak, Empty
  <2>4. cache'[q] = Empty => Serves(q)'
    BY DEF Serves, Cached, Empty
  <2> QED
    BY <2>1, <2>2, <2>3, <2>4, Numbers
<1>6. BelowPeak'
  <2>1. ASSUME NEW q \in Proc
        PROVE  cache'[q].limit <= peak'
    <3>1. cache'[q].limit \in Nat
      BY <1>5, Entries
    <3>2. cache'[q].limit <= peak
      BY <1>5
    <3> QED
      BY <1>2, <3>1, <3>2
  <2> QED
    BY <1>2, <2>1 DEF BelowPeak
<1>7. ASSUME NEW q \in Proc
      PROVE  Serves(q)' \/ since' + cache'[q].left <= Ttl
  <2>1. cache'[q].left \in 0..Ttl
    BY <1>5 DEF Entry
  <2>2. CASE InForce' # InForce
    BY <2>1, <2>2, Numbers DEF Changed
  <2>3. CASE InForce' = InForce
    <3>1. since' = since
      BY <2>3 DEF Changed
    <3>2. CASE cache'[q] = cache[q]
      BY <2>3, <3>1, <3>2 DEF StaleWithinTtl, Serves, Cached
    <3> QED
      BY <1>5, <3>2
  <2> QED
    BY <2>2, <2>3
<1>8. OwnEditServed'
  BY <1>4, <1>5 DEF OwnEditServed
<1> QED
  BY <1>2, <1>3, <1>4, <1>6, <1>7, <1>8 DEF StaleWithinTtl

LEMMA TickStep == GrantsInv /\ Tick => GrantsInv'
<1> SUFFICES ASSUME GrantsInv, Tick
             PROVE  GrantsInv'
  OBVIOUS
<1> USE DEF GrantsInv
<1>1. UNCHANGED <<row, live, records, doing, peak, edit>> /\ InForce' = InForce
  BY DEF Tick, InForce
<1>2. ASSUME NEW q \in Proc
      PROVE  /\ cache'[q] \in Entry
             /\ \/ /\ cache'[q].left = cache[q].left - 1
                   /\ cache'[q].limit = cache[q].limit
                \/ cache'[q] = Empty
             /\ Serves(q) => Serves(q)'
  <2>1. cache'[q] = OlderEntry(cache[q])
    BY DEF Tick
  <2>2. cache[q] \in Entry
    BY Lookups
  <2>3. CASE cache[q].left > 1
    <3>1. cache'[q] = [limit |-> cache[q].limit, left |-> cache[q].left - 1]
      BY <2>1, <2>3 DEF OlderEntry
    <3>2. cache[q].left - 1 \in 0..Ttl
      BY <2>2, <2>3, Numbers DEF Entry
    <3> QED
      BY <1>1, <2>2, <2>3, <3>1, <3>2 DEF Entry, Serves, Cached
  <2>4. CASE ~(cache[q].left > 1)
    <3>1. cache'[q] = Empty
      BY <2>1, <2>4 DEF OlderEntry
    <3> QED
      BY <3>1, Numbers DEF Serves, Cached, Empty
  <2> QED
    BY <2>3, <2>4
<1>3. since \in 0..Ttl /\ since' = IF since < Ttl THEN since + 1 ELSE Ttl
  BY DEF Tick, GrantsTypeOK
<1>4. GrantsTypeOK'
  <2>1. cache' \in [Proc -> [limit : Values \cup {0}, left : 0..Ttl]]
    BY <1>2 DEF Tick, Entry
  <2>2. since' \in 0..Ttl
    BY <1>3, Numbers
  <2> QED
    BY <1>1, <2>1, <2>2 DEF GrantsTypeOK
<1>5. BelowPeak'
  <2>1. peak \in Nat
    BY Numbers DEF GrantsTypeOK
  <2>2. ASSUME NEW q \in Proc
        PROVE  cache'[q].limit <= peak
    BY <1>2, <2>1 DEF BelowPeak, Empty
  <2> QED
    BY <1>1, <2>2 DEF BelowPeak
<1>6. StaleWithinTtl'
  <2>1. ASSUME NEW q \in Proc
        PROVE  Serves(q)' \/ since' + cache'[q].left <= Ttl
    <3>1. Serves(q) \/ since + cache[q].left <= Ttl
      BY DEF StaleWithinTtl
    <3>2. cache[q].left \in 0..Ttl
      BY Lookups DEF Entry
    <3>3. CASE cache'[q] = Empty
      BY <3>3 DEF Serves, Cached, Empty
    <3>4. CASE cache'[q].left = cache[q].left - 1
      BY <1>2, <1>3, <3>1, <3>2, <3>4, Numbers
    <3> QED
      BY <1>2, <3>3, <3>4
  <2> QED
    BY <2>1 DEF StaleWithinTtl
<1>7. OwnEditServed'
  BY <1>1, <1>2 DEF OwnEditServed
<1>8. RecordsBounded'
  BY <1>1 DEF RecordsBounded, Pending
<1> QED
  BY <1>4, <1>5, <1>6, <1>7, <1>8

-----------------------------------------------------------------------------
LEMMA ReadStep ==
    ASSUME GrantsInv, NEW p \in Proc, LookUp(p)
    PROVE  GrantsInv'
<1> USE DEF GrantsInv
<1>1. cache' \in [Proc -> Entry] /\ Quiet
  BY Lookups DEF LookUp, Quiet, history, GrantsTypeOK, Entry
<1>2. GrantsTypeOK' /\ RecordsBounded'
  BY <1>1 DEF LookUp, history, GrantsTypeOK, Entry, RecordsBounded, Pending
<1> QED
  BY <1>1, <1>2, QuietStep

\* A request is admitted below a limit that has been in force: there is room
\* for one record more even if every other process is inserting.
LEMMA CheckStep ==
    ASSUME GrantsInv, NEW p \in Proc, Check(p)
    PROVE  GrantsInv'
<1> USE DEF GrantsInv
<1>1. cache' \in [Proc -> Entry] /\ Quiet
  BY Lookups DEF Check, Quiet, history, GrantsTypeOK, Entry
<1>2. GrantsTypeOK'
  BY <1>1 DEF Check, history, GrantsTypeOK, Entry
<1>3. RecordsBounded'
  <2>1. records' = records /\ peak' = peak /\ records \in Nat /\ peak \in Nat
    BY Numbers DEF Check, history, GrantsTypeOK
  <2>2. CASE records < Get(p).limit
    <3>1. Get(p).limit \in Nat
      BY Lookups, Entries
    <3>2. Get(p).limit <= peak
      BY Lookups DEF BelowPeak, Fresh
    <3> QED
      BY <2>1, <2>2, <3>1, <3>2, PendingSize, Numbers DEF RecordsBounded
  <2>3. CASE ~(records < Get(p).limit)
    <3>1. Pending' = Pending
      BY <2>3 DEF Check, Pending
    <3> QED
      BY <2>1, <3>1 DEF RecordsBounded
  <2> QED
    BY <2>2, <2>3
<1> QED
  BY <1>1, <1>2, <1>3, QuietStep

\* A process that leaves the insert makes room for the record it inserted.
LEMMA Leaves ==
    ASSUME GrantsTypeOK, NEW p \in Proc, doing[p] = "insert",
           doing' = [doing EXCEPT ![p] = "idle"]
    PROVE  /\ doing' \in [Proc -> {"idle", "insert", "post", "put"}]
           /\ Cardinality(Pending') = Cardinality(Pending) - 1
<1>1. Pending' = Pending \ {p} /\ p \in Pending
  BY DEF GrantsTypeOK, Pending
<1> QED
  BY <1>1, PendingSize, FS_RemoveElement DEF GrantsTypeOK

LEMMA InsertStep ==
    ASSUME GrantsInv, NEW p \in Proc, InsertRecord(p) \/ InsertFails(p)
    PROVE  GrantsInv'
<1> USE DEF GrantsInv
<1>1. /\ doing[p] = "insert" /\ doing' = [doing EXCEPT ![p] = "idle"]
      /\ UNCHANGED <<row, live, cache, peak, since, edit>>
      /\ records' \in {records, records + 1}
  BY DEF InsertRecord, InsertFails, history
<1>2. Quiet
  BY <1>1 DEF Quiet
<1>3. GrantsTypeOK'
  BY <1>1, Leaves DEF GrantsTypeOK
<1>4. RecordsBounded'
  <2>1. records \in Nat /\ peak \in Nat
    BY Numbers DEF GrantsTypeOK
  <2>2. Cardinality(Pending') = Cardinality(Pending) - 1
    BY <1>1, Leaves
  <2>3. records + Cardinality(Pending) <= peak + Cardinality(Proc) - 1
    BY DEF RecordsBounded
  <2>4. records' <= records + 1 /\ records' \in Nat /\ peak' = peak
    BY <1>1, <2>1
  <2>5. records' + Cardinality(Pending') <= peak' + Cardinality(Proc) - 1
    BY <2>1, <2>2, <2>3, <2>4, PendingSize, Numbers
  <2> QED
    BY <2>5 DEF RecordsBounded
<1> QED
  BY <1>2, <1>3, <1>4, QuietStep

LEMMA RemoveStep == GrantsInv /\ Remove => GrantsInv'
<1> SUFFICES ASSUME GrantsInv, Remove
             PROVE  GrantsInv'
  OBVIOUS
<1> USE DEF GrantsInv
<1>1. /\ UNCHANGED <<row, live, cache, doing, peak, since, edit>>
      /\ records' = records - 1 /\ records' \in Nat
  BY DEF Remove, history, GrantsTypeOK
<1>2. Quiet
  BY <1>1 DEF Quiet
<1>3. GrantsTypeOK'
  BY <1>1 DEF GrantsTypeOK
<1>4. RecordsBounded'
  <2>1. records \in Nat /\ peak \in Nat /\ Pending' = Pending
    BY <1>1, Numbers DEF GrantsTypeOK, Pending
  <2> QED
    BY <1>1, <2>1, PendingSize, Numbers DEF RecordsBounded
<1> QED
  BY <1>2, <1>3, <1>4, QuietStep

\* The steps of a request that do not concern records.
LEMMA AsideStep ==
    ASSUME GrantsInv, NEW p \in Proc,
           Post(p) \/ Put(p) \/ Duplicate(p) \/ Evict(p) \/ Restart(p)
    PROVE  GrantsInv'
<1> USE DEF GrantsInv
<1>1. /\ UNCHANGED <<row, live, records, peak, since, edit>>
      /\ \E e \in {cache[p], Fresh, Empty} : cache' = [cache EXCEPT ![p] = e]
      /\ \/ doing' = doing
         \/ \E s \in {"idle", "post", "put"} : doing' = [doing EXCEPT ![p] = s]
  <2>1. CASE Post(p)
    BY <2>1, Lookups DEF Post, history
  <2>2. CASE Put(p)
    BY <2>2 DEF Put, history
  <2>3. CASE Duplicate(p)
    <3>1. cache = [cache EXCEPT ![p] = cache[p]]
      BY DEF GrantsTypeOK
    <3> QED
      BY <2>3, <3>1 DEF Duplicate, Uncached, history
  <2>4. CASE Evict(p)
    BY <2>4 DEF Evict, history
  <2>5. CASE Restart(p)
    BY <2>5 DEF Restart, history
  <2> QED
    BY <2>1, <2>2, <2>3, <2>4, <2>5
<1>2. PICK e \in {cache[p], Fresh, Empty} : cache' = [cache EXCEPT ![p] = e]
  BY <1>1
<1>3. e \in Entry
  BY <1>2, Lookups, Numbers
<1>4. cache' \in [Proc -> Entry] /\ Quiet
  BY <1>1, <1>2, <1>3 DEF Quiet, GrantsTypeOK, Entry
<1>5. doing' \in [Proc -> {"idle", "insert", "post", "put"}] /\ Pending' \subseteq Pending
  BY <1>1 DEF GrantsTypeOK, Pending
<1>6. GrantsTypeOK'
  BY <1>1, <1>4, <1>5 DEF GrantsTypeOK, Entry
<1>7. RecordsBounded'
  <2>1. Cardinality(Pending') <= Cardinality(Pending)
    BY <1>5, PendingSize, FS_Subset
  <2>2. records \in Nat /\ peak \in Nat
    BY Numbers DEF GrantsTypeOK
  <2> QED
    BY <1>1, <2>1, <2>2, PendingSize, Numbers DEF RecordsBounded
<1> QED
  BY <1>4, <1>6, <1>7, QuietStep

\* The edits of the grant.
LEMMA GrantStep ==
    ASSUME GrantsInv, NEW p \in Proc, CommitGrant(p) \/ Update(p) \/ Delete(p)
    PROVE  GrantsInv'
<1> USE DEF GrantsInv
<1>1. \E how \in Requests :
         /\ Changed(p, how)
         /\ how \in {"post", "update"} => cache'[p] = Empty
  <2>1. CASE CommitGrant(p)
    <3>1. /\ Changed(p, doing[p]) /\ doing[p] \in {"post", "put"}
          /\ doing[p] = "post" => cache' = [cache EXCEPT ![p] = Empty]
      BY <2>1 DEF CommitGrant, Uncached
    <3>2. cache \in [Proc -> Entry]
      BY DEF GrantsTypeOK, Entry
    <3> QED
      BY <3>1, <3>2 DEF Requests
  <2>2. CASE Update(p)
    BY <2>2 DEF Update, GrantsTypeOK, Requests
  <2>3. CASE Delete(p)
    BY <2>3 DEF Delete, Requests
  <2> QED
    BY <2>1, <2>2, <2>3
<1>2. PICK how \in Requests :
         /\ Changed(p, how)
         /\ how \in {"post", "update"} => cache'[p] = Empty
  BY <1>1
<1>3. /\ row' \in Limits \cup {NoRow} /\ live' \in BOOLEAN /\ records' = records
      /\ cache' = cache \/ cache' = [cache EXCEPT ![p] = Empty]
      /\ doing' = doing \/ doing' = [doing EXCEPT ![p] = "idle"]
  BY DEF CommitGrant, Update, Delete, Uncached, GrantsTypeOK
<1>4. /\ cache' \in [Proc -> Entry]
      /\ \A q \in Proc : cache'[q] \in {cache[q], Empty}
  BY <1>3, Numbers DEF GrantsTypeOK, Entry
<1>5. /\ peak' \in Values /\ since' \in 0..Ttl
      /\ edit' \in [by : Proc \cup {Nobody}, how : Requests]
      /\ peak' >= peak
      /\ BelowPeak' /\ StaleWithinTtl' /\ OwnEditServed'
  BY <1>2, <1>3, <1>4, EditStep
<1>6. doing' \in [Proc -> {"idle", "insert", "post", "put"}] /\ Pending' \subseteq Pending
  BY <1>3 DEF GrantsTypeOK, Pending
<1>7. GrantsTypeOK'
  BY <1>3, <1>4, <1>5, <1>6 DEF GrantsTypeOK, Entry
<1>8. RecordsBounded'
  <2>1. Cardinality(Pending') <= Cardinality(Pending)
    BY <1>6, PendingSize, FS_Subset
  <2>2. records \in Nat /\ peak \in Nat /\ peak' \in Nat
    BY <1>5, Numbers DEF GrantsTypeOK
  <2> QED
    BY <1>3, <1>5, <2>1, <2>2, PendingSize, Numbers DEF RecordsBounded
<1> QED
  BY <1>5, <1>7, <1>8

LEMMA LapseStep == GrantsInv /\ Lapse => GrantsInv'
<1> SUFFICES ASSUME GrantsInv, Lapse
             PROVE  GrantsInv'
  OBVIOUS
<1> USE DEF GrantsInv
<1>1. /\ row' \in Limits \cup {NoRow} /\ live' \in BOOLEAN
      /\ UNCHANGED <<records, cache, doing>>
      /\ Changed(Nobody, "none") /\ "none" \in Requests
  BY DEF Lapse, GrantsTypeOK, Requests
<1>2. /\ peak' \in Values /\ since' \in 0..Ttl
      /\ edit' \in [by : Proc \cup {Nobody}, how : Requests]
      /\ peak' >= peak
      /\ BelowPeak' /\ StaleWithinTtl' /\ OwnEditServed'
  BY <1>1, EditStep
<1>3. GrantsTypeOK'
  BY <1>1, <1>2 DEF GrantsTypeOK
<1>4. RecordsBounded'
  <2>1. records \in Nat /\ peak \in Nat /\ peak' \in Nat /\ Pending' = Pending
    BY <1>1, <1>2, Numbers DEF GrantsTypeOK, Pending
  <2> QED
    BY <1>1, <1>2, <2>1, PendingSize, Numbers DEF RecordsBounded
<1> QED
  BY <1>2, <1>3, <1>4

-----------------------------------------------------------------------------
LEMMA GrantsInvStep == GrantsInv /\ [GrantsNext]_grantsVars => GrantsInv'
<1> SUFFICES ASSUME GrantsInv, [GrantsNext]_grantsVars
             PROVE  GrantsInv'
  OBVIOUS
<1>1. ASSUME NEW p \in Proc, LookUp(p)
      PROVE  GrantsInv'
  BY <1>1, ReadStep
<1>2. ASSUME NEW p \in Proc, Check(p)
      PROVE  GrantsInv'
  BY <1>2, CheckStep
<1>3. ASSUME NEW p \in Proc, InsertRecord(p) \/ InsertFails(p)
      PROVE  GrantsInv'
  BY <1>3, InsertStep
<1>4. ASSUME NEW p \in Proc,
             Post(p) \/ Put(p) \/ Duplicate(p) \/ Evict(p) \/ Restart(p)
      PROVE  GrantsInv'
  BY <1>4, AsideStep
<1>5. ASSUME NEW p \in Proc, CommitGrant(p) \/ Update(p) \/ Delete(p)
      PROVE  GrantsInv'
  BY <1>5, GrantStep
<1>6. CASE Remove
  BY <1>6, RemoveStep
<1>7. CASE Lapse
  BY <1>7, LapseStep
<1>8. CASE Tick
  BY <1>8, TickStep
<1>9. CASE UNCHANGED grantsVars
  BY <1>9 DEF grantsVars, GrantsInv, GrantsTypeOK, BelowPeak, RecordsBounded, Pending,
              StaleWithinTtl, OwnEditServed, Serves, Cached, InForce
<1> QED
  BY <1>1, <1>2, <1>3, <1>4, <1>5, <1>6, <1>7, <1>8, <1>9 DEF GrantsNext

LEMMA GrantsInvariant == GrantsSpec => []GrantsInv
BY GrantsInvInit, GrantsInvStep, PTL DEF GrantsSpec

\* Every variable of the grants and their caches keeps its type.
THEOREM GrantsTypes == GrantsSpec => []GrantsTypeOK
BY GrantsInvariant, PTL DEF GrantsInv

\* Grants.get serves a limit that is no longer in force for at most the life
\* of a cache entry.
THEOREM CachesCatchUp == GrantsSpec => []StaleWithinTtl
BY GrantsInvariant, PTL DEF GrantsInv

\* BasicCRUD.create exceeds the largest limit there has been by less than the
\* number of processes.
THEOREM GrantLimitsRecords == GrantsSpec => []RecordsBounded
BY GrantsInvariant, PTL DEF GrantsInv

\* GrantController's create and update take effect in their own process.
THEOREM EditorServesEdit == GrantsSpec => []OwnEditServed
BY GrantsInvariant, PTL DEF GrantsInv
=============================================================================
