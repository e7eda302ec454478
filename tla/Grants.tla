------------------------------- MODULE Grants -------------------------------
(***************************************************************************)
(* The limit on a user's records of one kind: the grants row an            *)
(* administrator edits, the copy each process keeps in its own TTLCache    *)
(* (grants.py), and the count check of BasicCRUD.create that relies on it. *)
(* A process serves one request at a time; the database is shared.         *)
(***************************************************************************)
EXTENDS Integers, FiniteSets

CONSTANTS
    Proc,    \* server processes
    Limits,  \* values an administrator gives the grant
    Default, \* the value in DEFAULT_GRANTS
    Ttl,     \* REDIS_TTL, the life of a cached entry
    NoRow,   \* the user has no row for this grant
    Nobody   \* the last change of the grant was nobody's request

ASSUME GrantsAssumption ==
    /\ IsFiniteSet(Proc)
    /\ Proc # {}
    /\ Limits \subseteq Nat
    /\ Default \in Nat
    /\ Ttl \in Nat \ {0}
    /\ NoRow \notin Nat
    /\ Nobody \notin Proc

VARIABLES
    row,     \* value of the user's row in the grants table
    live,    \* that row is active and has not expired
    records, \* rows the user has of the limited kind
    cache,   \* per process: the limit it holds and the time until it drops it
    doing,   \* per process: idle, or inside a create request
    peak,    \* history: the largest limit that has been in force
    since,   \* history: time since the limit in force changed, up to Ttl
    edit     \* history: who changed the grant last, and by which request

db == <<row, live>>
history == <<peak, since, edit>>
grantsVars == <<row, live, records, cache, doing, peak, since, edit>>

Empty == [limit |-> 0, left |-> 0]
Cached(p) == cache[p].left > 0
InForce == IF row # NoRow /\ live THEN row ELSE Default
Fresh == [limit |-> InForce, left |-> Ttl]
Values == Limits \cup {Default}
Requests == {"post", "put", "update", "delete", "none"}

GrantsTypeOK ==
    /\ row \in Limits \cup {NoRow}
    /\ live \in BOOLEAN
    /\ records \in Nat
    /\ cache \in [Proc -> [limit : Values \cup {0}, left : 0..Ttl]]
    /\ doing \in [Proc -> {"idle", "insert", "post", "put"}]
    /\ peak \in Values
    /\ since \in 0..Ttl
    /\ edit \in [by : Proc \cup {Nobody}, how : Requests]

GrantsInit ==
    /\ row = NoRow
    /\ live = FALSE
    /\ records = 0
    /\ cache = [p \in Proc |-> Empty]
    /\ doing = [p \in Proc |-> "idle"]
    /\ peak = Default
    /\ since = Ttl
    /\ edit = [by |-> Nobody, how |-> "none"]

-----------------------------------------------------------------------------
Changed(p, how) ==
    /\ peak' = IF InForce' > peak THEN InForce' ELSE peak
    /\ since' = IF InForce' # InForce THEN 0 ELSE since
    /\ edit' = [by |-> p, how |-> how]

\* mutant: each lookup gives the entry a new life
GetRenewing(p) ==
    IF Cached(p) THEN [limit |-> cache[p].limit, left |-> Ttl] ELSE Fresh
\* Grants.get: the cached limit or, if it has gone, the one in the database.
Get(p) == IF Cached(p) THEN cache[p] ELSE Fresh

\* Any other use of the grant.
LookUp(p) ==
    /\ doing[p] = "idle"
    /\ cache' = [cache EXCEPT ![p] = Get(p)]
    /\ UNCHANGED <<row, live, records, doing, history>>

\* mutant: the limit itself is still admitted
CheckAbove(p) ==
    /\ doing[p] = "idle"
    /\ cache' = [cache EXCEPT ![p] = Get(p)]
    /\ doing' = IF records <= Get(p).limit
                 THEN [doing EXCEPT ![p] = "insert"] ELSE doing
    /\ UNCHANGED <<row, live, records, history>>
\* POST of a record: all reads of the request are of one database snapshot.
Check(p) ==
    /\ doing[p] = "idle"
    /\ cache' = [cache EXCEPT ![p] = Get(p)]
    /\ doing' = IF records < Get(p).limit
                 THEN [doing EXCEPT ![p] = "insert"] ELSE doing
    /\ UNCHANGED <<row, live, records, history>>

InsertRecord(p) ==
    /\ doing[p] = "insert"
    /\ records' = records + 1
    /\ doing' = [doing EXCEPT ![p] = "idle"]
    /\ UNCHANGED <<row, live, cache, history>>

InsertFails(p) ==
    /\ doing[p] = "insert"
    /\ doing' = [doing EXCEPT ![p] = "idle"]
    /\ UNCHANGED <<row, live, records, cache, history>>

Remove ==
    /\ records > 0
    /\ records' = records - 1
    /\ UNCHANGED <<row, live, cache, doing, history>>

-----------------------------------------------------------------------------
\* POST of a grant: create looks up the (unlimited) number of grants, which
\* caches all of the user's.
Post(p) ==
    /\ doing[p] = "idle"
    /\ cache' = [cache EXCEPT ![p] = Get(p)]
    /\ doing' = [doing EXCEPT ![p] = "post"]
    /\ UNCHANGED <<row, live, records, history>>

\* PUT of a grant by its hybrid id: uncached, then created as above.
Put(p) ==
    /\ doing[p] = "idle"
    /\ cache' = [cache EXCEPT ![p] = Fresh]
    /\ doing' = [doing EXCEPT ![p] = "put"]
    /\ UNCHANGED <<row, live, records, history>>

\* mutant: POST does not uncache after the commit
UncachedNever(p) == cache
Uncached(p) ==
    IF doing[p] = "post" THEN [cache EXCEPT ![p] = Empty] ELSE cache

\* The row may be created already expired.
CommitGrant(p) ==
    /\ doing[p] \in {"post", "put"}
    /\ row = NoRow
    /\ row' \in Limits
    /\ live' \in BOOLEAN
    /\ cache' = Uncached(p)
    /\ doing' = [doing EXCEPT ![p] = "idle"]
    /\ Changed(p, doing[p])
    /\ UNCHANGED records

\* The row is unique to the user and grant, active or not.
Duplicate(p) ==
    /\ doing[p] \in {"post", "put"}
    /\ row # NoRow
    /\ cache' = Uncached(p)
    /\ doing' = [doing EXCEPT ![p] = "idle"]
    /\ UNCHANGED <<row, live, records, history>>

\* PUT by id.
Update(p) ==
    /\ doing[p] = "idle"
    /\ row # NoRow
    /\ row' \in Limits
    /\ live' \in BOOLEAN
    /\ cache' = [cache EXCEPT ![p] = Empty]
    /\ Changed(p, "update")
    /\ UNCHANGED <<records, doing>>

\* The row is disabled, or removed by force; the trashcan may restore it.
Delete(p) ==
    /\ doing[p] = "idle"
    /\ row # NoRow
    /\ \/ row' = row /\ live' \in BOOLEAN
       \/ row' = NoRow /\ live' = FALSE
    /\ Changed(p, "delete")
    /\ UNCHANGED <<records, cache, doing>>

\* The row's expiration passes.
Lapse ==
    /\ row # NoRow
    /\ live
    /\ live' = FALSE
    /\ row' = row
    /\ Changed(Nobody, "none")
    /\ UNCHANGED <<records, cache, doing>>

\* TTLCache at its size drops the entry.
Evict(p) ==
    /\ Cached(p)
    /\ cache' = [cache EXCEPT ![p] = Empty]
    /\ UNCHANGED <<row, live, records, doing, history>>

Restart(p) ==
    /\ cache' = [cache EXCEPT ![p] = Empty]
    /\ doing' = [doing EXCEPT ![p] = "idle"]
    /\ UNCHANGED <<row, live, records, history>>

\* mutant: an entry is never dropped
OlderOnly(c) == [limit |-> c.limit, left |-> c.left - 1]
OlderEntry(c) == IF c.left > 1 THEN [limit |-> c.limit, left |-> c.left - 1]
                 ELSE Empty

Tick ==
    /\ cache' = [p \in Proc |-> OlderEntry(cache[p])]
    /\ since' = IF since < Ttl THEN since + 1 ELSE Ttl
    /\ UNCHANGED <<row, live, records, doing, peak, edit>>

GrantsNext ==
    \/ \E p \in Proc :
         \/ LookUp(p) \/ Check(p) \/ InsertRecord(p) \/ InsertFails(p)
         \/ Post(p) \/ Put(p) \/ CommitGrant(p) \/ Duplicate(p)
         \/ Update(p) \/ Delete(p) \/ Evict(p) \/ Restart(p)
    \/ Remove \/ Lapse \/ Tick

GrantsSpec == GrantsInit /\ [][GrantsNext]_grantsVars

-----------------------------------------------------------------------------
Serves(p) == Cached(p) => cache[p].limit = InForce

(***************************************************************************)
(* A process that still holds an old limit does so for at most Ttl after   *)
(* the change, however often it looks the grant up.                        *)
(***************************************************************************)
StaleWithinTtl == \A p \in Proc : Serves(p) \/ since + cache[p].left <= Ttl

Pending == {p \in Proc : doing[p] = "insert"}

(***************************************************************************)
(* The count check of create and its insert are apart: every process may   *)
(* be between them.  A user never has more records than the largest limit  *)
(* in force so far and one for each further process, however stale the     *)
(* caches.                                                                 *)
(***************************************************************************)
RecordsBounded ==
    records + Cardinality(Pending) <= peak + Cardinality(Proc) - 1

(***************************************************************************)
(* The process that created or updated the grant serves the new limit as   *)
(* long as nothing else changes it: GrantController's uncache is effective *)
(* although create itself fills the cache before the commit.               *)
(***************************************************************************)
OwnEditServed ==
    \A p \in Proc : edit.by = p /\ edit.how \in {"post", "update"} => Serves(p)

(***************************************************************************)
(* "Remove grants from cache, any time a user's status changes" of         *)
(* Grants.uncache (grants.py 150), read for every request that changes the *)
(* grant.  The code does not: PUT by hybrid id caches again before the     *)
(* insert, and neither delete nor the trashcan uncaches.                   *)
(***************************************************************************)
EditTakesEffect == \A p \in Proc : edit.by = p => Serves(p)
=============================================================================
