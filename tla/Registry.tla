------------------------------ MODULE Registry ------------------------------
(***************************************************************************)
(* The registry of instances in redis: each process of a host saves the    *)
(* host's entry when it starts and then at an interval, by a timer that    *)
(* starts the next one; the entry goes away by itself.  The first save is  *)
(* made before the database is ready, and when initialize_db fails the     *)
(* timer goes on.  Saving takes less than the unit of time.                *)
(***************************************************************************)
EXTENDS Integers, FiniteSets

CONSTANTS
    Host,      \* instance ids
    Replica,   \* processes
    HostOf,    \* [Replica -> Host]
    First,     \* the time of the first timer (a second)
    Interval,  \* config.REGISTRY_INTERVAL
    EntryTtl,  \* config.REGISTRY_TTL
    Late,      \* how late a timer may fire
    Unlisted,  \* no entry
    MaxLapses, \* bound: saves that fail
    MaxStarts  \* bound: starts of a process

ASSUME RegistryAssumption ==
    /\ {First, Interval, EntryTtl, Late, MaxLapses, MaxStarts} \subseteq Nat
    /\ First <= Interval /\ Interval + Late < EntryTtl
    /\ Unlisted \notin 0..EntryTtl
    /\ \A p \in Replica : HostOf[p] \in Host

VARIABLES
    entry,   \* per host: the age of its entry
    replica, \* per process: "down", "starting", "serving" or "failed", the time
             \* to its timer, and whether its last save failed
    silent,  \* per host: for how long no process of it has been up
    lapses,  \* saves that failed
    starts   \* starts so far

registryVars == <<entry, replica, silent, lapses, starts>>

Halted == [state |-> "down", due |-> 0, failed |-> FALSE]
Up(p) == replica[p].state # "down"
Old == EntryTtl + 1

RegistryInit ==
    /\ entry = [h \in Host |-> Unlisted]
    /\ replica = [p \in Replica |-> Halted]
    /\ silent = [h \in Host |-> Old]
    /\ lapses = 0 /\ starts = 0

-----------------------------------------------------------------------------
\* _save_entry: an error is logged, and that is all.
Save(p, ok) ==
    /\ ok \/ lapses < MaxLapses
    /\ lapses' = IF ok THEN lapses ELSE lapses + 1
    /\ entry' = IF ok THEN [entry EXCEPT ![HostOf[p]] = 0] ELSE entry

\* register
Announce(p, ok) ==
    /\ ~Up(p)
    /\ starts < MaxStarts /\ starts' = starts + 1
    /\ Save(p, ok)
    /\ replica' = [replica EXCEPT ![p] = [state |-> "starting", due |-> First, failed |-> ~ok]]
    /\ silent' = [silent EXCEPT ![HostOf[p]] = 0]

\* initialize_db returns or raises.
Opened(p, ok) ==
    /\ replica[p].state = "starting"
    /\ replica' = [replica EXCEPT ![p].state = IF ok THEN "serving" ELSE "failed"]
    /\ UNCHANGED <<entry, silent, lapses, starts>>

\* update: the next timer starts after the save.
SwappedDue == EntryTtl                               \* mutant: interval and ttl swapped
NextDue == Interval
Renew(p, ok) ==
    /\ Up(p) /\ replica[p].due \in -Late..0
    /\ Save(p, ok)
    /\ replica' = [replica EXCEPT ![p] = [state |-> @.state, due |-> NextDue, failed |-> ~ok]]
    /\ UNCHANGED <<silent, starts>>

Stop(p) ==
    /\ Up(p)
    /\ replica' = [replica EXCEPT ![p] = Halted]
    /\ UNCHANGED <<entry, silent, lapses, starts>>

\* redis: the key was set with EX.
Older(age) == IF age = EntryTtl - 1 THEN Unlisted ELSE age + 1

Sooner(r) == [state |-> r.state, due |-> r.due - 1, failed |-> r.failed]

OneSecond ==
    /\ \A p \in Replica : Up(p) => replica[p].due > -Late
    /\ replica' = [p \in Replica |-> IF Up(p) THEN Sooner(replica[p]) ELSE Halted]
    /\ entry' = [h \in Host |-> IF entry[h] = Unlisted THEN Unlisted ELSE Older(entry[h])]
    /\ silent' = [h \in Host |->
          IF \E p \in Replica : HostOf[p] = h /\ Up(p) THEN 0
          ELSE IF silent[h] < Old THEN silent[h] + 1 ELSE Old]
    /\ UNCHANGED <<lapses, starts>>

RegistryNext ==
    \/ \E p \in Replica :
         \/ \E ok \in BOOLEAN : Announce(p, ok) \/ Opened(p, ok) \/ Renew(p, ok)
         \/ Stop(p)
    \/ OneSecond

RegistrySpec == RegistryInit /\ [][RegistryNext]_registryVars

-----------------------------------------------------------------------------
\* find
InRegistry(h) == entry[h] # Unlisted

(***************************************************************************)
(* "background function to update registration at the defined interval     *)
(* [...] until the instance terminates": a host is listed as long as one   *)
(* of its processes is up whose last save did not fail, and it is no       *)
(* longer listed when none has been up for the life of an entry.           *)
(***************************************************************************)
ListedWhileUp ==
    \A h \in Host :
        /\ (\E p \in Replica : HostOf[p] = h /\ Up(p) /\ ~replica[p].failed) => InRegistry(h)
        /\ silent[h] >= EntryTtl => ~InRegistry(h)
=============================================================================
