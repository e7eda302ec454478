---------------------------- MODULE SchemaUpdate ----------------------------
(***************************************************************************)
(* database.py's initialize_db: every process that starts brings the       *)
(* schemas of config.DB_SCHEMAS, in order, to the head revision and seeds  *)
(* a blank database.  Processes with DB_MIGRATE_ENABLE (Proc) do it inside *)
(* "with Mutex('alembic', ttl=DB_SCHEMA_MAXTIME)"; the others (Waiter) run *)
(* the same schema_update without the mutex and only wait.                 *)
(*                                                                         *)
(* Ttl, the life of the mutex, is also schema_maxtime, as in the code.     *)
(***************************************************************************)
EXTENDS Mutex

CONSTANTS
    Waiter,       \* processes with DB_MIGRATE_ENABLE off
    Schemas,      \* number of schemas in config.DB_SCHEMAS
    ConnectStep,  \* what a failed connect takes off schema_maxtime (10 s)
    MaxDbFaults,  \* bound: database errors, and crashes of waiting processes
    WaitStep      \* what one turn of the waiting loop takes off it (5 s)

ASSUME SchemaAssumption ==
    /\ Waiter \cap Proc = {}
    /\ Schemas \in Nat \ {0}
    /\ ConnectStep \in Nat \ {0}
    /\ WaitStep \in Nat \ {0}
    /\ MaxDbFaults \in Nat

VARIABLES
    ver,       \* revision of each schema in the database
    seeded,    \* the seed records are in the database
    dbFaults,  \* database errors so far
    reseeded,  \* seed_new_db ran on a database that had them already
    job        \* per process: progress of its schema_update

dbVars == <<ver, seeded, reseeded>>
schemaVars == <<dbVars, dbFaults, job>>
vars == <<mutexVars, schemaVars>>

Starter == Proc \cup Waiter
Schema  == 1..Schemas
Version == {"none", "old", "head"}
Phase   == {"off", "read", "connect", "upgrade", "upgrading", "wait", "seed",
            "done", "failed"}

\* Bound: wait_time is not followed below this.
Overshoot == -WaitStep

JobType == [phase : Phase, at : Schema, seen : Version, left : Overshoot..Ttl]
Job(phase, at, seen, left) ==
    [phase |-> phase, at |-> at, seen |-> seen, left |-> left]
Ended(phase) == Job(phase, 1, "none", 0)
Off   == Ended("off")
Fresh == Ended("read")

SchemaTypeOK ==
    /\ MutexTypeOK
    /\ ver \in [Schema -> Version]
    /\ seeded \in BOOLEAN
    /\ reseeded \in BOOLEAN
    /\ dbFaults \in 0..MaxDbFaults
    /\ job \in [Starter -> JobType]

\* A blank database, or one an earlier release left behind.
SchemaInit ==
    /\ MutexInit
    /\ ver \in {[s \in Schema |-> v] : v \in Version}
    /\ seeded = (ver[1] # "none")
    /\ reseeded = FALSE
    /\ dbFaults = 0
    /\ job = [p \in Starter |-> Off]

-----------------------------------------------------------------------------
At(p, phase) == job[p].phase = phase
DbFault == dbFaults < MaxDbFaults /\ dbFaults' = dbFaults + 1
Set(p, j) == job' = [job EXCEPT ![p] = j]
SetTime(p, phase, left) == Set(p, Job(phase, job[p].at, job[p].seen, left))
SetPhase(p, phase) == SetTime(p, phase, job[p].left)

\* An exception leaves schema_update and, for a migrator, the with block.
Raise(p) ==
    /\ Set(p, Ended("failed"))
    /\ IF p \in Proc THEN Goto(p, "release") ELSE UNCHANGED pc

Working(p) == p \in Proc => pc[p] = "critical"

\* initialize_db enters schema_update: at once, or with the mutex acquired.
Begin(p) ==
    \/ /\ p \in Proc
       /\ Acquire(p)
       /\ Set(p, Fresh)
       /\ UNCHANGED <<dbVars, dbFaults>>
    \/ /\ p \in Waiter
       /\ At(p, "off")
       /\ Set(p, Fresh)
       /\ UNCHANGED <<mutexVars, dbVars, dbFaults>>

\* The version query; any OperationalError reads as "no schema yet".
ReadVersion(p) ==
    /\ At(p, "read") /\ Working(p)
    /\ \E v \in {ver[job[p].at], "none"} :
        /\ IF v = ver[job[p].at] THEN UNCHANGED dbFaults ELSE DbFault
        /\ Set(p, Job(IF v = "head" THEN "seed"
                      ELSE IF p \in Proc THEN "connect" ELSE "wait",
                      job[p].at, v, IF v = "head" THEN 0 ELSE Ttl))
    /\ UNCHANGED <<mutexVars, dbVars>>

\* The loop "while schema_maxtime > 0"; sys.exit(1) when it ran out.
Connect(p) ==
    /\ At(p, "connect") /\ Working(p)
    /\ \/ /\ job[p].left > 0
          /\ SetTime(p, "upgrade", 0)
          /\ UNCHANGED <<pc, dbFaults>>
       \/ /\ job[p].left > ConnectStep
          /\ DbFault
          /\ SetTime(p, "connect", job[p].left - ConnectStep)
          /\ UNCHANGED pc
       \/ /\ job[p].left \in 1..ConnectStep
          /\ DbFault
          /\ Raise(p)
    /\ UNCHANGED <<key, tries, held, faults, overrun, dbVars>>

\* alembic reads the revision again inside its transaction.
Upgrade(p) ==
    /\ At(p, "upgrade") /\ Working(p)
    /\ SetPhase(p, IF ver[job[p].at] = "head" THEN "seed" ELSE "upgrading")
    /\ UNCHANGED <<mutexVars, dbVars, dbFaults>>

\* The transaction commits, unless someone else made the same tables.
Upgraded(p) ==
    /\ At(p, "upgrading") /\ Working(p)
    /\ IF ver[job[p].at] = "head"
       THEN Raise(p) /\ UNCHANGED ver
       ELSE /\ ver' = [ver EXCEPT ![job[p].at] = "head"]
            /\ SetPhase(p, "seed")
            /\ UNCHANGED pc
    /\ UNCHANGED <<key, tries, held, faults, overrun, seeded, reseeded, dbFaults>>

\* "while version != head and wait_time": version is not read again, and
\* wait_time counts as true while it is not zero.
Untimed(p) == TRUE                                    \* mutant: no wait_time
StillTime(p) == job[p].left # 0

Wait(p) ==
    /\ At(p, "wait") /\ Working(p)
    /\ IF StillTime(p)
       THEN SetTime(p, "wait", IF job[p].left < 0 THEN Overshoot
                               ELSE job[p].left - WaitStep)
       ELSE SetPhase(p, "seed")
    /\ UNCHANGED <<mutexVars, dbVars, dbFaults>>

FirstSchema(p) == job[p].at = 1                       \* mutant: DB_SCHEMAS[0]
LastSchema(p) == job[p].at = Schemas

\* seed_func runs when the version read was None and the schema is the last.
EagerSeeds(p) == job[p].seen = "none" /\ FirstSchema(p)   \* mutant
Seeds(p) == job[p].seen = "none" /\ LastSchema(p)

\* The insert fails on duplicate keys and on missing tables.
SeedFails == seeded \/ \E s \in Schema : ver[s] # "head"

Seed(p) ==
    /\ At(p, "seed") /\ Working(p)
    /\ reseeded' = (reseeded \/ (Seeds(p) /\ seeded))
    /\ IF Seeds(p) /\ SeedFails
       THEN Raise(p) /\ UNCHANGED seeded
       ELSE /\ seeded' = (seeded \/ Seeds(p))
            /\ Set(p, IF LastSchema(p) THEN Ended("done")
                      ELSE Job("read", job[p].at + 1, "none", 0))
            /\ UNCHANGED pc
    /\ UNCHANGED <<key, tries, held, faults, overrun, ver, dbFaults>>

\* The with block ends; after an exception Raise has ended it.
Leave(p) == At(p, "done") /\ Finish(p) /\ UNCHANGED schemaVars

\* A crash rolls the open transaction back.
Restart(p) ==
    /\ \/ p \in Proc /\ Crash(p) /\ UNCHANGED dbFaults
       \/ /\ p \in Waiter
          /\ ~At(p, "off")
          /\ DbFault
          /\ UNCHANGED mutexVars
    /\ Set(p, Off)
    /\ UNCHANGED dbVars

\* The steps of the mutex that leave schema_update alone.
Lock(p) ==
    /\ \/ Start(p) \/ Refused(p) \/ ConnectionError(p)
       \/ ReleaseGet(p) \/ ReleaseDelete(p) \/ ReleaseError(p)
    /\ UNCHANGED schemaVars

Work(p) ==
    \/ Begin(p) \/ ReadVersion(p) \/ Connect(p) \/ Upgrade(p) \/ Upgraded(p)
    \/ Wait(p) \/ Seed(p)

SchemaNext ==
    \/ Tick /\ UNCHANGED schemaVars
    \/ \E p \in Starter : Work(p) \/ Restart(p)
    \/ \E p \in Proc : Lock(p) \/ Leave(p)

SchemaSpec == SchemaInit /\ [][SchemaNext]_vars

\* A process that entered keeps going; a Tick is a second that passes.
Continues(p) ==
    \/ Work(p)
    \/ p \in Proc /\ Leave(p)
    \/ /\ p \in Proc
       /\ Refused(p) \/ ReleaseGet(p) \/ ReleaseDelete(p)
       /\ UNCHANGED schemaVars

FairSchemaSpec ==
    /\ SchemaSpec
    /\ WF_vars(Tick /\ UNCHANGED schemaVars)
    /\ \A p \in Starter : WF_vars(Continues(p))

-----------------------------------------------------------------------------
(***************************************************************************)
(* A migrating process whose initialize_db returned True finds every schema*)
(* at the head revision, whoever brought it there and whatever crashed.    *)
(***************************************************************************)
Up(p) == At(p, "done") /\ pc[p] = "released"
UpMeansCurrent == \A p \in Proc : Up(p) => \A s \in Schema : ver[s] = "head"

(***************************************************************************)
(* When a migrating process is about to insert the seed records, all the   *)
(* tables they go to exist: every schema has been upgraded.                *)
(***************************************************************************)
SeedsCurrentSchemas ==
    \A p \in Proc :
        (At(p, "seed") /\ Seeds(p)) => \A s \in Schema : ver[s] = "head"

(***************************************************************************)
(* A process that only waits comes up in the end (docs: "Maximum time to   *)
(* wait"), with the schema current or not.  Holds when WaitStep divides the*)
(* maximum time; the loop never ends otherwise.                            *)
(***************************************************************************)
WaitEnds == \A p \in Waiter : At(p, "wait") ~> ~At(p, "wait")

(***************************************************************************)
(* seed_func is a "function to seed initial records in blank db"           *)
(* (database.py:129): it never runs on a database that has them.           *)
(***************************************************************************)
SeedsOnlyBlank == ~reseeded
=============================================================================
