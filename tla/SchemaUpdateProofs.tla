------------------------- MODULE SchemaUpdateProofs -------------------------
(***************************************************************************)
(* The schema update uses the mutex as the mutex expects to be used, so it *)
(* inherits mutual exclusion; and a migrating process that came up found   *)
(* every schema current, for any number of processes and schemas.          *)
(*                                                                         *)
(* UpMeansCurrent needs no mutual exclusion: revisions only move to head,  *)
(* and a migrating process passes a schema only when it is there.          *)
(***************************************************************************)
EXTENDS SchemaUpdate, MutexProofs

\* Every step of the schema update is a step of the mutex or leaves it alone.
LEMMA StepOfMutex == ASSUME [SchemaNext]_vars PROVE [Next]_mutexVars
<1> USE DEF mutexVars
<1>1. ASSUME NEW p \in Starter, Raise(p), p \in Proc, pc[p] = "critical",
             UNCHANGED <<key, tries, held, faults, overrun>>
      PROVE  [Next]_mutexVars
  BY <1>1 DEF Raise, Finish, Next
<1>2. ASSUME NEW p \in Starter, Work(p) PROVE [Next]_mutexVars
  <2>1. CASE Begin(p)
    BY <2>1 DEF Begin, Next, MutexStep
  <2>2. CASE ReadVersion(p) \/ Upgrade(p) \/ Wait(p)
    BY <2>2 DEF ReadVersion, Upgrade, Wait
  <2>3. CASE Connect(p) \/ Upgraded(p) \/ Seed(p)
    BY <2>3, <1>1 DEF Connect, Upgraded, Seed, Working, Raise
  <2> QED BY <1>2, <2>1, <2>2, <2>3 DEF Work
<1>3. ASSUME NEW p \in Starter, Restart(p) PROVE [Next]_mutexVars
  BY <1>3 DEF Restart, Next
<1>4. ASSUME NEW p \in Proc, Lock(p) \/ Leave(p) PROVE [Next]_mutexVars
  BY <1>4 DEF Lock, Leave, Next, MutexStep
<1> QED BY <1>2, <1>3, <1>4 DEF SchemaNext, Next, vars

\* The schema update is one of the mutex's behaviours.
THEOREM SchemaUsesMutex == SchemaSpec => Spec
<1>1. SchemaInit => MutexInit
  BY DEF SchemaInit
<1> QED BY <1>1, StepOfMutex, PTL DEF SchemaSpec, Spec

(***************************************************************************)
(* schema_update runs "with mutex for duration of update": no two          *)
(* migrating processes are in it together, until an update takes as long   *)
(* as DB_SCHEMA_MAXTIME, which the retries of connect alone can            *)
(* (database.py:146-154); run long_hold shows what happens then.           *)
(***************************************************************************)
THEOREM UpdatesExcludeEachOther == SchemaSpec => []MutualExclusion
  BY SchemaUsesMutex, MutexExcludes, PTL

\* Until then the mutex is the lock it stands for, whoever calls initialize_db.
THEOREM UpdateImplementsLock == SchemaSpec => Implements
  BY SchemaUsesMutex, MutexImplements, PTL

-----------------------------------------------------------------------------
\* The schemas a process has behind it.
Passed(p, s) == \/ s < job[p].at
                \/ At(p, "seed") /\ s = job[p].at
                \/ At(p, "done")

Shape == ver \in [Schema -> Version] /\ job \in [Starter -> JobType]
NeverWaits == \A p \in Proc : ~At(p, "wait")
CurrentBehind ==
    \A p \in Proc : \A s \in Schema : Passed(p, s) => ver[s] = "head"
ProgressInv == Shape /\ NeverWaits /\ CurrentBehind

\* A process that another one's step leaves alone loses nothing by it.
OnlyForward == \A s \in Schema : ver'[s] \in {ver[s], "head"}

\* The constants and the bound as numbers.
LEMMA Numbers ==
  /\ Schemas \in Nat \ {0}
  /\ Ttl \in Nat
  /\ Overshoot \in Int
  /\ ConnectStep \in Nat
  /\ WaitStep \in Nat
  /\ Overshoot < 0
  BY SchemaAssumption, MutexAssumption DEF Overshoot

LEMMA OthersKeep ==
  ASSUME ProgressInv, OnlyForward, Shape', NEW q \in Proc, job'[q] = job[q]
  PROVE  /\ ~At(q, "wait")'
         /\ (\A s \in Schema : Passed(q, s) => ver[s] = "head")'
  BY SchemaAssumption
  DEF ProgressInv, Shape, NeverWaits, CurrentBehind, OnlyForward, At, Passed,
      Starter, Schema, Phase

\* A process changes its own job only, and a revision only to head.
LEMMA WorkKeepsShape ==
  ASSUME ProgressInv, NEW p \in Starter, Work(p) \/ Restart(p)
  PROVE  /\ Shape'
         /\ OnlyForward
         /\ \A q \in Starter \ {p} : job'[q] = job[q]
<1> USE DEF ProgressInv, Shape, OnlyForward, Set
<1>1. ASSUME NEW j \in JobType, Set(p, j), ver' = ver
      PROVE  Shape' /\ OnlyForward /\ \A q \in Starter \ {p} : job'[q] = job[q]
  BY <1>1
<1>2. /\ job[p].phase \in Phase /\ job[p].at \in 1..Schemas
      /\ job[p].seen \in Version /\ job[p].left \in Overshoot..Ttl
  BY DEF JobType, Schema
<1>3. \A ph \in Phase, at \in Schema, v \in Version, l \in Overshoot..Ttl :
        Job(ph, at, v, l) \in JobType
  BY DEF JobType, Job
<1>4. \A ph \in Phase : Ended(ph) \in JobType
  BY <1>3, Numbers DEF Ended, Schema, Version
<1>5. CASE Begin(p)
  BY <1>1, <1>4, <1>5 DEF Begin, Fresh, dbVars, Phase
<1>6. CASE ReadVersion(p)
  BY <1>1, <1>2, <1>3, <1>6, Numbers DEF ReadVersion, dbVars, Phase, Version, Schema
<1>7. CASE Connect(p)
  <2>1. CASE Raise(p)
    BY <1>1, <1>4, <1>7, <2>1 DEF Connect, Raise, dbVars, Phase
  <2>2. CASE SetTime(p, "upgrade", 0)
    BY <1>1, <1>2, <1>3, <1>7, <2>2, Numbers DEF Connect, SetTime, dbVars, Phase, Schema
  <2>3. CASE job[p].left > ConnectStep /\ SetTime(p, "connect", job[p].left - ConnectStep)
    BY <1>1, <1>2, <1>3, <1>7, <2>3, Numbers DEF Connect, SetTime, dbVars, Phase, Schema
  <2> QED BY <1>7, <2>1, <2>2, <2>3 DEF Connect
<1>8. CASE Upgrade(p)
  BY <1>1, <1>2, <1>3, <1>8 DEF Upgrade, SetPhase, SetTime, dbVars, Phase, Schema
<1>9. CASE Upgraded(p)
  <2>1. CASE Raise(p) /\ ver' = ver
    BY <1>1, <1>4, <2>1 DEF Raise, Phase
  <2>2. CASE SetPhase(p, "seed") /\ ver' = [ver EXCEPT ![job[p].at] = "head"]
    <3>1. Job("seed", job[p].at, job[p].seen, job[p].left) \in JobType
      BY <1>2, <1>3 DEF Phase, Schema
    <3> QED BY <2>2, <3>1 DEF SetPhase, SetTime, Version
  <2> QED BY <1>9, <2>1, <2>2 DEF Upgraded
<1>10. CASE Wait(p)
  <2>1. CASE SetPhase(p, "seed")
    BY <1>1, <1>2, <1>3, <1>10, <2>1 DEF Wait, SetPhase, SetTime, dbVars, Phase, Schema
  <2>2. CASE \E l \in Overshoot..Ttl : SetTime(p, "wait", l)
    BY <1>1, <1>2, <1>3, <1>10, <2>2 DEF Wait, SetTime, dbVars, Phase, Schema
  <2>3. ~(job[p].left < 0) /\ job[p].left # 0 => job[p].left - WaitStep \in Overshoot..Ttl
    BY <1>2, Numbers DEF Overshoot
  <2>4. Overshoot \in Overshoot..Ttl
    BY Numbers
  <2> QED BY <1>10, <2>1, <2>2, <2>3, <2>4 DEF Wait, StillTime
<1>11. CASE Seed(p)
  BY <1>1, <1>2, <1>3, <1>4, <1>11, Numbers
  DEF Seed, Raise, LastSchema, Phase, Version, Schema
<1>12. CASE Restart(p)
  BY <1>1, <1>4, <1>12 DEF Restart, Off, dbVars, Phase
<1> QED BY <1>5, <1>6, <1>7, <1>8, <1>9, <1>10, <1>11, <1>12 DEF Work

\* The working process itself passes a schema only when it is current.
LEMMA WorkerPassesCurrent ==
  ASSUME ProgressInv, NEW p \in Proc, Work(p) \/ Restart(p)
  PROVE  /\ ~At(p, "wait")'
         /\ (\A s \in Schema : Passed(p, s) => ver[s] = "head")'
<1>1. p \in Starter
  BY DEF Starter
<1>2. Shape' /\ OnlyForward
  BY <1>1, WorkKeepsShape
<1> USE <1>1, <1>2, SchemaAssumption
    DEF ProgressInv, Shape, NeverWaits, CurrentBehind, OnlyForward, Passed, SetPhase,
        SetTime, Ended, Schema, At
<1>3. job[p].at \in 1..Schemas
  BY DEF JobType
<1>4. \A ph, at, v, l : Job(ph, at, v, l).phase = ph /\ Job(ph, at, v, l).at = at
  BY DEF Job
<1>5. ASSUME NEW j, Set(p, j) PROVE job'[p] = j
  BY <1>5 DEF Set
<1>6. CASE Begin(p) \/ Restart(p) \/ Raise(p)
  <2>1. \E ph \in {"read", "off", "failed"} : job'[p] = Job(ph, 1, "none", 0)
    BY <1>5, <1>6 DEF Begin, Restart, Raise, Fresh, Off
  <2> QED BY <1>4, <2>1, Numbers
<1>7. CASE ReadVersion(p)
  BY <1>3, <1>4, <1>5, <1>7 DEF ReadVersion, dbVars
<1>8. CASE Connect(p) /\ ~Raise(p)
  BY <1>3, <1>4, <1>5, <1>8 DEF Connect, dbVars
<1>9. CASE Upgrade(p)
  BY <1>3, <1>4, <1>5, <1>9 DEF Upgrade, dbVars
<1>10. CASE Upgraded(p) /\ ~Raise(p)
  BY <1>3, <1>4, <1>5, <1>10 DEF Upgraded
<1>11. CASE Wait(p)
  BY <1>11 DEF Wait
<1>12. CASE Seed(p) /\ ~Raise(p)
  BY <1>3, <1>4, <1>5, <1>12, Numbers DEF Seed, LastSchema
<1> QED BY <1>6, <1>7, <1>8, <1>9, <1>10, <1>11, <1>12 DEF Work

LEMMA ProgressInductive ==
  ASSUME ProgressInv, [SchemaNext]_vars PROVE ProgressInv'
<1>1. ASSUME NEW p \in Starter, Work(p) \/ Restart(p) PROVE ProgressInv'
  <2>1. Shape' /\ OnlyForward /\ \A q \in Starter \ {p} : job'[q] = job[q]
    BY <1>1, WorkKeepsShape
  <2>2. ASSUME NEW q \in Proc
        PROVE  /\ ~At(q, "wait")'
               /\ (\A s \in Schema : Passed(q, s) => ver[s] = "head")'
    <3>1. CASE q = p
      BY <1>1, <3>1, WorkerPassesCurrent
    <3>2. CASE q # p
      BY <2>1, <3>2, OthersKeep DEF Starter
    <3> QED BY <3>1, <3>2
  <2> QED BY <2>1, <2>2 DEF ProgressInv, NeverWaits, CurrentBehind
<1>2. CASE UNCHANGED schemaVars
  BY <1>2 DEF schemaVars, dbVars, ProgressInv, Shape, NeverWaits, CurrentBehind,
              Passed, At
<1> QED BY <1>1, <1>2 DEF SchemaNext, Lock, Leave, vars

LEMMA ProgressInvariant == SchemaSpec => []ProgressInv
<1>1. SchemaInit => ProgressInv
  <2> SUFFICES ASSUME SchemaInit PROVE ProgressInv
    OBVIOUS
  <2>1. Off \in JobType /\ Off.phase = "off" /\ Off.at = 1
    BY Numbers DEF Off, Ended, Job, JobType, Phase, Version, Schema
  <2>2. Shape
    BY <2>1 DEF SchemaInit, Shape, Schema
  <2> QED
    BY <2>1, <2>2, Numbers
    DEF SchemaInit, ProgressInv, NeverWaits, CurrentBehind, Passed, At, Starter, Schema
<1> QED BY <1>1, ProgressInductive, PTL DEF SchemaSpec

(***************************************************************************)
(* initialize_db returns True to a migrating process only when every schema*)
(* is at the head revision.                                                *)
(***************************************************************************)
THEOREM MigratorComesUpCurrent == SchemaSpec => []UpMeansCurrent
<1>1. ProgressInv => UpMeansCurrent
  BY DEF ProgressInv, CurrentBehind, UpMeansCurrent, Up, Passed, At
<1> QED BY <1>1, ProgressInvariant, PTL

\* seed_new_db inserts into tables that exist.
THEOREM MigratorSeedsCurrent == SchemaSpec => []SeedsCurrentSchemas
<1>1. ProgressInv => SeedsCurrentSchemas
  BY Numbers
  DEF ProgressInv, CurrentBehind, SeedsCurrentSchemas, Seeds, LastSchema,
      Passed, Schema, At, Shape, JobType, Starter
<1> QED BY <1>1, ProgressInvariant, PTL
-----------------------------------------------------------------------------
\* What ProgressInv leaves out of the types: the flags and the budget of errors.
FlagsInv == seeded \in BOOLEAN /\ reseeded \in BOOLEAN /\ dbFaults \in 0..MaxDbFaults

LEMMA FlagsKept ==
  ASSUME FlagsInv, [SchemaNext]_vars
  PROVE  FlagsInv'
<1> USE DEF FlagsInv
<1>1. ASSUME UNCHANGED dbFaults \/ DbFault PROVE dbFaults' \in 0..MaxDbFaults
  BY <1>1, SchemaAssumption DEF DbFault
<1>2. ASSUME NEW p \in Starter, Work(p) \/ Restart(p) PROVE FlagsInv'
  <2>1. UNCHANGED dbFaults \/ DbFault
    BY <1>2 DEF Work, Restart, Begin, ReadVersion, Connect, Upgrade, Upgraded, Wait, Seed
  <2>2. CASE UNCHANGED <<seeded, reseeded>>
    BY <2>1, <2>2, <1>1
  <2>3. CASE Seed(p)
    <3>1. reseeded' \in BOOLEAN /\ seeded' \in BOOLEAN
      BY <2>3 DEF Seed
    <3> QED BY <2>1, <3>1, <1>1
  <2> QED BY <1>2, <2>2, <2>3 DEF Work, Restart, Begin, ReadVersion, Connect, Upgrade,
                                   Upgraded, Wait, dbVars
<1>3. CASE UNCHANGED schemaVars
  BY <1>3 DEF schemaVars, dbVars
<1> QED BY <1>2, <1>3 DEF SchemaNext, Lock, Leave, vars

\* Everything the schema update keeps, its mutex included, stays of its type,
\* the times a migrating or waiting process counts down in particular.
THEOREM SchemaTypes == SchemaSpec => []SchemaTypeOK
<1>1. SchemaInit => FlagsInv
  <2> SUFFICES ASSUME SchemaInit PROVE FlagsInv
    OBVIOUS
  <2>1. seeded \in BOOLEAN
    <3>1. seeded = (ver[1] # "none")
      BY DEF SchemaInit
    <3> QED BY <3>1
  <2>2. reseeded \in BOOLEAN
    BY Zenon DEF SchemaInit
  <2>3. dbFaults \in 0..MaxDbFaults
    BY SchemaAssumption DEF SchemaInit
  <2> QED BY <2>1, <2>2, <2>3 DEF FlagsInv
<1>2. FlagsInv /\ [SchemaNext]_vars => FlagsInv'
  BY FlagsKept
<1>3. SchemaSpec => []FlagsInv
  BY <1>1, <1>2, PTL DEF SchemaSpec
<1>4. MutexTypeOK /\ ProgressInv /\ FlagsInv => SchemaTypeOK
  BY DEF ProgressInv, Shape, FlagsInv, SchemaTypeOK
<1> QED BY <1>3, <1>4, ProgressInvariant, SchemaUsesMutex, MutexTypes, PTL
=============================================================================
