---------------------------- MODULE MutexProofs ----------------------------
(***************************************************************************)
(* Mutual exclusion of the redis mutex for any set of processes, any life  *)
(* of the key, any number of attempts, crashes and connection errors: it   *)
(* lasts until a hold outlasts its key, which the code does not prevent.   *)
(*                                                                         *)
(* The invariant ties the three clocks together: until then whoever is     *)
(* inside owns the key, and what is left of the key's life is what it has  *)
(* not used.                                                               *)
(***************************************************************************)
EXTENDS Mutex, TLAPS

LeaseKept ==
    ~overrun => \A p \in holders : /\ key.owner = p
                                   /\ key.left = Ttl - held[p]
                                   /\ held[p] < Ttl
TriesLeft == \A p \in Proc : pc[p] = "try" => tries[p] < MaxWait

MutexInv == MutexTypeOK /\ LeaseKept /\ TriesLeft

\* The lock is free at first and every process is at rest.
LEMMA MutexInitial == MutexInit => MutexInv
<1> SUFFICES ASSUME MutexInit PROVE MutexInv
  OBVIOUS
<1>1. overrun \in BOOLEAN
  BY Zenon DEF MutexInit
<1>2. holders = {}
  BY DEF MutexInit, holders, Inside
<1>3. MutexTypeOK /\ TriesLeft
  BY <1>1, MutexAssumption DEF MutexInit, MutexTypeOK, TriesLeft, Absent, Rest
<1> QED BY <1>2, <1>3 DEF MutexInv, LeaseKept

\* A second passes: key.left and the holder's share of it fall together.
LEMMA TickKeeps ==
  ASSUME MutexInv, Tick
  PROVE  MutexInv'
<1> USE DEF MutexInv
<1>1. MutexTypeOK'
  <2>1. key' \in [owner : Proc, left : 1..Ttl] \cup {Absent}
    BY MutexAssumption DEF MutexTypeOK, Tick, Aged, Absent
  <2>2. pc' \in [Proc -> Rest \cup Inside \cup {"try", "asleep"}]
    BY DEF MutexTypeOK, Tick, Awake, Rest
  <2>3. held' \in [Proc -> 0..MaxHold]
    BY MutexAssumption DEF MutexTypeOK, Tick, holders
  <2>4. overrun' \in BOOLEAN
    BY Zenon DEF MutexTypeOK, Tick
  <2> QED BY <2>1, <2>2, <2>3, <2>4 DEF MutexTypeOK, Tick
<1>2. TriesLeft'
  BY MutexAssumption DEF MutexTypeOK, TriesLeft, Tick, Awake
<1>3. LeaseKept'
  <2>1. holders' = holders
    BY DEF MutexTypeOK, Tick, Awake, holders, Inside
  <2>2. ASSUME ~overrun', NEW p \in holders
        PROVE  key'.owner = p /\ key'.left = Ttl - held'[p] /\ held'[p] < Ttl
    <3>1. ~overrun /\ ~(held[p] + 1 >= Ttl)
      BY <2>2 DEF Tick
    <3>2. p \in Proc /\ held[p] \in Nat /\ held'[p] = held[p] + 1
      BY MutexAssumption DEF MutexTypeOK, Tick, holders
    <3>3. key.owner = p /\ key.left = Ttl - held[p]
      BY <3>1 DEF LeaseKept
    <3>4. key.left > 1
      BY <3>1, <3>2, <3>3, MutexAssumption
    <3>5. key \in [owner : Proc, left : 1..Ttl]
      BY <3>2, <3>3, MutexAssumption DEF MutexTypeOK, Absent
    <3>6. key' = [key EXCEPT !.left = key.left - 1]
      BY <3>4, <3>5 DEF Tick, Aged
    <3> QED BY <3>1, <3>2, <3>3, <3>5, <3>6, MutexAssumption
  <2> QED BY <2>1, <2>2 DEF LeaseKept
<1> QED BY <1>1, <1>2, <1>3

\* acquire(): only a free key is taken, so no holder's key is replaced.
LEMMA AcquireKeeps ==
  ASSUME MutexInv, NEW p \in Proc,
         Start(p) \/ Acquire(p) \/ Refused(p) \/ ConnectionError(p)
  PROVE  MutexInv'
<1> USE DEF MutexInv, MutexTypeOK, LeaseKept, TriesLeft, Absent, Rest, Inside, holders,
            Goto, Return, Fault
<1>1. CASE Start(p)
  BY <1>1, MutexAssumption DEF Start
<1>2. CASE Acquire(p)
  BY <1>2, MutexAssumption DEF Acquire, Locked
<1>3. CASE Refused(p)
  BY <1>3, MutexAssumption DEF Refused, RetryLater
<1>4. CASE ConnectionError(p)
  BY <1>4, MutexAssumption DEF ConnectionError, RetryLater, Locked
<1> QED BY <1>1, <1>2, <1>3, <1>4

\* The body and release(): a process deletes the key only while it owns it.
LEMMA ReleaseKeeps ==
  ASSUME MutexInv, NEW p \in Proc,
         \/ Finish(p) \/ ReleaseGet(p) \/ ReleaseDelete(p) \/ ReleaseError(p)
         \/ Crash(p)
  PROVE  MutexInv'
<1> USE DEF MutexInv, MutexTypeOK, LeaseKept, TriesLeft, Absent, Rest, Inside, holders,
            Goto, Return, Fault
<1>1. CASE Finish(p)
  BY <1>1, MutexAssumption DEF Finish
<1>2. CASE ReleaseGet(p)
  BY <1>2, MutexAssumption DEF ReleaseGet
<1>3. CASE ReleaseDelete(p)
  <2>1. ~overrun => key.owner = p
    BY <1>3 DEF ReleaseDelete
  <2>2. ~overrun => \A q \in Proc \ {p} : pc[q] \notin Inside
    BY <2>1
  <2> QED BY <1>3, <2>2, MutexAssumption DEF ReleaseDelete
<1>4. CASE ReleaseError(p)
  <2>1. ~overrun => key.owner = p
    BY <1>4 DEF ReleaseError
  <2>2. ~overrun => \A q \in Proc \ {p} : pc[q] \notin Inside
    BY <2>1
  <2> QED BY <1>4, <2>2, MutexAssumption DEF ReleaseError
<1>5. CASE Crash(p)
  BY <1>5, MutexAssumption DEF Crash
<1> QED BY <1>1, <1>2, <1>3, <1>4, <1>5

\* Every step of the mutex keeps the invariant.
LEMMA MutexInvInductive ==
  ASSUME MutexInv, [Next]_mutexVars
  PROVE  MutexInv'
<1>1. CASE Next
  BY <1>1, TickKeeps, AcquireKeeps, ReleaseKeeps DEF Next, MutexStep
<1>2. CASE UNCHANGED mutexVars
  BY <1>2 DEF mutexVars, MutexInv, MutexTypeOK, LeaseKept, TriesLeft, holders
<1> QED BY <1>1, <1>2

LEMMA MutexInvariant == Spec => []MutexInv
<1>1. MutexInv /\ [Next]_mutexVars => MutexInv'
  BY MutexInvInductive
<1> QED BY <1>1, MutexInitial, PTL DEF Spec

-----------------------------------------------------------------------------
\* Types alone: an attempt is made only while some are left.
LEMMA TypesKept ==
  ASSUME MutexTypeOK, TriesLeft, [Next]_mutexVars
  PROVE  MutexTypeOK' /\ TriesLeft'
<1> USE DEF MutexTypeOK, TriesLeft, Absent, Rest, Inside, holders, Goto, Return, Fault
<1>1. CASE Tick
  BY <1>1, MutexAssumption DEF Tick, Aged, Awake
<1>2. ASSUME NEW p \in Proc, MutexStep(p) \/ Finish(p) \/ Crash(p)
      PROVE  MutexTypeOK' /\ TriesLeft'
  <2>1. CASE Start(p) \/ Acquire(p)
    BY <2>1, MutexAssumption DEF Start, Acquire, Locked
  <2>2. CASE Refused(p) \/ ConnectionError(p)
    BY <2>2, MutexAssumption DEF Refused, ConnectionError, RetryLater, Locked
  <2>3. CASE Finish(p) \/ Crash(p)
    BY <2>3, MutexAssumption DEF Finish, Crash
  <2>4. CASE ReleaseGet(p) \/ ReleaseDelete(p) \/ ReleaseError(p)
    BY <2>4, MutexAssumption DEF ReleaseGet, ReleaseDelete, ReleaseError
  <2> QED BY <1>2, <2>1, <2>2, <2>3, <2>4 DEF MutexStep
<1>3. CASE UNCHANGED mutexVars
  BY <1>3 DEF mutexVars
<1> QED BY <1>1, <1>2, <1>3 DEF Next

\* The variables of the mutex keep to their types in every behaviour.
THEOREM MutexTypes == Spec => []MutexTypeOK
<1>1. MutexInit => MutexTypeOK /\ TriesLeft
  BY MutexInitial DEF MutexInv
<1>2. MutexTypeOK /\ TriesLeft /\ [Next]_mutexVars => MutexTypeOK' /\ TriesLeft'
  BY TypesKept
<1> QED BY <1>1, <1>2, PTL DEF Spec

LEMMA OwnerIsAlone == ASSUME MutexInv PROVE MutualExclusion
  BY DEF MutexInv, LeaseKept, MutualExclusion

(***************************************************************************)
(* "with Mutex(...)" excludes: until a hold outlasts its key no two        *)
(* processes are inside together, whatever fails.                          *)
(***************************************************************************)
THEOREM MutexExcludes == Spec => []MutualExclusion
<1>1. MutexInv => MutualExclusion
  BY OwnerIsAlone
<1> QED BY <1>1, MutexInvariant, PTL

\* One step of the mutex is one step, or none, of the abstract lock.
LEMMA StepImplements ==
  ASSUME MutexInv, MutexInv', [Next]_mutexVars
  PROVE  [AbstractLock!Next]_inside
<1> USE DEF inside, holders, Inside, Rest, Goto, Return, MutexInv, MutexTypeOK
<1>1. CASE UNCHANGED mutexVars
  BY <1>1 DEF mutexVars
<1>2. CASE Tick
  <2>1. holders' = holders
    BY <1>2 DEF Tick, Awake
  <2>2. CASE overrun' = overrun
    BY <2>1, <2>2
  <2>3. CASE overrun' # overrun
    <3>1. ~overrun /\ overrun'
      BY <1>2, <2>3 DEF Tick
    <3>2. PICK p \in Proc : p \in holders
      BY <1>2, <3>1 DEF Tick
    <3>3. inside = {p}
      BY <3>1, <3>2, OwnerIsAlone DEF MutualExclusion
    <3> QED BY <3>1, <3>3 DEF AbstractLock!Next, AbstractLock!Leave
  <2> QED BY <2>2, <2>3
<1>3. ASSUME NEW p \in Proc, Acquire(p)
      PROVE  [AbstractLock!Next]_inside
  <2>1. overrun' = overrun
    BY <1>3 DEF Acquire
  <2>2. ~overrun => holders = {}
    BY <1>3, MutexAssumption DEF Acquire, LeaseKept, Absent
  <2>3. ~overrun => holders' = {p}
    BY <1>3, <2>2 DEF Acquire
  <2> QED BY <2>1, <2>2, <2>3 DEF AbstractLock!Next, AbstractLock!Enter
<1>4. ASSUME NEW p \in Proc,
             Start(p) \/ Refused(p) \/ ConnectionError(p) \/ Finish(p)
      PROVE  UNCHANGED inside
  BY <1>4 DEF Start, Refused, ConnectionError, RetryLater, Finish
<1>5. ASSUME NEW p \in Proc,
             ReleaseGet(p) \/ ReleaseDelete(p) \/ ReleaseError(p) \/ Crash(p)
      PROVE  [AbstractLock!Next]_inside
  <2>1. overrun' = overrun
    BY <1>5 DEF ReleaseGet, ReleaseDelete, ReleaseError, Crash
  <2>2. ~overrun => (p \in holders => holders = {p})
    BY OwnerIsAlone DEF MutualExclusion
  <2>3. \A q \in Proc \ {p} : pc'[q] = pc[q]
    BY <1>5 DEF ReleaseGet, ReleaseDelete, ReleaseError, Crash
  <2>4. holders' = holders \/ (p \in holders /\ holders' = holders \ {p})
    BY <1>5, <2>3 DEF ReleaseGet, ReleaseDelete, ReleaseError, Crash
  <2> QED BY <2>1, <2>2, <2>4 DEF AbstractLock!Next, AbstractLock!Leave
<1> QED BY <1>1, <1>2, <1>3, <1>4, <1>5 DEF Next, MutexStep

\* The redis mutex implements the abstract lock, given up for good by the first
\* hold that outlasts its key.
THEOREM MutexImplements == Spec => Implements
<1>1. MutexInit => AbstractLock!Init
  BY DEF MutexInit, AbstractLock!Init, inside, holders, Inside
<1>2. MutexInv /\ MutexInv' /\ [Next]_mutexVars => [AbstractLock!Next]_inside
  BY StepImplements
<1> QED BY <1>1, <1>2, MutexInvariant, PTL DEF Spec, Implements, AbstractLock!Spec
=============================================================================
