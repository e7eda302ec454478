------------------------------- MODULE Mutex -------------------------------
(***************************************************************************)
(* The redis mutex of session_manager.py: one key 'mutex:<lockname>' whose *)
(* value is the signature of its owner and which redis drops Ttl seconds   *)
(* after it was set.  Each redis command is one atomic step; the processes *)
(* (uwsgi workers and celery) interleave between commands.                 *)
(*                                                                         *)
(* A signature belongs to one Mutex object, so it is identified with the   *)
(* process that uses the object.  Tick is the passing of one second.       *)
(***************************************************************************)
EXTENDS Integers

CONSTANTS
    Proc,      \* the processes that contend for the lock
    NoProc,    \* the owner of an absent key
    Ttl,       \* seconds before redis drops the key
    MaxWait,   \* attempts of acquire(), one second apart
    MaxHold,   \* bound: seconds a process takes from acquire to release
    MaxFaults  \* bound: crashes and redis connection errors

ASSUME MutexAssumption ==
    /\ NoProc \notin Proc
    /\ Ttl \in Nat \ {0}
    /\ MaxWait \in Nat \ {0}
    /\ MaxHold \in Nat
    /\ MaxFaults \in Nat

VARIABLES
    key,    \* the redis key: its owner's signature and its remaining life
    pc,     \* where each process is in acquire, the body or release
    tries,  \* the retry counter of acquire
    held,   \* seconds since the process acquired the lock
    faults, \* faults that happened so far
    overrun \* history: a hold has lasted as long as its key

mutexVars == <<key, pc, tries, held, faults, overrun>>

Absent == [owner |-> NoProc, left |-> 0]
ShortLocked(p) == [owner |-> p, left |-> 1]           \* mutant: ttl not passed on
Locked(p) == [owner |-> p, left |-> Ttl]

Rest   == {"idle", "released", "timedout", "broken"}
Inside == {"critical", "release", "delete"}

Goto(p, label) == pc' = [pc EXCEPT ![p] = label]

\* A call begins or ends: its local variables start afresh.
Return(p, label) ==
    /\ Goto(p, label)
    /\ tries' = [tries EXCEPT ![p] = 0]
    /\ held' = [held EXCEPT ![p] = 0]

\* A transient failure: it uses up one unit of the fault budget.
Fault == faults < MaxFaults /\ faults' = faults + 1

\* The processes between acquire() and the end of release().
holders == {p \in Proc : pc[p] \in Inside}

MutexTypeOK ==
    /\ key \in [owner : Proc, left : 1..Ttl] \cup {Absent}
    /\ pc \in [Proc -> Rest \cup Inside \cup {"try", "asleep"}]
    /\ tries \in [Proc -> 0..MaxWait]
    /\ held \in [Proc -> 0..MaxHold]
    /\ faults \in 0..MaxFaults
    /\ overrun \in BOOLEAN

MutexInit ==
    /\ key = Absent
    /\ pc = [p \in Proc |-> "idle"]
    /\ tries = [p \in Proc |-> 0]
    /\ held = [p \in Proc |-> 0]
    /\ faults = 0
    /\ overrun = FALSE

-----------------------------------------------------------------------------
(***************************************************************************)
(* acquire(): SET key signature EX ttl NX, at most MaxWait times.          *)
(***************************************************************************)
Start(p) ==
    /\ pc[p] \in Rest
    /\ Return(p, "try")
    /\ UNCHANGED <<key, faults, overrun>>

UncheckedAcquire(p) ==                                \* mutant: SET without NX
    /\ pc[p] = "try"
    /\ key' = Locked(p)
    /\ Return(p, "critical")
    /\ UNCHANGED <<faults, overrun>>

Acquire(p) ==
    /\ pc[p] = "try"
    /\ key = Absent
    /\ key' = Locked(p)
    /\ Return(p, "critical")
    /\ UNCHANGED <<faults, overrun>>

UncountedRetry(p) ==                                  \* mutant: "while True"
    /\ pc[p] = "try"
    /\ Goto(p, "asleep")
    /\ UNCHANGED <<tries, held, overrun>>

\* The attempt did not return true: sleep a second and count it.
RetryLater(p) ==
    /\ pc[p] = "try"
    /\ Goto(p, "asleep")
    /\ tries' = [tries EXCEPT ![p] = @ + 1]
    /\ UNCHANGED <<held, overrun>>

Refused(p) ==
    /\ key # Absent
    /\ RetryLater(p)
    /\ UNCHANGED <<key, faults>>

\* A swallowed ConnectionError, before or after redis executed the SET.
ConnectionError(p) ==
    /\ Fault
    /\ RetryLater(p)
    /\ key' \in {key, IF key = Absent THEN Locked(p) ELSE key}

-----------------------------------------------------------------------------
(***************************************************************************)
(* release(): GET and compare the signature, then DELETE.                  *)
(***************************************************************************)
Finish(p) ==
    /\ pc[p] = "critical"
    /\ Goto(p, "release")
    /\ UNCHANGED <<key, tries, held, faults, overrun>>

\* Another signature raises TimeoutError; a missing key has no .decode().
ReleaseGet(p) ==
    /\ pc[p] = "release"
    /\ IF key.owner = p
       THEN Goto(p, "delete") /\ UNCHANGED <<tries, held>>
       ELSE Return(p, IF key = Absent THEN "broken" ELSE "timedout")
    /\ UNCHANGED <<key, faults, overrun>>

\* DELETE does not look at the signature again.
ReleaseDelete(p) ==
    /\ pc[p] = "delete"
    /\ Return(p, IF key = Absent THEN "timedout" ELSE "released")
    /\ key' = Absent
    /\ UNCHANGED <<faults, overrun>>

\* A connection error in release() is not caught.
ReleaseError(p) ==
    /\ pc[p] \in {"release", "delete"}
    /\ Fault
    /\ Return(p, "broken")
    /\ key' \in {key, IF pc[p] = "delete" THEN Absent ELSE key}
    /\ UNCHANGED overrun

Crash(p) ==
    /\ pc[p] \notin Rest
    /\ Fault
    /\ Return(p, "idle")
    /\ UNCHANGED <<key, overrun>>

\* A sleeper wakes; after its last attempt acquire raises TimeoutError.
Awake(p) ==
    IF pc[p] # "asleep" THEN pc[p]
    ELSE IF tries[p] < MaxWait THEN "try" ELSE "timedout"

\* A second less to live; redis drops the key when it has none left.
Immortal == key                                       \* mutant: SET without EX
Undead == IF key.left <= 0 THEN Absent ELSE [key EXCEPT !.left = @ - 1]  \* mutant
Aged == IF key.left <= 1 THEN Absent ELSE [key EXCEPT !.left = @ - 1]

Tick ==
    /\ \A p \in holders : held[p] < MaxHold
    /\ key' = Aged
    /\ held' = [p \in Proc |-> IF pc[p] \in Inside THEN held[p] + 1 ELSE held[p]]
    /\ pc' = [p \in Proc |-> Awake(p)]
    /\ overrun' = (overrun \/ \E p \in holders : held[p] + 1 >= Ttl)
    /\ UNCHANGED <<tries, faults>>

-----------------------------------------------------------------------------
\* Steps of acquire and of release, without the body between them.
MutexStep(p) ==
    \/ Start(p) \/ Acquire(p) \/ Refused(p) \/ ConnectionError(p)
    \/ ReleaseGet(p) \/ ReleaseDelete(p) \/ ReleaseError(p)

Next == Tick \/ \E p \in Proc : MutexStep(p) \/ Finish(p) \/ Crash(p)

Spec == MutexInit /\ [][Next]_mutexVars

\* time.sleep returns, redis answers, and the body (a schema update) ends.
Progress(p) ==
    Acquire(p) \/ Refused(p) \/ Finish(p) \/ ReleaseGet(p) \/ ReleaseDelete(p)

FairSpec ==
    /\ Spec
    /\ WF_mutexVars(Tick)
    /\ \A p \in Proc : WF_mutexVars(Progress(p))

-----------------------------------------------------------------------------
(***************************************************************************)
(* As long as no hold has outlasted its key, two processes are never both  *)
(* between acquire() and the end of release(), whatever crashes, lost      *)
(* replies and connection errors happen.                                   *)
(***************************************************************************)
MutualExclusion == ~overrun => \A p, q \in holders : p = q

\* acquire() returns or raises TimeoutError, however busy the lock is.
AcquireReturns ==
    \A p \in Proc : pc[p] = "try" ~> pc[p] \notin {"try", "asleep"}

\* Crashes and lost replies never leave the lock taken for good.
LockRecovers == key # Absent ~> key = Absent

(***************************************************************************)
(* Until then "with Mutex(...)" implements the abstract lock, which counts *)
(* as given up by the first hold that outlasts its key, and is not taken   *)
(* again.                                                                  *)
(***************************************************************************)
inside == IF overrun THEN {} ELSE holders
AbstractLock == INSTANCE Lock WITH Proc <- Proc, inside <- inside
Implements == AbstractLock!Spec
=============================================================================
