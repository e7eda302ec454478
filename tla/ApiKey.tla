------------------------------- MODULE ApiKey -------------------------------
(***************************************************************************)
(* Access with one API key of one user.  Each process keeps what it read   *)
(* of the key and its owner for REDIS_TTL, in APIKEYS; the session the key *)
(* stands for is in redis, for all of them.  The secret is the right one.  *)
(*                                                                         *)
(* A request takes less than the unit of time.                             *)
(***************************************************************************)
EXTENDS Integers, FiniteSets

CONSTANTS
    Worker,      \* processes; each serves one request at a time
    Scope,       \* scopes a key may be given
    Edits,       \* what an update may make of the key: [active, scopes]
    Owner,       \* what its owner's account may be: [active, admin, totp]
    TableTtl,    \* config.REDIS_TTL, of an entry of APIKEYS
    KeyTtl,      \* the duration of its session
    KeyEnds,     \* when the key expires
    MfaApikey,   \* config.LOGIN_MFA_APIKEY
    MfaNeeded,   \* config.LOGIN_MFA_REQUIRED
    NoEntry,     \* no entry, no session
    MaxHour      \* bound: the model stops here

ASSUME ApiKeyAssumption ==
    /\ IsFiniteSet(Worker) /\ Worker # {}
    /\ Edits \subseteq [active : BOOLEAN, scopes : SUBSET Scope]
    /\ TableTtl \in Nat /\ KeyTtl \in Nat \ {0}
    /\ KeyEnds \in Nat /\ MaxHour \in Nat
    /\ MfaApikey \in BOOLEAN /\ MfaNeeded \in BOOLEAN

VARIABLES
    hour,     \* time
    key,      \* the key in the database: active, its scopes, the time it ends
    owner,    \* its owner's account: active, an administrator, with TOTP
    table,    \* per process: its entry of APIKEYS
    session,  \* the session in redis
    access,    \* per process: the request in progress
    last,     \* when the key was last good, with each scope, and when its owner
              \* was last an administrator
    refused   \* requests with a good key refused since the session was made

apiKeyVars == <<hour, key, owner, table, session, access, last, refused>>

NoAccess == [at |-> "idle"]
AtStep(p, at) == access[p].at = at
Finished(p) == access' = [access EXCEPT ![p] = NoAccess]

Good == key.active /\ key.until >= hour /\ owner.active
Privileges == Scope \cup {"access", "admin"}
\* What the key allows now.
Allowed == IF ~Good THEN {}
           ELSE {"access"} \cup key.scopes \cup (IF owner.admin THEN {"admin"} ELSE {})

ApiKeyInit ==
    /\ hour = 0
    /\ key \in [active : {TRUE}, scopes : {Scope}, until : {KeyEnds}]
    /\ owner \in {o \in Owner : o.active}
    /\ table = [p \in Worker |-> NoEntry]
    /\ session = NoEntry
    /\ access = [p \in Worker |-> NoAccess]
    /\ last = [x \in Privileges |-> -(TableTtl + KeyTtl + 1)]  \* before all that counts
    /\ refused = 0

\* The history of what was allowed, kept at every change of it.
Remembered == [x \in Privileges |-> IF x \in Allowed THEN hour ELSE last[x]]

-----------------------------------------------------------------------------
(* APIKey.access *)

Overdue(p) == FALSE                                  \* mutant: never read again
Stale(p) == hour > table[p].until
NeedsRead(p) == table[p] # NoEntry => Stale(p)

\* apikey_verify and the owner's account; a key that is not good is refused, and
\* so is any when the database fails.
Verify(p) ==
    /\ AtStep(p, "idle") /\ NeedsRead(p)
    /\ \/ /\ Good
          /\ table' = [table EXCEPT ![p] =
                [until |-> hour + TableTtl, scopes |-> key.scopes,
                 admin |-> owner.admin, totp |-> owner.totp]]
          /\ access' = [access EXCEPT ![p] = [at |-> "mfa"]]
       \/ UNCHANGED <<table, access>>
    /\ UNCHANGED <<hour, key, owner, session, last, refused>>

FromTable(p) ==
    /\ AtStep(p, "idle") /\ ~NeedsRead(p)
    /\ access' = [access EXCEPT ![p] = [at |-> "mfa"]]
    /\ UNCHANGED <<hour, key, owner, table, session, last, refused>>

\* abort, for want of TOTP or of the bypass cookie.
Aborts(p, cookie) ==
    MfaApikey /\ IF table[p].totp THEN ~cookie ELSE MfaNeeded

Proceed(p, cookie) ==
    /\ AtStep(p, "mfa")
    /\ IF Aborts(p, cookie) THEN Finished(p)
       ELSE access' = [access EXCEPT ![p] = [at |-> "get"]]
    /\ UNCHANGED <<hour, key, owner, table, session, last, refused>>

Unseen == FALSE                                      \* mutant: looked up under the uid
Seen == session # NoEntry
Admitted(p) == [at |-> "served", scopes |-> table[p].scopes, admin |-> session'.admin]

GetSession(p) ==
    /\ AtStep(p, "get")
    /\ access' = [access EXCEPT ![p] = IF Seen
                    THEN [at |-> "served", scopes |-> table[p].scopes, admin |-> session.admin]
                    ELSE [at |-> "create"]]
    /\ UNCHANGED <<hour, key, owner, table, session, last, refused>>

\* SET NX: when the session is there by now, create returns None, and the request
\* is refused.
CreateSession(p) ==
    /\ AtStep(p, "create")
    /\ IF session = NoEntry
       THEN /\ session' = [admin |-> table[p].admin, until |-> hour + KeyTtl]
            /\ access' = [access EXCEPT ![p] = Admitted(p)]
            /\ refused' = 0
       ELSE /\ Finished(p)
            /\ refused' = refused + 1
            /\ UNCHANGED session
    /\ UNCHANGED <<hour, key, owner, table, last>>

\* auth and with_permission judge the request by what it was served with.
Serve(p) ==
    /\ AtStep(p, "served")
    /\ Finished(p)
    /\ UNCHANGED <<hour, key, owner, table, session, last, refused>>

-----------------------------------------------------------------------------
(* Changes of the key and of its owner, and time *)

\* The update of a key: its scopes or its status, never the time it ends.
EditKey(edit) ==
    /\ key' = [key EXCEPT !.active = edit.active, !.scopes = edit.scopes]
    /\ key' # key
    /\ last' = Remembered
    /\ UNCHANGED <<hour, owner, table, session, access, refused>>

EditOwner(o) ==
    /\ o # owner
    /\ owner' = o
    /\ last' = Remembered
    /\ UNCHANGED <<hour, key, table, session, access, refused>>

\* A process is restarted: its table is lost.
Reload(p) ==
    /\ table[p] # NoEntry
    /\ table' = [table EXCEPT ![p] = NoEntry]
    /\ Finished(p)
    /\ UNCHANGED <<hour, key, owner, session, last, refused>>

NextHour ==
    /\ hour < MaxHour
    /\ \A p \in Worker : AtStep(p, "idle")
    /\ hour' = hour + 1
    /\ last' = Remembered
    /\ session' = IF session # NoEntry /\ session.until > hour' THEN session ELSE NoEntry
    /\ UNCHANGED <<key, owner, table, access, refused>>

ApiKeyNext ==
    \/ \E p \in Worker :
         \/ Verify(p) \/ FromTable(p)
         \/ \E cookie \in BOOLEAN : Proceed(p, cookie)
         \/ GetSession(p) \/ CreateSession(p) \/ Serve(p) \/ Reload(p)
    \/ \E edit \in Edits : EditKey(edit)
    \/ \E o \in Owner : EditOwner(o)
    \/ NextHour

ApiKeySpec == ApiKeyInit /\ [][ApiKeyNext]_apiKeyVars

-----------------------------------------------------------------------------
\* How long ago the key last allowed x.
Age(x) == IF x \in Allowed THEN 0 ELSE hour - last[x]

(***************************************************************************)
(* A request is served with a scope the key had, as a good key, no longer  *)
(* ago than a process keeps its entry.  What the session says of its owner *)
(* (the role of an administrator) may be as old as an entry that was used  *)
(* to make the session at its end and the session together.                *)
(***************************************************************************)
StaleAccessBounded ==
    \A p \in Worker : AtStep(p, "served") =>
        /\ \A x \in access[p].scopes \cup {"access"} : Age(x) <= TableTtl
        /\ access[p].admin => Age("admin") <= TableTtl + KeyTtl - 1

(***************************************************************************)
(* The requests of a good key that are refused since they found no session *)
(* and then could not create it are, for each session, fewer than the      *)
(* processes: only those that had looked before it was made.               *)
(***************************************************************************)
RefusalsBounded == refused < Cardinality(Worker)
=============================================================================
