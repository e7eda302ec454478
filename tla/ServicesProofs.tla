--------------------------- MODULE ServicesProofs ---------------------------
(***************************************************************************)
(* The services of MCServices, one section each, for every number of       *)
(* processes, contacts, files, addresses and browsers and every limit and  *)
(* period: the access of an API key and the refusals of one that is        *)
(* allowed are late by no more than the caches' lives; uploads exceed an   *)
(* album by no more than those that were open; a disabled contact gets     *)
(* what the senders had begun, and a period of a reserve lets out what     *)
(* overlapping reads of it add; a host is listed while a process on it     *)
(* saves; a contact its owner did not declare active is confirmed by a     *)
(* message sent in time; and a login needs its second factor, or the id of *)
(* another session, and no word twice.                                     *)
(***************************************************************************)
EXTENDS ApiKey, Upload, Sending, Registry, Confirmation, Login,
        FiniteSetTheorems, TLAPS

-----------------------------------------------------------------------------
(* Counting who is at a step *)

LEMMA Counting ==
    ASSUME NEW T, IsFiniteSet(T), NEW S \in SUBSET T, NEW R \in SUBSET T
    PROVE  /\ Cardinality(T) \in Nat /\ Cardinality(S) \in Nat /\ Cardinality(R) \in Nat
           /\ Cardinality(S) <= Cardinality(T)
           /\ R \subseteq S => Cardinality(R) <= Cardinality(S)
<1>1. IsFiniteSet(S) /\ IsFiniteSet(R)
  BY FS_Subset
<1> QED BY <1>1, FS_Subset, FS_CardinalityType

\* One joins, or one leaves.
LEMMA CountingOne ==
    ASSUME NEW T, IsFiniteSet(T), NEW S \in SUBSET T, NEW R \in SUBSET T, NEW w \in T
    PROVE  /\ R \subseteq S \cup {w} => Cardinality(R) <= Cardinality(S) + 1
           /\ w \in S /\ R \subseteq S \ {w} => Cardinality(R) + 1 <= Cardinality(S)
<1>1. IsFiniteSet(S) /\ IsFiniteSet(R) /\ Cardinality(S) \in Nat /\ Cardinality(R) \in Nat
  BY Counting, FS_Subset
<1>2. /\ IsFiniteSet(S \cup {w}) /\ Cardinality(S \cup {w}) <= Cardinality(S) + 1
      /\ Cardinality(S \cup {w}) \in Nat
  BY <1>1, FS_AddElement
<1>3. w \in S => /\ IsFiniteSet(S \ {w}) /\ Cardinality(S \ {w}) = Cardinality(S) - 1
                 /\ Cardinality(S \ {w}) \in Nat
  BY <1>1, FS_RemoveElement, FS_CardinalityType
<1>4. R \subseteq S \cup {w} => Cardinality(R) <= Cardinality(S \cup {w})
  BY <1>2, FS_Subset
<1>5. w \in S /\ R \subseteq S \ {w} => Cardinality(R) <= Cardinality(S \ {w})
  BY <1>3, FS_Subset
<1> QED BY <1>1, <1>2, <1>3, <1>4, <1>5

-----------------------------------------------------------------------------
(* API keys *)

\* x was allowed at some time from t on.
Since(x, t) == x \in Allowed \/ last[x] >= t

ApiKeyTypes ==
    /\ hour \in Nat
    /\ key \in [active : BOOLEAN, scopes : SUBSET Scope, until : Nat]
    /\ last \in [Privileges -> Int]
    /\ DOMAIN table = Worker /\ DOMAIN access = Worker

\* An entry of APIKEYS says what was so when it was made.
EntryRight(p) ==
    /\ table[p].scopes \subseteq Scope
    /\ table[p].until \in Nat /\ table[p].until <= hour + TableTtl
    /\ \A x \in table[p].scopes \cup {"access"} : Since(x, table[p].until - TableTtl)
    /\ table[p].admin => Since("admin", table[p].until - TableTtl)

\* A request that passed the table is served before the entry's time is over.
UsesEntry(p) == access[p].at \in {"mfa", "get", "create"}
EntryInv(p) ==
    /\ table[p] # NoEntry => EntryRight(p)
    /\ UsesEntry(p) => EntryRight(p) /\ hour <= table[p].until

\* The session was made with an entry that may have been at its end.
RoleInv ==
    session # NoEntry =>
        /\ session.until \in Nat /\ session.until > hour /\ session.until <= hour + KeyTtl
        /\ session.admin => Since("admin", session.until - KeyTtl - TableTtl)

ServedInv(p) ==
    AtStep(p, "served") =>
        /\ access[p].scopes \subseteq Scope
        /\ \A x \in access[p].scopes \cup {"access"} : Since(x, hour - TableTtl)
        /\ access[p].admin => Since("admin", hour - TableTtl - KeyTtl + 1)

\* Those that looked before the session was made are all that can be refused.
Creating == {p \in Worker : AtStep(p, "create")}
RefusedInv ==
    /\ refused \in Nat /\ refused < Cardinality(Worker)
    /\ session # NoEntry => refused + Cardinality(Creating) < Cardinality(Worker)

ApiKeyInv ==
    ApiKeyTypes /\ (\A p \in Worker : EntryInv(p) /\ ServedInv(p)) /\ RoleInv /\ RefusedInv

LEMMA ApiKeyConstants ==
    /\ TableTtl \in Nat /\ KeyTtl \in Nat /\ KeyTtl >= 1 /\ KeyEnds \in Nat
    /\ IsFiniteSet(Worker) /\ Cardinality(Worker) \in Nat /\ Cardinality(Worker) >= 1
<1>1. Cardinality(Worker) \in Nat /\ Cardinality(Worker) # 0
  BY ApiKeyAssumption, FS_CardinalityType, FS_EmptySet DEF ApiKeyAssumption
<1> QED BY <1>1, ApiKeyAssumption DEF ApiKeyAssumption

\* What was allowed from t on stays so: each change of it is remembered.
LEMMA SinceKept ==
    ASSUME ApiKeyTypes, NEW x \in Privileges, NEW t \in Int, t <= hour, Since(x, t),
           last' = Remembered \/ UNCHANGED <<hour, key, owner, last>>
    PROVE  Since(x, t)'
<1>1. CASE last' = Remembered
  <2>1. last'[x] = IF x \in Allowed THEN hour ELSE last[x]
    BY <1>1 DEF Remembered
  <2> QED BY <2>1 DEF Since, ApiKeyTypes
<1>2. CASE UNCHANGED <<hour, key, owner, last>>
  BY <1>2 DEF Since, Allowed, Good
<1> QED BY <1>1, <1>2

\* An entry that stays where it was stays right.
LEMMA EntryKept ==
    ASSUME ApiKeyTypes, NEW p \in Worker, EntryRight(p), table'[p] = table[p],
           hour' \in Nat, hour' >= hour,
           last' = Remembered \/ UNCHANGED <<hour, key, owner, last>>
    PROVE  EntryRight(p)'
<1>1. PICK t \in Int : t = table[p].until - TableTtl
  BY ApiKeyConstants DEF EntryRight
<1>2. t <= hour
  BY <1>1, ApiKeyConstants DEF EntryRight, ApiKeyTypes
<1>3. ASSUME NEW x \in table[p].scopes \cup {"access", "admin"}, Since(x, t)
      PROVE  Since(x, t)'
  <2>1. x \in Privileges
    BY DEF EntryRight, Privileges
  <2> QED BY <2>1, <1>2, <1>3, SinceKept
<1>4. table'[p].until <= hour' + TableTtl
  BY ApiKeyConstants DEF EntryRight, ApiKeyTypes
<1>5. \A x \in table'[p].scopes \cup {"access"} : Since(x, table[p].until - TableTtl)'
  BY <1>1, <1>3 DEF EntryRight, Since
<1>6. table'[p].admin => Since("admin", table[p].until - TableTtl)'
  BY <1>1, <1>3 DEF EntryRight, Since
<1> QED BY <1>4, <1>5, <1>6 DEF EntryRight

LEMMA ApiKeyInitial == ApiKeyInit => ApiKeyInv
<1> SUFFICES ASSUME ApiKeyInit PROVE ApiKeyInv
  OBVIOUS
<1>1. ApiKeyTypes
  <2>1. hour \in Nat /\ DOMAIN table = Worker /\ DOMAIN access = Worker
    BY DEF ApiKeyInit
  <2>2. key \in [active : BOOLEAN, scopes : SUBSET Scope, until : Nat]
    BY ApiKeyConstants DEF ApiKeyInit
  <2>3. -(TableTtl + KeyTtl + 1) \in Int
    BY ApiKeyConstants
  <2>4. last \in [Privileges -> Int]
    BY <2>3 DEF ApiKeyInit
  <2> QED BY <2>1, <2>2, <2>4 DEF ApiKeyTypes
<1>2. ASSUME NEW p \in Worker PROVE EntryInv(p) /\ ServedInv(p)
  BY DEF ApiKeyInit, EntryInv, ServedInv, UsesEntry, AtStep, NoAccess
<1> QED BY <1>1, <1>2, ApiKeyConstants DEF ApiKeyInit, ApiKeyInv, RoleInv, RefusedInv

LEMMA Stuttering == ASSUME ApiKeyInv, UNCHANGED apiKeyVars PROVE ApiKeyInv'
BY DEF apiKeyVars, ApiKeyInv, ApiKeyTypes, EntryInv, EntryRight, UsesEntry, RoleInv,
       ServedInv, AtStep, RefusedInv, Creating, Since, Allowed, Good

-----------------------------------------------------------------------------
\* What a request of p leaves alone: the history and the other processes.
LEMMA OthersKeep ==
    ASSUME ApiKeyInv, NEW p \in Worker, UNCHANGED <<hour, key, owner, last>>,
           NEW q \in Worker \ {p}, table'[q] = table[q], access'[q] = access[q]
    PROVE  EntryInv(q)' /\ ServedInv(q)'
<1>1. hour' \in Nat /\ hour' >= hour
  BY DEF ApiKeyInv, ApiKeyTypes
<1>2. EntryRight(q) => EntryRight(q)'
  BY <1>1, EntryKept DEF ApiKeyInv
<1>3. \A x, t : Since(x, t)' <=> Since(x, t)
  BY DEF Since, Allowed, Good
<1>4. EntryInv(q)'
  BY <1>2 DEF ApiKeyInv, EntryInv, UsesEntry
<1>5. ServedInv(q)'
  BY <1>3 DEF ApiKeyInv, ServedInv, AtStep
<1> QED BY <1>4, <1>5

\* A step of p that neither makes a session nor refuses: it remains to see to p.
LEMMA RequestKeeps ==
    ASSUME ApiKeyInv, NEW p \in Worker, DOMAIN table' = Worker, DOMAIN access' = Worker,
           \A q \in Worker \ {p} : table'[q] = table[q] /\ access'[q] = access[q],
           UNCHANGED <<hour, key, owner, session, last, refused>>,
           access'[p].at = "create" => session = NoEntry,
           EntryInv(p)', ServedInv(p)'
    PROVE  ApiKeyInv'
<1>1. ApiKeyTypes'
  BY DEF ApiKeyInv, ApiKeyTypes
<1>2. ASSUME NEW q \in Worker PROVE EntryInv(q)' /\ ServedInv(q)'
  BY OthersKeep
<1>3. RoleInv'
  BY DEF ApiKeyInv, RoleInv, Since, Allowed, Good
<1>4. RefusedInv'
  <2>1. CASE session = NoEntry
    BY <2>1 DEF ApiKeyInv, RefusedInv
  <2>2. CASE session # NoEntry
    <3>1. Creating \in SUBSET Worker /\ Creating' \in SUBSET Worker
      BY DEF Creating
    <3>2. Creating' \subseteq Creating
      BY <2>2 DEF Creating, AtStep, ApiKeyInv, ApiKeyTypes
    <3>3. Cardinality(Creating') <= Cardinality(Creating) /\ Cardinality(Creating) \in Nat
          /\ Cardinality(Creating') \in Nat
      BY <3>1, <3>2, Counting, ApiKeyConstants
    <3> QED BY <3>3, ApiKeyConstants DEF ApiKeyInv, RefusedInv
  <2> QED BY <2>1, <2>2
<1> QED BY <1>1, <1>2, <1>3, <1>4 DEF ApiKeyInv

LEMMA VerifyKeeps ==
    ASSUME ApiKeyInv, NEW p \in Worker, Verify(p) PROVE ApiKeyInv'
<1>1. CASE UNCHANGED <<table, access>>
  BY <1>1, Stuttering DEF Verify, apiKeyVars
<1> DEFINE made == [until |-> hour + TableTtl, scopes |-> key.scopes,
                     admin |-> owner.admin, totp |-> owner.totp]
<1>2. CASE /\ Good /\ table' = [table EXCEPT ![p] = made]
           /\ access' = [access EXCEPT ![p] = [at |-> "mfa"]]
  <2>1. /\ table'[p] = made /\ access'[p] = [at |-> "mfa"]
        /\ UNCHANGED <<hour, key, owner, session, last, refused>>
    BY <1>2 DEF Verify, ApiKeyInv, ApiKeyTypes
  <2>2. key.scopes \subseteq Scope /\ hour \in Nat
    BY DEF ApiKeyInv, ApiKeyTypes
  <2>3. \A x \in key.scopes \cup {"access"} : Since(x, hour)'
    BY <1>2, <2>1 DEF Since, Allowed, Good
  <2>4. owner.admin => Since("admin", hour)'
    BY <1>2, <2>1 DEF Since, Allowed, Good
  <2>5. hour + TableTtl - TableTtl = hour /\ hour + TableTtl \in Nat /\ hour <= hour + TableTtl
    BY <2>2, ApiKeyConstants
  <2>6. EntryRight(p)'
    <3>0. PICK u \in Nat : u = hour + TableTtl /\ u = table'[p].until /\ table'[p].scopes = key.scopes
      BY <2>1, <2>5
    <3>1. table'[p].until - TableTtl = hour' /\ table'[p].until \in Nat
          /\ table'[p].until <= hour' + TableTtl /\ table'[p].scopes \subseteq Scope
      BY <3>0, <1>2, <2>2, <2>5, ApiKeyConstants DEF Verify
    <3>2. \A x \in table'[p].scopes \cup {"access"} : Since(x, table[p].until - TableTtl)'
      BY <2>1, <2>3, <3>1 DEF Since
    <3>3. table'[p].admin => Since("admin", table[p].until - TableTtl)'
      BY <2>1, <2>4, <3>1 DEF Since
    <3> QED BY <3>1, <3>2, <3>3 DEF EntryRight
  <2>7. EntryInv(p)' /\ ServedInv(p)'
    BY <2>1, <2>5, <2>6 DEF EntryInv, ServedInv, AtStep
  <2> QED BY <1>2, <2>1, <2>7, RequestKeeps DEF ApiKeyInv, ApiKeyTypes
<1> QED BY <1>1, <1>2 DEF Verify

LEMMA FromTableKeeps ==
    ASSUME ApiKeyInv, NEW p \in Worker, FromTable(p) PROVE ApiKeyInv'
<1>1. /\ access'[p] = [at |-> "mfa"]
      /\ table'[p] = table[p] /\ table[p] # NoEntry /\ ~(hour > table[p].until)
  BY DEF FromTable, NeedsRead, Stale, ApiKeyInv, ApiKeyTypes
<1>2. EntryRight(p) /\ hour <= table[p].until
  BY <1>1 DEF ApiKeyInv, EntryInv, EntryRight, ApiKeyTypes
<1>3. EntryInv(p)' /\ ServedInv(p)'
  BY <1>1, <1>2
  DEF FromTable, EntryInv, ServedInv, AtStep, UsesEntry, EntryRight, Since, Allowed, Good
<1> QED BY <1>1, <1>3, RequestKeeps DEF FromTable, ApiKeyInv, ApiKeyTypes

LEMMA ProceedKeeps ==
    ASSUME ApiKeyInv, NEW p \in Worker, NEW warm, Proceed(p, warm) PROVE ApiKeyInv'
<1>1. PICK request \in {NoAccess, [at |-> "get"]} :
        access' = [access EXCEPT ![p] = request]
  BY DEF Proceed, Finished
<1>2. access'[p] = request /\ table'[p] = table[p]
  BY <1>1 DEF Proceed, ApiKeyInv, ApiKeyTypes
<1>3. EntryRight(p) /\ hour <= table[p].until
  BY DEF Proceed, AtStep, UsesEntry, ApiKeyInv, EntryInv
<1>4. EntryInv(p)' /\ ServedInv(p)'
  BY <1>2, <1>3
  DEF Proceed, EntryInv, ServedInv, AtStep, EntryRight, NoAccess, Since, Allowed, Good
<1> QED BY <1>1, <1>2, <1>4, RequestKeeps DEF Proceed, NoAccess, ApiKeyInv, ApiKeyTypes

LEMMA ServeKeeps ==
    ASSUME ApiKeyInv, NEW p \in Worker, Serve(p) PROVE ApiKeyInv'
<1>1. /\ access' = [access EXCEPT ![p] = NoAccess] /\ access'[p] = NoAccess
      /\ table'[p] = table[p]
  BY DEF Serve, Finished, ApiKeyInv, ApiKeyTypes
<1>2. EntryInv(p)' /\ ServedInv(p)'
  BY <1>1
  DEF Serve, EntryInv, ServedInv, AtStep, UsesEntry, EntryRight, NoAccess, Since, Allowed,
      Good, ApiKeyInv
<1> QED BY <1>1, <1>2, RequestKeeps DEF Serve, NoAccess, ApiKeyInv, ApiKeyTypes

LEMMA ReloadKeeps ==
    ASSUME ApiKeyInv, NEW p \in Worker, Reload(p) PROVE ApiKeyInv'
<1>1. /\ access' = [access EXCEPT ![p] = NoAccess] /\ access'[p] = NoAccess
      /\ table' = [table EXCEPT ![p] = NoEntry] /\ table'[p] = NoEntry
  BY DEF Reload, Finished, ApiKeyInv, ApiKeyTypes
<1>2. EntryInv(p)' /\ ServedInv(p)'
  BY <1>1 DEF EntryInv, ServedInv, AtStep, UsesEntry, NoAccess
<1> QED BY <1>1, <1>2, RequestKeeps DEF Reload, NoAccess, ApiKeyInv, ApiKeyTypes

\* What an entry in use gives a request is no older than TableTtl.
LEMMA EntryFresh ==
    ASSUME ApiKeyInv, NEW p \in Worker, EntryRight(p), hour <= table[p].until
    PROVE  /\ \A x \in table[p].scopes \cup {"access"} : Since(x, hour - TableTtl)
           /\ table[p].admin => Since("admin", hour - TableTtl)
<1>1. hour - TableTtl <= table[p].until - TableTtl /\ hour - TableTtl \in Int
      /\ table[p].until - TableTtl \in Int
  BY ApiKeyConstants DEF EntryRight, ApiKeyInv, ApiKeyTypes
<1>2. ASSUME NEW x \in Privileges, Since(x, table[p].until - TableTtl)
      PROVE  Since(x, hour - TableTtl)
  BY <1>1, <1>2 DEF Since, ApiKeyInv, ApiKeyTypes
<1>3. table[p].scopes \cup {"access", "admin"} \subseteq Privileges
  BY DEF EntryRight, Privileges
<1> QED BY <1>2, <1>3 DEF EntryRight

LEMMA GetSessionKeeps ==
    ASSUME ApiKeyInv, NEW p \in Worker, GetSession(p) PROVE ApiKeyInv'
<1> DEFINE request == IF Seen
             THEN [at |-> "served", scopes |-> table[p].scopes, admin |-> session.admin]
             ELSE [at |-> "create"]
<1>1. /\ access' = [access EXCEPT ![p] = request] /\ access'[p] = request
      /\ table'[p] = table[p]
      /\ UNCHANGED <<hour, key, owner, table, session, last, refused>>
  BY DEF GetSession, ApiKeyInv, ApiKeyTypes
<1>2. EntryRight(p) /\ hour <= table[p].until
  BY DEF GetSession, AtStep, UsesEntry, ApiKeyInv, EntryInv
<1>3. EntryInv(p)'
  BY <1>1, <1>2 DEF EntryInv, EntryRight, Since, Allowed, Good
<1>4. \A x, t : Since(x, t)' <=> Since(x, t)
  BY <1>1 DEF Since, Allowed, Good
<1>5. CASE Seen
  <2>1. session.admin => Since("admin", hour - TableTtl - KeyTtl + 1)
    <3>1. /\ session.until - KeyTtl - TableTtl \in Int /\ hour - TableTtl - KeyTtl + 1 \in Int
          /\ session.until - KeyTtl - TableTtl >= hour - TableTtl - KeyTtl + 1
      BY <1>5, ApiKeyConstants DEF Seen, ApiKeyInv, RoleInv, ApiKeyTypes
    <3>2. "admin" \in Privileges
      BY DEF Privileges
    <3> QED BY <1>5, <3>1, <3>2 DEF Seen, ApiKeyInv, RoleInv, ApiKeyTypes, Since
  <2>2. ServedInv(p)'
    BY <1>1, <1>2, <1>4, <1>5, <2>1, EntryFresh DEF ServedInv, AtStep, EntryRight
  <2> QED BY <1>1, <1>3, <1>5, <2>2, RequestKeeps DEF ApiKeyInv, ApiKeyTypes
<1>6. CASE ~Seen
  BY <1>1, <1>3, <1>6, RequestKeeps
  DEF ServedInv, AtStep, Seen, ApiKeyInv, ApiKeyTypes
<1> QED BY <1>5, <1>6

\* Either it makes the session, with an entry in use, or it is one fewer to be refused.
LEMMA CreateSessionKeeps ==
    ASSUME ApiKeyInv, NEW p \in Worker, CreateSession(p) PROVE ApiKeyInv'
<1>1. UNCHANGED <<hour, key, owner, table, last>> /\ table'[p] = table[p]
      /\ AtStep(p, "create") /\ hour \in Nat
  BY DEF CreateSession, ApiKeyInv, ApiKeyTypes
<1>2. EntryRight(p) /\ hour <= table[p].until
  BY <1>1 DEF AtStep, UsesEntry, ApiKeyInv, EntryInv
<1>3. EntryInv(p)'
  BY <1>1, <1>2 DEF EntryInv, EntryRight, Since, Allowed, Good
<1>4. \A x, t : Since(x, t)' <=> Since(x, t)
  BY <1>1 DEF Since, Allowed, Good
<1>5. Creating \in SUBSET Worker /\ Creating' \in SUBSET Worker
  BY DEF Creating
<1>7. /\ access'[p].at # "create" /\ DOMAIN access' = Worker
      /\ \A q \in Worker \ {p} : access'[q] = access[q]
  BY DEF CreateSession, Admitted, Finished, NoAccess, ApiKeyInv, ApiKeyTypes
<1>8. ApiKeyTypes'
  BY <1>1, <1>7 DEF ApiKeyInv, ApiKeyTypes
<1>9. \A q \in Worker \ {p} : EntryInv(q)' /\ ServedInv(q)'
  BY <1>1, <1>7, OthersKeep
<1>10. p \in Creating /\ Creating' \subseteq Creating \ {p}
  BY <1>1, <1>7 DEF Creating, AtStep
<1>11. /\ Cardinality(Creating) \in Nat /\ Cardinality(Creating') \in Nat
       /\ Cardinality(Creating) <= Cardinality(Worker)
       /\ Cardinality(Creating') + 1 <= Cardinality(Creating)
  BY <1>5, <1>10, Counting, CountingOne, ApiKeyConstants
<1>12. CASE session = NoEntry
  <2>1. /\ session' = [admin |-> table[p].admin, until |-> hour + KeyTtl] /\ refused' = 0
        /\ access'[p] = [at |-> "served", scopes |-> table[p].scopes, admin |-> table[p].admin]
    BY <1>12, <1>1 DEF CreateSession, Admitted, ApiKeyInv, ApiKeyTypes
  <2>2. table[p].admin => /\ Since("admin", hour - TableTtl)
                          /\ Since("admin", hour - TableTtl - KeyTtl + 1)
    <3>1. /\ hour - TableTtl \in Int /\ hour - TableTtl - KeyTtl + 1 \in Int
          /\ hour - TableTtl >= hour - TableTtl - KeyTtl + 1
      BY <1>1, ApiKeyConstants
    <3>2. last["admin"] \in Int
      BY DEF Privileges, ApiKeyInv, ApiKeyTypes
    <3> QED BY <3>1, <3>2, <1>2, EntryFresh DEF Since
  <2>3. RoleInv'
    <3>1. /\ hour + KeyTtl \in Nat /\ hour + KeyTtl > hour
          /\ hour + KeyTtl - KeyTtl - TableTtl = hour - TableTtl
      BY <1>1, ApiKeyConstants
    <3>0. PICK u \in Nat : u = hour + KeyTtl /\ u = session'.until
      BY <2>1, <3>1
    <3>2. session'.until - KeyTtl - TableTtl = hour - TableTtl
      BY <3>0, <3>1, <1>1, ApiKeyConstants
    <3>3. session'.admin => Since("admin", session.until - KeyTtl - TableTtl)'
      BY <2>1, <2>2, <3>2, <1>1 DEF Since, Allowed, Good
    <3> QED BY <1>1, <2>1, <3>1, <3>3 DEF RoleInv
  <2>4. ServedInv(p)'
    BY <1>1, <1>2, <1>4, <2>1, <2>2, EntryFresh DEF ServedInv, EntryRight
  <2>5. RefusedInv'
    BY <1>11, <2>1, ApiKeyConstants DEF RefusedInv
  <2> QED BY <1>3, <1>8, <1>9, <2>3, <2>4, <2>5 DEF ApiKeyInv
<1>13. CASE session # NoEntry
  <2>1. session' = session /\ refused' = refused + 1 /\ access'[p] = NoAccess
    BY <1>13, <1>7 DEF CreateSession, Finished, ApiKeyInv, ApiKeyTypes
  <2>2. RoleInv'
    BY <1>1, <1>4, <2>1 DEF RoleInv, ApiKeyInv, Since
  <2>3. ServedInv(p)'
    BY <2>1 DEF ServedInv, AtStep, NoAccess
  <2>4. RefusedInv'
    BY <1>11, <1>13, <2>1, ApiKeyConstants DEF RefusedInv, ApiKeyInv
  <2> QED BY <1>3, <1>8, <1>9, <2>2, <2>3, <2>4 DEF ApiKeyInv
<1> QED BY <1>12, <1>13

-----------------------------------------------------------------------------
\* A change of what is allowed is remembered as it is made.
LEMMA HistoryKept ==
    ASSUME ApiKeyInv, last' = Remembered, hour' \in Nat, hour' >= hour,
           UNCHANGED <<table, access>>, NEW p \in Worker
    PROVE  EntryRight(p) => EntryRight(p)'
BY EntryKept DEF ApiKeyInv

LEMMA RememberedType ==
    ASSUME ApiKeyInv, last' = Remembered PROVE last' \in [Privileges -> Int]
BY DEF ApiKeyInv, ApiKeyTypes, Remembered

LEMMA EditKeeps ==
    ASSUME ApiKeyInv, last' = Remembered, UNCHANGED <<hour, table, session, access, refused>>,
           key' \in [active : BOOLEAN, scopes : SUBSET Scope, until : Nat]
    PROVE  ApiKeyInv'
<1>1. ApiKeyTypes'
  BY RememberedType DEF ApiKeyInv, ApiKeyTypes
<1>2. hour \in Nat /\ hour' \in Nat /\ hour' >= hour
  BY DEF ApiKeyInv, ApiKeyTypes
<1>3. ASSUME NEW x \in Privileges, NEW t \in Int, t <= hour, Since(x, t) PROVE Since(x, t)'
  BY <1>3, SinceKept DEF ApiKeyInv
<1>4. "admin" \in Privileges /\ "access" \in Privileges /\ Scope \subseteq Privileges
  BY DEF Privileges
<1>5. ASSUME NEW p \in Worker PROVE EntryInv(p)' /\ ServedInv(p)'
  <2>1. EntryInv(p)'
    BY <1>2, HistoryKept DEF ApiKeyInv, EntryInv, UsesEntry
  <2>2. /\ hour - TableTtl \in Int /\ hour - TableTtl <= hour
        /\ hour - TableTtl - KeyTtl + 1 \in Int /\ hour - TableTtl - KeyTtl + 1 <= hour
    BY <1>2, ApiKeyConstants
  <2>3. ASSUME AtStep(p, "served")
        PROVE  /\ \A x \in access[p].scopes \cup {"access"} : Since(x, hour - TableTtl)'
               /\ access[p].admin => Since("admin", hour - TableTtl - KeyTtl + 1)'
    <3>1. PICK t \in Int : t = hour - TableTtl
      BY <2>2
    <3>2. PICK u \in Int : u = hour - TableTtl - KeyTtl + 1
      BY <2>2
    <3>3. \A x \in access[p].scopes \cup {"access"} : x \in Privileges /\ Since(x, t)
      BY <2>3, <3>1, <1>4 DEF ApiKeyInv, ServedInv
    <3>4. \A x \in access[p].scopes \cup {"access"} : Since(x, t)'
      BY <3>1, <3>3, <2>2, <1>3
    <3>5. access[p].admin => Since("admin", u)'
      BY <2>2, <2>3, <3>2, <1>3, <1>4 DEF ApiKeyInv, ServedInv
    <3> QED BY <3>1, <3>2, <3>4, <3>5 DEF Since
  <2>4. ServedInv(p)'
    BY <2>3 DEF ServedInv, AtStep, ApiKeyInv
  <2> QED BY <2>1, <2>4
<1>6. RoleInv'
  <2>1. CASE session = NoEntry
    BY <2>1 DEF RoleInv
  <2>2. CASE session # NoEntry
    <3>1. PICK t \in Int : t = session.until - KeyTtl - TableTtl
      BY <2>2, ApiKeyConstants DEF ApiKeyInv, RoleInv
    <3>2. t <= hour
      BY <2>2, <3>1, <1>2, ApiKeyConstants DEF ApiKeyInv, RoleInv
    <3>3. session.admin => Since("admin", t)'
      BY <2>2, <3>1, <3>2, <1>3, <1>4 DEF ApiKeyInv, RoleInv
    <3> QED BY <2>2, <3>1, <3>3 DEF ApiKeyInv, RoleInv, Since
  <2> QED BY <2>1, <2>2
<1>7. RefusedInv'
  BY DEF ApiKeyInv, RefusedInv, Creating, AtStep
<1> QED BY <1>1, <1>5, <1>6, <1>7 DEF ApiKeyInv

\* No request is in progress; the session may end.
LEMMA NextHourKeeps == ASSUME ApiKeyInv, NextHour PROVE ApiKeyInv'
<1>1. hour \in Nat /\ hour' = hour + 1 /\ hour' \in Nat /\ hour' >= hour
  BY DEF NextHour, ApiKeyInv, ApiKeyTypes
<1>2. ApiKeyTypes'
  BY <1>1, RememberedType DEF NextHour, ApiKeyInv, ApiKeyTypes
<1>3. ASSUME NEW p \in Worker PROVE EntryInv(p)' /\ ServedInv(p)'
  <2>1. EntryRight(p) => EntryRight(p)'
    BY <1>1, HistoryKept DEF NextHour
  <2> QED BY <2>1 DEF NextHour, AtStep, UsesEntry, ApiKeyInv, EntryInv, ServedInv
<1>4. RoleInv'
  <2>1. CASE session' = NoEntry
    BY <2>1 DEF RoleInv
  <2>2. CASE session' # NoEntry
    <3>1. session' = session /\ session # NoEntry /\ session.until > hour'
      BY <2>2 DEF NextHour
    <3>2. session.until \in Nat /\ session.until <= hour + KeyTtl
      BY <3>1 DEF ApiKeyInv, RoleInv
    <3>3. PICK t \in Int : t = session.until - KeyTtl - TableTtl
      BY <3>2, ApiKeyConstants
    <3>4. t <= hour
      BY <3>2, <3>3, <1>1, ApiKeyConstants
    <3>5. session.admin => Since("admin", t)'
      BY <3>1, <3>3, <3>4, SinceKept DEF NextHour, Privileges, ApiKeyInv, RoleInv
    <3>6. session.until <= hour' + KeyTtl
      BY <3>2, <1>1, ApiKeyConstants
    <3> QED BY <3>1, <3>2, <3>3, <3>5, <3>6 DEF RoleInv, Since
  <2> QED BY <2>1, <2>2
<1>5. RefusedInv'
  BY DEF NextHour, ApiKeyInv, RefusedInv, Creating, AtStep
<1> QED BY <1>2, <1>3, <1>4, <1>5 DEF ApiKeyInv

LEMMA ApiKeyStep == ApiKeyInv /\ [ApiKeyNext]_apiKeyVars => ApiKeyInv'
<1> SUFFICES ASSUME ApiKeyInv, [ApiKeyNext]_apiKeyVars PROVE ApiKeyInv'
  OBVIOUS
<1>1. ASSUME NEW p \in Worker, Verify(p) \/ FromTable(p) \/ GetSession(p) \/ CreateSession(p)
                              \/ Serve(p) \/ Reload(p)
      PROVE  ApiKeyInv'
  BY <1>1, VerifyKeeps, FromTableKeeps, GetSessionKeeps, CreateSessionKeeps, ServeKeeps,
     ReloadKeeps
<1>2. ASSUME NEW p \in Worker, NEW warm \in BOOLEAN, Proceed(p, warm) PROVE ApiKeyInv'
  BY <1>2, ProceedKeeps
<1>3. ASSUME NEW edit \in Edits, EditKey(edit) PROVE ApiKeyInv'
  <2>1. edit.active \in BOOLEAN /\ edit.scopes \in SUBSET Scope
    BY ApiKeyAssumption DEF ApiKeyAssumption
  <2>2. key' \in [active : BOOLEAN, scopes : SUBSET Scope, until : Nat]
    BY <1>3, <2>1 DEF EditKey, ApiKeyInv, ApiKeyTypes
  <2> QED BY <1>3, <2>2, EditKeeps DEF EditKey
<1>4. ASSUME NEW o \in Owner, EditOwner(o) PROVE ApiKeyInv'
  BY <1>4, EditKeeps DEF EditOwner, ApiKeyInv, ApiKeyTypes
<1> QED BY <1>1, <1>2, <1>3, <1>4, NextHourKeeps, Stuttering DEF ApiKeyNext

LEMMA ApiKeyInvariant == ApiKeySpec => []ApiKeyInv
BY ApiKeyInitial, ApiKeyStep, PTL DEF ApiKeySpec

\* Whatever REDIS_TTL, the duration of a session and the number of processes: a
\* request is served with a scope that was the key's at most REDIS_TTL ago, and with
\* an administrator's role that was its owner's at most an entry and a session ago.
THEOREM StaleAccessIsBounded == ApiKeySpec => []StaleAccessBounded
<1>1. ApiKeyInv => StaleAccessBounded
  <2> SUFFICES ASSUME ApiKeyInv, NEW p \in Worker, AtStep(p, "served")
               PROVE  /\ \A x \in access[p].scopes \cup {"access"} : Age(x) <= TableTtl
                      /\ access[p].admin => Age("admin") <= TableTtl + KeyTtl - 1
    BY DEF StaleAccessBounded
  <2>1. /\ access[p].scopes \subseteq Scope /\ hour \in Nat /\ last \in [Privileges -> Int]
        /\ \A x \in access[p].scopes \cup {"access"} : Since(x, hour - TableTtl)
        /\ access[p].admin => Since("admin", hour - TableTtl - KeyTtl + 1)
    BY DEF ApiKeyInv, ApiKeyTypes, ServedInv
  <2>2. ASSUME NEW x \in access[p].scopes \cup {"access"} PROVE Age(x) <= TableTtl
    <3>1. last[x] \in Int
      BY <2>1 DEF Privileges
    <3> QED BY <2>1, <3>1, ApiKeyConstants DEF Age, Since
  <2>3. access[p].admin => Age("admin") <= TableTtl + KeyTtl - 1
    <3>1. last["admin"] \in Int
      BY <2>1 DEF Privileges
    <3> QED BY <2>1, <3>1, ApiKeyConstants DEF Age, Since
  <2> QED BY <2>2, <2>3
<1> QED BY <1>1, ApiKeyInvariant, PTL

\* Whatever the number of processes: fewer than that many requests of a good key are
\* refused for having lost the race to make its session.
THEOREM RefusalsAreBounded == ApiKeySpec => []RefusalsBounded
<1>1. ApiKeyInv => RefusalsBounded
  BY DEF ApiKeyInv, RefusedInv, RefusalsBounded
<1> QED BY <1>1, ApiKeyInvariant, PTL

-----------------------------------------------------------------------------
(* Uploads *)

\* What a worker knows of its file: after the album is read, its place too.
Jobs == {NoJob} \cup [step : {"insert", "read", "scale", "end"}, file : File]
                \cup [step : {"link", "end"}, file : File, rank : Nat, covers : BOOLEAN]

\* Between its commit of the row and the one of the album.
Adding(w) == job[w].step \in {"read", "link"}

\* A file that is taken up has a URL; the one that inserts its row adds it, alone.
FilesInv ==
    /\ job \in [Encoder -> Jobs]
    /\ asking \cup given \subseteq File /\ meta \subseteq given
    /\ \A w \in Encoder : ~On(w, "idle") => job[w].file \in given
    /\ \A w \in Encoder : Adding(w) => job[w].file \in pictures /\ ~InAlbum(job[w].file)
    /\ \A v, w \in Encoder :
          Adding(v) /\ Adding(w) /\ job[v].file = job[w].file => v = w

\* What is in the album and what is on its way were let in together.
AlbumInv ==
    /\ IsFiniteSet(album) /\ IsFiniteSet(asking \cup given)
    /\ others \in Nat
    /\ \A c \in album : c.file \in pictures
    /\ \A c, d \in album : c.file = d.file => c = d
    /\ Cardinality(album) + Cardinality(Open) <= AlbumSize + others

\* A rank is given out while the album is one smaller: to all workers at most.
Ranked(r) == {d \in album : d.rank = r}
Ranking(r) == {w \in Encoder : On(w, "link") /\ job[w].rank = r}
RankInv ==
    /\ \A c \in album : c.rank \in Nat /\ c.rank <= Cardinality(album)
    /\ \A w \in Encoder : On(w, "link") => job[w].rank <= Cardinality(album) + 1
    /\ \A r \in Nat : Cardinality(Ranked(r)) + Cardinality(Ranking(r)) <= Cardinality(Encoder)

UploadInv == FilesInv /\ AlbumInv /\ RankInv

LEMMA UploadConstants ==
    /\ AlbumSize \in Nat /\ AlbumSize >= 1
    /\ IsFiniteSet(Encoder) /\ Cardinality(Encoder) \in Nat /\ Cardinality(Encoder) >= 0
<1>1. Cardinality(Encoder) \in Nat
  BY UploadAssumption, FS_CardinalityType DEF UploadAssumption
<1> QED BY <1>1, UploadAssumption DEF UploadAssumption

\* The sets that are counted, and their sizes.
LEMMA UploadSets ==
    ASSUME UploadInv
    PROVE  /\ Open \in SUBSET (asking \cup given) /\ Cardinality(Open) \in Nat
           /\ Cardinality(album) \in Nat
           /\ \A r \in Nat : /\ Ranked(r) \in SUBSET album /\ Ranking(r) \in SUBSET Encoder
                             /\ Cardinality(Ranked(r)) \in Nat
                             /\ Cardinality(Ranking(r)) \in Nat
<1>1. Open \in SUBSET (asking \cup given) /\ IsFiniteSet(asking \cup given) /\ IsFiniteSet(album)
  BY DEF Open, UploadInv, AlbumInv
<1>2. ASSUME NEW r \in Nat PROVE Ranked(r) \in SUBSET album /\ Ranking(r) \in SUBSET Encoder
  BY DEF Ranked, Ranking
<1>3. Cardinality(Open) \in Nat /\ Cardinality(album) \in Nat
  BY <1>1, Counting, FS_CardinalityType
<1>4. ASSUME NEW r \in Nat
      PROVE  Cardinality(Ranked(r)) \in Nat /\ Cardinality(Ranking(r)) \in Nat
  BY <1>1, <1>2, Counting, UploadConstants
<1> QED BY <1>1, <1>2, <1>3, <1>4

LEMMA UploadInitial == UploadInit => UploadInv
<1> SUFFICES ASSUME UploadInit PROVE UploadInv
  OBVIOUS
<1>1. FilesInv
  BY DEF UploadInit, FilesInv, NoJob, Jobs, On, Adding
<1>2. /\ IsFiniteSet({}) /\ Cardinality({}) = 0
      /\ Open = {} /\ \A r \in Nat : Ranked(r) = {} /\ Ranking(r) = {}
  BY FS_EmptySet DEF UploadInit, Open, Ranked, Ranking, On, NoJob
<1>3. AlbumInv
  BY <1>2, UploadConstants DEF UploadInit, AlbumInv
<1>4. RankInv
  BY <1>2, UploadConstants DEF UploadInit, RankInv, On, NoJob
<1> QED BY <1>1, <1>3, <1>4 DEF UploadInv

-----------------------------------------------------------------------------
\* What does not touch the URLs, the jobs, the pictures or the album.
LEMMA ElsewhereKeeps ==
    ASSUME UploadInv, meta' \subseteq meta,
           UNCHANGED <<asking, given, job, pictures, album, others>>
    PROVE  UploadInv'
<1>1. FilesInv'
  BY DEF UploadInv, FilesInv, On, Adding, InAlbum
<1>2. AlbumInv'
  BY DEF UploadInv, AlbumInv, Open, InAlbum
<1>3. RankInv'
  BY DEF UploadInv, RankInv, Ranked, Ranking, On
<1> QED BY <1>1, <1>2, <1>3 DEF UploadInv

\* A step of a worker that is not about the album: none is added, and no rank taken.
LEMMA WorkerKeeps ==
    ASSUME UploadInv, NEW w \in Encoder, UNCHANGED <<asking, given, album, others>>,
           meta' \subseteq meta, pictures \subseteq pictures',
           job' \in [Encoder -> Jobs], \A v \in Encoder \ {w} : job'[v] = job[v],
           ~On(w, "link")', ~On(w, "idle")' => job'[w].file \in given,
           Adding(w)' => /\ job'[w].file \in pictures' /\ ~InAlbum(job[w].file)'
                         /\ \A v \in Encoder \ {w} : Adding(v) => job[v].file # job'[w].file
    PROVE  UploadInv'
<1>1. FilesInv'
  <2>1. \A v \in Encoder \ {w} : (Adding(v)' <=> Adding(v)) /\ (On(v, "idle")' <=> On(v, "idle"))
    BY DEF Adding, On
  <2>2. \A f : InAlbum(f)' <=> InAlbum(f)
    BY DEF InAlbum
  <2>3. /\ (asking \cup given)' \subseteq File /\ meta' \subseteq given'
        /\ \A v \in Encoder : ~On(v, "idle")' => job'[v].file \in given'
    BY <2>1 DEF UploadInv, FilesInv
  <2>4. \A v \in Encoder : Adding(v)' => job'[v].file \in pictures' /\ ~InAlbum(job[v].file)'
    BY <2>1, <2>2 DEF UploadInv, FilesInv, InAlbum
  <2>5. ASSUME NEW u \in Encoder, NEW v \in Encoder, Adding(u)', Adding(v)',
               job'[u].file = job'[v].file
        PROVE  u = v
    <3>1. CASE u # w /\ v # w
      BY <2>1, <2>5, <3>1 DEF UploadInv, FilesInv
    <3>2. CASE u = w \/ v = w
      BY <2>1, <2>5, <3>2
    <3> QED BY <3>1, <3>2
  <2> QED BY <2>3, <2>4, <2>5 DEF FilesInv
<1>2. AlbumInv'
  BY DEF UploadInv, AlbumInv, Open, InAlbum
<1>3. RankInv'
  <2>1. \A c \in album' : c.rank \in Nat /\ c.rank <= Cardinality(album')
    BY DEF UploadInv, RankInv
  <2>2. \A v \in Encoder : On(v, "link")' => v # w /\ job'[v] = job[v] /\ On(v, "link")
    BY DEF On
  <2>3. \A v \in Encoder : On(v, "link")' => job'[v].rank <= Cardinality(album') + 1
    BY <2>2 DEF UploadInv, RankInv
  <2>4. ASSUME NEW r \in Nat
        PROVE  (Cardinality(Ranked(r)) + Cardinality(Ranking(r)) <= Cardinality(Encoder))'
    <3>1. Ranked(r)' = Ranked(r)
      BY DEF Ranked
    <3>2. Ranking(r)' \in SUBSET Encoder /\ Ranking(r)' \subseteq Ranking(r)
          /\ Ranking(r) \in SUBSET Encoder
      BY <2>2 DEF Ranking
    <3>3. Cardinality(Ranking(r)') <= Cardinality(Ranking(r))
          /\ Cardinality(Ranking(r)') \in Nat
      BY <3>2, Counting, UploadConstants
    <3>4. Cardinality(Ranked(r)) + Cardinality(Ranking(r)) <= Cardinality(Encoder)
      BY DEF UploadInv, RankInv
    <3> QED BY <3>1, <3>3, <3>4, UploadSets, UploadConstants
  <2> QED BY <2>1, <2>3, <2>4 DEF RankInv
<1> QED BY <1>1, <1>2, <1>3 DEF UploadInv

\* The step of a job is all that Turn changes.
LEMMA Turned ==
    ASSUME UploadInv, NEW w \in Encoder, NEW s, Turn(w, s),
           \/ s = "end" /\ job[w].step # "idle"
           \/ s = "read" /\ job[w].step = "insert"
    PROVE  /\ job' \in [Encoder -> Jobs]
           /\ job'[w].step = s /\ job'[w].file = job[w].file
           /\ \A v \in Encoder \ {w} : job'[v] = job[v]
<1> DEFINE j == [job[w] EXCEPT !.step = s]
<1>1. job[w] \in Jobs /\ job[w] # NoJob /\ DOMAIN job = Encoder
  BY DEF UploadInv, FilesInv, NoJob
<1>2. CASE job[w] \in [step : {"insert", "read", "scale", "end"}, file : File]
  <2>1. j \in [step : {"insert", "read", "scale", "end"}, file : File]
        /\ j.step = s /\ j.file = job[w].file
    BY <1>2
  <2> QED BY <1>1, <2>1 DEF Turn, Jobs, UploadInv, FilesInv
<1>3. CASE job[w] \in [step : {"link", "end"}, file : File, rank : Nat, covers : BOOLEAN]
  <2>1. s = "end"
    BY <1>3
  <2>2. j \in [step : {"link", "end"}, file : File, rank : Nat, covers : BOOLEAN]
        /\ j.step = s /\ j.file = job[w].file
    BY <1>3, <2>1
  <2> QED BY <1>1, <2>2 DEF Turn, Jobs, UploadInv, FilesInv
<1> QED BY <1>1, <1>2, <1>3 DEF Jobs

\* The end of a task, whatever came before.
LEMMA EndKeeps ==
    ASSUME UploadInv, NEW w \in Encoder, job[w].step # "idle", Turn(w, "end"),
           UNCHANGED <<meta, asking, given, pictures, album, others>>
    PROVE  UploadInv'
<1>1. /\ job' \in [Encoder -> Jobs]
      /\ job'[w].step = "end" /\ job'[w].file = job[w].file
      /\ \A v \in Encoder \ {w} : job'[v] = job[v]
  BY Turned
<1>2. job[w].file \in given
  BY DEF On, UploadInv, FilesInv
<1> QED BY <1>1, <1>2, WorkerKeeps DEF On, Adding

LEMMA TakeKeeps ==
    ASSUME UploadInv, NEW w \in Encoder, NEW f \in File, Take(w, f) PROVE UploadInv'
<1>1. CASE f \in meta
  <2>1. [step |-> "insert", file |-> f] \in Jobs
    BY DEF Jobs
  <2>2. f \in given /\ job \in [Encoder -> Jobs]
    BY <1>1 DEF UploadInv, FilesInv
  <2>3. /\ job' \in [Encoder -> Jobs] /\ job'[w] = [step |-> "insert", file |-> f]
        /\ \A v \in Encoder \ {w} : job'[v] = job[v]
    BY <1>1, <2>1, <2>2 DEF Take
  <2> QED BY <2>2, <2>3, WorkerKeeps DEF Take, On, Adding
<1>2. CASE f \notin meta
  BY <1>2, ElsewhereKeeps DEF Take
<1> QED BY <1>1, <1>2

\* A row is inserted once: no album has its file, and no other worker adds it.
LEMMA InsertKeeps ==
    ASSUME UploadInv, NEW w \in Encoder, Insert(w) PROVE UploadInv'
<1>1. /\ job' \in [Encoder -> Jobs]
      /\ job'[w].step = "read" /\ job'[w].file = job[w].file
      /\ \A v \in Encoder \ {w} : job'[v] = job[v]
  BY Turned DEF Insert, On
<1>2. job[w].file \in given
  BY DEF Insert, On, UploadInv, FilesInv
<1>3. ~InAlbum(job[w].file)
  BY DEF Insert, Taken, InAlbum, UploadInv, AlbumInv
<1>4. \A v \in Encoder \ {w} : Adding(v) => job[v].file # job[w].file
  BY DEF Insert, Taken, UploadInv, FilesInv
<1>5. ~InAlbum(job[w].file)'
  BY <1>1, <1>3 DEF Insert, InAlbum
<1> QED BY <1>1, <1>2, <1>4, <1>5, WorkerKeeps DEF Insert, On, Adding

LEMMA DropKeeps ==
    ASSUME UploadInv, NEW w \in Encoder, Drop(w) PROVE UploadInv'
<1>1. /\ job' \in [Encoder -> Jobs] /\ job'[w] = NoJob
      /\ \A v \in Encoder \ {w} : job'[v] = job[v]
  BY DEF Drop, Jobs, UploadInv, FilesInv
<1> QED BY <1>1, WorkerKeeps DEF Drop, On, Adding, NoJob

\* The rank a worker is given is no one's yet.
LEMMA ReadAlbumKeeps ==
    ASSUME UploadInv, NEW w \in Encoder, ReadAlbum(w) PROVE UploadInv'
<1> DEFINE n == Cardinality(album)
<1>1. n \in Nat /\ n + 1 \in Nat
  BY UploadSets
<1> DEFINE first == job[w].file \notin Video /\ (album = {} \/ cover = Absent)
           place == [step |-> "link", file |-> job[w].file, rank |-> n + 1, covers |-> first]
<1>2. first \in BOOLEAN
  BY Zenon
<1>3. job[w].file \in File /\ job[w].file \in given /\ job \in [Encoder -> Jobs]
  BY DEF ReadAlbum, On, UploadInv, FilesInv
<1>4. place \in Jobs /\ job' = [job EXCEPT ![w] = place]
  <2>1. job' = [job EXCEPT ![w] = place]
    BY DEF ReadAlbum
  <2> HIDE DEF first
  <2> QED BY <1>1, <1>2, <1>3, <2>1 DEF Jobs
<1>5. /\ job' \in [Encoder -> Jobs] /\ \A v \in Encoder \ {w} : job'[v] = job[v]
      /\ job'[w].step = "link" /\ job'[w].file = job[w].file /\ job'[w].rank = n + 1
  BY <1>3, <1>4
<1>6. /\ UNCHANGED <<meta, asking, given, pictures, album, others>> /\ Adding(w) /\ ~On(w, "idle")
      /\ \A v \in Encoder : (Adding(v)' <=> Adding(v)) /\ job'[v].file = job[v].file
                            /\ (On(v, "idle")' <=> On(v, "idle"))
  BY <1>5 DEF ReadAlbum, Adding, On
<1>7. FilesInv'
  BY <1>5, <1>6 DEF UploadInv, FilesInv, InAlbum
<1>8. AlbumInv'
  BY <1>6 DEF UploadInv, AlbumInv, Open, InAlbum
<1>9. RankInv'
  <2>1. /\ \A c \in album' : c.rank \in Nat /\ c.rank <= Cardinality(album')
        /\ \A v \in Encoder : On(v, "link")' => job'[v].rank <= Cardinality(album') + 1
    BY <1>1, <1>5, <1>6 DEF UploadInv, RankInv, On
  <2>2. ASSUME NEW r \in Nat
        PROVE  (Cardinality(Ranked(r)) + Cardinality(Ranking(r)) <= Cardinality(Encoder))'
    <3>1. Ranked(r)' = Ranked(r) /\ Ranking(r)' \in SUBSET Encoder
          /\ Ranking(r) \in SUBSET Encoder
      BY <1>6 DEF Ranked, Ranking
    <3>2. CASE r = n + 1
      <4>1. Ranked(r) = {}
        BY <1>1, <3>2 DEF Ranked, UploadInv, RankInv
      <4>2. Cardinality(Ranking(r)') <= Cardinality(Encoder) /\ Cardinality(Ranking(r)') \in Nat
        BY <3>1, Counting, UploadConstants
      <4> QED BY <3>1, <4>1, <4>2, FS_EmptySet, UploadConstants
    <3>3. CASE r # n + 1
      <4>1. Ranking(r)' \subseteq Ranking(r)
        BY <1>5, <3>3 DEF Ranking, On
      <4>2. Cardinality(Ranking(r)') <= Cardinality(Ranking(r))
            /\ Cardinality(Ranking(r)') \in Nat
        BY <3>1, <4>1, Counting, UploadConstants
      <4>3. Cardinality(Ranked(r)) + Cardinality(Ranking(r)) <= Cardinality(Encoder)
        BY DEF UploadInv, RankInv
      <4> QED BY <3>1, <4>2, <4>3, UploadSets, UploadConstants
    <3> QED BY <3>2, <3>3
  <2> QED BY <2>1, <2>2 DEF RankInv
<1> QED BY <1>7, <1>8, <1>9 DEF UploadInv

\* One more in the album is one fewer on its way, and its rank is taken by one.
LEMMA AddToAlbumKeeps ==
    ASSUME UploadInv, NEW w \in Encoder, AddToAlbum(w) PROVE UploadInv'
<1>1. PICK f, n : f = job[w].file /\ n = job[w].rank
  OBVIOUS
<1> DEFINE c == [file |-> f, rank |-> n]
<1>2. PICK to \in {"end", "scale"} : job' = [job EXCEPT ![w] = [step |-> to, file |-> f]]
  <2>1. CASE f \in Video
    BY <1>1, <2>1 DEF AddToAlbum
  <2>2. CASE f \notin Video
    BY <1>1, <2>2 DEF AddToAlbum
  <2> QED BY <2>1, <2>2
<1>3. /\ f \in File /\ f \in given /\ f \in pictures /\ ~InAlbum(f) /\ n \in Nat
      /\ n <= Cardinality(album) + 1 /\ job \in [Encoder -> Jobs]
  BY <1>1 DEF AddToAlbum, On, Adding, UploadInv, FilesInv, RankInv, Jobs, NoJob
<1>4. [step |-> to, file |-> f] \in Jobs
  BY <1>3 DEF Jobs
<1>5. /\ job' \in [Encoder -> Jobs] /\ \A v \in Encoder \ {w} : job'[v] = job[v]
      /\ job'[w].step \in {"end", "scale"} /\ job'[w].file = f
  BY <1>2, <1>3, <1>4
<1>6. /\ UNCHANGED <<meta, asking, given, pictures, others>> /\ album' = album \cup {c}
      /\ Adding(w) /\ ~On(w, "idle") /\ On(w, "link") /\ c \notin album
  BY <1>1, <1>3 DEF AddToAlbum, Adding, On, InAlbum
<1>7. /\ IsFiniteSet(album) /\ IsFiniteSet(album') /\ Cardinality(album) \in Nat
      /\ Cardinality(album') = Cardinality(album) + 1
  BY <1>6, FS_AddElement, FS_CardinalityType DEF UploadInv, AlbumInv
<1>8. FilesInv'
  <2>1. \A v \in Encoder : Adding(v)' => v # w /\ Adding(v) /\ job'[v] = job[v]
    BY <1>5 DEF Adding
  <2>2. \A v \in Encoder : Adding(v)' => job[v].file # f
    BY <1>1, <1>6, <2>1 DEF UploadInv, FilesInv
  <2>3. \A v \in Encoder : Adding(v)' => ~InAlbum(job[v].file)'
    BY <1>6, <2>1, <2>2 DEF InAlbum, UploadInv, FilesInv
  <2>4. /\ (asking \cup given)' \subseteq File /\ meta' \subseteq given'
        /\ \A v \in Encoder : ~On(v, "idle")' => job'[v].file \in given'
    BY <1>3, <1>5, <1>6 DEF UploadInv, FilesInv, On
  <2>5. \A v \in Encoder : Adding(v)' => job'[v].file \in pictures'
    BY <1>6, <2>1 DEF UploadInv, FilesInv
  <2>6. \A u, v \in Encoder :
          Adding(u)' /\ Adding(v)' /\ job'[u].file = job'[v].file => u = v
    BY <2>1 DEF UploadInv, FilesInv
  <2> QED BY <1>5, <2>3, <2>4, <2>5, <2>6 DEF FilesInv
<1>9. AlbumInv'
  <2>1. /\ f \in Open /\ Open' \in SUBSET (asking \cup given)
        /\ Open \in SUBSET (asking \cup given) /\ Open' \subseteq Open \ {f}
    BY <1>3, <1>6 DEF Open, InAlbum
  <2>2. Cardinality(Open') + 1 <= Cardinality(Open) /\ Cardinality(Open') \in Nat
        /\ Cardinality(Open) \in Nat
    BY <2>1, Counting, CountingOne DEF UploadInv, AlbumInv
  <2>3. /\ IsFiniteSet((asking \cup given)') /\ others' \in Nat
        /\ \A d \in album' : d.file \in pictures'
        /\ \A d, e \in album' : d.file = e.file => d = e
    BY <1>3, <1>6 DEF UploadInv, AlbumInv, InAlbum
  <2>4. Cardinality(album') + Cardinality(Open') <= AlbumSize + others'
    BY <1>6, <1>7, <2>2, UploadConstants DEF UploadInv, AlbumInv
  <2> QED BY <1>7, <2>3, <2>4 DEF AlbumInv
<1>10. RankInv'
  <2>1. \A d \in album' : d.rank \in Nat /\ d.rank <= Cardinality(album')
    BY <1>3, <1>6, <1>7 DEF UploadInv, RankInv
  <2>2. \A v \in Encoder : On(v, "link")' => v # w /\ job'[v] = job[v] /\ On(v, "link")
    BY <1>5 DEF On
  <2>3. \A v \in Encoder : On(v, "link") => job[v].rank \in Nat
    BY DEF On, UploadInv, FilesInv, Jobs, NoJob
  <2>4. \A v \in Encoder : On(v, "link")' => job'[v].rank <= Cardinality(album') + 1
    BY <1>7, <2>2, <2>3 DEF UploadInv, RankInv
  <2>5. ASSUME NEW r \in Nat
        PROVE  (Cardinality(Ranked(r)) + Cardinality(Ranking(r)) <= Cardinality(Encoder))'
    <3>1. /\ Ranked(r) \in SUBSET album' /\ Ranked(r)' \in SUBSET album'
          /\ Ranking(r) \in SUBSET Encoder /\ Ranking(r)' \in SUBSET Encoder
      BY <1>6 DEF Ranked, Ranking
    <3>2. /\ Cardinality(Ranked(r)) \in Nat /\ Cardinality(Ranked(r)') \in Nat
          /\ Cardinality(Ranking(r)) \in Nat /\ Cardinality(Ranking(r)') \in Nat
      BY <1>7, <3>1, Counting, UploadConstants
    <3>3. Cardinality(Ranked(r)) + Cardinality(Ranking(r)) <= Cardinality(Encoder)
      BY DEF UploadInv, RankInv
    <3>4. CASE r = n
      <4>1. Ranked(r)' \subseteq Ranked(r) \cup {c} /\ c \in album'
        BY <1>6 DEF Ranked
      <4>2. w \in Ranking(r) /\ Ranking(r)' \subseteq Ranking(r) \ {w}
        BY <1>1, <1>6, <2>2, <3>4 DEF Ranking
      <4>3. Cardinality(Ranked(r)') <= Cardinality(Ranked(r)) + 1
        BY <1>7, <3>1, <4>1, CountingOne
      <4>4. Cardinality(Ranking(r)') + 1 <= Cardinality(Ranking(r))
        BY <3>1, <4>2, CountingOne, UploadConstants
      <4> QED BY <3>2, <3>3, <4>3, <4>4, UploadConstants
    <3>5. CASE r # n
      <4>1. Ranked(r)' \subseteq Ranked(r)
        BY <1>6, <3>5 DEF Ranked
      <4>2. Ranking(r)' \subseteq Ranking(r)
        BY <2>2 DEF Ranking
      <4>3. /\ Cardinality(Ranked(r)') <= Cardinality(Ranked(r))
            /\ Cardinality(Ranking(r)') <= Cardinality(Ranking(r))
        BY <1>7, <3>1, <4>1, <4>2, Counting, UploadConstants
      <4> QED BY <3>2, <3>3, <4>3, UploadConstants
    <3> QED BY <3>4, <3>5
  <2> QED BY <2>1, <2>4, <2>5 DEF RankInv
<1> QED BY <1>8, <1>9, <1>10 DEF UploadInv

\* A request is let in while the album has room for one more.
LEMMA AskUrlKeeps ==
    ASSUME UploadInv, NEW f \in File, AskUrl(f) PROVE UploadInv'
<1>1. FilesInv'
  BY DEF AskUrl, UploadInv, FilesInv, On, Adding, InAlbum
<1>2. AlbumInv'
  <2>1. (asking \cup given)' = (asking \cup given) \cup {f} /\ album' = album
    BY DEF AskUrl
  <2>2. /\ IsFiniteSet((asking \cup given)') /\ Open \in SUBSET (asking \cup given)'
        /\ Open' \in SUBSET (asking \cup given)'
        /\ f \in (asking \cup given)' /\ Open' \subseteq Open \cup {f}
    BY <2>1, FS_AddElement DEF Open, InAlbum, UploadInv, AlbumInv
  <2>3. /\ Cardinality(Open') <= Cardinality(Open) + 1
        /\ Cardinality(Open') \in Nat /\ Cardinality(Open) \in Nat
    BY <2>2, Counting, CountingOne
  <2>4. Cardinality(album) < AlbumSize /\ others' = Cardinality(Open)
    BY DEF AskUrl, Room
  <2>5. Cardinality(album') + Cardinality(Open') <= AlbumSize + others'
    BY <2>1, <2>3, <2>4, UploadSets, UploadConstants
  <2> QED BY <2>2, <2>3, <2>4, <2>5 DEF AskUrl, UploadInv, AlbumInv
<1>3. RankInv'
  BY DEF AskUrl, UploadInv, RankInv, Ranked, Ranking, On
<1> QED BY <1>1, <1>2, <1>3 DEF UploadInv

\* Its answer, with a URL or without, opens nothing more.
LEMMA AnswerKeeps ==
    ASSUME UploadInv, NEW f \in File, f \in asking,
           RefuseUrl(f) \/ \E kept \in BOOLEAN : GiveUrl(f, kept)
    PROVE  UploadInv'
<1>1. /\ (asking \cup given)' \subseteq asking \cup given
      /\ given \subseteq given' /\ meta' \subseteq given'
      /\ UNCHANGED <<job, pictures, album, others>>
  BY DEF RefuseUrl, GiveUrl, UploadInv, FilesInv
<1>2. FilesInv'
  BY <1>1 DEF UploadInv, FilesInv, On, Adding, InAlbum
<1>3. AlbumInv'
  <2>1. /\ IsFiniteSet((asking \cup given)') /\ Open' \subseteq Open
        /\ Open \in SUBSET (asking \cup given) /\ Open' \in SUBSET (asking \cup given)
    BY <1>1, FS_Subset DEF Open, InAlbum, UploadInv, AlbumInv
  <2>2. /\ Cardinality(Open') <= Cardinality(Open)
        /\ Cardinality(Open') \in Nat /\ Cardinality(Open) \in Nat
    BY <2>1, Counting DEF UploadInv, AlbumInv
  <2> QED BY <1>1, <2>1, <2>2, UploadSets, UploadConstants DEF UploadInv, AlbumInv
<1>4. RankInv'
  BY <1>1 DEF UploadInv, RankInv, Ranked, Ranking, On
<1> QED BY <1>2, <1>3, <1>4 DEF UploadInv

LEMMA UploadStep == UploadInv /\ [UploadNext]_uploadVars => UploadInv'
<1> SUFFICES ASSUME UploadInv, [UploadNext]_uploadVars PROVE UploadInv'
  OBVIOUS
<1>1. ASSUME NEW f \in File, AskUrl(f) \/ \E w \in Encoder : Take(w, f) PROVE UploadInv'
  BY <1>1, AskUrlKeeps, TakeKeeps
<1>2. ASSUME NEW f \in File, Forget(f) \/ Complete(f) PROVE UploadInv'
  BY <1>2, ElsewhereKeeps DEF Forget, Complete
<1>3. ASSUME NEW f \in File, RefuseUrl(f) \/ \E kept \in BOOLEAN : GiveUrl(f, kept)
      PROVE  UploadInv'
  BY <1>3, AnswerKeeps DEF RefuseUrl, GiveUrl
<1>4. ASSUME NEW w \in Encoder, Insert(w) \/ ReadAlbum(w) \/ AddToAlbum(w) \/ Drop(w)
      PROVE  UploadInv'
  BY <1>4, InsertKeeps, ReadAlbumKeeps, AddToAlbumKeeps, DropKeeps
<1>5. ASSUME NEW w \in Encoder, Scale(w) \/ Reject(w) \/ Raises(w) PROVE UploadInv'
  BY <1>5, EndKeeps DEF Scale, Reject, Raises, On
<1>6. CASE Uploaded \/ UNCHANGED uploadVars
  BY <1>6, ElsewhereKeeps DEF Uploaded, uploadVars
<1> QED BY <1>1, <1>2, <1>3, <1>4, <1>5, <1>6 DEF UploadNext

\* Whatever the size of the album and the number of requests and workers: the album
\* outgrows its size by no more than the uploads that were open, with a URL or about
\* to get one, when a request last found room, has no file twice, and gives no rank to
\* more pictures than there are workers.
THEOREM UploadsAreBounded == UploadSpec => []UploadsBounded
<1>1. UploadInv => UploadsBounded
  <2> SUFFICES ASSUME UploadInv PROVE UploadsBounded
    OBVIOUS
  <2>1. Cardinality(album) <= AlbumSize + others
    BY UploadSets, UploadConstants DEF UploadInv, AlbumInv
  <2>2. ASSUME NEW c \in album
        PROVE  Cardinality({d \in album : d.rank = c.rank}) <= Cardinality(Encoder)
    <3>1. PICK r \in Nat : r = c.rank
      BY DEF UploadInv, RankInv
    <3>2. Cardinality(Ranked(r)) + Cardinality(Ranking(r)) <= Cardinality(Encoder)
      BY DEF UploadInv, RankInv
    <3>3. Cardinality(Ranked(r)) <= Cardinality(Encoder)
      BY <3>2, UploadSets, UploadConstants
    <3> QED BY <3>1, <3>3 DEF Ranked
  <2> QED BY <2>1, <2>2 DEF UploadsBounded, UploadInv, AlbumInv
<1> QED BY <1>1, UploadInitial, UploadStep, PTL DEF UploadSpec

-----------------------------------------------------------------------------
(* Sending *)

Sends == [step : {"day", "month", "smtp", "commit"}, to : Address]
            \cup [step : {"dayStore", "monthStore"}, to : Address, seen : Int \cup {Unset}]

SendingTypes ==
    /\ status \in [Address -> {"enabled", "disabled"}]
    /\ task \in [Sender -> Sends \cup {Resting}]
    /\ left \in [Mediums -> [Period -> Int \cup {Unset}]]
    /\ delivered \in [Mediums -> [Period -> Nat]]
    /\ late \in [Address -> Nat]

\* No reserve is as large as its limit, and none was read so.
BelowLimit ==
    /\ \A m \in Mediums, p \in Period : left[m][p] # Unset => left[m][p] < Limit(p)
    /\ \A w \in Sender, p \in Period :
          In(w, Storing(p)) /\ task[w].seen # Unset => task[w].seen < Limit(p)

\* Workers that may still send c a message.
Heading(c) ==
    {w \in Sender : task[w].step \notin {"idle", "commit"} /\ task[w].to = c}

\* Workers whose message has its unit of the period and is not out yet, those that
\* will take one, and those that will set the reserve.
Paid(period) == IF period = "day" THEN {"month", "monthStore", "smtp"} ELSE {"smtp"}
Holding(m, p) == {w \in Sender : task[w].step \in Paid(p) /\ Medium(task[w].to) = m}
Taking(m, p) ==
    {w \in Sender : /\ task[w].step = Storing(p) /\ Medium(task[w].to) = m
                    /\ task[w].seen # Unset /\ task[w].seen > 0}
Setting(m, p) ==
    {w \in Sender : /\ task[w].step = Storing(p) /\ Medium(task[w].to) = m
                    /\ task[w].seen = Unset}

LateInv ==
    \A c \in Address :
        /\ late[c] + Cardinality(Heading(c)) <= Cardinality(Sender)
        /\ status[c] = "enabled" => late[c] = 0

\* With d messages delivered and h, t and s workers that hold a unit, take one and set
\* the reserve of v units.  While it is not there only units from before go out; once it
\* is, each worker that sets it adds the limit and one unit for each other worker.
Reckoned(d, h, t, s, v, l, w) ==
    IF v = Unset THEN d + h + t <= w
    ELSE /\ s <= w - 1
         /\ d + h + (IF v > 0 THEN v + (w - 1 - s) ELSE t) + s * (l + (w - 1))
               <= w + l + (w - 1) * (l + (w - 1))

Account(m, p) ==
    Reckoned(delivered[m][p], Cardinality(Holding(m, p)), Cardinality(Taking(m, p)),
             Cardinality(Setting(m, p)), left[m][p], Limit(p), Cardinality(Sender))

ReserveInv == \A m \in Mediums, p \in Period : Account(m, p)

SendingInv == SendingTypes /\ BelowLimit /\ LateInv /\ ReserveInv

LEMMA SendingConstants ==
    /\ IsFiniteSet(Sender) /\ Cardinality(Sender) \in Nat /\ Cardinality(Sender) >= 1
    /\ Unset \notin Int
    /\ \A p \in Period : Limit(p) \in Nat /\ Limit(p) > 0
    /\ \A c \in Address : Medium(c) \in Mediums
<1>1. Cardinality(Sender) \in Nat /\ Cardinality(Sender) # 0
  BY SendingAssumption, FS_CardinalityType, FS_EmptySet DEF SendingAssumption
<1> QED BY <1>1, SendingAssumption DEF SendingAssumption, Period, Limit, Medium, Mediums

\* Products of counts.
LEMMA Times ==
    ASSUME NEW s \in Nat, NEW r \in Nat, NEW c \in Nat
    PROVE  /\ s * c \in Nat
           /\ r <= s => r * c <= s * c
           /\ r + 1 <= s => r * c + c <= s * c
<1>1. s * c \in Nat /\ r * c \in Nat
  OBVIOUS
<1>2. ASSUME r <= s PROVE r * c <= s * c
  <2>1. PICK k \in Nat : s = r + k
    BY <1>2
  <2>2. s * c = r * c + k * c /\ k * c \in Nat
    BY <2>1
  <2> QED BY <1>1, <2>2
<1>3. ASSUME r + 1 <= s PROVE r * c + c <= s * c
  <2>1. PICK k \in Nat : s = r + 1 + k
    BY <1>3
  <2>2. s * c = r * c + c + k * c /\ k * c \in Nat
    BY <2>1
  <2> QED BY <1>1, <2>2
<1> QED BY <1>1, <1>2, <1>3

\* Fewer workers on their way, or one more that has read the reserve.
LEMMA ReckonFewer ==
    ASSUME NEW d \in Nat, NEW h \in Nat, NEW t \in Nat, NEW s \in Nat,
           NEW e \in Nat, NEW i \in Nat, NEW u \in Nat, NEW r \in Nat,
           NEW l \in Nat, NEW w \in Nat, l >= 1, w >= 1,
           NEW v \in Int \cup {Unset}, Reckoned(d, h, t, s, v, l, w),
           e + i <= d + h, u <= t \/ (v # Unset /\ v > 0), r <= s \/ v = Unset
    PROVE  Reckoned(e, i, u, r, v, l, w)
<1>1. CASE v = Unset
  BY <1>1, SendingConstants DEF Reckoned
<1>2. CASE v # Unset
  <2>1. PICK c \in Nat : c = l + (w - 1) /\ c >= 1
    OBVIOUS
  <2>2. PICK k \in Nat : s = r + k
    BY <1>2
  <2>3. s * c = r * c + k * c /\ k <= k * c /\ r * c \in Nat /\ k * c \in Nat
    <3>1. 1 <= c => k * 1 <= k * c
      BY Times, <2>1
    <3> QED BY <2>1, <2>2, <3>1
  <2>4. PICK sc \in Nat, rc \in Nat, b \in Int :
           sc = s * c /\ rc = r * c /\ b = w + l + (w - 1) * c /\ rc + k <= sc
    BY <2>1, <2>3
  <2>5. s <= w - 1 /\ d + h + (IF v > 0 THEN v + (w - 1 - s) ELSE t) + sc <= b
    BY <1>2, <2>1, <2>4 DEF Reckoned
  <2>6. r <= w - 1 /\ e + i + (IF v > 0 THEN v + (w - 1 - r) ELSE u) + rc <= b
    BY <1>2, <2>2, <2>4, <2>5
  <2> QED BY <1>2, <2>1, <2>4, <2>6 DEF Reckoned
<1> QED BY <1>1, <1>2

\* One of those that set the reserve does.
LEMMA ReckonSet ==
    ASSUME NEW d \in Nat, NEW h \in Nat, NEW t \in Nat, NEW s \in Nat,
           NEW i \in Nat, NEW u \in Nat, NEW r \in Nat,
           NEW l \in Nat, NEW w \in Nat, l >= 1, w >= 1,
           NEW v \in Int \cup {Unset}, Reckoned(d, h, t, s, v, l, w),
           h + t + s <= w, i <= h + 1, u <= t, r + 1 <= s
    PROVE  Reckoned(d, i, u, r, l - 1, l, w)
<1>1. PICK c \in Nat : c = l + (w - 1) /\ c >= 1
  OBVIOUS
<1>2. PICK sc \in Nat, rc \in Nat, b \in Int, wc \in Nat :
         sc = s * c /\ rc = r * c /\ wc = (w - 1) * c /\ b = w + l + wc
  BY <1>1, Times
<1>3. rc + c <= sc
  BY <1>1, <1>2, Times
<1>4. PICK k \in Nat : w - 1 = r + k
  OBVIOUS
<1>5. rc + k <= wc
  <2>1. w - 1 \in Nat
    OBVIOUS
  <2>2. (w - 1) * c = r * c + k * c /\ k * c \in Nat
    BY <1>1, <1>4, <2>1
  <2>3. 1 <= c => 1 * k <= c * k
    BY <1>1, Times
  <2> QED BY <1>1, <1>2, <2>2, <2>3
<1>6. r <= w - 1 /\ d + i + (IF l - 1 > 0 THEN l - 1 + (w - 1 - r) ELSE u) + rc <= b
  <2>1. CASE v = Unset
    <3>1. d + h + t <= w
      BY <2>1 DEF Reckoned
    <3> QED BY <1>2, <1>4, <1>5, <3>1
  <2>2. CASE v # Unset
    <3>1. s <= w - 1 /\ d + h + (IF v > 0 THEN v + (w - 1 - s) ELSE t) + sc <= b
      BY <1>1, <1>2, <2>2 DEF Reckoned
    <3> QED BY <1>1, <1>2, <1>3, <2>2, <3>1
  <2> QED BY <2>1, <2>2
<1> QED BY <1>1, <1>2, <1>6, SendingConstants DEF Reckoned

\* One of those that take a unit does, of whatever is there.
LEMMA ReckonTake ==
    ASSUME NEW d \in Nat, NEW h \in Nat, NEW t \in Nat, NEW s \in Nat,
           NEW i \in Nat, NEW u \in Nat, NEW r \in Nat,
           NEW l \in Nat, NEW w \in Nat, l >= 1, w >= 1,
           NEW v \in Int \cup {Unset}, Reckoned(d, h, t, s, v, l, w),
           h + t + s <= w, i <= h + 1, u + 1 <= t, r <= s
    PROVE  Reckoned(d, i, u, r, IF v = Unset THEN -1 ELSE v - 1, l, w)
<1>1. PICK c \in Nat : c = l + (w - 1) /\ c >= 1
  OBVIOUS
<1>2. PICK sc \in Nat, rc \in Nat, b \in Int, wc \in Nat :
         sc = s * c /\ rc = r * c /\ wc = (w - 1) * c /\ b = w + l + wc
  BY <1>1, Times
<1>3. PICK k \in Nat : s = r + k
  OBVIOUS
<1>4. rc + k <= sc
  <2>1. s * c = r * c + k * c /\ k * c \in Nat
    BY <1>1, <1>3
  <2>2. 1 <= c => 1 * k <= c * k
    BY <1>1, Times
  <2> QED BY <1>1, <1>2, <2>1, <2>2
<1>5. CASE v = Unset
  <2>1. d + h + t <= w
    BY <1>5 DEF Reckoned
  <2>2. r <= w - 1 /\ rc <= wc
    BY <1>1, <1>2, Times
  <2>3. d + i + u + rc <= b
    BY <1>2, <2>1, <2>2
  <2> QED BY <1>1, <1>2, <1>5, <2>2, <2>3, SendingConstants DEF Reckoned
<1>6. CASE v # Unset
  <2>1. s <= w - 1 /\ d + h + (IF v > 0 THEN v + (w - 1 - s) ELSE t) + sc <= b
    BY <1>1, <1>2, <1>6 DEF Reckoned
  <2>2. PICK n \in Int : n = v - 1
    BY <1>6
  <2>3. r <= w - 1 /\ d + i + (IF n > 0 THEN n + (w - 1 - r) ELSE u) + rc <= b
    BY <1>2, <1>3, <1>4, <1>6, <2>1, <2>2
  <2> QED BY <1>1, <1>2, <1>6, <2>2, <2>3, SendingConstants DEF Reckoned
<1> QED BY <1>5, <1>6

LEMMA WorkerSets ==
    /\ \A c : Heading(c) \in SUBSET Sender /\ Heading(c)' \in SUBSET Sender
    /\ \A m, p : /\ Holding(m, p) \in SUBSET Sender /\ Holding(m, p)' \in SUBSET Sender
                 /\ Taking(m, p) \in SUBSET Sender /\ Taking(m, p)' \in SUBSET Sender
                 /\ Setting(m, p) \in SUBSET Sender /\ Setting(m, p)' \in SUBSET Sender
  BY DEF Heading, Holding, Taking, Setting

LEMMA WorkerCounts ==
    ASSUME NEW m, NEW p
    PROVE  /\ Cardinality(Holding(m, p)) \in Nat /\ Cardinality(Holding(m, p)') \in Nat
           /\ Cardinality(Taking(m, p)) \in Nat /\ Cardinality(Taking(m, p)') \in Nat
           /\ Cardinality(Setting(m, p)) \in Nat /\ Cardinality(Setting(m, p)') \in Nat
  BY WorkerSets, SendingConstants, Counting

\* No worker counts twice.
LEMMA OneCount ==
    ASSUME NEW m, NEW p \in Period
    PROVE  Cardinality(Holding(m, p)) + Cardinality(Taking(m, p)) + Cardinality(Setting(m, p))
              <= Cardinality(Sender)
<1>1. /\ Holding(m, p) \cap Taking(m, p) = {} /\ Holding(m, p) \cap Setting(m, p) = {}
      /\ Taking(m, p) \cap Setting(m, p) = {}
  BY DEF Holding, Taking, Setting, Paid, Storing, Period
<1>2. PICK A, B, C : A = Holding(m, p) /\ B = Taking(m, p) /\ C = Setting(m, p)
  OBVIOUS
<1>3. /\ A \in SUBSET Sender /\ B \in SUBSET Sender /\ C \in SUBSET Sender
      /\ IsFiniteSet(A) /\ IsFiniteSet(B) /\ IsFiniteSet(C) /\ IsFiniteSet(A \cup B)
  BY <1>2, WorkerSets, SendingConstants, FS_Subset, FS_Union
<1>4. Cardinality(A \cup B) = Cardinality(A) + Cardinality(B)
  <2>1. Cardinality(A \cup B) = Cardinality(A) + Cardinality(B) - Cardinality(A \cap B)
    BY <1>3, FS_Union
  <2>2. Cardinality(A \cap B) = 0
    BY <1>1, <1>2, FS_EmptySet
  <2>3. Cardinality(A) \in Nat /\ Cardinality(B) \in Nat
    BY <1>3, FS_CardinalityType
  <2> QED BY <2>1, <2>2, <2>3
<1>5. Cardinality((A \cup B) \cup C) = Cardinality(A \cup B) + Cardinality(C)
  <2>1. (A \cup B) \cap C = {}
    BY <1>1, <1>2
  <2>2. Cardinality((A \cup B) \cup C)
           = Cardinality(A \cup B) + Cardinality(C) - Cardinality((A \cup B) \cap C)
    BY <1>3, FS_Union
  <2>3. Cardinality((A \cup B) \cap C) = 0
    BY <2>1, FS_EmptySet
  <2>4. Cardinality(A \cup B) \in Nat /\ Cardinality(C) \in Nat
    BY <1>3, FS_CardinalityType
  <2> QED BY <2>2, <2>3, <2>4
<1>6. Cardinality((A \cup B) \cup C) <= Cardinality(Sender)
  <2>1. (A \cup B) \cup C \in SUBSET Sender
    BY <1>3
  <2> QED BY <2>1, SendingConstants, Counting
<1> QED BY <1>2, <1>4, <1>5, <1>6

\* A reserve that a step leaves alone: no worker gets nearer to a unit of it, but one
\* may have read it.
Aside(m, p) ==
    /\ delivered'[m][p] = delivered[m][p] /\ left'[m][p] = left[m][p]
    /\ Holding(m, p)' \subseteq Holding(m, p)
    /\ Taking(m, p)' \subseteq Taking(m, p) \/ (left[m][p] # Unset /\ left[m][p] > 0)
    /\ Setting(m, p)' \subseteq Setting(m, p) \/ left[m][p] = Unset

LEMMA AsideKeeps ==
    ASSUME SendingInv, NEW m \in Mediums, NEW p \in Period, Aside(m, p)
    PROVE  Account(m, p)'
<1>1. /\ Account(m, p) /\ delivered[m][p] \in Nat /\ left[m][p] \in Int \cup {Unset}
      /\ Limit(p) \in Nat /\ Limit(p) >= 1
      /\ Cardinality(Sender) \in Nat /\ Cardinality(Sender) >= 1
  BY SendingConstants DEF SendingInv, SendingTypes, ReserveInv
<1>2. PICK h, t, s, i, u, r \in Nat :
         /\ h = Cardinality(Holding(m, p)) /\ i = Cardinality(Holding(m, p)')
         /\ t = Cardinality(Taking(m, p)) /\ u = Cardinality(Taking(m, p)')
         /\ s = Cardinality(Setting(m, p)) /\ r = Cardinality(Setting(m, p)')
  BY WorkerCounts
<1>3. i <= h
  BY <1>2, WorkerSets, SendingConstants, Counting DEF Aside
<1>4. u <= t \/ (left[m][p] # Unset /\ left[m][p] > 0)
  BY <1>2, WorkerSets, SendingConstants, Counting DEF Aside
<1>5. r <= s \/ left[m][p] = Unset
  BY <1>2, WorkerSets, SendingConstants, Counting DEF Aside
<1>6. Reckoned(delivered[m][p], h, t, s, left[m][p], Limit(p), Cardinality(Sender))
  BY <1>1, <1>2 DEF Account
<1>7. delivered[m][p] + i <= delivered[m][p] + h
  BY <1>1, <1>3
<1>8. Reckoned(delivered[m][p], i, u, r, left[m][p], Limit(p), Cardinality(Sender))
  BY <1>1, <1>4, <1>5, <1>6, <1>7, ReckonFewer
<1> QED BY <1>2, <1>8 DEF Account, Aside, Limit

LEMMA LateKeeps ==
    ASSUME SendingInv, UNCHANGED <<status, late>>,
           \A c \in Address : Heading(c)' \subseteq Heading(c)
    PROVE  LateInv'
<1>1. ASSUME NEW c \in Address
      PROVE  /\ late'[c] + Cardinality(Heading(c)') <= Cardinality(Sender)
             /\ status'[c] = "enabled" => late'[c] = 0
  <2>1. late[c] + Cardinality(Heading(c)) <= Cardinality(Sender) /\ late[c] \in Nat
    BY DEF SendingInv, LateInv, SendingTypes
  <2>2. /\ Cardinality(Heading(c)') <= Cardinality(Heading(c))
        /\ Cardinality(Heading(c)') \in Nat /\ Cardinality(Heading(c)) \in Nat
    BY WorkerSets, SendingConstants, Counting
  <2> QED BY <2>1, <2>2, SendingConstants DEF SendingInv, LateInv
<1> QED BY <1>1 DEF LateInv

LEMMA SendingInitial == SendingInit => SendingInv
<1> SUFFICES ASSUME SendingInit PROVE SendingInv
  OBVIOUS
<1>1. SendingTypes /\ BelowLimit
  BY DEF SendingInit, SendingTypes, BelowLimit, In, Storing, Resting
<1>2. \A c : Heading(c) = {}
  BY DEF SendingInit, Heading, Resting
<1>3. \A m, p : Holding(m, p) = {} /\ Taking(m, p) = {} /\ Setting(m, p) = {}
  BY DEF SendingInit, Holding, Taking, Setting, Resting, Paid, Storing
<1>4. Cardinality({}) = 0
  BY FS_EmptySet
<1>5. LateInv
  <2>1. \A c \in Address : late[c] = 0 /\ Cardinality(Heading(c)) = 0
    BY <1>2, <1>4 DEF SendingInit
  <2> QED BY <2>1, SendingConstants DEF LateInv
<1>6. ReserveInv
  <2>1. ASSUME NEW m \in Mediums, NEW p \in Period
        PROVE  /\ delivered[m][p] = 0 /\ left[m][p] = Unset
               /\ Cardinality(Holding(m, p)) = 0 /\ Cardinality(Taking(m, p)) = 0
    BY <1>3, <1>4 DEF SendingInit
  <2> QED BY <2>1, SendingConstants DEF ReserveInv, Account, Reckoned
<1> QED BY <1>1, <1>5, <1>6 DEF SendingInv

\* Only the task of w changes; it gets no nearer to a delivery.
LEMMA TaskKeeps ==
    ASSUME SendingInv, SendingTypes', BelowLimit', UNCHANGED <<status, late>>,
           \A c \in Address : Heading(c)' \subseteq Heading(c),
           \A m \in Mediums, p \in Period : Aside(m, p)
    PROVE  SendingInv'
  BY LateKeeps, AsideKeeps DEF SendingInv, ReserveInv

LEMMA BeginKeeps ==
    ASSUME SendingInv, NEW w \in Sender, NEW c \in Address, Begin(w, c)
    PROVE  SendingInv'
<1>1. /\ SendingTypes /\ BelowLimit /\ UNCHANGED <<status, left, delivered, late>>
      /\ task[w].step = "idle"
  BY DEF SendingInv, Begin, In
<1>2. CASE UNCHANGED task
  BY <1>1, <1>2 DEF SendingInv, SendingTypes, BelowLimit, In, LateInv, ReserveInv, Heading,
                    Account, Holding, Taking, Setting
<1>3. CASE task' = [task EXCEPT ![w] = [step |-> "day", to |-> c]] /\ Heeded(c)
  <2>1. /\ task'[w] = [step |-> "day", to |-> c]
        /\ \A x \in Sender \ {w} : task'[x] = task[x]
    BY <1>1, <1>3 DEF SendingTypes
  <2>2. SendingTypes' /\ BelowLimit'
    <3>1. [step |-> "day", to |-> c] \in Sends
      BY DEF Sends
    <3> QED BY <1>1, <1>3, <2>1, <3>1 DEF SendingTypes, BelowLimit, In, Storing, Limit
  <2>3. \A d \in Address : d # c => Heading(d)' \subseteq Heading(d)
    BY <2>1 DEF Heading
  <2>4. \A m \in Mediums, p \in Period : Aside(m, p)
    BY <1>1, <2>1 DEF Aside, Holding, Taking, Setting, Paid, Storing
  <2>5. late[c] = 0
    BY <1>1, <1>3 DEF Heeded, SendingInv, LateInv, SendingTypes
  <2>6. ASSUME NEW d \in Address
        PROVE  /\ late'[d] + Cardinality(Heading(d)') <= Cardinality(Sender)
               /\ status'[d] = "enabled" => late'[d] = 0
    <3>1. /\ late[d] + Cardinality(Heading(d)) <= Cardinality(Sender)
          /\ status[d] = "enabled" => late[d] = 0
          /\ late[d] \in Nat
      BY <1>1 DEF SendingInv, LateInv, SendingTypes
    <3>2. /\ Cardinality(Heading(d)') \in Nat /\ Cardinality(Heading(d)) \in Nat
          /\ Cardinality(Heading(d)') <= Cardinality(Sender)
          /\ d # c => Cardinality(Heading(d)') <= Cardinality(Heading(d))
      BY <2>3, WorkerSets, SendingConstants, Counting
    <3> QED BY <1>1, <2>5, <3>1, <3>2, SendingConstants
  <2> QED BY <2>2, <2>4, <2>6, AsideKeeps DEF SendingInv, LateInv, ReserveInv
<1> QED BY <1>2, <1>3 DEF Begin

\* A task that ends, at whatever step.
LEMMA EndsKeeps ==
    ASSUME SendingInv, NEW w \in Sender, Ends(w), UNCHANGED <<status, left, delivered, late>>
    PROVE  SendingInv'
<1>1. SendingTypes /\ BelowLimit
  BY DEF SendingInv
<1>2. task'[w] = Resting /\ \A x \in Sender \ {w} : task'[x] = task[x]
  BY <1>1 DEF SendingTypes, Ends
<1>3. SendingTypes' /\ BelowLimit'
  BY <1>1, <1>2 DEF SendingTypes, BelowLimit, In, Storing, Resting, Ends, Limit
<1>4. \A c \in Address : Heading(c)' \subseteq Heading(c)
  BY <1>2 DEF Heading, Resting
<1>5. \A m \in Mediums, p \in Period : Aside(m, p)
  BY <1>2 DEF Aside, Holding, Taking, Setting, Paid, Storing, Resting
<1> QED BY <1>3, <1>4, <1>5, TaskKeeps

LEMMA ReadKeeps ==
    ASSUME SendingInv, NEW w \in Sender, NEW period \in Period, Read(w, period)
    PROVE  SendingInv'
<1>1. /\ SendingTypes /\ BelowLimit /\ UNCHANGED <<status, left, delivered, late>>
      /\ task[w].step = period
  BY DEF SendingInv, Read, In
<1>2. task[w].to \in Address
  BY <1>1 DEF SendingTypes, Sends, Period, Resting
<1>3. PICK c \in Address, m \in Mediums, v \in Int \cup {Unset} :
         c = task[w].to /\ m = Medium(c) /\ v = left[m][period]
  BY <1>1, <1>2, SendingConstants DEF SendingTypes
<1>4. PICK at \in {"dayStore", "monthStore"} : at = Storing(period)
  BY DEF Storing
<1>5. /\ task' = [task EXCEPT ![w] = [step |-> at, to |-> c, seen |-> v]]
      /\ task'[w] = [step |-> at, to |-> c, seen |-> v]
      /\ \A x \in Sender \ {w} : task'[x] = task[x]
  BY <1>1, <1>3, <1>4 DEF Read, SendingTypes
<1>6. SendingTypes'
  <2>1. [step |-> at, to |-> c, seen |-> v] \in Sends
    BY DEF Sends
  <2> QED BY <1>1, <1>5, <2>1 DEF SendingTypes
<1>7. BelowLimit'
  <2>1. ASSUME NEW x \in Sender, NEW p \in Period, In(x, Storing(p))', task'[x].seen # Unset
        PROVE  task'[x].seen < Limit(p)
    <3>1. CASE x = w
      <4>1. p = period
        BY <1>4, <1>5, <2>1, <3>1 DEF In, Storing, Period
      <4> QED BY <1>1, <1>3, <1>5, <2>1, <3>1, <4>1 DEF BelowLimit
    <3>2. CASE x # w
      BY <1>1, <1>5, <2>1, <3>2 DEF BelowLimit, In, Storing
    <3> QED BY <3>1, <3>2
  <2> QED BY <1>1, <2>1 DEF BelowLimit, Limit, Storing
<1>8. \A d \in Address : Heading(d)' \subseteq Heading(d)
  BY <1>1, <1>3, <1>5 DEF Heading, Period
<1>9. ASSUME NEW n \in Mediums, NEW p \in Period PROVE Aside(n, p)
  <2>1. w \in Holding(n, p)' => w \in Holding(n, p)
    BY <1>1, <1>3, <1>4, <1>5 DEF Holding, Paid, Storing, Period
  <2>2. /\ w \in Taking(n, p)' => v # Unset /\ v > 0 /\ n = m /\ p = period
        /\ w \in Setting(n, p)' => v = Unset /\ n = m /\ p = period
    BY <1>3, <1>4, <1>5 DEF Taking, Setting, Storing, Period
  <2>3. Holding(n, p)' \subseteq Holding(n, p)
    BY <1>5, <2>1 DEF Holding
  <2>4. Taking(n, p)' \subseteq Taking(n, p) \/ (left[n][p] # Unset /\ left[n][p] > 0)
    BY <1>3, <1>5, <2>2 DEF Taking
  <2>5. Setting(n, p)' \subseteq Setting(n, p) \/ left[n][p] = Unset
    BY <1>3, <1>5, <2>2 DEF Setting
  <2> QED BY <1>1, <2>3, <2>4, <2>5 DEF Aside
<1> QED BY <1>1, <1>6, <1>7, <1>8, <1>9, TaskKeeps

\* A worker gets its unit: one that sets the reserve, or takes one from it.
LEMMA StoreKeeps ==
    ASSUME SendingInv, NEW w \in Sender, NEW period \in Period,
           SetReserve(w, period) \/ TakeUnit(w, period)
    PROVE  SendingInv'
<1>1. /\ SendingTypes /\ BelowLimit /\ ReserveInv /\ UNCHANGED <<status, delivered, late>>
      /\ task[w].step = Storing(period)
  BY DEF SendingInv, SetReserve, TakeUnit, In
<1>2. task[w].to \in Address /\ task[w].seen \in Int \cup {Unset}
  BY <1>1 DEF SendingTypes, Sends, Storing, Resting
<1>3. PICK c \in Address, m \in Mediums, v \in Int \cup {Unset}, at \in {"month", "smtp"} :
         c = task[w].to /\ m = Medium(c) /\ v = left[m][period] /\ at = After(period)
  BY <1>1, <1>2, SendingConstants DEF SendingTypes, After
<1>4. /\ task' = [task EXCEPT ![w] = [step |-> at, to |-> c]]
      /\ task'[w] = [step |-> at, to |-> c]
      /\ \A x \in Sender \ {w} : task'[x] = task[x]
  BY <1>1, <1>3 DEF SetReserve, TakeUnit, SendingTypes
<1>5. PICK new \in Int :
         /\ left' = [left EXCEPT ![m][period] = new] /\ new < Limit(period)
         /\ \/ SetReserve(w, period) /\ new = Limit(period) - 1
            \/ TakeUnit(w, period) /\ new = IF v = Unset THEN -1 ELSE v - 1
  <2>1. CASE SetReserve(w, period)
    <3>1. PICK k \in Int : k = Limit(period) - 1 /\ k < Limit(period)
      BY SendingConstants
    <3>2. left' = [left EXCEPT ![m][period] = k]
      BY <1>3, <2>1, <3>1 DEF SetReserve
    <3> QED BY <2>1, <3>1, <3>2
  <2>2. CASE TakeUnit(w, period)
    <3>1. v # Unset => v < Limit(period)
      BY <1>1, <1>3 DEF BelowLimit
    <3>2. PICK k \in Int : k = IF v = Unset THEN -1 ELSE v - 1
      BY <1>3
    <3>3. k < Limit(period)
      BY <3>1, <3>2, <1>3, SendingConstants
    <3>4. left' = [left EXCEPT ![m][period] = k]
      <4>1. CASE v = Unset
        BY <1>3, <2>2, <3>2, <4>1 DEF TakeUnit
      <4>2. CASE v # Unset
        BY <1>1, <1>3, <2>2, <3>2, <4>2 DEF TakeUnit, SendingTypes
      <4> QED BY <4>1, <4>2
    <3> QED BY <2>2, <3>2, <3>3, <3>4
  <2> QED BY <2>1, <2>2
<1>6. /\ left'[m][period] = new
      /\ \A n \in Mediums, p \in Period :
            <<n, p>> # <<m, period>> => left'[n][p] = left[n][p]
  BY <1>1, <1>5 DEF SendingTypes
<1>7. SendingTypes'
  <2>1. [step |-> at, to |-> c] \in Sends
    BY DEF Sends
  <2>2. task' \in [Sender -> Sends \cup {Resting}]
    BY <1>1, <1>4, <2>1 DEF SendingTypes
  <2>3. left' \in [Mediums -> [Period -> Int \cup {Unset}]]
    BY <1>1, <1>5 DEF SendingTypes
  <2> QED BY <1>1, <2>2, <2>3 DEF SendingTypes
<1>8. BelowLimit'
  <2>1. \A n \in Mediums, p \in Period : left'[n][p] # Unset => left'[n][p] < Limit(p)
    BY <1>1, <1>5, <1>6 DEF BelowLimit
  <2>2. \A x \in Sender, p \in Period :
           In(x, Storing(p))' => x # w /\ In(x, Storing(p)) /\ task'[x] = task[x]
    BY <1>4 DEF In, Storing
  <2>3. \A x \in Sender, p \in Period :
           In(x, Storing(p))' /\ task'[x].seen # Unset => task'[x].seen < Limit(p)
    BY <1>1, <2>2 DEF BelowLimit
  <2> QED BY <2>1, <2>3 DEF BelowLimit, Limit, In, Storing
<1>9. LateInv'
  <2>1. \A d \in Address : Heading(d)' \subseteq Heading(d)
    BY <1>1, <1>3, <1>4 DEF Heading, Storing
  <2> QED BY <1>1, <2>1, LateKeeps
<1>10. ASSUME NEW n \in Mediums, NEW p \in Period, <<n, p>> # <<m, period>>
       PROVE  Account(n, p)'
  <2>1. w \in Holding(n, p)' => w \in Holding(n, p)
    BY <1>1, <1>3, <1>4, <1>10 DEF Holding, Paid, Storing, After, Period
  <2>2. w \notin Taking(n, p)' /\ w \notin Setting(n, p)'
    BY <1>4 DEF Taking, Setting, Storing
  <2>3. Holding(n, p)' \subseteq Holding(n, p)
    BY <1>4, <2>1 DEF Holding
  <2>4. Taking(n, p)' \subseteq Taking(n, p) /\ Setting(n, p)' \subseteq Setting(n, p)
    BY <1>4, <2>2 DEF Taking, Setting
  <2>5. Aside(n, p)
    BY <1>1, <1>6, <1>10, <2>3, <2>4 DEF Aside
  <2> QED BY <2>5, AsideKeeps
<1>11. Account(m, period)'
  <2>1. PICK h, t, s, i, u, r \in Nat :
           /\ h = Cardinality(Holding(m, period)) /\ i = Cardinality(Holding(m, period)')
           /\ t = Cardinality(Taking(m, period)) /\ u = Cardinality(Taking(m, period)')
           /\ s = Cardinality(Setting(m, period)) /\ r = Cardinality(Setting(m, period)')
    BY WorkerCounts
  <2>2. PICK d, l, k \in Nat : /\ d = delivered[m][period] /\ l = Limit(period)
                               /\ k = Cardinality(Sender) /\ l >= 1 /\ k >= 1
    BY <1>1, SendingConstants DEF SendingTypes
  <2>3. Reckoned(d, h, t, s, v, l, k) /\ h + t + s <= k
    BY <1>1, <1>3, <2>1, <2>2, OneCount DEF ReserveInv, Account
  <2>4. i <= h + 1
    <3>1. Holding(m, period)' \subseteq Holding(m, period) \cup {w}
      BY <1>4 DEF Holding
    <3> QED BY <2>1, <3>1, WorkerSets, SendingConstants, CountingOne
  <2>5. /\ Taking(m, period)' \subseteq Taking(m, period) \ {w}
        /\ Setting(m, period)' \subseteq Setting(m, period) \ {w}
    BY <1>4 DEF Taking, Setting, Storing
  <2>6. u <= t /\ r <= s
    BY <2>1, <2>5, WorkerSets, SendingConstants, Counting
  <2>7. Reckoned(d, i, u, r, new, l, k)
    <3>1. CASE SetReserve(w, period) /\ new = l - 1
      <4>1. w \in Setting(m, period)
        BY <1>1, <1>2, <1>3, <3>1 DEF SetReserve, Counted, Setting, BelowLimit, In
      <4>2. r + 1 <= s
        BY <2>1, <2>5, <4>1, WorkerSets, SendingConstants, CountingOne
      <4> QED BY <2>2, <2>3, <2>4, <2>6, <3>1, <4>2, ReckonSet
    <3>2. CASE TakeUnit(w, period) /\ new = IF v = Unset THEN -1 ELSE v - 1
      <4>1. w \in Taking(m, period)
        BY <1>1, <1>3, <3>2 DEF TakeUnit, Counted, Taking
      <4>2. u + 1 <= t
        BY <2>1, <2>5, <4>1, WorkerSets, SendingConstants, CountingOne
      <4> QED BY <2>2, <2>3, <2>4, <2>6, <3>2, <4>2, ReckonTake
    <3> QED BY <1>5, <2>2, <3>1, <3>2
  <2> QED BY <1>1, <1>6, <2>1, <2>2, <2>7 DEF Account, Limit
<1>12. ReserveInv'
  <2>1. ASSUME NEW n \in Mediums, NEW p \in Period PROVE Account(n, p)'
    <3>1. CASE n = m /\ p = period
      BY <1>11, <3>1
    <3>2. CASE <<n, p>> # <<m, period>>
      BY <1>10, <3>2
    <3> QED BY <3>1, <3>2
  <2> QED BY <2>1 DEF ReserveInv
<1> QED BY <1>7, <1>8, <1>9, <1>12 DEF SendingInv

LEMMA SendMailKeeps ==
    ASSUME SendingInv, NEW w \in Sender, SendMail(w)
    PROVE  SendingInv'
<1>1. /\ SendingTypes /\ BelowLimit /\ LateInv /\ ReserveInv
      /\ UNCHANGED <<status, left>>
      /\ task[w].step = "smtp"
      /\ task' = [task EXCEPT ![w].step = "commit"]
  BY DEF SendingInv, SendMail, In, Move
<1>2. task[w] \in [step : {"smtp"}, to : Address]
  BY <1>1 DEF SendingTypes, Sends, Resting
<1>3. PICK c \in Address, m \in Mediums : c = task[w].to /\ m = Medium(c)
  BY <1>2, SendingConstants
<1>4. /\ late' = [late EXCEPT ![c] = IF status[c] = "disabled" THEN @ + 1 ELSE @]
      /\ delivered' = [delivered EXCEPT ![m] = [p \in Period |-> @[p] + 1]]
  BY <1>3 DEF SendMail
<1>5. SendingTypes'
  <2>1. task' \in [Sender -> Sends \cup {Resting}]
    <3>1. [task[w] EXCEPT !.step = "commit"] \in Sends
      BY <1>2 DEF Sends
    <3> QED BY <1>1, <3>1 DEF SendingTypes
  <2>2. late' \in [Address -> Nat]
    BY <1>1, <1>4 DEF SendingTypes
  <2>3. delivered' \in [Mediums -> [Period -> Nat]]
    BY <1>1, <1>4 DEF SendingTypes
  <2> QED BY <1>1, <2>1, <2>2, <2>3 DEF SendingTypes
<1>6. /\ \A x \in Sender \ {w} : task'[x] = task[x]
      /\ task'[w].step = "commit"
  BY <1>1, <1>2 DEF SendingTypes
<1>7. BelowLimit'
  BY <1>1, <1>6 DEF BelowLimit, In, Storing, Limit
<1>8. ASSUME NEW d \in Address
      PROVE  /\ late'[d] + Cardinality(Heading(d)') <= Cardinality(Sender)
             /\ status'[d] = "enabled" => late'[d] = 0
  <2>1. /\ late[d] + Cardinality(Heading(d)) <= Cardinality(Sender)
        /\ status[d] = "enabled" => late[d] = 0
        /\ late[d] \in Nat
    BY <1>1 DEF LateInv, SendingTypes
  <2>2. Cardinality(Heading(d)') \in Nat /\ Cardinality(Heading(d)) \in Nat
    BY WorkerSets, SendingConstants, Counting
  <2>3. Heading(d)' \subseteq Heading(d) \ {w}
    BY <1>6 DEF Heading
  <2>4. Cardinality(Heading(d)') <= Cardinality(Heading(d))
    BY <2>3, WorkerSets, SendingConstants, Counting
  <2>5. CASE d = c
    <3>1. w \in Heading(d)
      BY <1>1, <1>3, <2>5 DEF Heading
    <3>2. Cardinality(Heading(d)') + 1 <= Cardinality(Heading(d))
      BY <3>1, <2>3, WorkerSets, SendingConstants, CountingOne
    <3>3. late'[d] = IF status[d] = "disabled" THEN late[d] + 1 ELSE late[d]
      BY <1>1, <1>4, <2>5 DEF SendingTypes
    <3> QED BY <1>1, <2>1, <2>2, <3>2, <3>3, SendingConstants
  <2>6. CASE d # c
    <3>1. late'[d] = late[d]
      BY <1>1, <1>4, <2>6 DEF SendingTypes
    <3> QED BY <1>1, <2>1, <2>2, <2>4, <3>1, SendingConstants
  <2> QED BY <2>5, <2>6
<1>9. ASSUME NEW n \in Mediums, NEW p \in Period PROVE Account(n, p)'
  <2>1. /\ w \notin Holding(n, p)' /\ w \notin Taking(n, p)' /\ w \notin Setting(n, p)'
        /\ Holding(n, p)' \subseteq Holding(n, p) \ {w}
        /\ Taking(n, p)' \subseteq Taking(n, p) /\ Setting(n, p)' \subseteq Setting(n, p)
    BY <1>6 DEF Holding, Taking, Setting, Paid, Storing
  <2>2. CASE n # m
    <3>1. delivered'[n] = delivered[n]
      BY <1>1, <1>4, <2>2 DEF SendingTypes
    <3>2. Aside(n, p)
      BY <1>1, <2>1, <3>1 DEF Aside
    <3> QED BY <3>2, AsideKeeps
  <2>3. CASE n = m
    <3>1. PICK h, t, s, i, u, r \in Nat :
             /\ h = Cardinality(Holding(n, p)) /\ i = Cardinality(Holding(n, p)')
             /\ t = Cardinality(Taking(n, p)) /\ u = Cardinality(Taking(n, p)')
             /\ s = Cardinality(Setting(n, p)) /\ r = Cardinality(Setting(n, p)')
      BY WorkerCounts
    <3>2. PICK d, l, k \in Nat : /\ d = delivered[n][p] /\ l = Limit(p)
                                 /\ k = Cardinality(Sender) /\ l >= 1 /\ k >= 1
      BY <1>1, SendingConstants DEF SendingTypes
    <3>3. PICK v \in Int \cup {Unset} : v = left[n][p]
      BY <1>1 DEF SendingTypes
    <3>4. Reckoned(d, h, t, s, v, l, k)
      BY <1>1, <3>1, <3>2, <3>3 DEF ReserveInv, Account
    <3>5. w \in Holding(n, p)
      BY <1>1, <1>3, <2>3 DEF Holding, Paid
    <3>6. i + 1 <= h
      BY <2>1, <3>1, <3>5, WorkerSets, SendingConstants, CountingOne
    <3>7. u <= t /\ r <= s
      BY <2>1, <3>1, WorkerSets, SendingConstants, Counting
    <3>8. PICK e \in Nat : e = delivered'[n][p] /\ e = d + 1
      BY <1>1, <1>4, <2>3, <3>2 DEF SendingTypes
    <3>9. e + i <= d + h
      BY <3>6, <3>8
    <3>10. Reckoned(e, i, u, r, v, l, k)
      BY <3>2, <3>4, <3>7, <3>9, ReckonFewer
    <3> QED BY <1>1, <3>1, <3>2, <3>3, <3>8, <3>10 DEF Account, Limit
  <2> QED BY <2>2, <2>3
<1> QED BY <1>5, <1>7, <1>8, <1>9 DEF SendingInv, LateInv, ReserveInv

LEMMA ToggleKeeps ==
    ASSUME SendingInv, NEW c \in Address, Toggle(c)
    PROVE  SendingInv'
<1>1. /\ SendingTypes /\ BelowLimit /\ LateInv /\ ReserveInv
      /\ UNCHANGED <<task, left, delivered>>
      /\ status' = [status EXCEPT ![c] = IF @ = "enabled" THEN "disabled" ELSE "enabled"]
      /\ late' = [late EXCEPT ![c] = 0]
  BY DEF SendingInv, Toggle
<1>2. SendingTypes' /\ BelowLimit' /\ ReserveInv'
  BY <1>1 DEF SendingTypes, BelowLimit, In, ReserveInv, Account, Holding, Taking, Setting
<1>3. ASSUME NEW d \in Address
      PROVE  /\ late'[d] + Cardinality(Heading(d)') <= Cardinality(Sender)
             /\ status'[d] = "enabled" => late'[d] = 0
  <2>1. /\ late[d] + Cardinality(Heading(d)) <= Cardinality(Sender)
        /\ status[d] = "enabled" => late[d] = 0
        /\ late[d] \in Nat
    BY <1>1 DEF LateInv, SendingTypes
  <2>2. /\ Heading(d)' = Heading(d)
        /\ Cardinality(Heading(d)) \in Nat
        /\ Cardinality(Heading(d)) <= Cardinality(Sender)
    BY <1>1, WorkerSets, SendingConstants, Counting DEF Heading
  <2> QED BY <1>1, <2>1, <2>2, SendingConstants DEF SendingTypes
<1> QED BY <1>2, <1>3 DEF SendingInv, LateInv

LEMMA ElapseKeeps ==
    ASSUME SendingInv, NEW m \in Mediums, NEW period \in Period, Elapse(m, period)
    PROVE  SendingInv'
<1>1. /\ SendingTypes /\ BelowLimit /\ LateInv /\ ReserveInv
      /\ UNCHANGED <<status, task, late>>
      /\ left' = [left EXCEPT ![m][period] = Unset]
      /\ delivered' = [delivered EXCEPT ![m][period] = 0]
  BY DEF SendingInv, Elapse
<1>2. SendingTypes' /\ BelowLimit' /\ LateInv'
  BY <1>1 DEF SendingTypes, BelowLimit, In, Limit, LateInv, Heading
<1>3. ASSUME NEW n \in Mediums, NEW p \in Period PROVE Account(n, p)'
  <2>1. /\ Holding(n, p)' = Holding(n, p) /\ Taking(n, p)' = Taking(n, p)
        /\ Setting(n, p)' = Setting(n, p)
    BY <1>1 DEF Holding, Taking, Setting
  <2>2. CASE n = m /\ p = period
    <3>1. delivered'[n][p] = 0 /\ left'[n][p] = Unset
      BY <1>1, <2>2 DEF SendingTypes
    <3>2. 0 + Cardinality(Holding(n, p)) + Cardinality(Taking(n, p)) <= Cardinality(Sender)
      BY OneCount, WorkerCounts, SendingConstants
    <3> QED BY <2>1, <3>1, <3>2 DEF Account, Reckoned
  <2>3. CASE ~(n = m /\ p = period)
    <3>1. delivered'[n][p] = delivered[n][p] /\ left'[n][p] = left[n][p]
      BY <1>1, <2>3 DEF SendingTypes
    <3>2. Aside(n, p)
      BY <2>1, <3>1 DEF Aside
    <3> QED BY <3>2, AsideKeeps
  <2> QED BY <2>2, <2>3
<1> QED BY <1>2, <1>3 DEF SendingInv, ReserveInv

LEMMA SendingStep == SendingInv /\ [SendingNext]_sendingVars => SendingInv'
<1> SUFFICES ASSUME SendingInv, [SendingNext]_sendingVars PROVE SendingInv'
  OBVIOUS
<1>1. ASSUME UNCHANGED <<status, task, left, delivered, late>> PROVE SendingInv'
  BY <1>1 DEF SendingInv, SendingTypes, BelowLimit, In, LateInv, ReserveInv, Account,
              Heading, Holding, Taking, Setting
<1>2. CASE UNCHANGED sendingVars
  BY <1>1, <1>2 DEF sendingVars
<1>3. ASSUME NEW c \in Address \cup {ToUser}, Delay(c) PROVE SendingInv'
  BY <1>1, <1>3 DEF Delay
<1>4. ASSUME NEW w \in Sender, BeginForUser(w) PROVE SendingInv'
  BY <1>1, <1>4 DEF BeginForUser
<1>5. ASSUME NEW w \in Sender, NEW c \in Address, Begin(w, c) PROVE SendingInv'
  BY <1>5, BeginKeeps
<1>6. ASSUME NEW w \in Sender, NEW period \in Period,
             \/ Read(w, period) \/ SetReserve(w, period)
             \/ Spent(w, period) \/ TakeUnit(w, period)
      PROVE  SendingInv'
  BY <1>6, ReadKeeps, StoreKeeps, EndsKeeps DEF Spent
<1>7. ASSUME NEW w \in Sender, SendMail(w) PROVE SendingInv'
  BY <1>7, SendMailKeeps
<1>8. ASSUME NEW w \in Sender, Commit(w) \/ Aborted(w) PROVE SendingInv'
  BY <1>8, EndsKeeps DEF Commit, Aborted
<1>9. ASSUME NEW c \in Address, Toggle(c) PROVE SendingInv'
  BY <1>9, ToggleKeeps
<1>10. ASSUME NEW m \in Mediums, NEW period \in Period, Elapse(m, period) PROVE SendingInv'
  BY <1>10, ElapseKeeps
<1> QED BY <1>2, <1>3, <1>4, <1>5, <1>6, <1>7, <1>8, <1>9, <1>10 DEF SendingNext

\* A worker sends a disabled contact at most the message it had begun.  A period
\* delivers its limit and a message of each worker from before; overlapping workers
\* that all set the reserve add a limit each and the last units several take.
THEOREM SendingIsBounded == SendingSpec => []SendingBounded
<1>1. ASSUME SendingInv PROVE SendingBounded
  <2>1. ASSUME NEW c \in Address PROVE late[c] <= Cardinality(Sender)
    <3>1. late[c] + Cardinality(Heading(c)) <= Cardinality(Sender) /\ late[c] \in Nat
      BY <1>1 DEF SendingInv, LateInv, SendingTypes
    <3>2. Cardinality(Heading(c)) \in Nat
      BY WorkerSets, SendingConstants, Counting
    <3> QED BY <3>1, <3>2, SendingConstants
  <2>2. ASSUME NEW m \in Mediums, NEW p \in Period
        PROVE  delivered[m][p] <= Cardinality(Sender) + Limit(p) + Overlap * (Limit(p) + Overlap)
    <3>1. PICK h, t, s, l, w, o, d \in Nat :
             /\ h = Cardinality(Holding(m, p)) /\ t = Cardinality(Taking(m, p))
             /\ s = Cardinality(Setting(m, p)) /\ d = delivered[m][p]
             /\ l = Limit(p) /\ w = Cardinality(Sender) /\ o = w - 1
      <4>1. PICK w, o \in Nat : w = Cardinality(Sender) /\ o = w - 1
        BY SendingConstants
      <4>2. Limit(p) \in Nat /\ delivered[m][p] \in Nat
        BY <1>1, SendingConstants DEF SendingInv, SendingTypes
      <4> QED BY <4>1, <4>2, WorkerCounts
    <3>2. PICK v \in Int \cup {Unset} : v = left[m][p]
      BY <1>1 DEF SendingInv, SendingTypes
    <3>3. Reckoned(d, h, t, s, v, l, w)
      BY <1>1, <3>1, <3>2 DEF SendingInv, ReserveInv, Account
    <3>4. PICK c, oc, sc \in Nat : c = l + o /\ oc = o * c /\ sc = s * c
      BY <3>1, Times
    <3>5. d <= w + l + oc
      <4>1. CASE v = Unset
        BY <3>1, <3>3, <3>4, <4>1 DEF Reckoned
      <4>2. CASE v # Unset
        <5>1. s <= o /\ d + h + (IF v > 0 THEN v + (o - s) ELSE t) + sc <= w + l + oc
          BY <3>1, <3>3, <3>4, <4>2 DEF Reckoned
        <5> QED BY <3>1, <3>2, <3>4, <4>2, <5>1
      <4> QED BY <4>1, <4>2
    <3> QED BY <3>1, <3>4, <3>5 DEF Overlap
  <2> QED BY <2>1, <2>2 DEF SendingBounded
<1>2. SendingInv => SendingBounded
  BY <1>1
<1> QED BY SendingInitial, SendingStep, <1>2, PTL DEF SendingSpec

-----------------------------------------------------------------------------
(* The registry of services *)

States == {"down", "starting", "serving", "failed"}

TypeInv ==
    /\ entry \in [Host -> {Unlisted} \cup 0..(EntryTtl - 1)]
    /\ replica \in [Replica -> [state : States, due : Int, failed : BOOLEAN]]
    /\ silent \in [Host -> Nat]

\* The entry and the timer of a process whose save went well add up to no more
\* than the interval: the timer fires before the entry ends.
TimerInv ==
    \A p \in Replica : Up(p) =>
        /\ replica[p].due \in -Late..Interval
        /\ ~replica[p].failed =>
              /\ entry[HostOf[p]] # Unlisted
              /\ entry[HostOf[p]] + replica[p].due <= Interval

\* An entry is no younger than the silence of its host.
SilenceInv ==
    /\ \A p \in Replica : Up(p) => silent[HostOf[p]] = 0
    /\ \A h \in Host : entry[h] # Unlisted => silent[h] <= entry[h]

RegistryInv == TypeInv /\ TimerInv /\ SilenceInv

LEMMA Constants ==
    /\ First \in Nat /\ Interval \in Nat /\ EntryTtl \in Nat /\ Late \in Nat
    /\ First <= Interval /\ Interval + Late < EntryTtl
    /\ Unlisted \notin 0..EntryTtl
    /\ \A p \in Replica : HostOf[p] \in Host
  BY RegistryAssumption DEF RegistryAssumption

LEMMA InvImplies == RegistryInv => ListedWhileUp
<1> SUFFICES ASSUME RegistryInv PROVE ListedWhileUp
  OBVIOUS
<1>1. ASSUME NEW h \in Host, silent[h] >= EntryTtl PROVE entry[h] = Unlisted
  <2>1. entry[h] # Unlisted => entry[h] \in 0..(EntryTtl - 1) /\ silent[h] <= entry[h]
    BY DEF RegistryInv, TypeInv, SilenceInv
  <2> QED BY <1>1, <2>1, Constants DEF RegistryInv, TypeInv
<1> QED BY <1>1 DEF ListedWhileUp, InRegistry, RegistryInv, TimerInv

LEMMA InitInv == RegistryInit => RegistryInv
<1> SUFFICES ASSUME RegistryInit PROVE RegistryInv
  OBVIOUS
<1>1. TypeInv
  BY Constants DEF RegistryInit, TypeInv, Halted, States, Old
<1>2. TimerInv
  BY DEF RegistryInit, TimerInv, Halted, Up
<1>3. SilenceInv
  BY DEF RegistryInit, SilenceInv, Halted, Up
<1> QED BY <1>1, <1>2, <1>3 DEF RegistryInv

\* A save by p, of which other processes only notice that the entry is younger.
LEMMA SaveKeeps ==
    ASSUME RegistryInv, NEW p \in Replica, NEW ok \in BOOLEAN, Save(p, ok)
    PROVE  /\ entry' \in [Host -> {Unlisted} \cup 0..(EntryTtl - 1)]
           /\ \A h \in Host : entry'[h] = entry[h] \/ (h = HostOf[p] /\ entry'[h] = 0)
           /\ ok => entry'[HostOf[p]] = 0
<1>1. entry \in [Host -> {Unlisted} \cup 0..(EntryTtl - 1)] /\ HostOf[p] \in Host
  BY Constants DEF RegistryInv, TypeInv
<1>2. 0 \in 0..(EntryTtl - 1)
  BY Constants
<1>3. CASE ok
  BY <1>1, <1>2, <1>3 DEF Save
<1>4. CASE ~ok
  BY <1>1, <1>4 DEF Save
<1> QED BY <1>3, <1>4

\* What announcing and renewing have in common: p is up with a new timer.
LEMMA SavedKeeps ==
    ASSUME RegistryInv, NEW p \in Replica, NEW ok \in BOOLEAN, Save(p, ok),
           NEW state \in States \ {"down"}, NEW due \in 0..Interval,
           replica' = [replica EXCEPT ![p] = [state |-> state, due |-> due, failed |-> ~ok]],
           \/ silent' = [silent EXCEPT ![HostOf[p]] = 0]
           \/ silent' = silent /\ Up(p)
    PROVE  RegistryInv'
<1>1. /\ TypeInv /\ TimerInv /\ SilenceInv
      /\ HostOf[p] \in Host
  BY Constants DEF RegistryInv
<1>2. /\ entry' \in [Host -> {Unlisted} \cup 0..(EntryTtl - 1)]
      /\ \A h \in Host : entry'[h] = entry[h] \/ (h = HostOf[p] /\ entry'[h] = 0)
      /\ ok => entry'[HostOf[p]] = 0
  BY SaveKeeps
<1>3. silent' = [silent EXCEPT ![HostOf[p]] = 0]
  BY <1>1 DEF SilenceInv, TypeInv
<1>4. TypeInv'
  <2>1. due \in Int
    BY Constants
  <2>2. [state |-> state, due |-> due, failed |-> ~ok]
            \in [state : States, due : Int, failed : BOOLEAN]
    BY <2>1
  <2>3. replica' \in [Replica -> [state : States, due : Int, failed : BOOLEAN]]
    BY <1>1, <2>2 DEF TypeInv
  <2>4. silent' \in [Host -> Nat]
    BY <1>1, <1>3 DEF TypeInv
  <2> QED BY <1>2, <2>3, <2>4 DEF TypeInv
<1>5. ASSUME NEW q \in Replica, Up(q)'
      PROVE  /\ replica'[q].due \in -Late..Interval
             /\ ~replica'[q].failed =>
                   /\ entry'[HostOf[q]] # Unlisted
                   /\ entry'[HostOf[q]] + replica'[q].due <= Interval
  <2>1. CASE q = p
    <3>1. replica'[p] = [state |-> state, due |-> due, failed |-> ~ok]
      BY <1>1 DEF TypeInv
    <3>2. due \in -Late..Interval /\ 0 + due <= Interval /\ Unlisted # 0
      BY Constants
    <3>3. replica'[q].due = due /\ replica'[q].failed = ~ok
      BY <2>1, <3>1
    <3>4. ~replica'[q].failed => entry'[HostOf[q]] = 0
      BY <2>1, <3>3, <1>2
    <3> QED BY <3>2, <3>3, <3>4
  <2>2. CASE q # p
    <3>1. replica'[q] = replica[q] /\ Up(q)
      BY <2>2, <1>5, <1>1 DEF TypeInv, Up
    <3>2. entry'[HostOf[q]] = entry[HostOf[q]] \/ entry'[HostOf[q]] = 0
      BY <1>2, Constants
    <3>3. replica[q].due \in -Late..Interval
      BY <3>1, <1>1 DEF TimerInv
    <3>4. 0 # Unlisted /\ 0 + replica[q].due <= Interval
      BY <3>3, Constants
    <3> QED BY <3>1, <3>2, <3>3, <3>4, <1>1 DEF TimerInv
  <2> QED BY <2>1, <2>2
<1>6. TimerInv'
  BY <1>5 DEF TimerInv
<1>7. ASSUME NEW q \in Replica, Up(q)' PROVE silent'[HostOf[q]] = 0
  <2>1. HostOf[q] \in Host
    BY Constants
  <2>2. q = p \/ Up(q)
    BY <1>7, <1>1 DEF TypeInv, Up
  <2> QED BY <2>1, <2>2, <1>1, <1>3 DEF SilenceInv, TypeInv
<1>8. ASSUME NEW h \in Host, entry'[h] # Unlisted PROVE silent'[h] <= entry'[h]
  <2>1. CASE h = HostOf[p]
    <3>1. silent'[h] = 0
      BY <2>1, <1>1, <1>3 DEF TypeInv
    <3>2. entry'[h] \in 0..(EntryTtl - 1)
      BY <1>2, <1>8
    <3> QED BY <3>1, <3>2, Constants
  <2>2. CASE h # HostOf[p]
    BY <2>2, <1>1, <1>2, <1>3, <1>8 DEF TypeInv, SilenceInv
  <2> QED BY <2>1, <2>2
<1>9. SilenceInv'
  BY <1>7, <1>8 DEF SilenceInv
<1> QED BY <1>4, <1>6, <1>9 DEF RegistryInv

LEMMA AnnounceInv ==
    ASSUME RegistryInv, NEW p \in Replica, NEW ok \in BOOLEAN, Announce(p, ok)
    PROVE  RegistryInv'
<1>1. First \in 0..Interval /\ "starting" \in States \ {"down"}
  BY Constants DEF States
<1> QED BY <1>1, SavedKeeps DEF Announce

LEMMA RenewInv ==
    ASSUME RegistryInv, NEW p \in Replica, NEW ok \in BOOLEAN, Renew(p, ok)
    PROVE  RegistryInv'
<1> DEFINE state == replica[p].state
<1>1. replica[p] \in [state : States, due : Int, failed : BOOLEAN]
  BY DEF RegistryInv, TypeInv
<1>2. state \in States \ {"down"}
  BY <1>1 DEF Renew, Up
<1>3. Interval \in 0..Interval
  BY Constants
<1>4. replica' = [replica EXCEPT ![p] =
                     [state |-> state, due |-> Interval, failed |-> ~ok]]
  BY DEF Renew, NextDue
<1> QED
  <2> HIDE DEF state
  <2> QED BY <1>2, <1>3, <1>4, SavedKeeps DEF Renew

\* initialize_db ends: who is up, and with which timer, stays the same.
LEMMA OpenedInv ==
    ASSUME RegistryInv, NEW p \in Replica, NEW ok \in BOOLEAN, Opened(p, ok)
    PROVE  RegistryInv'
<1>1. /\ TypeInv /\ TimerInv /\ SilenceInv
      /\ entry' = entry /\ silent' = silent
  BY DEF RegistryInv, Opened
<1>2. replica' \in [Replica -> [state : States, due : Int, failed : BOOLEAN]]
  BY <1>1 DEF Opened, TypeInv, States
<1>3. \A q \in Replica : /\ Up(q)' => Up(q)
                         /\ replica'[q].due = replica[q].due
                         /\ replica'[q].failed = replica[q].failed
  BY <1>1 DEF Opened, TypeInv, Up
<1> QED BY <1>1, <1>2, <1>3 DEF RegistryInv, TypeInv, TimerInv, SilenceInv, Up

LEMMA StopInv ==
    ASSUME RegistryInv, NEW p \in Replica, Stop(p)
    PROVE  RegistryInv'
<1>1. /\ TypeInv /\ TimerInv /\ SilenceInv
      /\ entry' = entry /\ silent' = silent
  BY DEF RegistryInv, Stop
<1>2. replica' \in [Replica -> [state : States, due : Int, failed : BOOLEAN]]
  BY <1>1 DEF Stop, TypeInv, States, Halted
<1>3. \A q \in Replica : Up(q)' => Up(q) /\ replica'[q] = replica[q]
  BY <1>1 DEF Stop, TypeInv, Up, Halted
<1> QED BY <1>1, <1>2, <1>3 DEF RegistryInv, TypeInv, TimerInv, SilenceInv, Up

\* A second passes: every timer comes nearer as every entry grows older.
LEMMA OneSecondInv ==
    ASSUME RegistryInv, OneSecond
    PROVE  RegistryInv'
<1>1. TypeInv /\ TimerInv /\ SilenceInv
  BY DEF RegistryInv
<1>2. ASSUME NEW h \in Host
      PROVE  /\ entry'[h] = IF entry[h] = Unlisted THEN Unlisted ELSE Older(entry[h])
             /\ entry[h] \in {Unlisted} \cup 0..(EntryTtl - 1)
  BY <1>1 DEF OneSecond, TypeInv
<1>3. ASSUME NEW h \in Host
      PROVE  /\ entry'[h] \in {Unlisted} \cup 0..(EntryTtl - 1)
             /\ entry'[h] # Unlisted => entry[h] # Unlisted /\ entry'[h] = entry[h] + 1
             /\ entry[h] # Unlisted /\ entry[h] # EntryTtl - 1 => entry'[h] = entry[h] + 1
  BY <1>2, Constants DEF Older
<1>4. ASSUME NEW q \in Replica
      PROVE  /\ replica'[q] = IF Up(q) THEN Sooner(replica[q]) ELSE Halted
             /\ replica[q] \in [state : States, due : Int, failed : BOOLEAN]
  BY <1>1 DEF OneSecond, TypeInv
<1>5. ASSUME NEW q \in Replica
      PROVE  /\ replica'[q] \in [state : States, due : Int, failed : BOOLEAN]
             /\ Up(q)' => /\ Up(q)
                          /\ replica'[q].due = replica[q].due - 1
                          /\ replica'[q].failed = replica[q].failed
  <2>1. replica[q] \in [state : States, due : Int, failed : BOOLEAN]
    BY <1>4
  <2>2. CASE Up(q)
    <3>1. replica'[q] = Sooner(replica[q])
      BY <2>2, <1>4
    <3>2. Sooner(replica[q]) \in [state : States, due : Int, failed : BOOLEAN]
      BY <2>1 DEF Sooner
    <3> QED BY <2>2, <3>1, <3>2 DEF Sooner
  <2>3. CASE ~Up(q)
    <3>1. replica'[q] = Halted
      BY <2>3, <1>4
    <3>2. ~Up(q)' /\ Halted \in [state : States, due : Int, failed : BOOLEAN]
      BY <3>1 DEF Up, Halted, States
    <3> QED BY <3>1, <3>2
  <2> QED BY <2>2, <2>3
<1>6. TypeInv'
  <2>1. entry' \in [Host -> {Unlisted} \cup 0..(EntryTtl - 1)]
    BY <1>3 DEF OneSecond
  <2>2. replica' \in [Replica -> [state : States, due : Int, failed : BOOLEAN]]
    BY <1>5 DEF OneSecond
  <2>3. silent' \in [Host -> Nat]
    BY <1>1, Constants DEF OneSecond, TypeInv, Old
  <2> QED BY <2>1, <2>2, <2>3 DEF TypeInv
<1>7. ASSUME NEW q \in Replica, Up(q)'
      PROVE  /\ replica'[q].due \in -Late..Interval
             /\ ~replica'[q].failed =>
                   /\ entry'[HostOf[q]] # Unlisted
                   /\ entry'[HostOf[q]] + replica'[q].due <= Interval
  <2>1. /\ Up(q) /\ replica'[q].due = replica[q].due - 1
        /\ replica'[q].failed = replica[q].failed
    BY <1>5, <1>7
  <2>2. replica[q].due \in -Late..Interval /\ replica[q].due > -Late
    BY <2>1, <1>1 DEF TimerInv, OneSecond
  <2>3. replica'[q].due \in -Late..Interval
    BY <2>1, <2>2, Constants
  <2>4. ASSUME ~replica'[q].failed
        PROVE  /\ entry'[HostOf[q]] # Unlisted
               /\ entry'[HostOf[q]] + replica'[q].due <= Interval
    <3>1. /\ HostOf[q] \in Host
          /\ entry[HostOf[q]] # Unlisted
          /\ entry[HostOf[q]] + replica[q].due <= Interval
      BY <2>1, <2>4, <1>1, Constants DEF TimerInv
    <3>2. entry[HostOf[q]] \in 0..(EntryTtl - 1)
      BY <3>1, <1>2
    <3>3. entry[HostOf[q]] + 1 \in 0..(EntryTtl - 1) /\ entry[HostOf[q]] # EntryTtl - 1
      BY <3>1, <3>2, <2>2, Constants
    <3>4. entry'[HostOf[q]] = entry[HostOf[q]] + 1
      BY <3>1, <3>3, <1>3
    <3>5. entry'[HostOf[q]] \in 0..EntryTtl
      BY <3>3, <3>4, Constants
    <3> QED BY <3>1, <3>2, <3>4, <3>5, <2>1, <2>2, Constants
  <2> QED BY <2>3, <2>4
<1>8. TimerInv'
  BY <1>7 DEF TimerInv
<1>9. ASSUME NEW q \in Replica, Up(q)' PROVE silent'[HostOf[q]] = 0
  <2>1. HostOf[q] \in Host /\ Up(q)
    BY <1>5, <1>9, Constants
  <2> QED BY <2>1 DEF OneSecond
<1>10. ASSUME NEW h \in Host, entry'[h] # Unlisted PROVE silent'[h] <= entry'[h]
  <2>1. /\ entry[h] # Unlisted /\ entry'[h] = entry[h] + 1
        /\ entry[h] \in 0..(EntryTtl - 1)
    BY <1>2, <1>3, <1>10
  <2>2. silent[h] \in Nat /\ silent[h] <= entry[h]
    BY <2>1, <1>1 DEF TypeInv, SilenceInv
  <2>3. silent'[h] = 0 \/ silent'[h] = silent[h] + 1
    BY <2>1, <2>2, Constants DEF OneSecond, Old
  <2> QED BY <2>1, <2>2, <2>3, Constants
<1>11. SilenceInv'
  BY <1>9, <1>10 DEF SilenceInv
<1> QED BY <1>6, <1>8, <1>11 DEF RegistryInv

LEMMA NextInv == RegistryInv /\ [RegistryNext]_registryVars => RegistryInv'
<1> SUFFICES ASSUME RegistryInv, [RegistryNext]_registryVars PROVE RegistryInv'
  OBVIOUS
<1>1. CASE OneSecond
  BY <1>1, OneSecondInv
<1>2. CASE UNCHANGED registryVars
  BY <1>2 DEF registryVars, RegistryInv, TypeInv, TimerInv, SilenceInv, Up
<1>3. ASSUME NEW p \in Replica,
             Stop(p) \/ \E ok \in BOOLEAN : Announce(p, ok) \/ Opened(p, ok) \/ Renew(p, ok)
      PROVE  RegistryInv'
  BY <1>3, StopInv, AnnounceInv, OpenedInv, RenewInv
<1> QED BY <1>1, <1>2, <1>3 DEF RegistryNext

\* The strengthening that is inductive: saves, timers and silence go together.
THEOREM RegistryInvariant == RegistrySpec => []RegistryInv
<1> QED BY InitInv, NextInv, PTL DEF RegistrySpec

\* A host is listed while it has a process whose last save went well, and is not
\* once none has been up for the life of an entry: find lists what runs.
THEOREM RegistryListsWhatRuns == RegistrySpec => []ListedWhileUp
<1> QED BY RegistryInvariant, InvImplies, PTL

-----------------------------------------------------------------------------
(* Contacts and their confirmation *)

Requests ==
    {Waiting}
    \cup [step : {"issue", "account"}, contact : Contact, info : Info, after : {"account", "end"}]
    \cup [step : {"confirm", "clear", "password"}, token : Tokens, clear : BOOLEAN,
          uid : Uid, cleared : BOOLEAN]

ConfirmTypes ==
    /\ day \in Nat
    /\ contact \in [Contact -> {Nothing} \cup Row(Statuses)]
    /\ edited \in [Contact -> Nat]
    /\ confirmed \in [Contact -> {Nothing} \cup [info : Info, at : Nat]]
    /\ mailed \subseteq Tokens
    /\ tokens \in [Keys -> {Nothing} \cup Tokens]
    /\ serving \in [Server -> Requests]
    /\ resets \in [1..MaxMails -> Nat]

\* What was read of the contact c at the time t, and is so unless it was edited since.
Known(c, info, t) ==
    /\ contact[c] \in Row(Statuses)
    /\ contact[c].info = info \/ edited[c] >= t

ContactInv ==
    /\ \A c \in Contact : edited[c] <= day
    /\ \A tok \in mailed : tok.at <= day /\ Known(tok.contact, tok.info, tok.at)
    /\ \A p \in Server :
          /\ Doing(p, "issue") => Known(serving[p].contact, serving[p].info, day)
          /\ Doing(p, "confirm") => day - serving[p].token.at <= TokenTtl
    /\ ConfirmedTimely

\* The ids of tokens count them.
IdInv ==
    /\ IsFiniteSet(mailed)
    /\ \A tok \in mailed : tok.id \in 1..Cardinality(mailed) /\ tok.id \in 1..MaxMails
    /\ \A tok, other \in mailed : tok.id = other.id => tok = other
    /\ \A i \in 1..MaxMails : i > Cardinality(mailed) => resets[i] = 0

\* The requests that have read the token with the id i, and do not go on with a
\* token they have left in redis.
Spending(p) == Doing(p, "password") /\ serving[p].cleared
Using(p) == Doing(p, "confirm") \/ Doing(p, "clear") \/ Spending(p)
Users(i) == {p \in Server : Using(p) /\ serving[p].token.id = i}

\* As long as a token is in redis no request has taken it away to set a password; after
\* that only those that have read it still do.
UseInv ==
    /\ \A p \in Server : Using(p) => serving[p].token \in mailed
    /\ \A tok \in mailed : tokens[KeyFor(tok)] = tok =>
          /\ resets[tok.id] = 0
          /\ \A p \in Server : Spending(p) => serving[p].token # tok
    /\ \A i \in 1..MaxMails : resets[i] + Cardinality(Users(i)) <= Cardinality(Server)

ConfirmInv == ConfirmTypes /\ ContactInv /\ IdInv /\ UseInv

LEMMA ConfirmConstants ==
    /\ TokenTtl \in Nat /\ MaxMails \in Nat
    /\ IsFiniteSet(Server) /\ Cardinality(Server) \in Nat
    /\ Nothing \notin Tokens /\ Nothing \notin [info : Info, at : Nat]
BY ConfirmationAssumption, FS_CardinalityType DEF ConfirmationAssumption

LEMMA UsersCounted ==
    ASSUME NEW i
    PROVE  /\ Users(i) \in SUBSET Server /\ Users(i)' \in SUBSET Server
           /\ Cardinality(Users(i)) \in Nat /\ Cardinality(Users(i)') \in Nat
           /\ Cardinality(Users(i)) <= Cardinality(Server)
           /\ Cardinality(Users(i)') <= Cardinality(Server)
<1>1. Users(i) \in SUBSET Server /\ Users(i)' \in SUBSET Server
  BY DEF Users
<1> QED BY <1>1, Counting, ConfirmConstants

LEMMA KeyOfToken == ASSUME NEW tok \in Tokens PROVE KeyFor(tok) \in Keys
BY DEF Tokens, KeyFor, Suffix, Keys

LEMMA ConfirmInitial == ConfirmInit => ConfirmInv
<1> SUFFICES ASSUME ConfirmInit PROVE ConfirmInv
  OBVIOUS
<1>1. contact \in [Contact -> {Nothing} \cup Row(Statuses \ {"active"})]
  BY ConfirmationAssumption DEF ConfirmInit, ConfirmationAssumption
<1>2. ConfirmTypes
  <2>1. contact \in [Contact -> {Nothing} \cup Row(Statuses)]
    BY <1>1 DEF Row
  <2>2. /\ edited \in [Contact -> Nat] /\ day \in Nat /\ mailed \subseteq Tokens
        /\ confirmed \in [Contact -> {Nothing} \cup [info : Info, at : Nat]]
        /\ tokens \in [Keys -> {Nothing} \cup Tokens]
        /\ resets \in [1..MaxMails -> Nat]
    BY DEF ConfirmInit
  <2>3. serving \in [Server -> Requests]
    BY DEF ConfirmInit, Requests
  <2> QED BY <2>1, <2>2, <2>3 DEF ConfirmTypes
<1>3. ContactInv
  <2>1. ConfirmedTimely
    BY <1>1 DEF ConfirmedTimely, Row
  <2> QED BY <2>1 DEF ConfirmInit, ContactInv, Doing, Waiting
<1>4. IdInv
  BY FS_EmptySet DEF ConfirmInit, IdInv
<1>5. UseInv
  <2>1. \A i \in 1..MaxMails : Users(i) = {}
    BY DEF ConfirmInit, Users, Using, Spending, Doing, Waiting
  <2>2. \A i \in 1..MaxMails : resets[i] + Cardinality(Users(i)) <= Cardinality(Server)
    <3>1. resets = [i \in 1..MaxMails |-> 0]
      BY DEF ConfirmInit
    <3>2. Cardinality({}) = 0 /\ Cardinality(Server) >= 0
      BY FS_EmptySet, ConfirmConstants
    <3> QED BY <2>1, <3>1, <3>2, ConfirmConstants
  <2>3. mailed = {} /\ \A p \in Server : ~Using(p)
    BY DEF ConfirmInit, Using, Spending, Doing, Waiting
  <2> QED BY <2>2, <2>3 DEF UseInv
<1> QED BY <1>2, <1>3, <1>4, <1>5 DEF ConfirmInv

-----------------------------------------------------------------------------
(* What most steps leave alone *)

LEMMA IdsKept ==
    ASSUME ConfirmInv, UNCHANGED <<mailed, resets>> PROVE IdInv'
BY DEF ConfirmInv, IdInv

\* No request reads a token, or goes on to set a password.
LEMMA UsesKept ==
    ASSUME ConfirmInv, UNCHANGED <<mailed, resets>>, ConfirmTypes',
           \A k \in Keys : tokens'[k] \in {tokens[k], Nothing},
           \A p \in Server : Using(p)' =>
              /\ Using(p) /\ serving'[p].token = serving[p].token
              /\ Spending(p)' => Spending(p)
    PROVE  UseInv'
<1>1. \A p \in Server : Using(p)' => serving'[p].token \in mailed'
  BY DEF ConfirmInv, UseInv
<1>2. ASSUME NEW tok \in mailed', tokens'[KeyFor(tok)] = tok
      PROVE  /\ resets'[tok.id] = 0
             /\ \A p \in Server : Spending(p)' => serving'[p].token # tok
  <2>1. tok \in mailed /\ tok \in Tokens /\ tok # Nothing
    BY ConfirmConstants DEF ConfirmInv, ConfirmTypes
  <2>2. tokens[KeyFor(tok)] = tok
    BY <1>2, <2>1, KeyOfToken
  <2>3. \A p \in Server : Spending(p)' => Using(p)'
    BY DEF Doing, Using, Spending
  <2> QED BY <2>1, <2>2, <2>3 DEF ConfirmInv, UseInv
<1>3. ASSUME NEW i \in 1..MaxMails
      PROVE  resets'[i] + Cardinality(Users(i)') <= Cardinality(Server)
  <2>1. Users(i)' \subseteq Users(i)
    BY DEF Users
  <2>2. Cardinality(Users(i)') <= Cardinality(Users(i))
    BY <2>1, UsersCounted, Counting, ConfirmConstants
  <2>3. resets[i] + Cardinality(Users(i)) <= Cardinality(Server)
    BY DEF ConfirmInv, UseInv
  <2>4. resets[i] \in Nat
    BY DEF ConfirmInv, ConfirmTypes
  <2> QED BY <2>2, <2>3, <2>4, UsersCounted, ConfirmConstants
<1> QED BY <1>1, <1>2, <1>3, UsersCounted DEF UseInv

\* The contacts are as they were, and no request has read one or a token.
LEMMA ContactsKept ==
    ASSUME ConfirmInv, UNCHANGED <<day, contact, edited, confirmed, declared, mailed>>,
           \A p \in Server :
              /\ Doing(p, "issue")' => Doing(p, "issue") /\ serving'[p] = serving[p]
              /\ Doing(p, "confirm")' => Doing(p, "confirm") /\ serving'[p] = serving[p]
    PROVE  ContactInv'
BY DEF ConfirmInv, ContactInv, Known, ConfirmedTimely

\* A request that was somewhere is at its end, or where its step says.
LEMMA Replies ==
    ASSUME ConfirmTypes, NEW p \in Server, Reply(p)
    PROVE  /\ serving' \in [Server -> Requests] /\ serving'[p] = Waiting
           /\ \A q \in Server \ {p} : serving'[q] = serving[q]
BY DEF ConfirmTypes, Reply, Requests

LEMMA Goes ==
    ASSUME ConfirmTypes, NEW p \in Server, NEW s, Goto(p, s),
           \/ Doing(p, "issue") /\ s = "account"
           \/ Doing(p, "confirm") /\ s = "clear"
    PROVE  /\ serving' \in [Server -> Requests]
           /\ serving'[p].step = s
           /\ ~Doing(p, "issue") => serving'[p].token = serving[p].token
           /\ \A q \in Server \ {p} : serving'[q] = serving[q]
<1> DEFINE r == [serving[p] EXCEPT !.step = s]
<1>1. serving[p] \in Requests /\ DOMAIN serving = Server /\ serving' = [serving EXCEPT ![p] = r]
  BY DEF ConfirmTypes, Goto
<1>2. CASE Doing(p, "issue") /\ s = "account"
  <2>1. serving[p] \in [step : {"issue", "account"}, contact : Contact, info : Info,
                        after : {"account", "end"}]
    BY <1>1, <1>2 DEF Doing, Requests, Waiting
  <2>2. r \in [step : {"issue", "account"}, contact : Contact, info : Info,
               after : {"account", "end"}] /\ r.step = s
    BY <1>2, <2>1
  <2> QED BY <1>1, <1>2, <2>2 DEF Requests, ConfirmTypes
<1>3. CASE Doing(p, "confirm") /\ s = "clear"
  <2>1. serving[p] \in [step : {"confirm", "clear", "password"}, token : Tokens, clear : BOOLEAN,
                        uid : Uid, cleared : BOOLEAN]
    BY <1>1, <1>3 DEF Doing, Requests, Waiting
  <2>2. r \in [step : {"confirm", "clear", "password"}, token : Tokens, clear : BOOLEAN,
                        uid : Uid, cleared : BOOLEAN]
        /\ r.step = s /\ r.token = serving[p].token
    BY <1>3, <2>1
  <2> QED BY <1>1, <2>2 DEF Requests, ConfirmTypes
<1> QED BY <1>2, <1>3

-----------------------------------------------------------------------------
(* The steps *)

\* An address is written, and read again for its message.
LEMMA WriteKeeps ==
    ASSUME ConfirmInv, NEW p \in Server, NEW c \in Contact, NEW info \in Info,
           NEW new \in Statuses, NEW after \in {"account", "end"},
           Doing(p, "idle"), Write(c, info, new), ThenAsk(p, c, info, after),
           UNCHANGED <<day, tokens, mailed, confirmed, resets>>,
           (declared' = declared \ {c} /\ new # "active") \/ Declare(c, new)
    PROVE  ConfirmInv'
<1> DEFINE row == [info |-> info, status |-> new]
           request == [step |-> "issue", contact |-> c, info |-> info, after |-> after]
<1>1. day \in Nat /\ row \in Row(Statuses) /\ request \in Requests
  BY DEF ConfirmInv, ConfirmTypes, Row, Requests
<1>2. /\ contact' = [contact EXCEPT ![c] = row] /\ edited' = [edited EXCEPT ![c] = day]
      /\ serving' = [serving EXCEPT ![p] = request]
  BY DEF Write, ThenAsk
<1>3. /\ contact' \in [Contact -> {Nothing} \cup Row(Statuses)] /\ contact'[c] = row
      /\ edited' \in [Contact -> Nat] /\ edited'[c] = day
      /\ serving' \in [Server -> Requests] /\ serving'[p] = request
      /\ \A q \in Server \ {p} : serving'[q] = serving[q]
      /\ \A d \in Contact \ {c} : contact'[d] = contact[d] /\ edited'[d] = edited[d]
  BY <1>1, <1>2 DEF ConfirmInv, ConfirmTypes
<1>4. /\ new = "active" => c \in declared'
      /\ \A d \in Contact \ {c} : d \in declared' <=> d \in declared
  BY DEF Declare
<1>5. ConfirmTypes'
  BY <1>3, <1>4 DEF ConfirmInv, ConfirmTypes
<1>6. ContactInv'
  <2>1. ASSUME NEW d \in Contact, NEW i \in Info, NEW t \in Nat, t <= day, Known(d, i, t)
        PROVE  Known(d, i, t)'
    BY <1>1, <1>3, <2>1 DEF Known
  <2>2. \A d \in Contact : edited'[d] <= day
    BY <1>1, <1>3 DEF ConfirmInv, ContactInv
  <2>3. \A tok \in mailed : tok.at <= day /\ Known(tok.contact, tok.info, tok.at)'
    BY <2>1 DEF ConfirmInv, ContactInv, ConfirmTypes, Tokens
  <2>4. ASSUME NEW q \in Server
        PROVE  /\ Doing(q, "issue")' => Known(serving[q].contact, serving[q].info, day)'
               /\ Doing(q, "confirm")' => day - serving'[q].token.at <= TokenTtl
    <3>1. CASE q = p
      BY <1>1, <1>3, <3>1 DEF Doing, Known
    <3>2. CASE q # p
      <4>1. serving'[q] = serving[q]
        BY <1>3, <3>2
      <4>2. Doing(q, "issue") => serving[q].contact \in Contact /\ serving[q].info \in Info
        BY DEF Doing, ConfirmInv, ConfirmTypes, Requests, Waiting
      <4>3. Doing(q, "issue") => Known(serving[q].contact, serving[q].info, day)
        BY DEF ConfirmInv, ContactInv
      <4>4. Doing(q, "issue") => Known(serving[q].contact, serving[q].info, day)'
        <5> SUFFICES ASSUME Doing(q, "issue")
                     PROVE  Known(serving[q].contact, serving[q].info, day)'
          OBVIOUS
        <5>1. PICK d \in Contact, i \in Info, t \in Nat :
                 d = serving[q].contact /\ i = serving[q].info /\ t = day
          BY <4>2, <1>1
        <5>2. Known(d, i, t)'
          BY <2>1, <4>3, <5>1
        <5> QED BY <4>1, <5>1, <5>2 DEF Known
      <4> QED BY <4>1, <4>4 DEF Doing, ConfirmInv, ContactInv
    <3> QED BY <3>1, <3>2
  <2>5. ConfirmedTimely'
    <3> SUFFICES ASSUME NEW d \in Contact, contact'[d] # Nothing, contact'[d].status = "active",
                        d \notin declared'
                 PROVE  /\ confirmed'[d] # Nothing
                        /\ \/ confirmed'[d].info = contact'[d].info
                           \/ confirmed'[d].at \in edited'[d]..(edited'[d] + TokenTtl)
      BY DEF ConfirmedTimely
    <3>1. CASE d = c
      BY <1>1, <1>3, <1>4, <3>1, ConfirmConstants
    <3>2. CASE d # c
      BY <1>3, <1>4, <3>2 DEF ConfirmInv, ContactInv, ConfirmedTimely
    <3> QED BY <3>1, <3>2
  <2> QED BY <2>2, <2>3, <2>4, <2>5 DEF ContactInv
<1>7. UseInv'
  <2>1. \A q \in Server : Using(q)' => q # p /\ serving'[q] = serving[q]
    BY <1>3 DEF Using, Spending, Doing
  <2> QED BY <1>5, <2>1, UsesKept DEF Using, Doing, Spending
<1> QED BY <1>5, <1>6, <1>7, IdsKept DEF ConfirmInv

\* A status is written, and the address stays.
LEMMA SetStatusKeeps ==
    ASSUME ConfirmInv, NEW c \in Contact, NEW new \in {"active", "disabled"}, SetStatus(c, new)
    PROVE  ConfirmInv'
<1> DEFINE row == [contact[c] EXCEPT !.status = new]
<1>1. contact[c] \in Row(Statuses)
  BY DEF SetStatus, ConfirmInv, ConfirmTypes
<1>2. row \in Row(Statuses) /\ row.info = contact[c].info /\ row.status = new
  BY <1>1 DEF Row, Statuses
<1>3. /\ contact' = [contact EXCEPT ![c] = row]
      /\ UNCHANGED <<day, tokens, mailed, serving, edited, confirmed, resets>>
  BY DEF SetStatus
<1>4. /\ contact' \in [Contact -> {Nothing} \cup Row(Statuses)] /\ contact'[c] = row
      /\ \A d \in Contact \ {c} : contact'[d] = contact[d]
  BY <1>2, <1>3 DEF ConfirmInv, ConfirmTypes
<1>5. ConfirmTypes'
  BY <1>3, <1>4 DEF ConfirmInv, ConfirmTypes
<1>6. ContactInv'
  <2>1. ASSUME NEW d \in Contact, NEW i, NEW t, Known(d, i, t) PROVE Known(d, i, t)'
    BY <1>2, <1>3, <1>4, <2>1 DEF Known
  <2>2. \A m \in mailed : Known(m.contact, m.info, m.at)'
    BY <2>1 DEF ConfirmInv, ContactInv, ConfirmTypes, Tokens
  <2>3. ASSUME NEW q \in Server, Doing(q, "issue")
        PROVE  Known(serving[q].contact, serving[q].info, day)'
    <3>1. PICK d \in Contact : d = serving[q].contact
      BY <2>3 DEF Doing, ConfirmInv, ConfirmTypes, Requests, Waiting
    <3>2. Known(d, serving[q].info, day)
      BY <2>3, <3>1 DEF ConfirmInv, ContactInv
    <3>3. Known(d, serving[q].info, day)'
      BY <1>2, <1>3, <1>4, <3>2 DEF Known
    <3> QED BY <1>3, <3>1, <3>3
  <2>4. ConfirmedTimely'
    <3> SUFFICES ASSUME NEW d \in Contact, contact'[d] # Nothing, contact'[d].status = "active",
                        d \notin declared'
                 PROVE  /\ confirmed'[d] # Nothing
                        /\ \/ confirmed'[d].info = contact'[d].info
                           \/ confirmed'[d].at \in edited'[d]..(edited'[d] + TokenTtl)
      BY DEF ConfirmedTimely
    <3>1. d # c /\ d \notin declared
      BY <1>2, <1>4 DEF SetStatus, Declare
    <3> QED BY <1>3, <1>4, <3>1 DEF ConfirmInv, ContactInv, ConfirmedTimely
  <2> QED BY <1>3, <2>2, <2>3, <2>4 DEF ConfirmInv, ContactInv, Doing
<1>7. UseInv'
  BY <1>3, <1>5, UsesKept DEF Using, Spending, Doing
<1> QED BY <1>3, <1>5, <1>6, <1>7, IdsKept DEF ConfirmInv

\* A message is asked for again.
LEMMA AskKeeps ==
    ASSUME ConfirmInv, NEW p \in Server, NEW c \in Contact, NEW after \in {"account", "end"},
           contact[c] # Nothing, ThenAsk(p, c, contact[c].info, after),
           UNCHANGED <<day, contact, tokens, mailed, edited, confirmed, declared, resets>>
    PROVE  ConfirmInv'
<1> DEFINE request == [step |-> "issue", contact |-> c, info |-> contact[c].info, after |-> after]
<1>1. contact[c] \in Row(Statuses) /\ contact[c].info \in Info
  BY DEF ConfirmInv, ConfirmTypes, Row
<1>2. request \in Requests /\ serving' = [serving EXCEPT ![p] = request]
  BY <1>1 DEF Requests, ThenAsk
<1>3. /\ serving' \in [Server -> Requests] /\ serving'[p] = request
      /\ \A q \in Server \ {p} : serving'[q] = serving[q]
  BY <1>2 DEF ConfirmInv, ConfirmTypes
<1>4. ConfirmTypes'
  BY <1>1, <1>3 DEF ConfirmInv, ConfirmTypes
<1>5. ContactInv'
  <2>1. \A d, i, t : Known(d, i, t)' <=> Known(d, i, t)
    BY <1>1 DEF Known
  <2>2. ASSUME NEW q \in Server
        PROVE  /\ Doing(q, "issue")' => Known(serving[q].contact, serving[q].info, day)'
               /\ Doing(q, "confirm")' => day' - serving'[q].token.at <= TokenTtl
    <3>1. CASE q = p
      BY <1>1, <1>3, <3>1 DEF Doing, Known
    <3>2. CASE q # p
      BY <1>1, <1>3, <3>2 DEF Doing, Known, ConfirmInv, ContactInv
    <3> QED BY <3>1, <3>2
  <2> QED BY <1>1, <2>1, <2>2 DEF ConfirmInv, ContactInv, ConfirmedTimely
<1>6. UseInv'
  <2>1. \A q \in Server : Using(q)' => q # p /\ serving'[q] = serving[q]
    BY <1>3 DEF Using, Spending, Doing
  <2> QED BY <1>1, <1>4, <2>1, UsesKept DEF Using, Doing, Spending
<1> QED BY <1>1, <1>4, <1>5, <1>6, IdsKept DEF ConfirmInv

\* The end of a request, or the step to the account, that changes no contact.
LEMMA ReplyKeeps ==
    ASSUME ConfirmInv, NEW p \in Server, Reply(p),
           UNCHANGED <<day, contact, tokens, mailed, edited, confirmed, declared, resets>>
    PROVE  ConfirmInv'
<1>1. /\ serving' \in [Server -> Requests] /\ serving'[p] = Waiting
      /\ \A q \in Server \ {p} : serving'[q] = serving[q]
  BY Replies DEF ConfirmInv
<1>2. ConfirmTypes'
  BY <1>1 DEF ConfirmInv, ConfirmTypes
<1>3. ContactInv'
  BY <1>1, ContactsKept DEF Doing, Waiting
<1>4. UseInv'
  BY <1>1, <1>2, UsesKept DEF Doing, Using, Spending, Waiting
<1> QED BY <1>2, <1>3, <1>4, IdsKept DEF ConfirmInv

\* The contact is active from a token that is of its address, or not yet too old.
LEMMA ConfirmKeeps ==
    ASSUME ConfirmInv, NEW p \in Server, Confirm(p) PROVE ConfirmInv'
<1>1. PICK tok \in mailed : tok = serving[p].token
  BY DEF Confirm, Doing, ConfirmInv, UseInv, Using
<1>2. PICK c \in Contact : c = tok.contact
  BY DEF ConfirmInv, ConfirmTypes, Tokens
<1>3. /\ tok.info \in Info /\ tok.at \in Nat /\ day \in Nat /\ edited[c] \in Nat
      /\ tok.at <= day /\ edited[c] <= day /\ day - tok.at <= TokenTtl
      /\ contact[c] \in Row(Statuses) /\ (contact[c].info = tok.info \/ edited[c] >= tok.at)
  BY <1>1, <1>2 DEF Confirm, Known, ConfirmInv, ContactInv, ConfirmTypes, Tokens
<1> DEFINE row == [contact[c] EXCEPT !.status = "active"]
<1>4. row \in Row(Statuses) /\ row.info = contact[c].info
  BY <1>3 DEF Row, Statuses
<1>5. contact' = [contact EXCEPT ![c] = row]
      /\ confirmed' = [confirmed EXCEPT ![c] = [info |-> tok.info, at |-> day]]
      /\ declared' = declared \ {c}
      /\ UNCHANGED <<day, tokens, mailed, edited, resets>>
  BY <1>1, <1>2 DEF Confirm
<1>6. /\ contact' \in [Contact -> {Nothing} \cup Row(Statuses)] /\ contact'[c] = row
      /\ \A d \in Contact \ {c} : contact'[d] = contact[d]
  BY <1>4, <1>5 DEF ConfirmInv, ConfirmTypes
<1>7. [info |-> tok.info, at |-> day] \in [info : Info, at : Nat]
  BY <1>3
<1>8. /\ confirmed' \in [Contact -> {Nothing} \cup [info : Info, at : Nat]]
      /\ confirmed'[c] = [info |-> tok.info, at |-> day]
      /\ \A d \in Contact \ {c} : confirmed'[d] = confirmed[d]
  BY <1>5, <1>7 DEF ConfirmInv, ConfirmTypes
<1>9. /\ serving' \in [Server -> Requests] /\ \A q \in Server \ {p} : serving'[q] = serving[q]
      /\ serving'[p] = Waiting \/ (serving'[p].step = "clear" /\ serving'[p].token = tok)
  <2>1. CASE Reply(p)
    BY <2>1, Replies DEF ConfirmInv
  <2>2. CASE Goto(p, "clear")
    BY <1>1, <2>2, Goes DEF ConfirmInv, Confirm, Doing
  <2> QED BY <2>1, <2>2 DEF Confirm
<1>10. ConfirmTypes'
  BY <1>5, <1>6, <1>8, <1>9 DEF ConfirmInv, ConfirmTypes
<1>11. ContactInv'
  <2>1. ASSUME NEW d, NEW i, NEW t, Known(d, i, t), d \in Contact PROVE Known(d, i, t)'
    BY <1>4, <1>5, <1>6, <2>1 DEF Known
  <2>2. \A m \in mailed : m.contact \in Contact /\ Known(m.contact, m.info, m.at)'
    BY <2>1 DEF ConfirmInv, ContactInv, ConfirmTypes, Tokens
  <2>3. ASSUME NEW q \in Server
        PROVE  /\ Doing(q, "issue")' => Known(serving[q].contact, serving[q].info, day)'
               /\ Doing(q, "confirm")' => day' - serving'[q].token.at <= TokenTtl
    <3>1. CASE q = p
      BY <1>9, <3>1 DEF Doing, Waiting
    <3>2. CASE q # p
      <4>1. serving'[q] = serving[q]
        BY <1>9, <3>2
      <4>2. Doing(q, "issue") => serving[q].contact \in Contact
        BY DEF Doing, ConfirmInv, ConfirmTypes, Requests, Waiting
      <4>3. Doing(q, "issue") => Known(serving[q].contact, serving[q].info, day)
        BY DEF ConfirmInv, ContactInv
      <4>4. ASSUME Doing(q, "issue")
            PROVE  Known(serving[q].contact, serving[q].info, day)'
        BY <1>4, <1>5, <1>6, <4>1, <4>2, <4>3, <4>4 DEF Known
      <4> QED BY <1>5, <4>1, <4>4 DEF Doing, ConfirmInv, ContactInv
    <3> QED BY <3>1, <3>2
  <2>4. ConfirmedTimely'
    <3> SUFFICES ASSUME NEW d \in Contact, contact'[d] # Nothing, contact'[d].status = "active",
                        d \notin declared'
                 PROVE  /\ confirmed'[d] # Nothing
                        /\ \/ confirmed'[d].info = contact'[d].info
                           \/ confirmed'[d].at \in edited'[d]..(edited'[d] + TokenTtl)
      BY DEF ConfirmedTimely
    <3>1. CASE d = c
      <4>1. confirmed'[d] # Nothing
        BY <1>7, <1>8, <3>1, ConfirmConstants
      <4>2. tok.info = contact[c].info \/ day \in edited[c]..(edited[c] + TokenTtl)
        BY <1>3, ConfirmConstants
      <4> QED BY <1>4, <1>5, <1>6, <1>8, <3>1, <4>1, <4>2
    <3>2. CASE d # c
      BY <1>5, <1>6, <1>8, <3>2 DEF ConfirmInv, ContactInv, ConfirmedTimely
    <3> QED BY <3>1, <3>2
  <2> QED BY <1>5, <2>2, <2>3, <2>4 DEF ConfirmInv, ContactInv
<1>12. UseInv'
  BY <1>1, <1>5, <1>9, <1>10, UsesKept DEF Using, Doing, Spending, Confirm, Waiting
<1> QED BY <1>5, <1>10, <1>11, <1>12, IdsKept DEF ConfirmInv

\* A token is drawn, sent, and stored where there is none.
LEMMA IssueKeeps ==
    ASSUME ConfirmInv, NEW p \in Server, NEW nonce \in Nonce \cup {ShortNonce},
           NEW reached \in BOOLEAN, Issue(p, nonce, reached)
    PROVE  ConfirmInv'
<1>1. PICK c \in Contact, info \in Info : c = serving[p].contact /\ info = serving[p].info
  BY DEF Issue, Doing, ConfirmInv, ConfirmTypes, Requests, Waiting
<1>2. PICK n \in Nat : n = Cardinality(mailed)
  BY FS_CardinalityType DEF ConfirmInv, IdInv
<1> DEFINE tok == [id |-> n + 1, contact |-> c, info |-> info, nonce |-> nonce, at |-> day]
<1>3. /\ n < MaxMails /\ mailed' = mailed \cup {tok}
      /\ tokens' = IF reached /\ tokens[KeyFor(tok)] = Nothing
                   THEN [tokens EXCEPT ![KeyFor(tok)] = tok] ELSE tokens
      /\ UNCHANGED <<day, contact, edited, confirmed, declared, resets>>
  BY <1>1, <1>2 DEF Issue
<1>4. n + 1 \in Nat /\ n + 1 \in 1..MaxMails /\ day \in Nat /\ tok \in Tokens
  BY <1>2, <1>3, ConfirmConstants DEF Tokens, ConfirmInv, ConfirmTypes
<1>5. tok \notin mailed
  BY <1>2 DEF ConfirmInv, IdInv
<1>6. IsFiniteSet(mailed') /\ Cardinality(mailed') = n + 1
  BY <1>2, <1>3, <1>5, FS_AddElement DEF ConfirmInv, IdInv
<1>7. /\ serving' \in [Server -> Requests] /\ \A q \in Server \ {p} : serving'[q] = serving[q]
      /\ serving'[p] = Waiting \/ serving'[p].step = "account"
  <2>1. CASE Reply(p)
    BY <2>1, Replies DEF ConfirmInv
  <2>2. CASE Goto(p, "account")
    BY <2>2, Goes DEF ConfirmInv, Issue
  <2> QED BY <2>1, <2>2 DEF Issue
<1>8. /\ tokens' \in [Keys -> {Nothing} \cup Tokens]
      /\ \A k \in Keys : tokens'[k] \in {tokens[k], tok}
  BY <1>3, <1>4, KeyOfToken DEF ConfirmInv, ConfirmTypes
<1>9. ConfirmTypes'
  BY <1>3, <1>4, <1>7, <1>8 DEF ConfirmInv, ConfirmTypes
<1>10. ContactInv'
  <2>1. \A d, i, t : Known(d, i, t)' <=> Known(d, i, t)
    BY <1>3 DEF Known
  <2>2. Known(c, info, day) /\ day <= day
    BY <1>1, <1>4 DEF Issue, ConfirmInv, ContactInv
  <2>3. \A m \in mailed' : m.at <= day /\ Known(m.contact, m.info, m.at)
    BY <1>3, <2>2 DEF ConfirmInv, ContactInv
  <2>4. \A q \in Server :
          /\ Doing(q, "issue")' => Known(serving[q].contact, serving[q].info, day)'
          /\ Doing(q, "confirm")' => day' - serving'[q].token.at <= TokenTtl
    BY <1>3, <1>7, <2>1 DEF Doing, Waiting, ConfirmInv, ContactInv, Known
  <2> QED BY <1>3, <2>1, <2>3, <2>4 DEF ConfirmInv, ContactInv, ConfirmedTimely
<1>11. IdInv'
  <2>1. \A m \in mailed : m.id \in 1..n /\ m.id \in 1..MaxMails
    BY <1>2 DEF ConfirmInv, IdInv
  <2>2. \A m \in mailed' : m.id \in 1..(n + 1) /\ m.id \in 1..MaxMails
    BY <1>3, <1>4, <2>1
  <2>3. \A m, other \in mailed' : m.id = other.id => m = other
    BY <1>2, <1>3, <2>1 DEF ConfirmInv, IdInv
  <2>4. \A i \in 1..MaxMails : i > n + 1 => resets'[i] = 0
    BY <1>2, <1>3 DEF ConfirmInv, IdInv
  <2> QED BY <1>6, <2>2, <2>3, <2>4 DEF IdInv
<1>12. UseInv'
  <2>1. \A q \in Server : Using(q)' => Using(q) /\ serving'[q] = serving[q]
                                       /\ serving[q].token \in mailed
    BY <1>7 DEF Using, Spending, Doing, Waiting, ConfirmInv, UseInv
  <2>2. ASSUME NEW m \in mailed', tokens'[KeyFor(m)] = m
        PROVE  /\ resets'[m.id] = 0
               /\ \A q \in Server : Spending(q)' => serving'[q].token # m
    <3>1. \A q \in Server : Spending(q)' =>
             Spending(q) /\ serving'[q] = serving[q] /\ serving[q].token \in mailed
      BY <2>1 DEF Doing, Using, Spending
    <3>2. CASE m = tok
      <4>1. resets'[m.id] = 0
        BY <1>2, <1>3, <1>4, <3>2 DEF ConfirmInv, IdInv
      <4> QED BY <1>5, <3>1, <3>2, <4>1
    <3>3. CASE m # tok
      <4>1. m \in mailed /\ tokens[KeyFor(m)] = m
        BY <1>3, <1>8, <2>2, <3>3, KeyOfToken DEF ConfirmInv, ConfirmTypes
      <4> QED BY <1>3, <3>1, <4>1 DEF ConfirmInv, UseInv
    <3> QED BY <3>2, <3>3
  <2>3. ASSUME NEW i \in 1..MaxMails
        PROVE  resets'[i] + Cardinality(Users(i)') <= Cardinality(Server)
    <3>1. Users(i)' \subseteq Users(i)
      BY <2>1 DEF Users
    <3>2. Cardinality(Users(i)') <= Cardinality(Users(i))
      BY <3>1, UsersCounted, Counting, ConfirmConstants
    <3>3. resets[i] + Cardinality(Users(i)) <= Cardinality(Server) /\ resets[i] \in Nat
      BY DEF ConfirmInv, UseInv, ConfirmTypes
    <3> QED BY <1>3, <3>2, <3>3, UsersCounted, ConfirmConstants
  <2>4. \A q \in Server : Using(q)' => serving'[q].token \in mailed'
    BY <1>3, <2>1
  <2> QED BY <2>2, <2>3, <2>4 DEF UseInv
<1> QED BY <1>9, <1>10, <1>11, <1>12 DEF ConfirmInv

\* A request reads a token that is in redis: none has taken it away yet.
LEMMA PresentKeeps ==
    ASSUME ConfirmInv, NEW p \in Server, NEW tok \in mailed, NEW clear \in BOOLEAN,
           NEW u \in Uid, Present(p, tok, clear, u)
    PROVE  ConfirmInv'
<1> DEFINE request == [step |-> "confirm", token |-> tok, clear |-> clear, uid |-> u,
                       cleared |-> FALSE]
<1>1. /\ UNCHANGED <<day, contact, tokens, mailed, edited, confirmed, declared, resets>>
      /\ day - tok.at <= TokenTtl /\ tokens[KeyFor(tok)] = tok /\ Doing(p, "idle")
  BY DEF Present, Valid
<1>2. request \in Requests /\ serving' = [serving EXCEPT ![p] = request]
  BY DEF Present, Requests, ConfirmInv, ConfirmTypes
<1>3. /\ serving' \in [Server -> Requests] /\ serving'[p] = request
      /\ \A q \in Server \ {p} : serving'[q] = serving[q]
  BY <1>2 DEF ConfirmInv, ConfirmTypes
<1>4. ConfirmTypes'
  BY <1>1, <1>3 DEF ConfirmInv, ConfirmTypes
<1>5. ContactInv'
  <2>1. ASSUME NEW q \in Server
        PROVE  /\ Doing(q, "issue")' => Known(serving[q].contact, serving[q].info, day)'
               /\ Doing(q, "confirm")' => day' - serving'[q].token.at <= TokenTtl
    <3>1. CASE q = p
      BY <1>1, <1>3, <3>1 DEF Doing
    <3>2. CASE q # p
      BY <1>1, <1>3, <3>2 DEF Doing, Known, ConfirmInv, ContactInv
    <3> QED BY <3>1, <3>2
  <2> QED BY <1>1, <2>1 DEF ConfirmInv, ContactInv, ConfirmedTimely, Known
<1>6. UseInv'
  <2>1. \A q \in Server : Using(q)' => serving'[q].token \in mailed'
    BY <1>1, <1>3 DEF Using, Spending, Doing, ConfirmInv, UseInv
  <2>2. \A q \in Server : Spending(q)' => Spending(q) /\ serving'[q] = serving[q]
    BY <1>3 DEF Doing, Spending
  <2>3. \A m \in mailed' : tokens'[KeyFor(m)] = m =>
           /\ resets'[m.id] = 0
           /\ \A q \in Server : Spending(q)' => serving'[q].token # m
    BY <1>1, <2>2 DEF ConfirmInv, UseInv
  <2>4. ASSUME NEW i \in 1..MaxMails
        PROVE  resets'[i] + Cardinality(Users(i)') <= Cardinality(Server)
    <3>1. resets[i] + Cardinality(Users(i)) <= Cardinality(Server) /\ resets[i] \in Nat
      BY DEF ConfirmInv, UseInv, ConfirmTypes
    <3>2. CASE i = tok.id
      <4>1. resets'[i] = 0
        BY <1>1, <3>2 DEF ConfirmInv, UseInv
      <4> QED BY <4>1, UsersCounted, ConfirmConstants
    <3>3. CASE i # tok.id
      <4>1. Users(i)' \subseteq Users(i)
        BY <1>3, <3>3 DEF Users, Using, Spending, Doing
      <4>2. Cardinality(Users(i)') <= Cardinality(Users(i))
        BY <4>1, UsersCounted, Counting, ConfirmConstants
      <4> QED BY <1>1, <3>1, <4>2, UsersCounted, ConfirmConstants
    <3> QED BY <3>2, <3>3
  <2> QED BY <2>1, <2>3, <2>4 DEF UseInv
<1> QED BY <1>1, <1>4, <1>5, <1>6, IdsKept DEF ConfirmInv

\* The token is taken out of redis before a password is set with it, or is left there.
LEMMA ClearKeeps ==
    ASSUME ConfirmInv, NEW p \in Server, NEW reached \in BOOLEAN, Clear(p, reached)
    PROVE  ConfirmInv'
<1>1. PICK tok \in mailed : tok = serving[p].token
  BY DEF Clear, Doing, ConfirmInv, UseInv, Using
<1>2. tok \in Tokens /\ tok # Nothing /\ KeyFor(tok) \in Keys
  BY KeyOfToken, ConfirmConstants DEF ConfirmInv, ConfirmTypes
<1>3. /\ UNCHANGED <<day, contact, mailed, edited, confirmed, declared, resets>>
      /\ tokens' = IF reached THEN [tokens EXCEPT ![KeyFor(tok)] = Nothing] ELSE tokens
  BY <1>1 DEF Clear, Cleared
<1> DEFINE request == [serving[p] EXCEPT !.step = "password", !.cleared = reached]
<1>4. /\ serving' \in [Server -> Requests] /\ serving'[p].step = "password"
      /\ serving'[p].token = tok /\ \A q \in Server \ {p} : serving'[q] = serving[q]
      /\ serving[p].step = "clear" /\ serving'[p].cleared = reached
  <2>1. serving[p] \in Requests /\ serving[p].step = "clear" /\ DOMAIN serving = Server
    BY DEF Clear, Doing, ConfirmInv, ConfirmTypes
  <2>2. serving[p] \in [step : {"confirm", "clear", "password"}, token : Tokens, clear : BOOLEAN,
                        uid : Uid, cleared : BOOLEAN]
    BY <2>1 DEF Requests, Waiting
  <2>3. request \in Requests /\ request.step = "password" /\ request.token = tok
        /\ request.cleared = reached
    BY <1>1, <2>2 DEF Requests
  <2>4. serving' = [serving EXCEPT ![p] = request]
    BY DEF Clear
  <2> QED BY <2>1, <2>3, <2>4 DEF ConfirmInv, ConfirmTypes
<1>5. ConfirmTypes'
  BY <1>2, <1>3, <1>4 DEF ConfirmInv, ConfirmTypes
<1>6. ContactInv'
  BY <1>3, <1>4, ContactsKept DEF Doing
<1>7. UseInv'
  <2>1. \A q \in Server : Using(q)' => Using(q) /\ serving'[q].token = serving[q].token
    BY <1>1, <1>4 DEF Using, Spending, Doing
  <2>2. ASSUME NEW m \in mailed', tokens'[KeyFor(m)] = m
        PROVE  /\ resets'[m.id] = 0
               /\ \A q \in Server : Spending(q)' => serving'[q].token # m
    <3>1. m \in mailed /\ m \in Tokens /\ m # Nothing /\ KeyFor(m) \in Keys
      BY <1>3, KeyOfToken, ConfirmConstants DEF ConfirmInv, ConfirmTypes
    <3>2. tokens[KeyFor(m)] = m /\ (reached => m # tok)
      BY <1>2, <1>3, <2>2, <3>1 DEF ConfirmInv, ConfirmTypes
    <3>3. ASSUME NEW q \in Server, Spending(q)' PROVE serving'[q].token # m
      BY <1>4, <3>1, <3>2, <3>3 DEF Doing, Spending, ConfirmInv, UseInv
    <3> QED BY <1>3, <3>1, <3>2, <3>3 DEF ConfirmInv, UseInv
  <2>3. ASSUME NEW i \in 1..MaxMails
        PROVE  resets'[i] + Cardinality(Users(i)') <= Cardinality(Server)
    <3>1. Users(i)' \subseteq Users(i)
      BY <2>1 DEF Users
    <3>2. Cardinality(Users(i)') <= Cardinality(Users(i))
      BY <3>1, UsersCounted, Counting, ConfirmConstants
    <3>3. resets[i] + Cardinality(Users(i)) <= Cardinality(Server) /\ resets[i] \in Nat
      BY DEF ConfirmInv, UseInv, ConfirmTypes
    <3> QED BY <1>3, <3>2, <3>3, UsersCounted, ConfirmConstants
  <2>4. \A q \in Server : Using(q)' => serving'[q].token \in mailed'
    BY <1>3, <2>1 DEF ConfirmInv, UseInv
  <2> QED BY <2>2, <2>3, <2>4 DEF UseInv
<1> QED BY <1>3, <1>5, <1>6, <1>7, IdsKept DEF ConfirmInv

\* One more password is set by one fewer of those that have read the token.
LEMMA SetPasswordKeeps ==
    ASSUME ConfirmInv, NEW p \in Server, SetPassword(p) PROVE ConfirmInv'
<1> USE DEF Spending
<1>0. CASE ~serving[p].cleared
  BY <1>0, ReplyKeeps DEF SetPassword
<1> SUFFICES ASSUME serving[p].cleared PROVE ConfirmInv'
  BY <1>0
<1>1. PICK tok \in mailed : tok = serving[p].token
  BY DEF SetPassword, Doing, ConfirmInv, UseInv, Using
<1>2. PICK n \in 1..MaxMails : n = tok.id
  BY DEF ConfirmInv, IdInv
<1>3. /\ UNCHANGED <<day, contact, tokens, mailed, edited, confirmed, declared>>
      /\ resets' = [resets EXCEPT ![n] = resets[n] + 1] /\ resets[n] \in Nat
  BY <1>1, <1>2 DEF SetPassword, ConfirmInv, ConfirmTypes
<1>4. /\ serving' \in [Server -> Requests] /\ serving'[p] = Waiting
      /\ \A q \in Server \ {p} : serving'[q] = serving[q]
      /\ serving[p].step = "password"
  BY Replies DEF SetPassword, Doing, ConfirmInv
<1>5. /\ resets' \in [1..MaxMails -> Nat] /\ resets'[n] = resets[n] + 1
      /\ \A i \in 1..MaxMails : i # n => resets'[i] = resets[i]
  BY <1>3 DEF ConfirmInv, ConfirmTypes
<1>6. ConfirmTypes'
  BY <1>3, <1>4, <1>5 DEF ConfirmInv, ConfirmTypes
<1>7. ContactInv'
  BY <1>3, <1>4, ContactsKept DEF Doing, Waiting
<1>8. IdInv'
  <2>1. \A i \in 1..MaxMails : i > Cardinality(mailed) => i # n
    BY <1>2, FS_CardinalityType DEF ConfirmInv, IdInv
  <2> QED BY <1>3, <1>5, <2>1 DEF ConfirmInv, IdInv
<1>9. UseInv'
  <2>1. \A q \in Server : Using(q)' => q # p /\ Using(q) /\ serving'[q] = serving[q]
    BY <1>4 DEF Using, Spending, Doing, Waiting
  <2>2. ASSUME NEW m \in mailed', tokens'[KeyFor(m)] = m
        PROVE  /\ resets'[m.id] = 0
               /\ \A q \in Server : Spending(q)' => serving'[q].token # m
    <3>1. m \in mailed /\ tokens[KeyFor(m)] = m
      BY <1>3, <2>2
    <3>2. m # tok
      BY <1>1, <1>4, <3>1 DEF Doing, ConfirmInv, UseInv
    <3>3. m.id # n /\ m.id \in 1..MaxMails
      BY <1>2, <3>1, <3>2 DEF ConfirmInv, IdInv
    <3>4. \A q \in Server : Spending(q)' => Spending(q) /\ serving'[q] = serving[q]
      BY <1>4 DEF Doing, Waiting
    <3> QED BY <1>5, <3>1, <3>3, <3>4 DEF ConfirmInv, UseInv
  <2>3. ASSUME NEW i \in 1..MaxMails
        PROVE  resets'[i] + Cardinality(Users(i)') <= Cardinality(Server)
    <3>1. resets[i] + Cardinality(Users(i)) <= Cardinality(Server) /\ resets[i] \in Nat
      BY DEF ConfirmInv, UseInv, ConfirmTypes
    <3>2. CASE i = n
      <4>1. p \in Users(i) /\ Users(i)' \subseteq Users(i) \ {p}
        BY <1>1, <1>2, <1>4, <2>1, <3>2 DEF Users, Using, Spending, Doing
      <4>2. Cardinality(Users(i)') + 1 <= Cardinality(Users(i))
        BY <4>1, UsersCounted, CountingOne, ConfirmConstants
      <4> QED BY <1>5, <3>1, <3>2, <4>2, UsersCounted, ConfirmConstants
    <3>3. CASE i # n
      <4>1. Users(i)' \subseteq Users(i)
        BY <2>1 DEF Users
      <4>2. Cardinality(Users(i)') <= Cardinality(Users(i))
        BY <4>1, UsersCounted, Counting, ConfirmConstants
      <4> QED BY <1>5, <3>1, <3>3, <4>2, UsersCounted, ConfirmConstants
    <3> QED BY <3>2, <3>3
  <2>4. \A q \in Server : Using(q)' => serving'[q].token \in mailed'
    BY <1>3, <2>1 DEF ConfirmInv, UseInv
  <2> QED BY <2>2, <2>3, <2>4 DEF UseInv
<1> QED BY <1>6, <1>7, <1>8, <1>9 DEF ConfirmInv

\* No request is in progress; tokens end.
LEMMA NextDayKeeps == ASSUME ConfirmInv, NextDay PROVE ConfirmInv'
<1>1. /\ day' = day + 1 /\ day \in Nat
      /\ UNCHANGED <<contact, mailed, serving, edited, confirmed, declared, resets>>
      /\ \A p \in Server : Doing(p, "idle")
  BY DEF NextDay, ConfirmInv, ConfirmTypes
<1>2. /\ tokens' \in [Keys -> {Nothing} \cup Tokens]
      /\ \A k \in Keys : tokens'[k] \in {tokens[k], Nothing}
  BY DEF NextDay, ConfirmInv, ConfirmTypes
<1>3. ConfirmTypes'
  BY <1>1, <1>2 DEF ConfirmInv, ConfirmTypes
<1>4. ContactInv'
  <2>1. \A c \in Contact : edited'[c] <= day'
    BY <1>1 DEF ConfirmInv, ContactInv, ConfirmTypes
  <2>2. \A tok \in mailed' : tok.at <= day' /\ Known(tok.contact, tok.info, tok.at)'
    BY <1>1 DEF ConfirmInv, ContactInv, ConfirmTypes, Tokens, Known
  <2> QED BY <1>1, <2>1, <2>2 DEF ConfirmInv, ContactInv, ConfirmedTimely, Doing
<1>5. UseInv'
  BY <1>1, <1>2, <1>3, UsesKept DEF Doing, Using, Spending
<1> QED BY <1>1, <1>3, <1>4, <1>5, IdsKept DEF ConfirmInv

LEMMA RegisterKeeps ==
    ASSUME ConfirmInv, NEW p \in Server, NEW c \in Contact, NEW info \in Info,
           Register(p, c, info)
    PROVE  ConfirmInv'
<1>1. CASE identity[OwnerOf[c]] = Nothing
  <2>1. /\ Doing(p, "idle") /\ Write(c, info, "unconfirmed") /\ ThenAsk(p, c, info, "account")
        /\ UNCHANGED <<day, tokens, mailed, confirmed, resets>>
        /\ declared' = declared \ {c} /\ "unconfirmed" # "active"
    BY <1>1 DEF Register
  <2> QED BY <2>1, WriteKeeps DEF Statuses
<1>2. CASE identity[OwnerOf[c]] # Nothing
  BY <1>2, AskKeeps DEF Register
<1> QED BY <1>1, <1>2

LEMMA AddContactKeeps ==
    ASSUME ConfirmInv, NEW p \in Server, NEW c \in Contact, NEW info \in Info,
           NEW new \in {"active", "unconfirmed"}, AddContact(p, c, info, new)
    PROVE  ConfirmInv'
BY WriteKeeps DEF AddContact, Statuses

LEMMA EditContactKeeps ==
    ASSUME ConfirmInv, NEW p \in Server, NEW c \in Contact, NEW info \in Info,
           NEW disabled \in BOOLEAN, EditContact(p, c, info, disabled)
    PROVE  ConfirmInv'
<1>1. NewStatus(c, disabled) \in {"disabled", "unconfirmed"}
  BY DEF NewStatus
<1> QED BY <1>1, WriteKeeps DEF EditContact, Statuses

LEMMA ConfirmStep == ConfirmInv /\ [ConfirmNext]_confirmVars => ConfirmInv'
<1> SUFFICES ASSUME ConfirmInv, [ConfirmNext]_confirmVars PROVE ConfirmInv'
  OBVIOUS
<1>1. ASSUME NEW p \in Server, NEW c \in Contact, NEW info \in Info,
             \/ Register(p, c, info)
             \/ \E new \in {"active", "unconfirmed"} : AddContact(p, c, info, new)
             \/ \E disabled \in BOOLEAN : EditContact(p, c, info, disabled)
      PROVE  ConfirmInv'
  BY <1>1, RegisterKeeps, AddContactKeeps, EditContactKeeps
<1>2. ASSUME NEW p \in Server, NEW c \in Contact, AskAgain(p, c) PROVE ConfirmInv'
  BY <1>2, AskKeeps DEF AskAgain
<1>3. ASSUME NEW p \in Server, NEW nonce \in Nonce \cup {ShortNonce}, NEW reached \in BOOLEAN,
             Issue(p, nonce, reached)
      PROVE  ConfirmInv'
  BY <1>3, IssueKeeps
<1>4. ASSUME NEW p \in Server, AddAccount(p) \/ Break(p) PROVE ConfirmInv'
  BY <1>4, ReplyKeeps DEF AddAccount, Break
<1>5. ASSUME NEW p \in Server, NEW tok \in mailed, NEW clear \in BOOLEAN, NEW u \in Uid,
             Present(p, tok, clear, u)
      PROVE  ConfirmInv'
  BY <1>5, PresentKeeps
<1>6. ASSUME NEW p \in Server,
             Confirm(p) \/ SetPassword(p) \/ \E reached \in BOOLEAN : Clear(p, reached)
      PROVE  ConfirmInv'
  BY <1>6, ConfirmKeeps, ClearKeeps, SetPasswordKeeps
<1>8. ASSUME NEW c \in Contact, NEW new \in {"active", "disabled"}, SetStatus(c, new)
      PROVE  ConfirmInv'
  BY <1>8, SetStatusKeeps
<1>7. CASE NoMoreMail \/ UNCHANGED confirmVars
  <2>1. UNCHANGED confirmVars
    BY <1>7 DEF NoMoreMail
  <2>2. ConfirmTypes'
    BY <2>1 DEF confirmVars, ConfirmInv, ConfirmTypes
  <2>3. ContactInv' /\ UseInv'
    BY <2>1, <2>2, ContactsKept, UsesKept DEF confirmVars, Doing, Using, Spending
  <2> QED BY <2>1, <2>2, <2>3, IdsKept DEF confirmVars, ConfirmInv
<1> QED BY <1>1, <1>2, <1>3, <1>4, <1>5, <1>6, <1>7, <1>8, NextDayKeeps DEF ConfirmNext

LEMMA ConfirmInvariant == ConfirmSpec => []ConfirmInv
BY ConfirmInitial, ConfirmStep, PTL DEF ConfirmSpec

\* confirm looks at the token only; still a contact that its owner has not declared
\* active is so with an address that was confirmed, or was confirmed at most
\* TOKEN_TIMEOUT after it was changed.
THEOREM ContactsConfirmedInTime == ConfirmSpec => []ConfirmedTimely
<1>1. ConfirmInv => ConfirmedTimely
  BY DEF ConfirmInv, ContactInv
<1> QED BY <1>1, ConfirmInvariant, PTL

\* change_password reads the token, confirms, deletes it and only then sets the
\* password: one token sets no more of them than there are requests at a time, those
\* apart whose delete did not reach redis.
THEOREM TokenUsesAreBounded == ConfirmSpec => []TokenUsesBounded
<1>1. ConfirmInv => TokenUsesBounded
  <2> SUFFICES ASSUME ConfirmInv, NEW i \in 1..MaxMails PROVE resets[i] <= Cardinality(Server)
    BY DEF TokenUsesBounded
  <2>1. resets[i] + Cardinality(Users(i)) <= Cardinality(Server) /\ resets[i] \in Nat
    BY DEF ConfirmInv, UseInv, ConfirmTypes
  <2> QED BY <2>1, UsersCounted, ConfirmConstants
<1> QED BY <1>1, ConfirmInvariant, PTL

-----------------------------------------------------------------------------
(* Logins *)

Codes == Nat \X {"backup"} \X Nat
Words == ((Secret \cup {NoSecret}) \X {"otp"} \X Nat) \cup Codes

Attempts ==
    {Quiet}
    \cup [at : {"replay", "accept"}, word : Words, password : BOOLEAN, old : BOOLEAN]
    \cup [at : {"snip", "replay", "accept"}, word : Codes, left : SUBSET Codes,
          password : BOOLEAN, old : BOOLEAN]
    \cup [at : {"register"}, secret : Secret, old : BOOLEAN]

LoginTypes ==
    /\ step \in Nat
    /\ acct \in [secret : Secret \cup {NoSecret}, codes : SUBSET Codes, sealed : BOOLEAN,
                 batch : Nat, mustChange : BOOLEAN, muted : BOOLEAN]
    /\ DOMAIN ses = Browser /\ \A b \in Browser : ses[b].password \in BOOLEAN
    /\ cookie \in [Browser -> Nat]
    /\ offer \in [Browser -> {NoOffer} \cup [secret : Secret, until : Nat]]
    /\ used \subseteq [path : {"apikey", "session"}, word : Words, ago : Nat, kept : BOOLEAN]
    /\ attempt \in [Browser -> Attempts]

\* A password stands behind each session that waits for a code, and so behind each
\* code that is presented with one; and the bypass cookie is from the last of them.
FactorInv ==
    /\ \A b \in Browser : cookie[b] <= step + CookieSteps
    /\ \A b \in Browser \ KeyUsers :
          /\ "pendingtotp" \in ses[b].roles => ses[b].password
          /\ attempt[b].at \in {"snip", "replay", "accept"} => attempt[b].password
    /\ TwoFactors

\* A backup code of a registration that is over, or after one of them was used.
Gone(c) == \E n \in 1..acct.batch : c \in AllCodes(n) /\ (n < acct.batch \/ ~acct.sealed)
IsOtp(word) == word[2] = "otp"

\* The codes that can still be presented are those of the last registration.
CodesKnown ==
    /\ acct.sealed => acct.codes \subseteq AllCodes(acct.batch)
    /\ acct.batch = 0 => acct.codes = {}
\* A word that was used is no backup code that opens; its key lasts a minute.
UseKnown(use) ==
    /\ IsOtp(use.word) \/ Gone(use.word)
    /\ use.ago <= ReplaySteps /\ (~use.kept => use.ago = ReplaySteps)
AttemptKnown(b) ==
    /\ attempt[b].at = "snip" => \E n \in 1..acct.batch : attempt[b].word \in AllCodes(n)
    /\ attempt[b].at \in {"replay", "accept"} =>
          IsOtp(attempt[b].word) \/ Gone(attempt[b].word)
\* Whoever presents a backup code did so before the code was used, so that the use
\* is no older than the request.
Fresh(b, use) ==
    (attempt[b].at \in {"snip", "replay"} /\ ~IsOtp(attempt[b].word)
     /\ use.word = attempt[b].word) =>
        use.ago <= (IF attempt[b].old THEN 1 ELSE 0)

CodeInv ==
    /\ CodesKnown
    /\ \A use \in used : UseKnown(use)
    /\ \A b \in Browser : AttemptKnown(b)
    /\ \A b \in Browser : \A use \in used : Fresh(b, use)

LoginInv == LoginTypes /\ FactorInv /\ CodeInv

LEMMA LoginConstants ==
    /\ KeyUsers \subseteq Browser
    /\ MfaRequired \in BOOLEAN
    /\ \A i \in Int : i # Never
    /\ ReplaySteps \in Nat /\ ReplaySteps >= 2
    /\ ShortSteps \in Nat /\ CookieSteps \in Nat /\ MaxStep \in Nat
    /\ MaxBatches \in Nat /\ Ticks \in Nat /\ Backups \in Nat
  BY LoginAssumption DEF LoginAssumption

\* A backup code says which registration drew it, and is no one-time password.
LEMMA CodesOfBatch ==
    ASSUME NEW n \in Nat
    PROVE  /\ AllCodes(n) \subseteq Codes
           /\ \A c \in AllCodes(n) : c[1] = n /\ ~IsOtp(c)
           /\ Codes \subseteq Words
  BY LoginConstants DEF AllCodes, Codes, Words, IsOtp

\* What a login grants a session with.
LEMMA GrantedIs ==
    ASSUME NEW b \in Browser, NEW local \in BOOLEAN, NEW pending \in BOOLEAN,
           NEW sent, NEW password, NEW otp,
           NEW g, g = Granted(b, local, pending, sent, password, otp)
    PROVE  /\ g.password = password
           /\ g.otp = IF otp = Never THEN Never ELSE step - otp
           /\ "user" \in g.roles /\ g.mfa => local /\ (pending \/ Bypass(b, sent))
<1>1. /\ g.password = password
      /\ g.otp = IF otp = Never THEN Never ELSE step - otp
      /\ g.roles = RolesFor(b, local, pending, sent)
  BY DEF Granted
<1>2. g.mfa = (Totp /\ local)
  BY DEF Granted
<1>3. ASSUME local, Totp, "user" \in RolesFor(b, local, pending, sent)
      PROVE  pending \/ Bypass(b, sent)
  BY <1>3 DEF RolesFor, Asked
<1> QED BY <1>1, <1>2, <1>3

-----------------------------------------------------------------------------
LEMMA LoginInitial == LoginInit => LoginInv
<1> SUFFICES ASSUME LoginInit PROVE LoginInv
  OBVIOUS
<1>1. LoginTypes
  <2>1. acct \in [secret : Secret \cup {NoSecret}, codes : SUBSET Codes, sealed : BOOLEAN,
                  batch : Nat, mustChange : BOOLEAN, muted : BOOLEAN]
    <3>1. /\ {NoSecret} \subseteq Secret \cup {NoSecret} /\ {{}} \subseteq SUBSET Codes
          /\ {TRUE} \subseteq BOOLEAN /\ {0} \subseteq Nat
      OBVIOUS
    <3> QED BY <3>1, Zenon DEF LoginInit
  <2> QED BY <2>1 DEF LoginInit, LoginTypes, NoSes, NoCookie, Attempts
<1>2. FactorInv
  BY LoginConstants DEF LoginInit, FactorInv, TwoFactors, NoSes, NoCookie, Quiet
<1>3. CodeInv
  BY LoginConstants DEF LoginInit, CodeInv, CodesKnown, AttemptKnown, Quiet
<1> QED BY <1>1, <1>2, <1>3 DEF LoginInv

-----------------------------------------------------------------------------
\* What a request in progress is, by its place.
LEMMA AttemptIs ==
    ASSUME LoginTypes, NEW b \in Browser
    PROVE  /\ attempt[b] \in Attempts
           /\ attempt[b].at \in {"snip", "replay", "accept"} =>
                attempt[b].word \in Words /\ attempt[b].password \in BOOLEAN
           /\ attempt[b].at = "snip" =>
                attempt[b] \in [at : {"snip", "replay", "accept"}, word : Codes,
                                left : SUBSET Codes, password : BOOLEAN, old : BOOLEAN]
           /\ attempt[b].at = "register" => attempt[b].secret \in Secret
           /\ attempt[b].at \in {"idle", "snip", "replay", "accept", "register"}
           /\ attempt[b].at = "idle" => attempt[b] = Quiet
<1>1. attempt[b] \in Attempts
  BY DEF LoginTypes
<1>2. Codes \subseteq Words
  BY DEF Codes, Words
<1> QED BY <1>1, <1>2 DEF Attempts, Quiet

\* A request goes on, to the next place or to its end.
LEMMA AttemptMoves ==
    ASSUME LoginTypes, NEW b \in Browser,
           \/ Answer(b)
           \/ attempt[b].at = "snip" /\ Then(b, "replay")
           \/ attempt[b].at = "replay" /\ Then(b, "accept")
    PROVE  attempt' \in [Browser -> Attempts]
<1>1. Quiet \in Attempts
  BY DEF Attempts
<1>2. CASE Answer(b)
  BY <1>1, <1>2 DEF LoginTypes, Answer
<1>3. CASE attempt[b].at = "snip" /\ Then(b, "replay")
  <2>1. [attempt[b] EXCEPT !.at = "replay"] \in Attempts
    BY <1>3, AttemptIs DEF Attempts
  <2> QED BY <1>3, <2>1 DEF LoginTypes, Then
<1>4. CASE attempt[b].at = "replay" /\ Then(b, "accept")
  <2>1. [attempt[b] EXCEPT !.at = "accept"] \in Attempts
    BY <1>4, AttemptIs DEF Attempts, Quiet
  <2> QED BY <1>4, <2>1 DEF LoginTypes, Then
<1> QED BY <1>2, <1>3, <1>4

\* One session is granted.
LEMMA SessionGranted ==
    ASSUME LoginTypes, NEW b \in Browser, NEW local \in BOOLEAN, NEW pending \in BOOLEAN,
           NEW sent, NEW password \in BOOLEAN, NEW otp,
           ses' = [ses EXCEPT ![b] = Granted(b, local, pending, sent, password, otp)]
    PROVE  DOMAIN ses' = Browser /\ \A x \in Browser : ses'[x].password \in BOOLEAN
<1> DEFINE g == Granted(b, local, pending, sent, password, otp)
<1>1. g.password = password
  BY DEF Granted
<1>2. DOMAIN ses' = Browser /\ ses'[b] = g /\ \A x \in Browser \ {b} : ses'[x] = ses[x]
  BY DEF LoginTypes
<1> HIDE DEF g
<1> QED BY <1>1, <1>2 DEF LoginTypes

\* The words used, a step later.
Aged(use, slow) ==
    [use EXCEPT !.ago = IF @ < ReplaySteps THEN @ + 1 ELSE @,
                !.kept = @ /\ (use.ago + 1 < ReplaySteps
                               \/ (slow /\ use.ago < ReplaySteps))]
Uses == [path : {"apikey", "session"}, word : Words, ago : Nat, kept : BOOLEAN]

LEMMA AgedIs ==
    ASSUME NEW use \in Uses, NEW slow \in BOOLEAN, NEW u, u = Aged(use, slow)
    PROVE  /\ u \in Uses
           /\ u.path = use.path /\ u.word = use.word
           /\ u.ago = IF use.ago < ReplaySteps THEN use.ago + 1 ELSE use.ago
           /\ u.kept <=> use.kept /\ (use.ago + 1 < ReplaySteps
                                      \/ (slow /\ use.ago < ReplaySteps))
<1> DEFINE kept == use.kept /\ (use.ago + 1 < ReplaySteps
                                \/ (slow /\ use.ago < ReplaySteps))
           ago == IF use.ago < ReplaySteps THEN use.ago + 1 ELSE use.ago
<1>1. kept \in BOOLEAN
  BY Zenon
<1>2. ago \in Nat
  BY LoginConstants DEF Uses
<1>3. u = [use EXCEPT !.ago = ago, !.kept = kept]
  BY Zenon DEF Aged
<1>4. kept <=> use.kept /\ (use.ago + 1 < ReplaySteps \/ (slow /\ use.ago < ReplaySteps))
  OBVIOUS
<1>5. ago = IF use.ago < ReplaySteps THEN use.ago + 1 ELSE use.ago
  OBVIOUS
<1> HIDE DEF kept, ago
<1>6. u \in Uses /\ u.path = use.path /\ u.word = use.word /\ u.ago = ago /\ u.kept = kept
  BY <1>1, <1>2, <1>3 DEF Uses
<1> QED BY <1>4, <1>5, <1>6, Zenon

LEMMA PathIs == \A b : Path(b) \in {"apikey", "session"}
  BY DEF Path

\* An account that changes stays an account.
LEMMA LoginTypesKept ==
    ASSUME LoginTypes, [LoginNext]_loginVars
    PROVE  LoginTypes'
<1> DEFINE Accounts == [secret : Secret \cup {NoSecret}, codes : SUBSET Codes,
                        sealed : BOOLEAN, batch : Nat, mustChange : BOOLEAN, muted : BOOLEAN]
<1>1. CASE UNCHANGED loginVars
  BY <1>1 DEF loginVars, LoginTypes
<1>2. ASSUME NEW b \in Browser, NEW sent \in Sent, LogInWith(b, sent) PROVE LoginTypes'
  <2>1. PICK otp : ses' = [ses EXCEPT ![b] = Granted(b, TRUE, FALSE, sent, TRUE, otp)]
    BY <1>2 DEF LogInWith
  <2>2. DOMAIN ses' = Browser /\ \A x \in Browser : ses'[x].password \in BOOLEAN
    BY <2>1, SessionGranted
  <2> QED BY <1>2, <2>2 DEF LogInWith, LoginTypes
<1>3. ASSUME NEW b \in Browser, ChangePassword(b) PROVE LoginTypes'
  <2>1. acct' \in Accounts
    BY <1>3 DEF ChangePassword, LoginTypes
  <2> QED BY <1>3, <2>1 DEF ChangePassword, LoginTypes
<1>4. ASSUME NEW b \in Browser, NEW k \in 0..(MaxStep + Ticks), PresentOtp(b, k)
      PROVE  LoginTypes'
  <2>1. <<acct.secret, "otp", k>> \in Words /\ Knows(b) \in BOOLEAN
    <3>1. Knows(b) \in BOOLEAN
      BY Zenon DEF Knows
    <3> QED BY <3>1, LoginConstants DEF Words, LoginTypes
  <2> DEFINE password == Knows(b)
             new == [at |-> "replay", word |-> <<acct.secret, "otp", k>>,
                     password |-> password, old |-> FALSE]
  <2>2. attempt' = [attempt EXCEPT ![b] = new]
    BY <1>4 DEF PresentOtp
  <2>3. password \in BOOLEAN
    BY <2>1
  <2> HIDE DEF password
  <2>4. new \in Attempts
    BY <2>1, <2>3 DEF Attempts
  <2> HIDE DEF new
  <2> QED BY <1>4, <2>2, <2>4 DEF PresentOtp, LoginTypes
<1>5. ASSUME NEW b \in Browser, NEW n \in 1..MaxBatches, NEW c \in AllCodes(n),
             PresentCode(b, c)
      PROVE  LoginTypes'
  <2>1. c \in Codes /\ acct.codes \ {c} \in SUBSET Codes
    BY LoginConstants, CodesOfBatch DEF LoginTypes
  <2> DEFINE password == Knows(b)
             new == [at |-> "snip", word |-> c, left |-> acct.codes \ {c},
                     password |-> password, old |-> FALSE]
  <2>2. attempt' = [attempt EXCEPT ![b] = new]
    BY <1>5 DEF PresentCode
  <2>3. password \in BOOLEAN
    BY Zenon DEF Knows
  <2> HIDE DEF password
  <2>4. new \in Attempts
    BY <2>1, <2>3 DEF Attempts
  <2> HIDE DEF new
  <2> QED BY <1>5, <2>2, <2>4 DEF PresentCode, LoginTypes
<1>6. ASSUME NEW b \in Browser, Snip(b) PROVE LoginTypes'
  <2>1. acct' \in Accounts
    BY <1>6, AttemptIs DEF Snip, Now, LoginTypes
  <2>2. attempt' \in [Browser -> Attempts]
    BY <1>6, AttemptMoves DEF Snip, Now
  <2> QED BY <1>6, <2>1, <2>2 DEF Snip, LoginTypes
<1>7. ASSUME NEW b \in Browser, Replay(b) PROVE LoginTypes'
  <2>1. attempt' \in [Browser -> Attempts]
    BY <1>7, AttemptMoves DEF Replay, Now
  <2>2. used' \subseteq Uses
    <3>1. [path |-> Path(b), word |-> attempt[b].word, ago |-> 0, kept |-> TRUE] \in Uses
      BY <1>7, PathIs, AttemptIs DEF Replay, Now, Uses
    <3> QED BY <1>7, <3>1 DEF Replay, LoginTypes, SameWord, Uses
  <2> QED BY <1>7, <2>1, <2>2 DEF Replay, LoginTypes, Uses
<1>8. ASSUME NEW b \in Browser, NEW sent \in Sent, Accept(b, sent) PROVE LoginTypes'
  <2>1. attempt' \in [Browser -> Attempts]
    BY <1>8, AttemptMoves DEF Accept
  <2>2. DOMAIN ses' = Browser /\ \A x \in Browser : ses'[x].password \in BOOLEAN
    <3>1. Has(b, "pendingtotp") \in BOOLEAN /\ (b \notin KeyUsers) \in BOOLEAN
      BY Zenon DEF Has
    <3>2. attempt[b].password \in BOOLEAN
      BY <1>8, AttemptIs DEF Accept, Now
    <3>3. ses' = [ses EXCEPT ![b] = Granted(b, b \notin KeyUsers, Has(b, "pendingtotp"),
                                            sent, attempt[b].password, step)]
      BY <1>8 DEF Accept
    <3> QED BY <3>1, <3>2, <3>3, SessionGranted
  <2>3. cookie' \in [Browser -> Nat]
    BY <1>8, LoginConstants DEF Accept, LoginTypes
  <2> QED BY <1>8, <2>1, <2>2, <2>3 DEF Accept, LoginTypes
<1>9. ASSUME NEW b \in Browser, NEW s \in Secret, Generate(b, s) PROVE LoginTypes'
  <2>1. step + ShortSteps \in Nat
    BY LoginConstants DEF LoginTypes
  <2> QED BY <1>9, <2>1 DEF Generate, LoginTypes
<1>10. ASSUME NEW b \in Browser, RegisterTotp(b) PROVE LoginTypes'
  <2>1. offer[b].secret \in Secret
    BY <1>10, LoginConstants DEF RegisterTotp, LoginTypes, NoOffer
  <2> DEFINE new == [at |-> "register", secret |-> offer[b].secret, old |-> FALSE]
  <2>2. new \in Attempts /\ attempt' = [attempt EXCEPT ![b] = new]
    BY <1>10, <2>1 DEF RegisterTotp, Attempts
  <2> HIDE DEF new
  <2> QED BY <1>10, <2>2 DEF RegisterTotp, LoginTypes
<1>11. ASSUME NEW b \in Browser, Registered(b) PROVE LoginTypes'
  <2>1. acct' \in Accounts
    <3>1. acct.batch + 1 \in Nat /\ acct \in Accounts
      BY DEF LoginTypes
    <3>2. AllCodes(acct.batch + 1) \in SUBSET Codes /\ attempt[b].secret \in Secret
      BY <1>11, <3>1, CodesOfBatch, AttemptIs DEF Registered, Now
    <3> QED BY <1>11, <3>1, <3>2 DEF Registered
  <2>2. attempt' \in [Browser -> Attempts]
    BY <1>11, AttemptMoves DEF Registered
  <2> QED BY <1>11, <2>1, <2>2 DEF Registered, LoginTypes, NoCookie
<1>12. ASSUME NEW b \in Browser, Revoke(b) PROVE LoginTypes'
  <2>1. acct' \in Accounts
    BY <1>12 DEF Revoke, LoginTypes
  <2> QED BY <1>12, <2>1 DEF Revoke, LoginTypes
<1>13. ASSUME NEW b \in Browser, BreakOff(b) PROVE LoginTypes'
  <2>1. attempt' \in [Browser -> Attempts]
    BY <1>13, AttemptMoves DEF BreakOff
  <2> QED BY <1>13, <2>1 DEF BreakOff, LoginTypes
<1>14. CASE NextStep
  <2>1. step' \in Nat /\ acct' = acct
    <3>1. step' = step + 1 /\ acct' = acct
      BY <1>14, Zenon DEF NextStep
    <3> QED BY <3>1 DEF LoginTypes
  <2>2. DOMAIN ses' = Browser /\ \A x \in Browser : ses'[x].password \in BOOLEAN
    BY <1>14 DEF NextStep, LoginTypes, NoSes
  <2>3. cookie' \in [Browser -> Nat]
    BY <1>14 DEF NextStep, LoginTypes, NoCookie
  <2>4. offer' \in [Browser -> {NoOffer} \cup [secret : Secret, until : Nat]]
    <3>1. \A b \in Browser : offer'[b] = offer[b] \/ offer'[b] = NoOffer
      BY <1>14 DEF NextStep
    <3>2. offer' = [b \in Browser |-> offer'[b]]
      BY <1>14 DEF NextStep
    <3> HIDE DEF NoOffer
    <3> QED BY <3>1, <3>2 DEF LoginTypes
  <2>5. used' \subseteq Uses
    <3>1. PICK slow \in BOOLEAN : used' = {Aged(use, slow) : use \in used}
      BY <1>14 DEF NextStep, Aged
    <3>2. \A use \in Uses : Aged(use, slow) \in Uses
      BY AgedIs
    <3> QED BY <3>1, <3>2 DEF LoginTypes, Uses
  <2>6. attempt' \in [Browser -> Attempts]
    <3>1. ASSUME NEW b \in Browser PROVE [attempt[b] EXCEPT !.old = TRUE] \in Attempts
      BY AttemptIs DEF Attempts, Quiet
    <3>2. Quiet \in Attempts
      BY DEF Attempts
    <3> QED BY <1>14, <3>1, <3>2 DEF NextStep, LoginTypes
  <2> QED BY <2>1, <2>2, <2>3, <2>4, <2>5, <2>6 DEF LoginTypes, Uses
<1> QED
  BY <1>1, <1>2, <1>3, <1>4, <1>5, <1>6, <1>7, <1>8, <1>9, <1>10, <1>11, <1>12, <1>13, <1>14
  DEF LoginNext, LoginOver

-----------------------------------------------------------------------------
(* The second factor *)

LEMMA FactorsKept ==
    ASSUME LoginTypes, FactorInv, [LoginNext]_loginVars
    PROVE  FactorInv'
<1> DEFINE
      Backed(b) ==
        /\ cookie'[b] <= step' + CookieSteps
        /\ b \notin KeyUsers =>
             /\ "pendingtotp" \in ses'[b].roles => ses'[b].password
             /\ attempt'[b].at \in {"snip", "replay", "accept"} => attempt'[b].password
        /\ ("user" \in ses'[b].roles /\ ses'[b].mfa) =>
             ses'[b].password /\ (ses'[b].otp \in 0..CookieSteps \/ ses'[b].lent)
<1>0. SUFFICES ASSUME NEW x \in Browser PROVE Backed(x)
  BY LoginConstants DEF FactorInv, TwoFactors
<1>a. /\ cookie[x] \in Nat /\ step \in Nat /\ CookieSteps \in Nat
      /\ cookie[x] <= step + CookieSteps
      /\ x \notin KeyUsers =>
           /\ "pendingtotp" \in ses[x].roles => ses[x].password
           /\ attempt[x].at \in {"snip", "replay", "accept"} => attempt[x].password
      /\ ("user" \in ses[x].roles /\ ses[x].mfa) =>
           ses[x].password /\ (ses[x].otp \in 0..CookieSteps \/ ses[x].lent)
  BY LoginConstants DEF LoginTypes, FactorInv, TwoFactors
<1>b. ASSUME step' = step, UNCHANGED <<cookie, ses>>,
             \/ attempt'[x] = attempt[x]
             \/ attempt'[x].at \notin {"snip", "replay", "accept"}
             \/ /\ attempt[x].at \in {"snip", "replay"}
                /\ attempt'[x].password = attempt[x].password
      PROVE  Backed(x)
  BY <1>a, <1>b
<1>c. /\ DOMAIN attempt = Browser /\ DOMAIN ses = Browser /\ DOMAIN cookie = Browser
      /\ Quiet.at = "idle"
      /\ \A b \in Browser : attempt[b].at \in {"snip", "replay"} =>
           \A at : [attempt[b] EXCEPT !.at = at].password = attempt[b].password
  <2>1. ASSUME NEW b \in Browser, attempt[b].at \in {"snip", "replay"}, NEW at
        PROVE  [attempt[b] EXCEPT !.at = at].password = attempt[b].password
    BY <2>1, AttemptIs DEF Attempts
  <2> QED BY <2>1 DEF LoginTypes, Quiet
<1>1. CASE UNCHANGED loginVars
  BY <1>1, <1>b DEF loginVars
<1>2. ASSUME NEW b \in Browser, NEW sent \in Sent, LogInWith(b, sent) PROVE Backed(x)
  <2>1. /\ b \notin KeyUsers /\ UNCHANGED <<step, cookie, attempt>>
        /\ ses' = [ses EXCEPT ![b] = Granted(b, TRUE, FALSE, sent, TRUE,
              IF sent = "cookie" /\ Bypass(b, sent) THEN cookie[b] - CookieSteps ELSE Never)]
    BY <1>2 DEF LogInWith
  <2>2. CASE x # b
    BY <1>a, <1>c, <2>1, <2>2
  <2>3. CASE x = b
    <3>1. PICK otp, g :
             /\ otp = IF sent = "cookie" /\ Bypass(b, sent)
                      THEN cookie[b] - CookieSteps ELSE Never
             /\ g = Granted(b, TRUE, FALSE, sent, TRUE, otp)
      OBVIOUS
    <3>2. ses'[x] = g
      BY <1>c, <2>1, <2>3, <3>1
    <3>3. /\ g.password = TRUE
          /\ g.otp = IF otp = Never THEN Never ELSE step - otp
          /\ "user" \in g.roles /\ g.mfa =>
               (sent = "cookie" /\ Bypass(b, sent)) \/ g.lent
      <4>1. /\ g.password = TRUE
            /\ g.otp = IF otp = Never THEN Never ELSE step - otp
            /\ g.lent = (sent = "session" /\ Bypass(b, sent))
        BY <3>1 DEF Granted
      <4>2. "user" \in g.roles /\ g.mfa => Bypass(b, sent)
        BY <3>1 DEF Granted, RolesFor, Asked
      <4>3. Bypass(b, sent) => sent = "cookie" \/ sent = "session"
        BY DEF Bypass
      <4> QED BY <4>1, <4>2, <4>3
    <3>4. sent = "cookie" /\ Bypass(b, sent) => g.otp \in 0..CookieSteps
      <4>1. ASSUME sent = "cookie", Bypass(b, sent)
            PROVE  otp = cookie[x] - CookieSteps /\ cookie[x] > step
        BY <2>3, <3>1, <4>1 DEF Bypass
      <4> QED BY <1>a, <3>3, <4>1, LoginConstants
    <3> QED BY <1>a, <2>1, <3>2, <3>3, <3>4
  <2> QED BY <2>2, <2>3
<1>3. ASSUME NEW b \in Browser, ChangePassword(b) \/ Revoke(b) \/ BreakOff(b)
                                \/ (\E s \in Secret : Generate(b, s))
      PROVE  Backed(x)
  <2>1. step' = step /\ UNCHANGED <<cookie, ses>> /\ (UNCHANGED attempt \/ Answer(b))
    BY <1>3 DEF ChangePassword, Revoke, BreakOff, Generate
  <2> QED BY <1>b, <1>c, <2>1 DEF Answer
<1>4. ASSUME NEW b \in Browser, MayPresent(b), UNCHANGED <<step, ses, cookie>>,
             NEW new, new.password = Knows(b), attempt' = [attempt EXCEPT ![b] = new]
      PROVE  Backed(x)
  <2>1. CASE x # b
    BY <1>b, <1>c, <1>4, <2>1
  <2>2. CASE x = b
    <3>1. b \notin KeyUsers => ses[b].password
      BY <1>a, <1>4, <2>2 DEF MayPresent, Has
    <3>2. b \notin KeyUsers => Knows(b)
      BY <3>1, Zenon DEF Knows
    <3>3. attempt'[x] = new
      BY <1>c, <1>4, <2>2
    <3>4. b \notin KeyUsers => new.password
      BY <1>4, <3>2, Zenon
    <3> QED BY <1>a, <1>4, <2>2, <3>3, <3>4
  <2> QED BY <2>1, <2>2
<1>5. ASSUME NEW b \in Browser, NEW k, PresentOtp(b, k) PROVE Backed(x)
  <2> DEFINE new == [at |-> "replay", word |-> <<acct.secret, "otp", k>>,
                     password |-> Knows(b), old |-> FALSE]
  <2>1. new.password = Knows(b)
    OBVIOUS
  <2>2. /\ MayPresent(b) /\ UNCHANGED <<step, ses, cookie>>
        /\ attempt' = [attempt EXCEPT ![b] = new]
    BY <1>5 DEF PresentOtp
  <2> HIDE DEF new
  <2> QED BY <1>4, <2>1, <2>2
<1>6. ASSUME NEW b \in Browser, NEW c, PresentCode(b, c) PROVE Backed(x)
  <2> DEFINE new == [at |-> "snip", word |-> c, left |-> acct.codes \ {c},
                     password |-> Knows(b), old |-> FALSE]
  <2>1. new.password = Knows(b)
    OBVIOUS
  <2>2. /\ MayPresent(b) /\ UNCHANGED <<step, ses, cookie>>
        /\ attempt' = [attempt EXCEPT ![b] = new]
    BY <1>6 DEF PresentCode
  <2> HIDE DEF new
  <2> QED BY <1>4, <2>1, <2>2
<1>7. ASSUME NEW b \in Browser, Snip(b) \/ Replay(b) PROVE Backed(x)
  <2>1. /\ attempt[b].at \in {"snip", "replay"} /\ UNCHANGED <<step, ses, cookie>>
        /\ Answer(b) \/ Then(b, "replay") \/ Then(b, "accept")
    BY <1>7 DEF Snip, Replay, Now
  <2>2. CASE x # b
    BY <1>b, <1>c, <2>1, <2>2 DEF Answer, Then
  <2>3. CASE x = b /\ Answer(b)
    BY <1>b, <1>c, <2>1, <2>3 DEF Answer
  <2>4. CASE x = b /\ (Then(b, "replay") \/ Then(b, "accept"))
    <3>1. PICK at : attempt'[x] = [attempt[b] EXCEPT !.at = at]
      BY <1>c, <2>4 DEF Then
    <3>2. attempt[x].at \in {"snip", "replay"} /\ attempt'[x].password = attempt[x].password
      BY <1>c, <2>1, <2>4, <3>1
    <3> QED BY <1>b, <2>1, <3>2
  <2> QED BY <2>1, <2>2, <2>3, <2>4
<1>8. ASSUME NEW b \in Browser, NEW sent \in Sent, Accept(b, sent) PROVE Backed(x)
  <2>1. /\ attempt[b].at = "accept" /\ step' = step /\ Answer(b)
        /\ ses' = [ses EXCEPT ![b] = Granted(b, b \notin KeyUsers, Has(b, "pendingtotp"),
                                             sent, attempt[b].password, step)]
        /\ cookie' = IF CookieSteps = 0 THEN cookie
                     ELSE [cookie EXCEPT ![b] = step + CookieSteps]
    BY <1>8 DEF Accept, Now
  <2>2. CASE x # b
    BY <1>a, <1>c, <2>1, <2>2 DEF Answer
  <2>3. CASE x = b
    <3>1. Has(b, "pendingtotp") \in BOOLEAN /\ (b \notin KeyUsers) \in BOOLEAN
      BY Zenon DEF Has
    <3>2. PICK local \in BOOLEAN, pending \in BOOLEAN :
             /\ local <=> b \notin KeyUsers
             /\ ses' = [ses EXCEPT ![b] =
                          Granted(b, local, pending, sent, attempt[b].password, step)]
      BY <2>1, <3>1
    <3>g. PICK g : g = Granted(b, local, pending, sent, attempt[b].password, step)
      OBVIOUS
    <3>3. ses'[x] = g
      BY <1>c, <2>3, <3>2, <3>g
    <3>4. /\ g.password = attempt[b].password
          /\ g.otp = IF step = Never THEN Never ELSE step - step
          /\ "user" \in g.roles /\ g.mfa => local
      BY <3>g, GrantedIs
    <3>5. g.otp = 0
      BY <1>a, <3>4, LoginConstants
    <3>6. b \notin KeyUsers => g.password
      BY <1>a, <2>1, <2>3, <3>4
    <3>7. attempt'[x].at = "idle"
      BY <1>c, <2>1, <2>3 DEF Answer
    <3>8. cookie'[x] <= step + CookieSteps
      BY <1>a, <1>c, <2>1, <2>3
    <3>9. 0 \in 0..CookieSteps
      BY <1>a
    <3>10. "user" \in g.roles /\ g.mfa => g.password
      BY <3>2, <3>4, <3>6, Zenon
    <3>11. attempt'[x].at \notin {"snip", "replay", "accept"}
      BY <3>7
    <3>12. cookie'[x] <= step' + CookieSteps
      BY <2>1, <3>8
    <3>13. ("user" \in ses'[x].roles /\ ses'[x].mfa) =>
             ses'[x].password /\ (ses'[x].otp \in 0..CookieSteps \/ ses'[x].lent)
      BY <3>3, <3>5, <3>9, <3>10, Zenon
    <3>14. x \notin KeyUsers => ses'[x].password
      BY <2>3, <3>3, <3>6
    <3>15. x \notin KeyUsers =>
             /\ "pendingtotp" \in ses'[x].roles => ses'[x].password
             /\ attempt'[x].at \in {"snip", "replay", "accept"} => attempt'[x].password
      BY <3>11, <3>14
    <3> QED BY <3>12, <3>13, <3>15
  <2> QED BY <2>2, <2>3
<1>9. ASSUME NEW b \in Browser, RegisterTotp(b) PROVE Backed(x)
  <2>1. /\ step' = step /\ UNCHANGED <<ses, cookie>>
        /\ attempt' = [attempt EXCEPT ![b] =
             [at |-> "register", secret |-> offer[b].secret, old |-> FALSE]]
    BY <1>9 DEF RegisterTotp
  <2> QED BY <1>b, <1>c, <2>1
<1>10. ASSUME NEW b \in Browser, Registered(b) PROVE Backed(x)
  <2>1. /\ step' = step /\ UNCHANGED ses /\ Answer(b)
        /\ cookie' = [cookie EXCEPT ![b] = NoCookie]
    BY <1>10 DEF Registered
  <2>2. cookie'[x] <= step + CookieSteps
    BY <1>a, <1>c, <2>1 DEF NoCookie
  <2> QED BY <1>a, <1>c, <2>1, <2>2 DEF Answer
<1>11. CASE NextStep
  <2>1. /\ step' = step + 1
        /\ cookie'[x] = cookie[x] \/ cookie'[x] = 0
        /\ ses'[x] = ses[x] \/ ses'[x] = NoSes
        /\ \/ attempt'[x] = Quiet
           \/ attempt[x].at # "idle" /\ attempt'[x] = [attempt[x] EXCEPT !.old = TRUE]
    <3>1. /\ step' = step + 1
          /\ cookie' = [b \in Browser |-> IF cookie[b] > step' THEN cookie[b] ELSE NoCookie]
          /\ ses' = [b \in Browser |-> IF ses[b].until > step' THEN ses[b] ELSE NoSes]
          /\ attempt' = [b \in Browser |-> IF Now(b, "idle") THEN Quiet
                                           ELSE [attempt[b] EXCEPT !.old = TRUE]]
      BY <1>11, Zenon DEF NextStep
    <3> QED BY <3>1 DEF NoCookie, Now
  <2>2. attempt'[x].at \in {"snip", "replay", "accept"} =>
          /\ attempt[x].at \in {"snip", "replay", "accept"}
          /\ attempt'[x].password = attempt[x].password
    BY <1>c, <2>1, AttemptIs DEF Attempts
  <2>3. "pendingtotp" \notin NoSes.roles /\ "user" \notin NoSes.roles
    BY DEF NoSes
  <2>4. cookie'[x] <= step' + CookieSteps
    BY <1>a, <2>1
  <2> QED BY <1>a, <2>1, <2>2, <2>3, <2>4
<1> QED
  BY <1>1, <1>2, <1>3, <1>5, <1>6, <1>7, <1>8, <1>9, <1>10, <1>11, LoginConstants
  DEF LoginNext, LoginOver

-----------------------------------------------------------------------------
(* No word twice *)

\* What is gone stays so.
LEMMA GoneStays ==
    ASSUME acct.batch \in Nat, acct'.batch \in Nat,
           \/ acct'.batch > acct.batch
           \/ acct'.batch = acct.batch /\ (acct'.sealed => acct.sealed)
    PROVE  \A c : Gone(c) => Gone(c)'
<1>1. ASSUME NEW c, Gone(c) PROVE Gone(c)'
  <2>1. PICK n \in 1..acct.batch : c \in AllCodes(n) /\ (n < acct.batch \/ ~acct.sealed)
    BY <1>1 DEF Gone
  <2>2. n \in 1..acct'.batch /\ (n < acct'.batch \/ ~acct'.sealed)
    BY <2>1
  <2>3. \E m \in 1..acct'.batch : c \in AllCodes(m) /\ (m < acct'.batch \/ ~acct'.sealed)
    BY <2>1, <2>2
  <2> QED BY <2>3 DEF Gone, AllCodes
<1> QED BY <1>1

\* Steps that use no word and begin no request with one.
LEMMA CodesStay ==
    ASSUME LoginTypes, LoginTypes', CodeInv, UNCHANGED used, CodesKnown',
           \/ acct'.batch > acct.batch
           \/ acct'.batch = acct.batch /\ (acct'.sealed => acct.sealed),
           \A x \in Browser : \/ attempt'[x] = attempt[x]
                              \/ attempt'[x].at \notin {"snip", "replay", "accept"}
    PROVE  CodeInv'
<1>1. acct.batch \in Nat /\ acct'.batch \in Nat /\ acct'.batch >= acct.batch
  BY DEF LoginTypes
<1>2. \A c : Gone(c) => Gone(c)'
  BY <1>1, GoneStays
<1>3. \A use \in used' : UseKnown(use)'
  BY <1>2 DEF CodeInv, UseKnown, IsOtp
<1>4. ASSUME NEW x \in Browser PROVE AttemptKnown(x)'
  <2>1. CASE attempt'[x] = attempt[x]
    <3>1. attempt[x].at = "snip" => \E n \in 1..acct'.batch : attempt[x].word \in AllCodes(n)
      BY <1>1 DEF CodeInv, AttemptKnown
    <3> QED BY <1>2, <2>1, <3>1 DEF CodeInv, AttemptKnown, IsOtp, AllCodes
  <2>2. CASE attempt'[x].at \notin {"snip", "replay", "accept"}
    BY <2>2 DEF AttemptKnown
  <2> QED BY <2>1, <2>2
<1>5. ASSUME NEW x \in Browser, NEW use \in used' PROVE Fresh(x, use)'
  BY <1>5 DEF CodeInv, Fresh, IsOtp
<1> QED BY <1>3, <1>4, <1>5 DEF CodeInv

\* A code presented now was never used: it opens, and what was used does not.
LEMMA OpensUnused ==
    ASSUME LoginTypes, CodeInv, NEW n \in Nat, NEW c \in AllCodes(n), Opens(c)
    PROVE  /\ acct.batch \in Nat /\ acct.batch > 0 /\ c \in AllCodes(acct.batch)
           /\ \A use \in used : use.word # c
<1>1. acct.batch \in Nat /\ acct.batch > 0 /\ c \in AllCodes(acct.batch) /\ acct.sealed
  BY DEF CodeInv, CodesKnown, Opens, LoginTypes
<1>2. ~IsOtp(c) /\ \A m \in Nat : c \in AllCodes(m) => m = acct.batch
  BY <1>1, CodesOfBatch
<1>3. ~Gone(c)
  BY <1>1, <1>2 DEF Gone
<1> QED BY <1>1, <1>2, <1>3 DEF CodeInv, UseKnown

LEMMA CodesKept ==
    ASSUME LoginTypes, LoginTypes', CodeInv, [LoginNext]_loginVars
    PROVE  CodeInv'
<1>0. DOMAIN attempt = Browser /\ acct.batch \in Nat /\ Quiet.at = "idle"
  BY DEF LoginTypes, Quiet
<1>a. ASSUME NEW b \in Browser, UNCHANGED <<used, acct>>,
             UNCHANGED attempt \/ Answer(b)
      PROVE  CodeInv'
  <2>1. CodesKnown'
    BY <1>a DEF CodeInv, CodesKnown, AllCodes
  <2>2. \A x \in Browser : \/ attempt'[x] = attempt[x]
                           \/ attempt'[x].at \notin {"snip", "replay", "accept"}
    BY <1>0, <1>a DEF Answer
  <2> QED BY <1>0, <1>a, <2>1, <2>2, CodesStay
<1>1. CASE UNCHANGED loginVars
  BY <1>1 DEF loginVars, CodeInv, CodesKnown, UseKnown, AttemptKnown, Fresh, Gone, IsOtp, AllCodes
<1>2. ASSUME NEW b \in Browser,
             \/ (\E sent \in Sent : LogInWith(b, sent) \/ Accept(b, sent)) \/ BreakOff(b)
             \/ \E s \in Secret : Generate(b, s)
      PROVE  CodeInv'
  BY <1>2, <1>a DEF LogInWith, Accept, BreakOff, Generate
<1>3. ASSUME NEW b \in Browser, ChangePassword(b) \/ Revoke(b) PROVE CodeInv'
  <2>1. /\ UNCHANGED <<used, attempt>> /\ acct'.batch = acct.batch
        /\ acct'.sealed = acct.sealed /\ acct'.codes = acct.codes
    BY <1>3 DEF ChangePassword, Revoke, LoginTypes
  <2>2. CodesKnown'
    BY <2>1 DEF CodeInv, CodesKnown, AllCodes
  <2> QED BY <2>1, <2>2, CodesStay
<1>4. ASSUME NEW b \in Browser, RegisterTotp(b) PROVE CodeInv'
  <2>1. /\ UNCHANGED <<used, acct>>
        /\ attempt' = [attempt EXCEPT ![b] =
             [at |-> "register", secret |-> offer[b].secret, old |-> FALSE]]
    BY <1>4 DEF RegisterTotp
  <2>2. CodesKnown'
    BY <2>1 DEF CodeInv, CodesKnown, AllCodes
  <2>3. \A x \in Browser : \/ attempt'[x] = attempt[x]
                           \/ attempt'[x].at \notin {"snip", "replay", "accept"}
    BY <1>0, <2>1
  <2> QED BY <1>0, <2>1, <2>2, <2>3, CodesStay
<1>5. ASSUME NEW b \in Browser, Registered(b) PROVE CodeInv'
  <2>1. /\ UNCHANGED used /\ Answer(b)
        /\ acct'.batch = acct.batch + 1 /\ acct'.codes = AllCodes(acct.batch + 1)
    BY <1>5 DEF Registered, LoginTypes
  <2>2. CodesKnown'
    BY <1>0, <2>1 DEF CodesKnown, AllCodes
  <2>3. \A x \in Browser : \/ attempt'[x] = attempt[x]
                           \/ attempt'[x].at \notin {"snip", "replay", "accept"}
    BY <1>0, <2>1 DEF Answer
  <2> QED BY <1>0, <2>1, <2>2, <2>3, CodesStay
<1>6. ASSUME NEW b \in Browser, NEW k, PresentOtp(b, k) PROVE CodeInv'
  <2> DEFINE new == [at |-> "replay", word |-> <<acct.secret, "otp", k>>,
                     password |-> Knows(b), old |-> FALSE]
  <2>1. UNCHANGED <<used, acct>> /\ attempt' = [attempt EXCEPT ![b] = new]
    BY <1>6 DEF PresentOtp
  <2>2. new.at = "replay" /\ IsOtp(new.word)
    BY DEF IsOtp
  <2> HIDE DEF new
  <2>3. /\ attempt'[b] = new
        /\ \A x \in Browser \ {b} : attempt'[x] = attempt[x]
    BY <1>0, <2>1
  <2>4. CodesKnown' /\ \A use \in used' : UseKnown(use)'
    BY <2>1 DEF CodeInv, CodesKnown, UseKnown, Gone, AllCodes, IsOtp
  <2>5. ASSUME NEW x \in Browser PROVE AttemptKnown(x)'
    BY <2>1, <2>2, <2>3 DEF CodeInv, AttemptKnown, Gone, AllCodes, IsOtp
  <2>6. ASSUME NEW x \in Browser, NEW use \in used' PROVE Fresh(x, use)'
    BY <2>1, <2>2, <2>3 DEF CodeInv, Fresh, IsOtp
  <2> QED BY <2>4, <2>5, <2>6 DEF CodeInv
<1>7. ASSUME NEW b \in Browser, NEW n \in 1..MaxBatches, NEW c \in AllCodes(n),
             PresentCode(b, c)
      PROVE  CodeInv'
  <2> DEFINE new == [at |-> "snip", word |-> c, left |-> acct.codes \ {c},
                     password |-> Knows(b), old |-> FALSE]
  <2>1. UNCHANGED <<used, acct>> /\ attempt' = [attempt EXCEPT ![b] = new] /\ Opens(c)
    BY <1>7 DEF PresentCode
  <2>2. new.at = "snip" /\ new.word = c
    OBVIOUS
  <2> HIDE DEF new
  <2>3. /\ attempt'[b] = new
        /\ \A x \in Browser \ {b} : attempt'[x] = attempt[x]
    BY <1>0, <2>1
  <2>4. CodesKnown' /\ \A use \in used' : UseKnown(use)'
    BY <2>1 DEF CodeInv, CodesKnown, UseKnown, Gone, AllCodes, IsOtp
  <2>5. /\ \E m \in 1..acct.batch : c \in AllCodes(m)
        /\ \A use \in used : use.word # c
    <3>1. n \in Nat
      BY LoginConstants
    <3>2. /\ acct.batch > 0 /\ c \in AllCodes(acct.batch)
          /\ \A use \in used : use.word # c
      BY <2>1, <3>1, OpensUnused
    <3> QED BY <1>0, <3>2
  <2>6. ASSUME NEW x \in Browser PROVE AttemptKnown(x)'
    BY <2>1, <2>2, <2>3, <2>5 DEF CodeInv, AttemptKnown, Gone, AllCodes, IsOtp
  <2>7. ASSUME NEW x \in Browser, NEW use \in used' PROVE Fresh(x, use)'
    BY <2>1, <2>2, <2>3, <2>5 DEF CodeInv, Fresh, IsOtp
  <2> QED BY <2>4, <2>6, <2>7 DEF CodeInv
<1>8. ASSUME NEW b \in Browser, Snip(b) PROVE CodeInv'
  <2>1. /\ UNCHANGED used /\ attempt[b].at = "snip"
        /\ acct'.batch = acct.batch /\ acct'.sealed = FALSE
    BY <1>8 DEF Snip, Now, LoginTypes
  <2>2. /\ attempt'[b].at = "replay" /\ attempt'[b].word = attempt[b].word
        /\ attempt'[b].old = attempt[b].old
        /\ \A x \in Browser \ {b} : attempt'[x] = attempt[x]
    <3>1. attempt' = [attempt EXCEPT ![b].at = "replay"]
      BY <1>8 DEF Snip, Then
    <3>2. attempt'[b] = [attempt[b] EXCEPT !.at = "replay"]
      BY <1>0, <3>1
    <3> QED BY <1>0, <2>1, <3>1, <3>2, AttemptIs
  <2>3. PICK n \in 1..acct.batch : attempt[b].word \in AllCodes(n)
    BY <2>1 DEF CodeInv, AttemptKnown
  <2>4. CodesKnown'
    BY <1>0, <2>1, <2>3 DEF CodesKnown
  <2>5. \A c : Gone(c) => Gone(c)'
    BY <1>0, <2>1, GoneStays
  <2>6. \A use \in used' : UseKnown(use)'
    BY <2>1, <2>5 DEF CodeInv, UseKnown, IsOtp
  <2>7. ASSUME NEW x \in Browser PROVE AttemptKnown(x)'
    <3>1. CASE x = b
      BY <2>1, <2>2, <2>3, <3>1 DEF AttemptKnown, Gone, AllCodes
    <3>2. CASE x # b
      BY <2>1, <2>2, <2>5, <3>2 DEF CodeInv, AttemptKnown, IsOtp, AllCodes
    <3> QED BY <3>1, <3>2
  <2>8. ASSUME NEW x \in Browser, NEW use \in used' PROVE Fresh(x, use)'
    BY <2>1, <2>2 DEF CodeInv, Fresh, IsOtp
  <2> QED BY <2>4, <2>6, <2>7, <2>8 DEF CodeInv
<1>9. ASSUME NEW b \in Browser, Replay(b) PROVE CodeInv'
  <2>1. CASE Answer(b) /\ UNCHANGED used
    BY <1>9, <1>a, <2>1 DEF Replay
  <2>2. CASE ~(Answer(b) /\ UNCHANGED used)
    <3> DEFINE now == [path |-> Path(b), word |-> attempt[b].word, ago |-> 0, kept |-> TRUE]
    <3>1. /\ attempt[b].at = "replay" /\ acct' = acct
          /\ used' \subseteq used \cup {now}
          /\ attempt' = [attempt EXCEPT ![b].at = "accept"]
      BY <1>9, <2>2 DEF Replay, Now, Then
    <3>2. now.word = attempt[b].word /\ now.ago = 0 /\ now.kept
      OBVIOUS
    <3> HIDE DEF now
    <3>3. /\ attempt'[b].at = "accept" /\ attempt'[b].word = attempt[b].word
          /\ \A x \in Browser \ {b} : attempt'[x] = attempt[x]
      <4>1. attempt'[b] = [attempt[b] EXCEPT !.at = "accept"]
        BY <1>0, <3>1
      <4> QED BY <1>0, <3>1, <4>1, AttemptIs DEF Attempts
    <3>4. IsOtp(attempt[b].word) \/ Gone(attempt[b].word)
      BY <3>1 DEF CodeInv, AttemptKnown
    <3>5. CodesKnown'
      BY <3>1 DEF CodeInv, CodesKnown, AllCodes
    <3>6. ASSUME NEW use \in used' PROVE UseKnown(use)'
      <4>1. UseKnown(use)
        BY <3>1, <3>2, <3>4, LoginConstants DEF CodeInv, UseKnown
      <4> QED BY <3>1, <4>1 DEF UseKnown, Gone, AllCodes, IsOtp
    <3>7. ASSUME NEW x \in Browser PROVE AttemptKnown(x)'
      BY <3>1, <3>3, <3>4 DEF CodeInv, AttemptKnown, Gone, AllCodes, IsOtp
    <3>8. ASSUME NEW x \in Browser, NEW use \in used' PROVE Fresh(x, use)'
      <4>1. CASE x = b
        BY <3>3, <4>1 DEF Fresh
      <4>2. CASE x # b
        BY <3>1, <3>2, <3>3, <4>2 DEF CodeInv, Fresh, IsOtp
      <4> QED BY <4>1, <4>2
    <3> QED BY <3>5, <3>6, <3>7, <3>8 DEF CodeInv
  <2> QED BY <2>1, <2>2
<1>10. CASE NextStep
  <2>1. /\ acct' = acct
        /\ \A b \in Browser : ~Now(b, "idle") => ~attempt[b].old
        /\ attempt' = [b \in Browser |-> IF Now(b, "idle") THEN Quiet
                                         ELSE [attempt[b] EXCEPT !.old = TRUE]]
    BY <1>10, Zenon DEF NextStep
  <2>2. PICK slow \in BOOLEAN : used' = {Aged(use, slow) : use \in used}
    BY <1>10 DEF NextStep, Aged
  <2>3. ASSUME NEW x \in Browser, attempt'[x].at \in {"snip", "replay", "accept"}
        PROVE  /\ attempt'[x].at = attempt[x].at /\ attempt'[x].word = attempt[x].word
               /\ attempt'[x].old /\ ~attempt[x].old
    <3>1. attempt[x].at # "idle" /\ attempt'[x] = [attempt[x] EXCEPT !.old = TRUE]
      BY <1>0, <2>1, <2>3 DEF Now
    <3>2. ~attempt[x].old
      BY <2>1, <3>1 DEF Now
    <3> QED BY <2>3, <3>1, <3>2, AttemptIs DEF Attempts
  <2>4. CodesKnown'
    BY <2>1 DEF CodeInv, CodesKnown, AllCodes
  <2>5. ASSUME NEW u \in used'
        PROVE  \E use \in used :
                 /\ u.word = use.word /\ use.ago \in Nat
                 /\ u.ago = IF use.ago < ReplaySteps THEN use.ago + 1 ELSE use.ago
                 /\ u.kept <=> use.kept /\ (use.ago + 1 < ReplaySteps
                                            \/ (slow /\ use.ago < ReplaySteps))
    <3>1. PICK use \in used : u = Aged(use, slow)
      BY <2>2
    <3>2. use \in Uses /\ use.ago \in Nat
      BY DEF LoginTypes, Uses
    <3> QED BY <3>1, <3>2, AgedIs, Zenon
  <2>6. ASSUME NEW u \in used' PROVE UseKnown(u)'
    <3>1. PICK use \in used :
                 /\ u.word = use.word /\ use.ago \in Nat
                 /\ u.ago = IF use.ago < ReplaySteps THEN use.ago + 1 ELSE use.ago
                 /\ u.kept <=> use.kept /\ (use.ago + 1 < ReplaySteps
                                            \/ (slow /\ use.ago < ReplaySteps))
      BY <2>5
    <3>2. /\ IsOtp(use.word) \/ Gone(use.word)
          /\ use.ago <= ReplaySteps /\ (~use.kept => use.ago = ReplaySteps)
      BY DEF CodeInv, UseKnown
    <3>3. u.ago <= ReplaySteps /\ (~u.kept => u.ago = ReplaySteps)
      BY <3>1, <3>2, LoginConstants
    <3> QED BY <2>1, <3>1, <3>2, <3>3 DEF UseKnown, Gone, AllCodes, IsOtp
  <2>7. ASSUME NEW x \in Browser PROVE AttemptKnown(x)'
    BY <2>1, <2>3 DEF CodeInv, AttemptKnown, Gone, AllCodes, IsOtp
  <2>8. ASSUME NEW x \in Browser, NEW u \in used' PROVE Fresh(x, u)'
    <3>1. PICK use \in used :
                 /\ u.word = use.word /\ use.ago \in Nat
                 /\ u.ago = IF use.ago < ReplaySteps THEN use.ago + 1 ELSE use.ago
      BY <2>5
    <3>2. CASE attempt'[x].at \in {"snip", "replay"}
      <4>1. Fresh(x, use)
        BY DEF CodeInv
      <4> QED BY <2>3, <3>1, <3>2, <4>1, LoginConstants DEF Fresh, IsOtp
    <3>3. CASE attempt'[x].at \notin {"snip", "replay"}
      BY <3>3 DEF Fresh
    <3> QED BY <3>2, <3>3
  <2> QED BY <2>4, <2>6, <2>7, <2>8 DEF CodeInv
<1> QED
  BY <1>1, <1>2, <1>3, <1>4, <1>5, <1>6, <1>7, <1>8, <1>9, <1>10
  DEF LoginNext, LoginOver

LEMMA LoginStep == LoginInv /\ [LoginNext]_loginVars => LoginInv'
  BY LoginTypesKept, FactorsKept, CodesKept DEF LoginInv

\* A user's session that was granted with TOTP on rests on a right password and
\* on a one-time password of the same browser, as old as the cookie may be, or on
\* another live session of the user, whose id totp_bypass takes for a cookie.
THEOREM SecondFactorStands == LoginSpec => []TwoFactors
<1>1. LoginInv => TwoFactors
  BY DEF LoginInv, FactorInv
<1> QED BY LoginInitial, LoginStep, <1>1, PTL DEF LoginSpec

\* Who is accepted: the step is its Replay, and no use of its word blocks it.
LEMMA AcceptedUnblocked ==
    ASSUME LoginInv, LoginNext, NEW b \in Browser,
           Now(b, "replay"), attempt'[b].at = "accept"
    PROVE  ~Replayed(b)
<1>1. DOMAIN attempt = Browser /\ Quiet.at = "idle" /\ attempt[b].at = "replay"
  BY DEF LoginInv, LoginTypes, Quiet, Now
<1>2. SUFFICES ASSUME Replayed(b) PROVE FALSE
  OBVIOUS
<1>3. ASSUME NEW x \in Browser, UNCHANGED attempt \/ Answer(x) PROVE FALSE
  BY <1>1, <1>3 DEF Answer
<1>4. ASSUME NEW x \in Browser, NEW new, new.at # "accept",
             attempt' = [attempt EXCEPT ![x] = new]
      PROVE  FALSE
  BY <1>1, <1>4
<1>5. ASSUME NEW x \in Browser, NEW k, PresentOtp(x, k) PROVE FALSE
  BY <1>4, <1>5 DEF PresentOtp
<1>6. ASSUME NEW x \in Browser, NEW c, PresentCode(x, c) PROVE FALSE
  BY <1>4, <1>6 DEF PresentCode
<1>7. ASSUME NEW x \in Browser, RegisterTotp(x) PROVE FALSE
  BY <1>4, <1>7 DEF RegisterTotp
<1>8. ASSUME NEW x \in Browser, Snip(x) PROVE FALSE
  <2>1. x # b /\ attempt' = [attempt EXCEPT ![x].at = "replay"]
    BY <1>1, <1>8 DEF Snip, Then, Now
  <2> QED BY <1>1, <2>1
<1>9. ASSUME NEW x \in Browser, Replay(x) PROVE FALSE
  <2>1. CASE x = b
    BY <1>2, <1>3, <1>9, <2>1 DEF Replay
  <2>2. CASE x # b
    BY <1>1, <1>9, <2>2 DEF Replay, Answer, Then
  <2> QED BY <2>1, <2>2
<1>10. ~NextStep
  <2>1. ASSUME NextStep PROVE FALSE
    <3>1. attempt' = [y \in Browser |-> IF Now(y, "idle") THEN Quiet
                                        ELSE [attempt[y] EXCEPT !.old = TRUE]]
      BY <2>1, Zenon DEF NextStep
    <3>2. attempt'[b] = [attempt[b] EXCEPT !.old = TRUE]
      BY <1>1, <3>1 DEF Now
    <3> QED BY <1>1, <3>2, AttemptIs DEF LoginInv, Attempts
  <2> QED BY <2>1
<1>11. CASE LoginOver
  BY <1>1, <1>11 DEF LoginOver, loginVars
<1>12. ASSUME NEW x \in Browser,
              \/ \E sent \in Sent : LogInWith(x, sent) \/ Accept(x, sent)
              \/ ChangePassword(x)
              \/ Registered(x) \/ Revoke(x) \/ BreakOff(x)
              \/ \E s \in Secret : Generate(x, s)
       PROVE  FALSE
  BY <1>3, <1>12 DEF LogInWith, ChangePassword, Accept, Registered, Revoke, BreakOff, Generate
<1> QED BY <1>5, <1>6, <1>7, <1>8, <1>9, <1>10, <1>11, <1>12 DEF LoginNext

\* A word is accepted again on its path when its key has expired and never before,
\* and a backup code not even then.
THEOREM ReplaysAreBlocked == LoginSpec => ReplayBlocked
<1> DEFINE Blocked == \A b \in Browser : (Now(b, "replay") /\ attempt'[b].at = "accept") =>
          \A use \in SameWord(b) : use.word[2] = "otp" /\ use.ago = ReplaySteps
<1>1. ASSUME LoginInv, [LoginNext]_loginVars PROVE [Blocked]_loginVars
  <2>1. ASSUME LoginNext, NEW b \in Browser, Now(b, "replay"), attempt'[b].at = "accept",
               NEW use \in SameWord(b)
        PROVE  use.word[2] = "otp" /\ use.ago = ReplaySteps
    <3>1. ~use.kept /\ use \in used /\ use.word = attempt[b].word
      BY <1>1, <2>1, AcceptedUnblocked DEF Replayed, SameWord
    <3>2. use.ago = ReplaySteps
      BY <1>1, <3>1 DEF LoginInv, CodeInv, UseKnown
    <3>3. Fresh(b, use)
      BY <1>1, <3>1 DEF LoginInv, CodeInv
    <3>4. IsOtp(use.word)
      BY <2>1, <3>1, <3>2, <3>3, LoginConstants DEF Fresh, Now, IsOtp
    <3> QED BY <3>2, <3>4 DEF IsOtp
  <2> QED BY <1>1, <2>1
<1> QED BY LoginInitial, LoginStep, <1>1, PTL DEF LoginSpec, ReplayBlocked
=============================================================================
