---------------------------- MODULE SessionProofs ----------------------------
(***************************************************************************)
(* Sessions are restored only as they were issued, and a logout is final   *)
(* but for the race that LogoutHolds names: for every number of users,     *)
(* tokens and requests, every way suffixes collide and all lifetimes.      *)
(***************************************************************************)
EXTENDS Session, TLAPS

\* A session as the login of t to id made it, but for roles granted since.
OwnLogin(id, t, data) ==
    /\ data.jti = t
    /\ issued[t] = [sub |-> id, exp |-> data.exp] /\ issued[t] # NoLogin
    /\ data.auth \subseteq LoginRoles \cup granted[id]

StoreInv ==
    \A id \in Id, t \in Token : Found(id, t) => OwnLogin(id, t, Data(id, t))

\* What a request will write back, or has been admitted for.
Holding == {"admitted", "merge", "write"}
Rightful(p) ==
    /\ req[p] \in Request
    /\ OwnLogin(req[p].id, req[p].jti, req[p].data)
    /\ req[p].at <= req[p].data.exp
RequestInv ==
    \A p \in Proc : req[p].step \in Holding => Rightful(p)

\* Nothing is left that could bring a session back after a logout that was executed.
OutInv ==
    \A t \in out \ (raced \cup lost) :
        /\ issued[t] # NoLogin
        /\ ~Found(issued[t].sub, t)
        /\ \A p \in Proc : ~(At(p, "write") /\ req[p].jti = t)

SessionInv == SessionTypeOK /\ StoreInv /\ RequestInv /\ OutInv

\* What every step does to the history: a login stays, roles are added.
Grows ==
    /\ \A t \in Token : issued[t] # NoLogin => issued'[t] = issued[t]
    /\ \A id \in Id : granted[id] \subseteq granted'[id]

\* What a step does to the store when it adds nothing to it.
Shrinks ==
    \A id \in Id, t \in Token :
        Found(id, t)' => Found(id, t) /\ Data(id, t)' = Data(id, t)

LEMMA Constants ==
    /\ RedisTtl \in Nat /\ RedisTtl > 0 /\ MaxTtl \in Nat /\ MaxTime \in Nat
    /\ LoginRoles \subseteq Roles /\ Durations \subseteq 1..MaxTtl
    /\ SuffixOf \in [Token -> Suffix]
  BY SessionAssumption, LoginAssumption DEF SessionAssumption, LoginAssumption

LEMMA KeyFacts ==
    ASSUME NEW id \in Id, NEW t \in Token
    PROVE  /\ KeyOf(id, t) \in Key
           /\ \A i \in Id, x \in Token : KeyOf(i, x) = KeyOf(id, t) => i = id
  BY DEF KeyOf, Key, Suffix

-----------------------------------------------------------------------------
(* The commands of the store *)

LEMMA FoundValue ==
    ASSUME SessionTypeOK, NEW id \in Id, NEW t \in Token, Found(id, t)
    PROVE  Data(id, t) \in Value /\ Data(id, t).jti = t
<1>1. redis[KeyOf(id, t)] \in Entry \cup {NoSession}
  BY KeyFacts DEF SessionTypeOK, StoreTypeOK
<1> QED BY <1>1 DEF Found, Data, Entry

\* SET puts one value under one key.
LEMMA PutStores ==
    ASSUME SessionTypeOK, NEW id \in Id, NEW t \in Token, NEW data \in Value,
           data.jti = t, NEW ttl \in 1..(MaxTtl + RedisTtl), Put(id, t, data, ttl)
    PROVE  /\ redis' \in [Key -> Entry \cup {NoSession}]
           /\ \A i \in Id, x \in Token : Found(i, x)' =>
                 \/ i = id /\ x = t /\ Data(i, x)' = data
                 \/ Found(i, x) /\ Data(i, x)' = Data(i, x)
<1> DEFINE e == [data |-> data, until |-> now + ttl]
<1>1. e \in Entry
  BY Constants DEF Entry, SessionTypeOK, StoreTypeOK
<1>2. redis \in [Key -> Entry \cup {NoSession}] /\ redis' = [redis EXCEPT ![KeyOf(id, t)] = e]
  BY DEF SessionTypeOK, StoreTypeOK, Put
<1>3. redis' \in [Key -> Entry \cup {NoSession}]
  BY <1>1, <1>2
<1>4. ASSUME NEW i \in Id, NEW x \in Token, Found(i, x)'
      PROVE  \/ i = id /\ x = t /\ Data(i, x)' = data
             \/ Found(i, x) /\ Data(i, x)' = Data(i, x)
  <2>1. KeyOf(i, x) \in Key
    BY KeyFacts
  <2>2. CASE KeyOf(i, x) = KeyOf(id, t)
    <3>1. redis'[KeyOf(i, x)] = e
      BY <1>2, <2>1, <2>2
    <3>2. x = t /\ Data(i, x)' = data
      BY <3>1, <1>4 DEF Found, Data, KeyOf
    <3> QED BY <3>2, <2>2, KeyFacts
  <2>3. CASE KeyOf(i, x) # KeyOf(id, t)
    <3>1. redis'[KeyOf(i, x)] = redis[KeyOf(i, x)]
      BY <1>2, <2>1, <2>3
    <3> QED BY <3>1, <1>4 DEF Found, Data, KeyOf
  <2> QED BY <2>2, <2>3
<1> QED BY <1>3, <1>4

LEMMA DeleteShrinks ==
    ASSUME SessionTypeOK, NEW id \in Id, NEW t \in Token, Delete(id, t)
    PROVE  /\ redis' \in [Key -> Entry \cup {NoSession}]
           /\ Shrinks
           /\ ~Found(id, t)'
<1>1. /\ redis \in [Key -> Entry \cup {NoSession}]
      /\ redis' = [redis EXCEPT ![KeyOf(id, t)] = NoSession]
      /\ KeyOf(id, t) \in Key
  BY KeyFacts DEF SessionTypeOK, StoreTypeOK, Delete
<1>2. ASSUME NEW i \in Id, NEW x \in Token, Found(i, x)'
      PROVE  Found(i, x) /\ Data(i, x)' = Data(i, x)
  <2>1. KeyOf(i, x) \in Key
    BY KeyFacts
  <2>2. redis'[KeyOf(i, x)] = redis[KeyOf(i, x)]
    BY <1>1, <1>2, <2>1 DEF Found, KeyOf
  <2> QED BY <1>2, <2>2 DEF Found, Data, KeyOf
<1>3. ~Found(id, t)'
  BY <1>1 DEF Found, KeyOf
<1> QED BY <1>1, <1>2, <1>3 DEF Shrinks

LEMMA TickShrinks ==
    ASSUME SessionTypeOK, Tick
    PROVE  StoreTypeOK' /\ Shrinks
<1>1. /\ redis \in [Key -> Entry \cup {NoSession}]
      /\ redis' = [k \in Key |-> IF redis[k] # NoSession /\ redis[k].until > now'
                                 THEN redis[k] ELSE NoSession]
  BY DEF SessionTypeOK, StoreTypeOK, Tick
<1>2. now' \in 0..MaxTime
  BY Constants DEF SessionTypeOK, StoreTypeOK, Tick
<1>3. \A k \in Key : redis'[k] = redis[k] \/ redis'[k] = NoSession
  BY <1>1
<1>4. redis' \in [Key -> Entry \cup {NoSession}]
  BY <1>1
<1>5. ASSUME NEW i \in Id, NEW x \in Token, Found(i, x)'
      PROVE  Found(i, x) /\ Data(i, x)' = Data(i, x)
  <2>1. KeyOf(i, x) \in Key
    BY KeyFacts
  <2>2. redis'[KeyOf(i, x)] = redis[KeyOf(i, x)]
    BY <1>3, <1>5, <2>1 DEF Found, KeyOf
  <2> QED BY <1>5, <2>2 DEF Found, Data, KeyOf
<1> QED BY <1>2, <1>4, <1>5 DEF StoreTypeOK, Shrinks

-----------------------------------------------------------------------------
(* What is kept while the history grows *)

LEMMA OwnLoginKept ==
    ASSUME Grows, NEW id \in Id, NEW t \in Token, NEW data, OwnLogin(id, t, data)
    PROVE  OwnLogin(id, t, data)'
  BY DEF OwnLogin, Grows

\* A step that adds one own session to the store, or nothing.
LEMMA StoreKept ==
    ASSUME SessionInv, Grows,
           NEW id \in Id, NEW t \in Token, NEW data, OwnLogin(id, t, data)',
           \A i \in Id, x \in Token : Found(i, x)' =>
              \/ i = id /\ x = t /\ Data(i, x)' = data
              \/ Found(i, x) /\ Data(i, x)' = Data(i, x)
    PROVE  StoreInv'
<1>1. ASSUME NEW i \in Id, NEW x \in Token, Found(i, x)'
      PROVE  OwnLogin(i, x, Data(i, x))'
  <2>1. CASE i = id /\ x = t /\ Data(i, x)' = data
    BY <2>1 DEF OwnLogin
  <2>2. CASE Found(i, x) /\ Data(i, x)' = Data(i, x)
    <3>1. OwnLogin(i, x, Data(i, x))
      BY <2>2 DEF SessionInv, StoreInv
    <3>2. OwnLogin(i, x, Data(i, x))' <=> /\ Data(i, x)'.jti = x
                                           /\ issued'[x] = [sub |-> i, exp |-> Data(i, x)'.exp]
                                           /\ issued'[x] # NoLogin
                                           /\ Data(i, x)'.auth \subseteq LoginRoles \cup granted'[i]
      BY DEF OwnLogin
    <3> QED BY <3>1, <3>2, <2>2 DEF OwnLogin, Grows
  <2> QED BY <1>1, <2>1, <2>2
<1> QED BY <1>1 DEF StoreInv

LEMMA StoreShrinks ==
    ASSUME SessionInv, Grows, Shrinks
    PROVE  StoreInv'
<1>1. ASSUME NEW i \in Id, NEW x \in Token, Found(i, x)'
      PROVE  OwnLogin(i, x, Data(i, x))'
  <2>1. /\ OwnLogin(i, x, Data(i, x))
        /\ Data(i, x)' = Data(i, x)
    BY <1>1 DEF SessionInv, StoreInv, Shrinks
  <2>2. OwnLogin(i, x, Data(i, x))' <=> /\ Data(i, x)'.jti = x
                                         /\ issued'[x] = [sub |-> i, exp |-> Data(i, x)'.exp]
                                         /\ issued'[x] # NoLogin
                                         /\ Data(i, x)'.auth \subseteq LoginRoles \cup granted'[i]
    BY DEF OwnLogin
  <2> QED BY <2>1, <2>2 DEF OwnLogin, Grows
<1> QED BY <1>1 DEF StoreInv

\* A step that moves the request of p, or none.
LEMMA RequestsKept ==
    ASSUME SessionInv, Grows, NEW p \in Proc,
           \A q \in Proc \ {p} : req'[q] = req[q],
           req'[p] = req[p] \/ req'[p].step \notin Holding \/ Rightful(p)'
    PROVE  RequestInv'
<1>1. ASSUME NEW q \in Proc, req'[q].step \in Holding, req'[q] = req[q]
      PROVE  Rightful(q)'
  <2>1. Rightful(q)
    BY <1>1 DEF SessionInv, RequestInv
  <2>2. req[q].id \in Id /\ req[q].jti \in Token
    BY <2>1 DEF Rightful, Request
  <2>3. OwnLogin(req[q].id, req[q].jti, req[q].data)'
    BY <2>1, <2>2, <1>1 DEF Rightful, OwnLogin, Grows
  <2> QED BY <2>1, <2>3, <1>1 DEF Rightful
<1> QED BY <1>1 DEF RequestInv

\* A step that lets no request write back and nothing into the store.
LEMMA OutKept ==
    ASSUME SessionInv, Grows, Shrinks, out' = out, raced' = raced, lost' = lost,
           \A q \in Proc : At(q, "write")' => req'[q] = req[q]
    PROVE  OutInv'
<1>1. ASSUME NEW t \in out \ (raced \cup lost)
      PROVE  /\ issued'[t] # NoLogin
             /\ ~Found(issued[t].sub, t)'
             /\ issued'[t] = issued[t]
             /\ \A q \in Proc : ~(At(q, "write")' /\ req'[q].jti = t)
  <2>1. /\ t \in Token
        /\ issued[t] # NoLogin
        /\ ~Found(issued[t].sub, t)
        /\ \A q \in Proc : ~(At(q, "write") /\ req[q].jti = t)
    BY DEF SessionInv, OutInv, SessionTypeOK
  <2>2. PICK id \in Id : id = issued[t].sub /\ id = issued'[t].sub
    BY <2>1 DEF SessionInv, SessionTypeOK, Login, Grows
  <2>3. ~Found(issued[t].sub, t)'
    <3>1. ~Found(id, t)'
      BY <2>1, <2>2 DEF Shrinks
    <3> QED BY <3>1, <2>2 DEF Found, KeyOf
  <2>4. \A q \in Proc : ~(At(q, "write")' /\ req'[q].jti = t)
    BY <2>1 DEF At
  <2> QED BY <2>1, <2>3, <2>4 DEF Grows
<1> QED BY <1>1 DEF OutInv, Found, KeyOf

-----------------------------------------------------------------------------
LEMMA InitInv == SessionInit => SessionInv
<1> SUFFICES ASSUME SessionInit PROVE SessionInv
  OBVIOUS
<1>1. SessionTypeOK
  BY Constants DEF SessionInit, StoreInit, SessionTypeOK, StoreTypeOK
<1>2. \A id \in Id, t \in Token : ~Found(id, t)
  BY KeyFacts DEF SessionInit, StoreInit, Found
<1>3. RequestInv
  BY DEF SessionInit, RequestInv, Idle, Holding
<1> QED BY <1>1, <1>2, <1>3 DEF SessionInit, SessionInv, StoreInv, OutInv

LEMMA LogInInv ==
    ASSUME SessionInv, NEW id \in Id, NEW t \in Token, NEW ttl \in Durations,
           LogIn(id, t, ttl)
    PROVE  SessionInv'
<1> DEFINE data == [jti |-> t, auth |-> LoginRoles, exp |-> now + ttl]
<1>1. /\ SessionTypeOK /\ RequestInv /\ OutInv /\ StoreTypeOK
      /\ ttl \in 1..MaxTtl /\ ttl \in 1..(MaxTtl + RedisTtl) /\ now \in 0..MaxTime
  BY Constants DEF SessionInv, SessionTypeOK, StoreTypeOK
<1>2. data \in Value /\ data.jti = t
  BY <1>1, Constants DEF Value
<1>3. Put(id, t, data, ttl)
  BY DEF LogIn, Create
<1>4. PICK d \in Value : d = data
  BY <1>2
<1>5. /\ redis' \in [Key -> Entry \cup {NoSession}]
      /\ \A i \in Id, x \in Token : Found(i, x)' =>
            \/ i = id /\ x = t /\ Data(i, x)' = d
            \/ Found(i, x) /\ Data(i, x)' = Data(i, x)
  <2>1. Put(id, t, d, ttl) /\ d.jti = t
    BY <1>2, <1>3, <1>4
  <2> HIDE DEF data
  <2> QED BY <2>1, <1>1, PutStores
<1>6. /\ issued' = [issued EXCEPT ![t] = [sub |-> id, exp |-> now + ttl]]
      /\ issued[t] = NoLogin
      /\ UNCHANGED <<now, req, out, raced, lost, granted>>
  BY DEF LogIn
<1>7. [sub |-> id, exp |-> now + ttl] \in Login /\ [sub |-> id, exp |-> now + ttl] # NoLogin
  BY <1>1, Constants DEF Login, NoLogin
<1>8. SessionTypeOK'
  BY <1>1, <1>5, <1>6, <1>7 DEF SessionTypeOK, StoreTypeOK
<1>9. Grows
  BY <1>1, <1>6 DEF Grows, SessionTypeOK
<1>10. OwnLogin(id, t, d)'
  BY <1>1, <1>4, <1>6, <1>7 DEF OwnLogin, SessionTypeOK
<1>11. StoreInv'
  BY <1>5, <1>9, <1>10, StoreKept
<1>12. RequestInv'
  <2>1. ASSUME NEW p \in Proc, req'[p].step \in Holding PROVE Rightful(p)'
    <3>1. Rightful(p) /\ req'[p] = req[p]
      BY <2>1, <1>1, <1>6 DEF RequestInv
    <3>2. req[p].id \in Id /\ req[p].jti \in Token
      BY <3>1 DEF Rightful, Request
    <3> QED BY <3>1, <3>2, <1>9 DEF Rightful, OwnLogin, Grows
  <2> QED BY <2>1 DEF RequestInv
<1>13. ASSUME NEW x \in out \ (raced \cup lost)
       PROVE  /\ issued'[x] # NoLogin
              /\ ~Found(issued[x].sub, x)'
              /\ \A p \in Proc : ~(At(p, "write") /\ req[p].jti = x)
  <2>1. /\ x \in Token
        /\ issued[x] # NoLogin
        /\ ~Found(issued[x].sub, x)
        /\ \A p \in Proc : ~(At(p, "write") /\ req[p].jti = x)
    BY <1>1 DEF OutInv, SessionTypeOK
  <2>2. x # t
    BY <2>1, <1>6
  <2>3. PICK i \in Id : i = issued[x].sub /\ i = issued'[x].sub
    BY <2>1, <1>1, <1>9 DEF SessionTypeOK, Login, Grows
  <2>4. ~Found(i, x)'
    BY <2>1, <2>2, <2>3, <1>5
  <2>5. ~Found(issued[x].sub, x)'
    BY <2>3, <2>4 DEF Found, KeyOf
  <2> QED BY <2>1, <2>5, <1>9 DEF Grows
<1>14. OutInv'
  BY <1>6, <1>13 DEF OutInv, At
<1> QED BY <1>8, <1>11, <1>12, <1>14 DEF SessionInv

LEMMA LogOutInv ==
    ASSUME SessionInv, NEW t \in Token, LogOut(t)
    PROVE  SessionInv'
<1>1. /\ SessionTypeOK /\ RequestInv /\ OutInv /\ StoreTypeOK
      /\ UNCHANGED <<now, issued, req, granted>>
      /\ out' = out \cup {t}
      /\ issued[t] # NoLogin
  BY DEF SessionInv, SessionTypeOK, LogOut
<1>2. PICK id \in Id : id = issued[t].sub /\ id = issued'[t].sub
  BY <1>1 DEF SessionTypeOK, Login
<1>3. /\ redis' \in [Key -> Entry \cup {NoSession}] /\ Shrinks
      /\ raced' \subseteq Token /\ lost' \subseteq Token
      /\ \A x \in Token \ {t} : x \in raced' \cup lost' <=> x \in raced \cup lost
      /\ t \notin raced' \cup lost' =>
            ~Found(id, t)' /\ \A p \in Proc : ~(At(p, "write") /\ req[p].jti = t)
  <2>1. CASE Deleted(t)
    <3>1. redis' \in [Key -> Entry \cup {NoSession}] /\ Shrinks /\ ~Found(id, t)'
      BY <1>1, <1>2, <2>1, DeleteShrinks DEF Deleted
    <3> QED BY <1>1, <2>1, <3>1 DEF Deleted, SessionTypeOK
  <2>2. CASE Unreached(t)
    <3>1. Shrinks
      BY <2>2 DEF Unreached, Shrinks, Found, Data, KeyOf
    <3> QED BY <1>1, <2>2, <3>1 DEF Unreached, SessionTypeOK, StoreTypeOK
  <2> QED BY <2>1, <2>2 DEF LogOut
<1>4. SessionTypeOK'
  BY <1>1, <1>3 DEF SessionTypeOK, StoreTypeOK
<1>5. Grows
  BY <1>1 DEF Grows
<1>6. StoreInv'
  BY <1>3, <1>5, StoreShrinks
<1>7. RequestInv'
  BY <1>1 DEF RequestInv, Rightful, OwnLogin
<1>8. ASSUME NEW x \in out' \ (raced' \cup lost')
      PROVE  /\ issued[x] # NoLogin
             /\ ~Found(issued[x].sub, x)'
             /\ \A p \in Proc : ~(At(p, "write") /\ req[p].jti = x)
  <2>1. CASE x = t
    BY <2>1, <1>1, <1>2, <1>3, <1>8 DEF Found, KeyOf
  <2>2. CASE x # t
    <3>1. /\ x \in Token
          /\ issued[x] # NoLogin
          /\ ~Found(issued[x].sub, x)
          /\ \A p \in Proc : ~(At(p, "write") /\ req[p].jti = x)
      BY <2>2, <1>1, <1>3, <1>8 DEF OutInv, SessionTypeOK
    <3>2. PICK i \in Id : i = issued[x].sub /\ i = issued'[x].sub
      BY <3>1, <1>1 DEF SessionTypeOK, Login
    <3>3. ~Found(i, x)'
      BY <3>1, <3>2, <1>3 DEF Shrinks
    <3> QED BY <3>1, <3>2, <3>3 DEF Found, KeyOf
  <2> QED BY <2>1, <2>2
<1>9. OutInv'
  BY <1>1, <1>8 DEF OutInv, At
<1> QED BY <1>4, <1>6, <1>7, <1>9 DEF SessionInv

-----------------------------------------------------------------------------
(* Requests *)

\* A request moves and the store stays: only one that finds its session goes on
\* to write it.
LEMMA MoveInv ==
    ASSUME SessionInv, NEW p \in Proc, NEW r \in Request \cup {Idle},
           UNCHANGED <<storeVars, issued, out, raced, lost>>,
           granted' \in [Id -> SUBSET Roles],
           \A id \in Id : granted[id] \subseteq granted'[id],
           req' = [req EXCEPT ![p] = r],
           r.step \in Holding => Rightful(p)',
           r.step = "write" => Found(r.id, r.jti)
    PROVE  SessionInv'
<1>1. /\ SessionTypeOK /\ StoreTypeOK /\ RequestInv /\ OutInv
      /\ now' = now /\ redis' = redis /\ issued' = issued /\ out' = out /\ raced' = raced
  BY DEF SessionInv, SessionTypeOK, storeVars
<1>2. SessionTypeOK'
  BY <1>1 DEF SessionTypeOK, StoreTypeOK
<1>3. Grows /\ Shrinks
  BY <1>1 DEF Grows, Shrinks, Found, Data, KeyOf
<1>4. StoreInv'
  BY <1>3, StoreShrinks
<1>5. req'[p] = r /\ \A q \in Proc \ {p} : req'[q] = req[q]
  BY <1>1 DEF SessionTypeOK
<1>6. RequestInv'
  BY <1>3, <1>5, RequestsKept
<1>7. ASSUME NEW x \in out \ (raced \cup lost)
      PROVE  /\ issued[x] # NoLogin
             /\ ~Found(issued[x].sub, x)
             /\ \A q \in Proc : ~(At(q, "write")' /\ req'[q].jti = x)
  <2>1. /\ issued[x] # NoLogin
        /\ ~Found(issued[x].sub, x)
        /\ \A q \in Proc : ~(At(q, "write") /\ req[q].jti = x)
    BY <1>1 DEF OutInv
  <2>2. ASSUME r.step = "write", r.jti = x PROVE FALSE
    <3>1. Rightful(p)' /\ r.step \in Holding
      BY <2>2 DEF Holding
    <3>2. issued[x].sub = r.id
      BY <3>1, <2>2, <1>1, <1>5 DEF Rightful, OwnLogin
    <3> QED BY <3>2, <2>1, <2>2
  <2> QED BY <2>1, <2>2, <1>5 DEF At
<1>8. OutInv'
  BY <1>1, <1>7 DEF OutInv, Found, KeyOf
<1> QED BY <1>2, <1>4, <1>6, <1>8 DEF SessionInv

LEMMA AdmitInv ==
    ASSUME SessionInv, NEW p \in Proc, NEW id \in Id, NEW t \in Token, Admit(p, id, t)
    PROVE  SessionInv'
<1>1. /\ SessionTypeOK /\ StoreTypeOK /\ Found(id, t)
      /\ UNCHANGED <<storeVars, issued, out, raced, lost, granted>>
  BY DEF SessionInv, SessionTypeOK, Admit
<1>2. PICK d \in Value : d = Data(id, t) /\ d.jti = t
  BY <1>1, FoundValue
<1>3. OwnLogin(id, t, d)
  BY <1>1, <1>2 DEF SessionInv, StoreInv
<1>4. PICK r : r = [step |-> IF Expired(d) THEN "expired" ELSE "admitted",
                    id |-> id, jti |-> t, data |-> d, at |-> now]
  OBVIOUS
<1>5. r \in Request
  BY <1>1, <1>4 DEF Request, StoreTypeOK
<1>6. req' = [req EXCEPT ![p] = r]
  BY <1>2, <1>4 DEF Admit
<1>7. ASSUME r.step \in Holding PROVE Rightful(p)'
  <2>1. ~Expired(d)
    BY <1>4, <1>7 DEF Holding
  <2>2. now <= d.exp
    BY <2>1, <1>1 DEF Expired, StoreTypeOK, Value
  <2>3. req'[p] = r
    BY <1>1, <1>6 DEF SessionTypeOK
  <2>4. OwnLogin(id, t, d)'
    BY <1>1, <1>3 DEF OwnLogin
  <2> QED BY <2>2, <2>3, <2>4, <1>4, <1>5 DEF Rightful, OwnLogin
<1>8. /\ r.step # "write"
      /\ granted' \in [Id -> SUBSET Roles] /\ \A i \in Id : granted[i] \subseteq granted'[i]
  BY <1>1, <1>4 DEF SessionTypeOK
<1> QED BY <1>1, <1>5, <1>6, <1>7, <1>8, MoveInv

LEMMA EndInv ==
    ASSUME SessionInv, NEW p \in Proc, End(p),
           UNCHANGED <<storeVars, issued, out, raced, lost, granted>>
    PROVE  SessionInv'
<1>1. /\ granted' \in [Id -> SUBSET Roles]
      /\ \A i \in Id : granted[i] \subseteq granted'[i]
      /\ UNCHANGED <<storeVars, issued, out, raced, lost>>
  BY DEF SessionInv, SessionTypeOK
<1>2. PICK r : r = Idle
  OBVIOUS
<1>3. r \in Request \cup {Idle} /\ r.step \notin Holding /\ r.step # "write"
  BY <1>2 DEF Idle, Holding
<1>4. req' = [req EXCEPT ![p] = r]
  BY <1>2 DEF End
<1> QED BY <1>1, <1>3, <1>4, MoveInv

LEMMA RespondInv ==
    ASSUME SessionInv, NEW p \in Proc, Respond(p)
    PROVE  SessionInv'
  BY EndInv DEF Respond

\* A request that holds a session is one of its own login, found or not.
LEMMA HeldRequest ==
    ASSUME SessionInv, NEW p \in Proc, req[p].step \in Holding
    PROVE  /\ req[p] \in Request
           /\ req[p].id \in Id /\ req[p].jti \in Token /\ req[p].data \in Value
           /\ OwnLogin(req[p].id, req[p].jti, req[p].data)
           /\ req[p].at <= req[p].data.exp
  BY DEF SessionInv, RequestInv, Rightful, Request

LEMMA ReadAuthInv ==
    ASSUME SessionInv, NEW p \in Proc, ReadAuth(p)
    PROVE  SessionInv'
<1>1. /\ SessionTypeOK /\ StoreInv /\ req[p].step = "admitted" /\ req[p].step \in Holding
      /\ UNCHANGED <<storeVars, issued, out, raced, lost>>
  BY DEF SessionInv, ReadAuth, At, Holding
<1>2. CASE Present(p)
  <2>1. PICK id \in Id, t \in Token, d \in Value :
             /\ id = req[p].id /\ t = req[p].jti /\ d = req[p].data
             /\ OwnLogin(id, t, d) /\ req[p].at <= d.exp /\ req[p] \in Request
    BY <1>1, HeldRequest
  <2>2. PICK s \in Value : s = Stored(p) /\ s = Data(id, t) /\ Found(id, t)
    BY <1>1, <1>2, <2>1, FoundValue DEF Present, Stored
  <2>3. OwnLogin(id, t, s)
    BY <1>1, <2>2 DEF StoreInv
  <2>4. PICK role \in Roles :
             /\ req' = [req EXCEPT ![p].step = "merge",
                                   ![p].data.auth = s.auth \cup {role}]
             /\ granted' = [granted EXCEPT ![id] = @ \cup {role}]
    BY <1>2, <2>1, <2>2 DEF ReadAuth
  <2>5. PICK r : r = [req[p] EXCEPT !.step = "merge", !.data.auth = s.auth \cup {role}]
    OBVIOUS
  <2>6. /\ r.step = "merge" /\ r.id = id /\ r.jti = t /\ r.at = req[p].at
        /\ r.data = [d EXCEPT !.auth = s.auth \cup {role}]
        /\ r \in Request
    BY <2>1, <2>2, <2>5 DEF Request, Value
  <2>7. req' = [req EXCEPT ![p] = r]
    BY <1>1, <2>4, <2>5 DEF SessionTypeOK
  <2>8. /\ granted' \in [Id -> SUBSET Roles]
        /\ \A i \in Id : granted[i] \subseteq granted'[i]
        /\ role \in granted'[id]
    BY <1>1, <2>4 DEF SessionTypeOK
  <2>9. Rightful(p)'
    <3>1. req'[p] = r
      BY <1>1, <2>7 DEF SessionTypeOK
    <3>2. r.data.jti = t /\ r.data.exp = d.exp /\ r.data.auth = s.auth \cup {role}
      BY <2>1, <2>6 DEF OwnLogin, Value
    <3>3. r.data.auth \subseteq LoginRoles \cup granted'[id]
      BY <3>2, <2>3, <2>8 DEF OwnLogin
    <3> QED BY <3>1, <3>2, <3>3, <2>1, <2>6, <1>1 DEF Rightful, OwnLogin
  <2> QED BY <1>1, <2>6, <2>7, <2>8, <2>9, MoveInv
<1>3. CASE ~Present(p)
  BY <1>1, <1>3, EndInv DEF ReadAuth
<1> QED BY <1>2, <1>3

LEMMA ReadSessionInv ==
    ASSUME SessionInv, NEW p \in Proc, ReadSession(p)
    PROVE  SessionInv'
<1>1. /\ SessionTypeOK /\ StoreInv /\ req[p].step = "merge" /\ req[p].step \in Holding
      /\ UNCHANGED <<storeVars, issued, out, raced, lost, granted>>
  BY DEF SessionInv, ReadSession, At, Holding
<1>2. CASE Present(p)
  <2>1. PICK id \in Id, t \in Token, d \in Value :
             /\ id = req[p].id /\ t = req[p].jti /\ d = req[p].data
             /\ OwnLogin(id, t, d) /\ req[p].at <= d.exp /\ req[p] \in Request
    BY <1>1, HeldRequest
  <2>2. PICK s \in Value : s = Stored(p) /\ s = Data(id, t) /\ Found(id, t)
    BY <1>1, <1>2, <2>1, FoundValue DEF Present, Stored
  <2>3. OwnLogin(id, t, s)
    BY <1>1, <2>2 DEF StoreInv
  <2>4. PICK r : r = [req[p] EXCEPT !.step = "write", !.data = [s EXCEPT !.auth = d.auth]]
    OBVIOUS
  <2>5. /\ r.step = "write" /\ r.id = id /\ r.jti = t /\ r.at = req[p].at
        /\ r.data = [s EXCEPT !.auth = d.auth]
        /\ r \in Request
    BY <2>1, <2>2, <2>4 DEF Request, Value
  <2>6. req' = [req EXCEPT ![p] = r]
    BY <1>1, <1>2, <2>1, <2>2, <2>4 DEF SessionTypeOK, ReadSession
  <2>7. Rightful(p)'
    <3>1. req'[p] = r
      BY <1>1, <2>6 DEF SessionTypeOK
    <3>2. r.data.jti = t /\ r.data.exp = s.exp /\ r.data.auth = d.auth /\ s.exp = d.exp
      BY <2>1, <2>3, <2>5 DEF OwnLogin, Value
    <3> QED BY <3>1, <3>2, <2>1, <2>5, <1>1 DEF Rightful, OwnLogin
  <2>8. /\ granted' \in [Id -> SUBSET Roles]
        /\ \A i \in Id : granted[i] \subseteq granted'[i]
        /\ Found(r.id, r.jti)
    BY <1>1, <2>2, <2>5 DEF SessionTypeOK
  <2> QED BY <1>1, <2>5, <2>6, <2>7, <2>8, MoveInv
<1>3. CASE ~Present(p)
  BY <1>1, <1>3, EndInv DEF ReadSession
<1> QED BY <1>2, <1>3

LEMMA DropExpiredInv ==
    ASSUME SessionInv, NEW p \in Proc, DropExpired(p)
    PROVE  SessionInv'
<1>1. /\ SessionTypeOK /\ StoreTypeOK
      /\ UNCHANGED <<now, issued, out, raced, lost, granted>>
      /\ req' = [req EXCEPT ![p] = Idle]
      /\ req[p].step = "expired"
  BY DEF SessionInv, SessionTypeOK, DropExpired, End, At
<1>2. req[p].id \in Id /\ req[p].jti \in Token
  BY <1>1 DEF SessionTypeOK, Request, Idle
<1>3. redis' \in [Key -> Entry \cup {NoSession}] /\ Shrinks
  BY <1>1, <1>2, DeleteShrinks DEF DropExpired
<1>4. SessionTypeOK'
  BY <1>1, <1>3 DEF SessionTypeOK, StoreTypeOK
<1>5. Grows
  BY <1>1 DEF Grows
<1>6. StoreInv'
  BY <1>3, <1>5, StoreShrinks
<1>7. req'[p] = Idle /\ \A q \in Proc \ {p} : req'[q] = req[q]
  BY <1>1 DEF SessionTypeOK
<1>8. RequestInv'
  BY <1>5, <1>7, RequestsKept DEF Idle, Holding
<1>9. OutInv'
  BY <1>1, <1>3, <1>5, <1>7, OutKept DEF At, Idle
<1> QED BY <1>4, <1>6, <1>8, <1>9 DEF SessionInv

LEMMA WriteSessionInv ==
    ASSUME SessionInv, NEW p \in Proc, WriteSession(p)
    PROVE  SessionInv'
<1>1. /\ SessionTypeOK /\ StoreTypeOK /\ OutInv
      /\ UNCHANGED <<now, issued, out, raced, lost, granted>>
      /\ req' = [req EXCEPT ![p] = Idle]
      /\ req[p].step = "write" /\ req[p].step \in Holding
  BY DEF SessionInv, SessionTypeOK, WriteSession, End, At, Holding
<1>2. PICK id \in Id, t \in Token, d \in Value :
           id = req[p].id /\ t = req[p].jti /\ d = req[p].data /\ OwnLogin(id, t, d)
  BY <1>1, HeldRequest
<1>3. /\ redis' \in [Key -> Entry \cup {NoSession}]
      /\ \A i \in Id, x \in Token : Found(i, x)' =>
            \/ i = id /\ x = t /\ Data(i, x)' = d
            \/ Found(i, x) /\ Data(i, x)' = Data(i, x)
  <2>1. Put(id, t, d, RedisTtl) /\ d.jti = t
    BY <1>2 DEF WriteSession, Update, OwnLogin
  <2>2. RedisTtl \in 1..(MaxTtl + RedisTtl)
    BY Constants
  <2> QED BY <2>1, <2>2, <1>1, PutStores
<1>4. SessionTypeOK'
  BY <1>1, <1>3 DEF SessionTypeOK, StoreTypeOK
<1>5. Grows
  BY <1>1 DEF Grows
<1>6. OwnLogin(id, t, d)'
  BY <1>1, <1>2 DEF OwnLogin
<1>7. StoreInv'
  BY <1>3, <1>5, <1>6, StoreKept
<1>8. req'[p] = Idle /\ \A q \in Proc \ {p} : req'[q] = req[q]
  BY <1>1 DEF SessionTypeOK
<1>9. RequestInv'
  BY <1>5, <1>8, RequestsKept DEF Idle, Holding
<1>10. ASSUME NEW x \in out \ (raced \cup lost)
       PROVE  /\ issued[x] # NoLogin
              /\ ~Found(issued[x].sub, x)'
              /\ \A q \in Proc : ~(At(q, "write")' /\ req'[q].jti = x)
  <2>1. /\ x \in Token
        /\ issued[x] # NoLogin
        /\ ~Found(issued[x].sub, x)
        /\ \A q \in Proc : ~(At(q, "write") /\ req[q].jti = x)
    BY <1>1 DEF OutInv, SessionTypeOK
  <2>2. x # t
    BY <2>1, <1>1, <1>2 DEF At
  <2>3. PICK i \in Id : i = issued[x].sub /\ i = issued'[x].sub
    BY <2>1, <1>1 DEF SessionTypeOK, Login
  <2>4. ~Found(i, x)'
    BY <2>1, <2>2, <2>3, <1>3
  <2>5. ~Found(issued[x].sub, x)'
    BY <2>3, <2>4 DEF Found, KeyOf
  <2> QED BY <2>1, <2>5, <1>8 DEF At, Idle
<1>11. OutInv'
  BY <1>1, <1>10 DEF OutInv
<1> QED BY <1>4, <1>7, <1>9, <1>11 DEF SessionInv

LEMMA SecondPassesInv ==
    ASSUME SessionInv, SecondPasses
    PROVE  SessionInv'
<1>1. SessionTypeOK /\ Tick /\ UNCHANGED <<issued, req, out, raced, lost, granted>>
  BY DEF SessionInv, SecondPasses
<1>2. StoreTypeOK' /\ Shrinks
  BY <1>1, TickShrinks
<1>3. Grows
  BY <1>1 DEF Grows
<1>4. SessionTypeOK'
  BY <1>1, <1>2 DEF SessionTypeOK
<1>5. StoreInv'
  BY <1>2, <1>3, StoreShrinks
<1>6. RequestInv'
  BY <1>1 DEF SessionInv, RequestInv, Rightful, OwnLogin
<1>7. OutInv'
  BY <1>1, <1>2, <1>3, OutKept
<1> QED BY <1>4, <1>5, <1>6, <1>7 DEF SessionInv

LEMMA NextInv == SessionInv /\ [SessionNext]_vars => SessionInv'
<1> SUFFICES ASSUME SessionInv, [SessionNext]_vars PROVE SessionInv'
  OBVIOUS
<1>1. CASE UNCHANGED vars
  <2>1. SessionTypeOK'
    BY <1>1 DEF vars, storeVars, SessionInv, SessionTypeOK, StoreTypeOK
  <2>2. StoreInv' /\ RequestInv' /\ OutInv'
    BY <1>1 DEF vars, storeVars, SessionInv, StoreInv, RequestInv, OutInv, Rightful, OwnLogin,
                Found, Data, KeyOf, At
  <2> QED BY <2>1, <2>2 DEF SessionInv
<1>2. CASE SecondPasses
  BY <1>2, SecondPassesInv
<1>3. ASSUME NEW id \in Id, NEW t \in Token, NEW ttl \in Durations, LogIn(id, t, ttl)
      PROVE  SessionInv'
  BY <1>3, LogInInv
<1>4. ASSUME NEW t \in Token, LogOut(t) PROVE SessionInv'
  BY <1>4, LogOutInv
<1>5. ASSUME NEW p \in Proc,
             \/ \E id \in Id, t \in Token : Admit(p, id, t)
             \/ DropExpired(p) \/ Respond(p)
             \/ ReadAuth(p) \/ ReadSession(p) \/ WriteSession(p)
      PROVE  SessionInv'
  BY <1>5, AdmitInv, DropExpiredInv, RespondInv, ReadAuthInv, ReadSessionInv, WriteSessionInv
<1> QED BY <1>1, <1>2, <1>3, <1>4, <1>5 DEF SessionNext

\* The strengthening that is inductive: what is stored, what requests hold and
\* what a logout leaves behind go together.
THEOREM SessionInvariant == SessionSpec => []SessionInv
<1> QED BY InitInv, NextInv, PTL DEF SessionSpec

\* The store and the requests stay of their types.
THEOREM SessionsTyped == SessionSpec => []SessionTypeOK
<1>1. SessionInv => SessionTypeOK
  BY DEF SessionInv
<1> QED BY SessionInvariant, <1>1, PTL

\* A logout that redis has executed is final, but for an update_auth between its get
\* and its set.
THEOREM LogoutIsFinal == SessionSpec => []LogoutHolds
<1>1. SessionInv => LogoutHolds
  BY DEF SessionInv, OutInv, LogoutHolds
<1> QED BY SessionInvariant, <1>1, PTL

\* basic() admits a request for the user its token was issued to and in its time.
THEOREM AdmissionByLogin == SessionSpec => []AdmittedByLogin
<1>1. ASSUME SessionInv, NEW p \in Proc, req[p].step \in Holding
      PROVE  /\ issued[req[p].jti].sub = req[p].id
             /\ req[p].at <= issued[req[p].jti].exp
  <2>1. /\ issued[req[p].jti] = [sub |-> req[p].id, exp |-> req[p].data.exp]
        /\ req[p].at <= req[p].data.exp
    BY <1>1, HeldRequest DEF OwnLogin
  <2> QED BY <2>1
<1>2. SessionInv => AdmittedByLogin
  BY <1>1 DEF AdmittedByLogin, Holding
<1> QED BY SessionInvariant, <1>2, PTL

\* What redis holds of a session is its login's, with roles of the same user.
THEOREM SessionsStayIntact == SessionSpec => []SessionsIntact
<1>1. SessionInv => SessionsIntact
  BY DEF SessionInv, StoreInv, OwnLogin, SessionsIntact
<1> QED BY SessionInvariant, <1>1, PTL

\* The step that LoginEvictsNobody allows.
OneAtAKey ==
    \A k \in Key :
        (redis[k] # NoSession /\ redis'[k] # NoSession
            /\ redis'[k].data.jti # redis[k].data.jti)
        => \E p \in Proc : At(p, "write") /\ req[p].jti = redis'[k].data.jti

LEMMA StepEvictsNobody == SessionInv /\ [SessionNext]_vars => OneAtAKey
<1> SUFFICES ASSUME SessionInv, [SessionNext]_vars,
                    NEW k \in Key, redis[k] # NoSession, redis'[k] # NoSession,
                    redis'[k].data.jti # redis[k].data.jti
             PROVE  \E p \in Proc : At(p, "write") /\ req[p].jti = redis'[k].data.jti
  BY DEF OneAtAKey
<1>1. redis \in [Key -> Entry \cup {NoSession}] /\ redis'[k] # redis[k]
  BY DEF SessionInv, SessionTypeOK, StoreTypeOK
<1>2. CASE UNCHANGED vars
  BY <1>1, <1>2 DEF vars, storeVars
<1>3. CASE SecondPasses
  BY <1>1, <1>3 DEF SecondPasses, Tick
<1>4. ASSUME NEW id \in Id, NEW t \in Token, Delete(id, t) PROVE FALSE
  BY <1>1, <1>4 DEF Delete
<1>5. ASSUME NEW id \in Id, NEW t \in Token, NEW ttl \in Durations, LogIn(id, t, ttl)
      PROVE  FALSE
  BY <1>1, <1>5 DEF LogIn, Create, Put
<1>6. ASSUME NEW t \in Token, LogOut(t) PROVE FALSE
  <2>1. issued[t].sub \in Id
    BY <1>6 DEF LogOut, SessionInv, SessionTypeOK, Login
  <2> QED BY <1>1, <2>1, <1>4, <1>6 DEF LogOut, Deleted, Unreached
<1>7. ASSUME NEW p \in Proc, DropExpired(p) PROVE FALSE
  <2>1. req[p].id \in Id /\ req[p].jti \in Token
    BY <1>7 DEF DropExpired, At, SessionInv, SessionTypeOK, Request, Idle
  <2> QED BY <2>1, <1>4, <1>7 DEF DropExpired
<1>8. ASSUME NEW p \in Proc, WriteSession(p)
      PROVE  At(p, "write") /\ req[p].jti = redis'[k].data.jti
  <2>1. At(p, "write") /\ req[p].step \in Holding
    BY <1>8 DEF WriteSession, At, Holding
  <2>2. req[p].data.jti = req[p].jti
    BY <2>1, HeldRequest DEF OwnLogin
  <2>3. redis'[k].data = req[p].data
    BY <1>1, <1>8 DEF WriteSession, Update, Put
  <2> QED BY <2>1, <2>2, <2>3
<1>9. ASSUME NEW p \in Proc,
             \/ \E id \in Id, t \in Token : Admit(p, id, t)
             \/ Respond(p) \/ ReadAuth(p) \/ ReadSession(p)
      PROVE  FALSE
  BY <1>1, <1>9 DEF Admit, Respond, ReadAuth, ReadSession, storeVars
<1> QED BY <1>2, <1>3, <1>5, <1>6, <1>7, <1>8, <1>9 DEF SessionNext

\* Only the set of a late update_auth puts one session in the place of another.
THEOREM LoginsEvictNobody == SessionSpec => LoginEvictsNobody
<1>1. SessionInv /\ [SessionNext]_vars => [OneAtAKey]_vars
  BY StepEvictsNobody
<1> QED BY SessionInvariant, <1>1, PTL DEF SessionSpec, LoginEvictsNobody, OneAtAKey
=============================================================================
