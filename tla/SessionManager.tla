--------------------------- MODULE SessionManager ---------------------------
(***************************************************************************)
(* The session store of session_manager.py: redis keys 'ses:<id>:<sfx>',   *)
(* sfx being the last three characters of the token, each with a value     *)
(* that carries the whole token (jti) and with a time at which redis drops *)
(* it.  Every operator below is one redis command.                         *)
(***************************************************************************)
EXTENDS Integers

CONSTANTS
    Id,        \* who a key belongs to: a uid
    Token,     \* session tokens
    SuffixOf,  \* [Token -> suffixes]
    Roles,     \* roles a session can carry
    NoSession, \* an absent key
    RedisTtl,  \* config.REDIS_TTL, what update() gives a session
    MaxTtl,    \* the longest session create() is asked for
    MaxTime    \* bound: the model stops here

ASSUME SessionAssumption ==
    /\ RedisTtl \in Nat \ {0}
    /\ MaxTtl \in Nat \ {0}
    /\ MaxTime \in Nat

VARIABLES
    now,   \* seconds
    redis  \* what redis holds under each session key

storeVars == <<now, redis>>

Suffix == {SuffixOf[t] : t \in Token}
Key == Id \X Suffix
KeyOf(id, t) == <<id, SuffixOf[t]>>

Value == [jti : Token, auth : SUBSET Roles, exp : 0..(MaxTime + MaxTtl)]
Entry == [data : Value, until : 0..(MaxTime + MaxTtl + RedisTtl)]

StoreTypeOK ==
    /\ now \in 0..MaxTime
    /\ redis \in [Key -> Entry \cup {NoSession}]

StoreInit == now = 0 /\ redis = [k \in Key |-> NoSession]

\* get(): the value, unless it is another token's.
Found(id, t) ==
    /\ redis[KeyOf(id, t)] # NoSession
    /\ redis[KeyOf(id, t)].data.jti = t
Data(id, t) == redis[KeyOf(id, t)].data

Put(id, t, data, ttl) ==
    redis' = [redis EXCEPT ![KeyOf(id, t)] = [data |-> data, until |-> now + ttl]]

\* create(): SET NX EX; the caller gets None when the key exists.
Overwrite(id, t, roles, ttl) ==                        \* mutant: SET without NX
    Put(id, t, [jti |-> t, auth |-> roles, exp |-> now + ttl], ttl)
Create(id, t, roles, ttl) ==
    /\ redis[KeyOf(id, t)] = NoSession
    /\ Put(id, t, [jti |-> t, auth |-> roles, exp |-> now + ttl], ttl)

\* The SET of update(): no NX, and a new life of RedisTtl.
AbsoluteUpdate(id, t, data) == Put(id, t, data, data.exp)  \* mutant: a time as ttl
RenewedUpdate(id, t, data) ==                          \* mutant: a new exp as well
    Put(id, t, [data EXCEPT !.exp = now + RedisTtl], RedisTtl)
Update(id, t, data) == Put(id, t, data, RedisTtl)

\* delete() goes by the suffix alone.  A ConnectionError is logged and the caller
\* goes on: the key is gone or still there.
Delete(id, t) == redis' = [redis EXCEPT ![KeyOf(id, t)] = NoSession]

Tick ==
    /\ now < MaxTime
    /\ now' = now + 1
    /\ redis' = [k \in Key |->
                    IF redis[k] # NoSession /\ redis[k].until > now'
                    THEN redis[k] ELSE NoSession]
=============================================================================
