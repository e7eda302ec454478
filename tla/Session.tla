------------------------------ MODULE Session ------------------------------
(***************************************************************************)
(* Login sessions: SessionAuth.login_accepted creates one, local_user.basic*)
(* admits requests that present its token, SessionAuth.update_auth adds the*)
(* roles of a new membership to it and AuthController.logout cancels it.   *)
(* Requests run in several uwsgi processes and interleave between redis    *)
(* commands: update_auth reads the session twice and writes it back.       *)
(***************************************************************************)
EXTENDS SessionManager

CONSTANTS
    Proc,       \* requests in progress
    LoginRoles, \* roles at login
    Durations   \* session lengths (regular, admin, password change, ...)

ASSUME LoginAssumption ==
    /\ LoginRoles \subseteq Roles
    /\ Durations \subseteq 1..MaxTtl
    /\ SuffixOf \in [Token -> Suffix]

VARIABLES
    issued, \* per token: the login it came from
    req,    \* per process: the request it handles
    out,    \* tokens whose logout was answered
    raced,  \* tokens whose update_auth was half-way through at that moment
    lost,   \* tokens whose logout never reached redis
    granted \* roles update_auth ever found for a uid

vars == <<storeVars, issued, req, out, raced, lost, granted>>

NoLogin == [sub |-> NoSession, exp |-> 0]
Login   == [sub : Id, exp : 0..(MaxTime + MaxTtl)]

\* A request: where it is, whose session it presented and what it read.
Idle == [step |-> "idle"]
Request == [step : {"admitted", "expired", "merge", "write"},
            id : Id, jti : Token, data : Value, at : 0..MaxTime]

SessionTypeOK ==
    /\ StoreTypeOK
    /\ issued \in [Token -> Login \cup {NoLogin}]
    /\ req \in [Proc -> Request \cup {Idle}]
    /\ out \subseteq Token
    /\ raced \subseteq Token
    /\ lost \subseteq Token
    /\ granted \in [Id -> SUBSET Roles]

SessionInit ==
    /\ StoreInit
    /\ issued = [t \in Token |-> NoLogin]
    /\ req = [p \in Proc |-> Idle]
    /\ out = {}
    /\ raced = {}
    /\ lost = {}
    /\ granted = [id \in Id |-> {}]

-----------------------------------------------------------------------------
Goto(p, step) == req' = [req EXCEPT ![p].step = step]
End(p) == req' = [req EXCEPT ![p] = Idle]
At(p, step) == req[p].step = step

\* The request's session as redis has it at this moment: get() of basic,
\* of AccessControl and of update().
Present(p) == Found(req[p].id, req[p].jti)
Stored(p)  == Data(req[p].id, req[p].jti)

\* login_accepted; a suffix already in use ends in "login session trouble".
LogIn(id, t, ttl) ==
    /\ issued[t] = NoLogin
    /\ Create(id, t, LoginRoles, ttl)
    /\ issued' = [issued EXCEPT ![t] = [sub |-> id, exp |-> now + ttl]]
    /\ UNCHANGED <<now, req, out, raced, lost, granted>>

\* basic(): read the session, compare its exp with the clock.
Undated(data) == FALSE                                \* mutant: exp not checked
Expired(data) == now > data.exp

Admit(p, id, t) ==
    /\ At(p, "idle")
    /\ Found(id, t)
    /\ req' = [req EXCEPT ![p] =
                 [step |-> IF Expired(Data(id, t)) THEN "expired" ELSE "admitted",
                  id |-> id, jti |-> t, data |-> Data(id, t), at |-> now]]
    /\ UNCHANGED <<storeVars, issued, out, raced, lost, granted>>

\* An expired session is deleted, if redis can be reached, and refused.
DropExpired(p) ==
    /\ At(p, "expired")
    /\ Delete(req[p].id, req[p].jti)
    /\ End(p)
    /\ UNCHANGED <<now, issued, out, raced, lost, granted>>

\* The answer of the service, or a command of redis that raises: get() takes that
\* for a missing session, set() ends the request, delete() is not executed.
Respond(p) ==
    /\ ~At(p, "idle")
    /\ End(p)
    /\ UNCHANGED <<storeVars, issued, out, raced, lost, granted>>

\* update_auth: the session's roles and that of a new membership, ...
ReadAuth(p) ==
    /\ At(p, "admitted")
    /\ IF Present(p)
       THEN \E r \in Roles \ Stored(p).auth :
              /\ req' = [req EXCEPT ![p].step = "merge",
                                    ![p].data.auth = Stored(p).auth \cup {r}]
              /\ granted' = [granted EXCEPT ![req[p].id] = @ \cup {r}]
       ELSE End(p) /\ UNCHANGED granted
    /\ UNCHANGED <<storeVars, issued, out, raced, lost>>

\* ... then SessionManager.update: get (a missing session is a TypeError) ...
UnreadMerge(p) ==                                     \* mutant: no second get
    /\ At(p, "merge")
    /\ Goto(p, "write")
    /\ UNCHANGED <<storeVars, issued, out, raced, lost, granted>>
ReadSession(p) ==
    /\ At(p, "merge")
    /\ IF Present(p)
       THEN req' = [req EXCEPT ![p].step = "write",
                              ![p].data = [Stored(p) EXCEPT !.auth = req[p].data.auth]]
       ELSE End(p)
    /\ UNCHANGED <<storeVars, issued, out, raced, lost, granted>>

\* ... and set, whatever happened to the session in between.
WriteSession(p) ==
    /\ At(p, "write")
    /\ Update(req[p].id, req[p].jti, req[p].data)
    /\ End(p)
    /\ UNCHANGED <<now, issued, out, raced, lost, granted>>

\* AuthController.logout, with the credentials of any login.  It is answered with
\* OK whether delete() reached redis or not.
Deleted(t) ==
    /\ Delete(issued[t].sub, t)
    /\ raced' = (raced \ {t})
                   \cup {x \in {t} : \E p \in Proc : At(p, "write") /\ req[p].jti = x}
    /\ lost' = lost \ {t}
Unreached(t) == lost' = lost \cup {t} /\ UNCHANGED <<redis, raced>>

LogOut(t) ==
    /\ issued[t] # NoLogin
    /\ Deleted(t) \/ Unreached(t)
    /\ out' = out \cup {t}
    /\ UNCHANGED <<now, issued, req, granted>>

SecondPasses == Tick /\ UNCHANGED <<issued, req, out, raced, lost, granted>>

SessionNext ==
    \/ SecondPasses
    \/ \E id \in Id, t \in Token, ttl \in Durations : LogIn(id, t, ttl)
    \/ \E t \in Token : LogOut(t)
    \/ \E p \in Proc :
         \/ \E id \in Id, t \in Token : Admit(p, id, t)
         \/ DropExpired(p) \/ Respond(p)
         \/ ReadAuth(p) \/ ReadSession(p) \/ WriteSession(p)

SessionSpec == SessionInit /\ [][SessionNext]_vars

-----------------------------------------------------------------------------
(***************************************************************************)
(* A logout that reached redis is final, unless an update_auth of the same *)
(* session stood between its get and its set at that moment: that set      *)
(* brings the session back.                                                *)
(***************************************************************************)
LogoutHolds ==
    \A t \in out \ (raced \cup lost) : ~Found(issued[t].sub, t)

(***************************************************************************)
(* A request that basic() admitted presented a token that was issued to the*)
(* user it acts for, no later than the end of that login, though update()  *)
(* gives the redis key another life of RedisTtl each time.                 *)
(***************************************************************************)
AdmittedByLogin ==
    \A p \in Proc : req[p].step \in {"admitted", "merge", "write"} =>
        /\ issued[req[p].jti].sub = req[p].id
        /\ req[p].at <= issued[req[p].jti].exp

(***************************************************************************)
(* A write-back restores nothing but the session's own login: owner and    *)
(* expiry are the login's, and the roles are its roles and those of        *)
(* memberships update_auth found for the same user.                        *)
(***************************************************************************)
SessionsIntact ==
    \A id \in Id, t \in Token : Found(id, t) =>
        /\ issued[t] = [sub |-> id, exp |-> Data(id, t).exp]
        /\ Data(id, t).auth \subseteq LoginRoles \cup granted[id]

(***************************************************************************)
(* A user may "log into multiple sessions": only the set of a late         *)
(* update_auth, never a login, puts one session in the place of another.   *)
(***************************************************************************)
LoginEvictsNobody ==
    [][\A k \in Key :
        (redis[k] # NoSession /\ redis'[k] # NoSession
            /\ redis'[k].data.jti # redis[k].data.jti)
        => \E p \in Proc : At(p, "write") /\ req[p].jti = redis'[k].data.jti]_vars
=============================================================================
