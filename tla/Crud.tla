-------------------------------- MODULE Crud --------------------------------
(***************************************************************************)
(* The requests of basic_crud.py and trashcan.py that change records.  A   *)
(* request has a database session of its own: its statements are pending,  *)
(* and hold the rows they write, until it commits; when the request ends,  *)
(* the session is closed and what it has not committed is gone.  A related *)
(* list (the scopes of an API key, the members of a list) is an            *)
(* association table whose rows are written and committed on their own;    *)
(* the members of a list are also written from the other side, by an       *)
(* update of the person with its lists.                                    *)
(*                                                                         *)
(* Ids are drawn from Rec, where Attr fixes what no request changes.       *)
(***************************************************************************)
EXTENDS Rbac, Integers, Sequences

CONSTANTS
    Proc,         \* requests in progress
    Rec,          \* records
    Attr,         \* [Rec -> [res, owner, privacy, list, referrer, primary]]
    Related,      \* records of the related table
    LimitRelated, \* limit_related of the controller; 0 is none for an update
    Sessions,     \* sessions, whatever their roles
    Clients,      \* bound: the sessions that send requests
    Batches,      \* lists of ids a client asks to delete
    NoRow,        \* a record that is not there
    InitialRows,  \* bound: what the database may hold at first
    MaxRequests   \* bound: requests that change records

\* What a record of the database says of itself.
Stored == [status : {"active", "disabled"}, items : SUBSET Related]

ASSUME CrudAssumption ==
    /\ IsFiniteSet(Proc) /\ Proc # {}
    /\ IsFiniteSet(Related)
    /\ LimitRelated \in Nat
    /\ MaxRequests \in Nat
    /\ DOMAIN Attr = Rec
    /\ Clients \subseteq Sessions
    /\ \A s \in Sessions : \A role \in s.auth : role.name = "list" => role.list # None
    /\ Batches \subseteq Seq(Rec)
    /\ NoRow \notin Stored
    \* every association is made by a request
    /\ InitialRows \subseteq [Rec -> {NoRow} \cup {row \in Stored : row.items = {}}]

VARIABLES
    rows,   \* committed: the status and the related records of every record
    fresh,  \* ids that were never used
    req,    \* per process: the request it handles
    sent,   \* requests so far
    people, \* related records that are there
    joins,  \* per process: the lists it writes for a person, if any
    asked,  \* per record: the related list that was committed last
    raced,  \* records whose related list two requests wrote at a time
    joined  \* per record: who came in from the person's side

others == <<people, joins>>
history == <<asked, raced, joined>>
crudVars == <<rows, fresh, req, sent, others, history>>

Row(status, items) == [status |-> status, items |-> items]
Exists(r) == rows[r] # NoRow
HasRelated(r) == Attr[r].res \in {"list", "apikey"}
TwoSided == {r \in Rec : Attr[r].res = "list"}

Idle == [step |-> "idle"]

CrudInit ==
    /\ rows \in InitialRows
    /\ fresh = {r \in Rec : ~Exists(r)}
    /\ req = [p \in Proc |-> Idle]
    /\ sent = 0
    /\ people = Related
    /\ joins = [p \in Proc |-> {}]
    /\ asked = [r \in Rec |-> {}]
    /\ raced = {}
    /\ joined = [r \in Rec |-> {}]

-----------------------------------------------------------------------------
At(p, step) == req[p].step = step
Busy == {p \in Proc : ~At(p, "idle")}
Free(p) == At(p, "idle") /\ joins[p] = {} /\ sent < MaxRequests
Target(p) == Head(req[p].left)

\* An id is drawn at random when its record is made: nobody names it before.
Send(p, kind, step, s, ids, want) ==
    /\ Free(p)
    /\ \A i \in 1..Len(ids) : ids[i] \notin fresh'
    /\ sent' = sent + 1
    /\ req' = [req EXCEPT ![p] =
          [step |-> step, kind |-> kind, by |-> s, ids |-> ids, left |-> ids,
           want |-> want, have |-> {}, pending |-> {}]]

\* The request is answered and its session closed.
End(p) == req' = [req EXCEPT ![p] = Idle]

\* The record a query by id finds; nobody owns one that is not there.
Queried(r) ==
    IF Exists(r) THEN Attr[r]
    ELSE [Attr[r] EXCEPT !.owner = None, !.privacy = None, !.list = None,
                         !.referrer = None, !.primary = FALSE]
Permitted(s, act, r) == act \in Permissions(s, Queried(r))

\* A row that another session has written is waited for.
Unlocked(p, r) == \A q \in Busy \ {p} : r \notin req[q].pending

-----------------------------------------------------------------------------
(* create and update *)

\* create: the record is committed first, its related list afterwards.
Create(p, s, r, want) ==
    /\ r \in fresh
    /\ Attr[r].owner \notin Related \ people
    /\ MayCreate(s, Attr[r].res, Attr[r].owner)
    /\ want # {} => HasRelated(r)
    /\ Cardinality(want) <= LimitRelated
    /\ rows' = [rows EXCEPT ![r] = Row("active", {})]
    /\ fresh' = fresh \ {r}
    /\ Send(p, "create", IF want = {} THEN "created" ELSE "related", s, <<r>>, want)
    /\ UNCHANGED <<others, history>>

Created(p) ==
    /\ At(p, "created")
    /\ End(p)
    /\ UNCHANGED <<rows, fresh, sent, others, history>>

\* update: the related list first, the permission and the record afterwards.
UpdateRecord(p, s, r) ==
    /\ UNCHANGED <<rows, fresh, others, history>>
    /\ Send(p, "update", "permit", s, <<r>>, {})

Unlimited(want) == TRUE                              \* mutant: limit not passed on
Within(want) == LimitRelated = 0 \/ Cardinality(want) <= LimitRelated

UpdateRelated(p, s, r, want) ==
    /\ HasRelated(r)
    /\ Within(want)
    /\ UNCHANGED <<rows, fresh, others, history>>
    /\ Send(p, "update", "related", s, <<r>>, want)

\* _update_related: read the list (a missing record raises), ...
ReadRelated(p) ==
    LET r == Target(p) IN
    /\ At(p, "related")
    /\ IF Exists(r)
       THEN /\ req' = [req EXCEPT ![p].step = "link", ![p].have = rows[r].items]
            /\ raced' = IF \E q \in Proc \ {p} : At(q, "link") /\ Target(q) = r
                        THEN raced \cup {r} ELSE raced
       ELSE End(p) /\ UNCHANGED raced
    /\ UNCHANGED <<rows, fresh, sent, others, asked, joined>>

\* ... insert what is missing, remove what is too much and commit.  An
\* association that is there already, or is gone, raises, and so does a
\* related record that is not there.
Missing(p) == req[p].want \ req[p].have
Removed(p) == req[p].have \ req[p].want
Clash(p) ==
    \/ ~Exists(Target(p))
    \/ ~(Missing(p) \subseteq people)
    \/ Missing(p) \cap rows[Target(p)].items # {}
    \/ ~(Removed(p) \subseteq rows[Target(p)].items)

Appended(p) == rows[Target(p)].items \cup Missing(p)  \* mutant: nothing is removed
Linked(p) == (rows[Target(p)].items \cup Missing(p)) \ Removed(p)

Link(p) ==
    /\ At(p, "link")
    /\ Unlocked(p, Target(p))
    /\ IF Clash(p)
       THEN End(p) /\ UNCHANGED <<rows, asked, joined>>
       ELSE /\ rows' = [rows EXCEPT ![Target(p)].items = Linked(p)]
            /\ asked' = [asked EXCEPT ![Target(p)] = req[p].want \cap people]
            /\ joined' = [joined EXCEPT ![Target(p)] = @ \ req[p].want]
            /\ IF req[p].kind = "create"
               THEN End(p) ELSE req' = [req EXCEPT ![p].step = "permit"]
    /\ UNCHANGED <<fresh, sent, others, raced>>

\* The fields of the body, of which the status is the one that others read; without
\* one the row keeps its own.  Denied: 403, with the related list committed already.
Permit(p, status) ==
    LET r == Target(p) IN
    /\ At(p, "permit")
    /\ Unlocked(p, r)
    /\ rows' = IF Permitted(req[p].by, "u", r) /\ Exists(r)
               THEN [rows EXCEPT ![r].status = status] ELSE rows
    /\ End(p)
    /\ UNCHANGED <<fresh, sent, others, history>>

-----------------------------------------------------------------------------
(* The related list from the other side *)

\* The update of a person with its lists: _update_related reads them, without a limit, ...
MemberOf(m) == {r \in TwoSided : Exists(r) /\ m \in rows[r].items}
JoinLists(p, m, lists) ==
    /\ Free(p)
    /\ m \in people
    /\ lists \cap fresh = {}
    /\ sent' = sent + 1
    /\ joins' = [joins EXCEPT ![p] = {[who |-> m, want |-> lists, have |-> MemberOf(m)]}]
    /\ UNCHANGED <<rows, fresh, req, people, history>>

Entered(j) == j.want \ j.have
Left(j) == j.have \ j.want
JoinClash(j) ==
    \/ j.who \notin people
    \/ \E r \in Entered(j) : ~Exists(r) \/ j.who \in rows[r].items
    \/ \E r \in Left(j) : ~Exists(r) \/ j.who \notin rows[r].items

\* Where m was added to a list, or removed from it.
With(lists, r, j) ==
    IF r \in Entered(j) THEN lists \cup {j.who}
    ELSE IF r \in Left(j) THEN lists \ {j.who} ELSE lists

\* ... and writes the associations, before it asks for the permission.
Join(p) ==
    \E j \in joins[p] :
      /\ \A r \in Entered(j) \cup Left(j) : Unlocked(p, r)
      /\ joins' = [joins EXCEPT ![p] = {}]
      /\ IF JoinClash(j)
         THEN UNCHANGED <<rows, history>>
         ELSE /\ rows' = [r \in Rec |->
                    IF Exists(r) THEN [rows[r] EXCEPT !.items = With(@, r, j)] ELSE rows[r]]
              /\ asked' = [r \in Rec |-> With(asked[r], r, j)]
              /\ joined' = [r \in Rec |-> With(joined[r], r, j)]
              /\ raced' = raced \cup {r \in Entered(j) \cup Left(j) :
                                        \E q \in Proc : At(q, "link") /\ Target(q) = r}
      /\ UNCHANGED <<fresh, req, sent, people>>

JoinFails(p) ==
    /\ joins[p] # {}
    /\ joins' = [joins EXCEPT ![p] = {}]
    /\ UNCHANGED <<rows, fresh, req, sent, people, history>>

\* A related record is removed for good, by whoever may: the foreign keys take it out
\* of every list, and what it owns with it.
PurgeRelated(p, m) ==
    /\ Free(p)
    /\ m \in people
    /\ \A r \in Rec : Attr[r].owner = m => Unlocked(p, r)
    /\ sent' = sent + 1
    /\ people' = people \ {m}
    /\ rows' = [r \in Rec |-> IF Exists(r) /\ Attr[r].owner # m
                             THEN [rows[r] EXCEPT !.items = @ \ {m}] ELSE NoRow]
    /\ asked' = [r \in Rec |-> asked[r] \ {m}]
    /\ UNCHANGED <<fresh, req, joins, raced, joined>>

-----------------------------------------------------------------------------
(* delete, and the trashcan's restore and purge *)

\* kind: "disable", "remove" (force) or "purge" (from the trashcan)
Delete(p, s, ids, kind) ==
    /\ UNCHANGED <<rows, fresh, others, history>>
    /\ Send(p, kind, "delete", s, ids, {})

\* What the statements that are pending make of the database.
Flushed(p) ==
    [r \in Rec |-> IF r \notin req[p].pending THEN rows[r]
                   ELSE IF req[p].kind = "disable" THEN [rows[r] EXCEPT !.status = "disabled"]
                   ELSE NoRow]

\* One id of the list; a refusal (403) closes the session with the rest pending.
KeptRefusal(p) == End(p) /\ rows' = Flushed(p)       \* mutant: what was done is kept
Refusal(p) == End(p) /\ UNCHANGED rows

DeleteOne(p) ==
    LET r == Target(p) IN
    /\ At(p, "delete")
    /\ req[p].left # <<>>
    /\ Unlocked(p, r)
    /\ IF ~Permitted(req[p].by, "d", r)
       THEN Refusal(p)
       ELSE /\ req' = [req EXCEPT
                 ![p].left = Tail(@),
                 ![p].pending = IF Exists(r) THEN @ \cup {r} ELSE @]
            /\ UNCHANGED rows
    /\ UNCHANGED <<fresh, sent, others, history>>

DeleteCommit(p) ==
    /\ At(p, "delete")
    /\ req[p].left = <<>>
    /\ rows' = Flushed(p)
    /\ End(p)
    /\ UNCHANGED <<fresh, sent, others, history>>

\* Trashcan.update: whoever may delete a record may bring it back.
Restore(p, s, r) ==
    /\ Free(p)
    /\ Unlocked(p, r)
    /\ Permitted(s, "d", r) /\ Exists(r)
    /\ sent' = sent + 1
    /\ rows' = [rows EXCEPT ![r].status = "active"]
    /\ UNCHANGED <<fresh, req, others, history>>

\* A statement or a commit raises (a lost connection, the victim of a deadlock
\* of row locks): db_abort, or an exception that ends the request.
Fails(p) ==
    /\ p \in Busy /\ ~At(p, "created")
    /\ End(p)
    /\ UNCHANGED <<rows, fresh, sent, others, history>>

Wants == SUBSET Related

CrudNext ==
    \E p \in Proc :
      \/ \E s \in Clients, r \in Rec :
           \/ \E want \in Wants : Create(p, s, r, want)
           \/ \E want \in Wants : UpdateRelated(p, s, r, want)
           \/ UpdateRecord(p, s, r)
           \/ Restore(p, s, r)
      \/ \E s \in Clients, ids \in Batches, kind \in {"disable", "remove", "purge"} :
           Delete(p, s, ids, kind)
      \/ Created(p) \/ ReadRelated(p) \/ Link(p)
      \/ \E status \in {"active", "disabled"} : Permit(p, status)
      \/ DeleteOne(p) \/ DeleteCommit(p)
      \/ Fails(p)
      \/ \E m \in Related :
           \/ \E lists \in SUBSET TwoSided : JoinLists(p, m, lists)
           \/ PurgeRelated(p, m)
      \/ Join(p) \/ JoinFails(p)

-----------------------------------------------------------------------------
(***************************************************************************)
(* The related list of a record is the one that was committed last, after  *)
(* what persons have since changed of their own membership and without     *)
(* those who were removed for good, even after a create or an update that  *)
(* failed half-way; unless one request wrote the list, or a person its     *)
(* part of it, while another was between reading and writing it, when the  *)
(* code merges the two.                                                    *)
(***************************************************************************)
RelatedAsAsked ==
    \A r \in Rec \ raced : Exists(r) => rows[r].items = asked[r]

(***************************************************************************)
(* Each request compares its own list with the limit, if there is one;     *)
(* merged lists exceed it by no more than the requests in progress can     *)
(* add, and by those that came in from the person's side, which has none.  *)
(***************************************************************************)
RelatedBounded ==
    LimitRelated # 0 =>
        \A r \in Rec : Exists(r) =>
            Cardinality(rows[r].items \ joined[r]) <= LimitRelated * Cardinality(Proc)

(***************************************************************************)
(* A deletion that changes anything takes effect on every id of its list,  *)
(* and only if its sender may delete every one: after the refusal of one   *)
(* id, what was done for those before it never reaches the database.       *)
(***************************************************************************)
DeletesAllOrNothing ==
    [][\A p \in Proc : (At(p, "delete") /\ req'[p] # req[p] /\ rows' # rows) =>
          \A i \in 1..Len(req[p].ids) : LET r == req[p].ids[i] IN
              /\ Permitted(req[p].by, "d", r)
              /\ rows'[r] = NoRow \/ rows'[r].status = "disabled"]_crudVars

-----------------------------------------------------------------------------
Named(ids) == {ids[i] : i \in 1..Len(ids)}

\* The deletion that Records knows of: none of what is pending.
deletion ==
    [p \in Proc |-> IF At(p, "delete")
                    THEN {[by |-> req[p].by, list |-> Named(req[p].ids), kind |-> req[p].kind]}
                    ELSE {}]

Allowed(act) == {to \in Sessions \X Rec : act \in Permissions(to[1], Attr[to[2]])}

Database ==
    INSTANCE Records WITH
        Initial <- InitialRows, Who <- Sessions, Updatable <- Allowed("u"),
        Deletable <- Allowed("d"), Lists <- {Named(ids) : ids \in Batches},
        Owned <- {of \in Related \X Rec : Attr[of[2]].owner = of[1]}

(***************************************************************************)
(* However the statements of two requests interleave, fail or are refused, *)
(* the database moves by the steps of Records: no id comes back after its  *)
(* record was purged or before it was created, a status changes for who    *)
(* may change it, and of a deletion all is seen or nothing.                *)
(***************************************************************************)
RecordsAsPromised == Database!Spec
=============================================================================
