----------------------------- MODULE CrudProofs -----------------------------
(***************************************************************************)
(* Related lists, deletions, the query of find and the pages that are read *)
(* of it, for every number of requests in progress, every record and every *)
(* limit.                                                                  *)
(***************************************************************************)
EXTENDS Listing, FiniteSetTheorems, WellFoundedInduction, TLAPS

-----------------------------------------------------------------------------
(* What find lists can be read *)

\* The session's own records are the ones that rbac.yaml opens with uid.
LEMMA PoliciesAre ==
    ASSUME NEW res
    PROVE  \A policy \in Policies(res) :
             /\ "r" \in policy.actions
             /\ policy.resource \in {"*", "uid", "list_id"}
             /\ policy.resource = "*" =>
                  policy.principal = Plain("admin") \/ policy.principal = Plain("*")
             /\ policy.resource = "uid" =>
                  \/ policy.principal = Plain("user") \/ policy.principal = Plain("list-*")
                  \/ policy.principal = Plain("pending") \/ policy.principal = Plain("person")
             /\ policy.resource = "uid" /\ res # "contact" => policy.principal = Plain("user")
             /\ policy.resource = "*" /\ res # "scope" => policy.principal = Plain("admin")
             /\ policy.resource = "list_id" => \E level : policy.principal = Member("list_id", level)
<1>1. CASE res = "contact"
  BY <1>1 DEF Policies, Base, Policy, OfList
<1>2. CASE res = "list"
  BY <1>2 DEF Policies, Base, Policy, OfList
<1>3. CASE res = "message"
  BY <1>3 DEF Policies, Base, Policy, OfList
<1>4. CASE res = "scope"
  BY <1>4 DEF Policies, Base, Policy, OfList
<1>5. CASE res \notin {"contact", "list", "message", "scope"}
  BY <1>5 DEF Policies, Base, Policy, OfList
<1> QED BY <1>1, <1>2, <1>3, <1>4, <1>5

LEMMA PrincipalsAre ==
    ASSUME NEW res, NEW policy \in Policies(res)
    PROVE  /\ policy.resource = "*" => policy.principal.name \in {"admin", "*"}
           /\ policy.resource = "list_id" => policy.principal.name = "list"
           /\ policy.resource = "uid" /\ res # "contact" => policy.principal.name = "user"
           /\ res = "contact" => policy.principal.name # "*"
<1>1. \A name : Plain(name).name = name
  BY DEF Plain
<1>2. \A list, level : Member(list, level).name = "list"
  BY DEF Member
<1>3. CASE policy.resource = "*"
  <2>1. policy.principal \in {Plain("admin"), Plain("*")}
        /\ (res # "scope" => policy.principal = Plain("admin"))
    BY <1>3, PoliciesAre
  <2> QED BY <1>1, <1>3, <2>1
<1>4. CASE policy.resource = "uid"
  <2>1. policy.principal \in {Plain("user"), Plain("list-*"), Plain("pending"), Plain("person")}
        /\ (res # "contact" => policy.principal = Plain("user"))
    BY <1>4, PoliciesAre
  <2> QED BY <1>1, <1>4, <2>1
<1>5. CASE policy.resource = "list_id"
  <2>1. \E level : policy.principal = Member("list_id", level)
    BY <1>5, PoliciesAre
  <2> QED BY <1>2, <1>5, <2>1
<1> QED BY <1>3, <1>4, <1>5, PoliciesAre

LEMMA RoleReads ==
    ASSUME NEW s, NEW res, NEW owner, NEW list, NEW privacy,
           NEW policy \in Policies(res), NEW role \in s.auth,
           policy.principal.name # "*",
           PrincipalIs(policy, role, s, owner, list), ResourceIs(policy, s, owner, list)
    PROVE  "r" \in PermissionsOf(s, res, owner, list, privacy, {})
<1> DEFINE any == {p \in Policies(res) : p.principal.name = "*"}
           matched == {p \in Policies(res) \ any :
                         \E x \in s.auth : /\ PrincipalIs(p, x, s, owner, list)
                                           /\ ResourceIs(p, s, owner, list)}
<1>1. policy \in matched
  OBVIOUS
<1>2. "r" \in UNION {p.actions : p \in matched}
  BY <1>1, PoliciesAre
<1> QED BY <1>2 DEF PermissionsOf

\* Whatever roles match a record, they do not take away what it shows to all.
LEMMA DefaultReads ==
    ASSUME NEW s, NEW res, NEW owner, NEW list, NEW privacy,
           \/ \E policy \in Policies(res) : policy.principal.name = "*"
           \/ Shared(s, list, privacy)
    PROVE  "r" \in PermissionsOf(s, res, owner, list, privacy, {})
<1> DEFINE any == {p \in Policies(res) : p.principal.name = "*"}
           matched == {p \in Policies(res) \ any :
                         \E x \in s.auth : /\ PrincipalIs(p, x, s, owner, list)
                                           /\ ResourceIs(p, s, owner, list)}
           actions == UNION {p.actions : p \in matched} \ {}
           defaults == IF any # {} THEN UNION {p.actions : p \in any}
                       ELSE IF Shared(s, list, privacy) THEN {"r"} ELSE {}
<1>1. "r" \in defaults
  BY PoliciesAre
<1>2. actions # {} => "r" \in actions
  BY PoliciesAre
<1>3. PermissionsOf(s, res, owner, list, privacy, {}) = IF actions # {} THEN actions ELSE defaults
  BY DEF PermissionsOf
<1> HIDE DEF actions, defaults
<1> QED BY <1>1, <1>2, <1>3

\* Who may find, may by a role, when nothing is open to all.
LEMMA FindsByRole ==
    ASSUME NEW s, NEW res, MayFind(s, res),
           \A policy \in Policies(res) : policy.principal.name # "*"
    PROVE  \E policy \in Policies(res), role \in s.auth :
              /\ PrincipalIs(policy, role, s, s.uid, None)
              /\ ResourceIs(policy, s, s.uid, None)
<1> DEFINE any == {p \in Policies(res) : p.principal.name = "*"}
           matched == {p \in Policies(res) \ any :
                         \E x \in s.auth : /\ PrincipalIs(p, x, s, s.uid, None)
                                           /\ ResourceIs(p, s, s.uid, None)}
           actions == UNION {p.actions : p \in matched} \ {}
<1>1. any = {} /\ ~Shared(s, None, None)
  BY NoneAssumption DEF Shared, NoneAssumption
<1>2. actions # {}
  BY <1>1 DEF MayFind, PermissionsOf
<1> QED BY <1>2

LEMMA FilterReadable ==
    ASSUME NEW s \in Sessions, NEW rec, Filtered(s, rec), MayFind(s, rec.res)
    PROVE  Readable(s, rec)
<1> DEFINE list == IF rec.res = "message" THEN rec.list ELSE FirstList(s)
           owner == OwnerAs(s, rec)
<1>1. SUFFICES "r" \in PermissionsOf(s, rec.res, owner, list, rec.privacy, {})
  BY DEF Readable
<1> HIDE DEF list
<1>2. \/ \E policy \in Policies(rec.res) : policy.principal.name = "*"
      \/ \E policy \in Policies(rec.res), role \in s.auth :
           policy.resource = "*" /\ policy.principal = role
      \/ rec.privacy = "public"
      \/ \E policy \in Policies(rec.res), role \in s.auth :
           /\ policy.resource = "uid" /\ policy.principal.name \in {"person", "user"}
           /\ policy.principal = role
           /\ Own(s, rec)
      \/ \E policy \in Policies(rec.res) :
           /\ policy.resource = "uid" /\ policy.principal.name \notin {"person", "user"}
           /\ rec.owner = s.uid
  BY DEF Filtered
<1>3. Own(s, rec) => owner = s.uid
  BY DEF Own, OwnerAs
<1>4. CASE \E policy \in Policies(rec.res) : policy.principal.name = "*"
  BY <1>4, DefaultReads
<1>5. ASSUME NEW policy \in Policies(rec.res), NEW role \in s.auth,
             policy.resource = "*", policy.principal = role, policy.principal.name # "*"
      PROVE  "r" \in PermissionsOf(s, rec.res, owner, list, rec.privacy, {})
  <2>1. role.name = "admin"
    BY <1>5, PrincipalsAre
  <2>2. PrincipalIs(policy, role, s, owner, list) /\ ResourceIs(policy, s, owner, list)
    BY <1>5, <2>1 DEF PrincipalIs, ResourceIs
  <2> QED BY <1>5, <2>2, RoleReads
<1>6. CASE rec.privacy = "public"
  BY <1>6, DefaultReads DEF Shared
<1>7. ASSUME NEW policy \in Policies(rec.res), NEW role \in s.auth,
             policy.resource = "uid", policy.principal.name \in {"person", "user"},
             policy.principal = role, Own(s, rec)
      PROVE  "r" \in PermissionsOf(s, rec.res, owner, list, rec.privacy, {})
  <2>1. PrincipalIs(policy, role, s, owner, list) /\ ResourceIs(policy, s, owner, list)
    BY <1>3, <1>7 DEF PrincipalIs, ResourceIs
  <2> QED BY <1>7, <2>1, RoleReads
<1>8. ASSUME NEW other \in Policies(rec.res), other.resource = "uid",
             other.principal.name \notin {"person", "user"}, rec.owner = s.uid
      PROVE  "r" \in PermissionsOf(s, rec.res, owner, list, rec.privacy, {})
  <2>1. rec.res = "contact" /\ owner = s.uid
    BY <1>8, PrincipalsAre DEF OwnerAs
  <2>2. \A policy \in Policies(rec.res) : policy.principal.name # "*"
    BY <2>1, PrincipalsAre
  <2>3. PICK policy \in Policies(rec.res), role \in s.auth :
              /\ PrincipalIs(policy, role, s, s.uid, None)
              /\ ResourceIs(policy, s, s.uid, None)
    BY <2>2, FindsByRole
  <2>4. role.name # "list"
    BY <2>3, CrudAssumption DEF CrudAssumption, PrincipalIs
  <2>5. policy.resource \in {"*", "uid"}
    BY <2>3, <2>4, PoliciesAre, PrincipalsAre DEF PrincipalIs
  <2>6. PrincipalIs(policy, role, s, owner, list) /\ ResourceIs(policy, s, owner, list)
    BY <2>1, <2>3, <2>4, <2>5 DEF PrincipalIs, ResourceIs
  <2> QED BY <2>2, <2>6, RoleReads
<1> QED BY <1>2, <1>4, <1>5, <1>6, <1>7, <1>8

\* Whatever the database holds: the query of a find never shows a session a record
\* that get would refuse it.
THEOREM FoundIsReadable == ListingSpec => []FindOnlyReadable
<1>1. FindOnlyReadable
  BY FilterReadable DEF FindOnlyReadable, Queries
<1> QED BY <1>1, PTL
-----------------------------------------------------------------------------
(* Related lists, and deletions of several records *)

Requests ==
    [step : {"created", "related", "link", "permit", "delete"},
     kind : {"create", "update", "disable", "remove", "purge"}, by : Sessions,
     ids : Seq(Rec), left : Seq(Rec), want : SUBSET Related, have : SUBSET Related,
     pending : SUBSET Rec]

CrudTypes ==
    /\ rows \in [Rec -> {NoRow} \cup Stored]
    /\ fresh \subseteq Rec
    /\ req \in [Proc -> {Idle} \cup Requests]
    /\ people \subseteq Related
    /\ asked \in [Rec -> SUBSET Related]
    /\ raced \subseteq Rec
    /\ joined \in [Rec -> SUBSET Related]

\* Who is about to write the related list of r.
Writing(p, r) == At(p, "link") /\ Target(p) = r

\* Only who is there is in a list.  Of a record that only one writes, the list is what
\* was asked for last, and the one who writes it has read just that, but for those who
\* were removed for good since.
AskedInv ==
    /\ \A r \in fresh : ~Exists(r) /\ asked[r] = {} /\ \A p \in Proc : ~Writing(p, r)
    /\ \A r \in Rec : Exists(r) => rows[r].items \subseteq people
    /\ \A r \in Rec \ raced :
          /\ Exists(r) => rows[r].items = asked[r]
          /\ \A p \in Proc : Writing(p, r) =>
                /\ Exists(r) => req[p].have \cap people = rows[r].items
                /\ \A q \in Proc \ {p} : ~Writing(q, r)

\* Each related record that did not come in from its own side was added by one of the
\* processes, no process added more than a request may ask for, and who is about to
\* write has read its own.
Added(r) == rows[r].items \ joined[r]
Share(S, by, p) == {i \in S : by[i] = p}
Shares(r, by) ==
    \A p \in Proc :
        /\ Within(Share(Added(r), by, p))
        /\ Writing(p, r) => Share(Added(r), by, p) \subseteq req[p].have
ShareInv ==
    /\ \A p \in Proc : ~At(p, "idle") => Within(req[p].want)
    /\ \A r \in Rec : Exists(r) => \E by \in [Added(r) -> Proc] : Shares(r, by)

\* A row that is written is there, and its lock is one session's alone.
LockPart(p) ==
    ~At(p, "idle") =>
        /\ ~At(p, "delete") => req[p].left # <<>> /\ req[p].pending = {}
        /\ \A r \in req[p].pending : Exists(r) /\ Unlocked(p, r)
LockInv == \A p \in Proc : LockPart(p)

\* What a deletion has come by so far may go, and goes with its commit.
Handled(p, r) == Permitted(req[p].by, "d", r) /\ (Exists(r) => r \in req[p].pending)
Progress(p, n) ==
    /\ Len(req[p].left) = Len(req[p].ids) - n
    /\ \A i \in 1..Len(req[p].left) : req[p].left[i] = req[p].ids[n + i]
    /\ \A i \in 1..n : Handled(p, req[p].ids[i])
DeletePart(p) ==
    At(p, "delete") =>
        /\ \A i \in 1..Len(req[p].ids) : req[p].ids[i] \notin fresh
        /\ \E n \in 0..Len(req[p].ids) : Progress(p, n)
DeleteInv == \A p \in Proc : DeletePart(p)

CrudInv == CrudTypes /\ AskedInv /\ ShareInv /\ LockInv /\ DeleteInv

LEMMA CrudConstants ==
    /\ IsFiniteSet(Proc) /\ IsFiniteSet(Related)
    /\ LimitRelated \in Nat
    /\ \A ids \in Batches : ids \in Seq(Rec)
    /\ NoRow \notin Stored
    /\ InitialRows \subseteq [Rec -> {NoRow} \cup {row \in Stored : row.items = {}}]
    /\ Clients \subseteq Sessions
  BY CrudAssumption DEF CrudAssumption

LEMMA RequestIs ==
    ASSUME CrudTypes, NEW p \in Proc
    PROVE  /\ ~At(p, "idle") => req[p] \in Requests
           /\ req[p].step \in {"idle", "created", "related", "link", "permit", "delete"}
           /\ At(p, "idle") => req[p] = Idle
  BY DEF CrudTypes, Requests, Idle, At

LEMMA RowIs ==
    ASSUME CrudTypes, NEW r \in Rec
    PROVE  /\ Exists(r) => rows[r] \in Stored /\ rows[r].items \in SUBSET Related
           /\ ~Exists(r) => rows[r] = NoRow
  BY DEF CrudTypes, Exists, Stored

LEMMA TargetIs ==
    ASSUME CrudTypes, LockInv, NEW p \in Proc, ~At(p, "idle"),
           ~At(p, "delete") \/ req[p].left # <<>>
    PROVE  Target(p) \in Rec
<1>1. req[p].left \in Seq(Rec) /\ req[p].left # <<>>
  BY RequestIs DEF Requests, LockInv, LockPart
<1> QED BY <1>1 DEF Target

LEMMA Smaller ==
    ASSUME NEW S \in SUBSET Related, NEW T, T \subseteq S, Within(S)
    PROVE  Within(T)
<1>1. IsFiniteSet(S)
  BY CrudConstants, FS_Subset
<1>2. Cardinality(T) <= Cardinality(S) /\ IsFiniteSet(T)
  BY <1>1, FS_Subset
<1>3. Cardinality(T) \in Nat /\ Cardinality(S) \in Nat
  BY <1>1, <1>2, FS_CardinalityType
<1> QED BY <1>2, <1>3, CrudConstants DEF Within

LEMMA EmptyWithin == Within({})
<1>1. Cardinality({}) = 0
  BY FS_EmptySet
<1> QED BY <1>1, CrudConstants DEF Within

\* Whatever is taken out of a list, the shares stay what they are or shrink.
LEMMA SharesShrink ==
    ASSUME NEW S \in SUBSET Related, NEW T, T \subseteq S, NEW by \in [S -> Proc]
    PROVE  \E to \in [T -> Proc] : \A p \in Proc :
              /\ Share(T, to, p) \subseteq Share(S, by, p)
              /\ Within(Share(S, by, p)) => Within(Share(T, to, p))
<1> DEFINE to == [i \in T |-> by[i]]
<1>1. to \in [T -> Proc] /\ \A i \in T : to[i] = by[i]
  OBVIOUS
<1> HIDE DEF to
<1>2. ASSUME NEW p \in Proc
      PROVE  Share(T, to, p) \subseteq Share(S, by, p) /\ Share(S, by, p) \in SUBSET Related
  BY <1>1 DEF Share
<1> QED BY <1>1, <1>2, Smaller

LEMMA NoShares ==
    \E by \in [{} -> Proc] : \A p \in Proc : Share({}, by, p) = {} /\ Within(Share({}, by, p))
<1> DEFINE by == [i \in {} |-> CHOOSE p \in Proc : TRUE]
<1>1. by \in [{} -> Proc]
  OBVIOUS
<1> HIDE DEF by
<1>2. \A p \in Proc : Share({}, by, p) = {}
  BY DEF Share
<1> QED BY <1>1, <1>2, EmptyWithin

LEMMA CrudInitial == CrudInit => CrudInv
<1> SUFFICES ASSUME CrudInit PROVE CrudInv
  OBVIOUS
<1>1. \A p : req[p] = Idle \/ p \notin Proc
  BY DEF CrudInit
<1>2. \A p \in Proc : req[p].step = "idle"
  BY <1>1 DEF Idle
<1>3. rows \in [Rec -> {NoRow} \cup Stored] /\ \A r \in Rec : Exists(r) => rows[r].items = {}
  BY CrudConstants DEF CrudInit, Exists
<1>4. CrudTypes
  BY <1>3 DEF CrudInit, CrudTypes
<1>5. AskedInv
  BY <1>2, <1>3 DEF CrudInit, AskedInv, Writing, At
<1>6. ShareInv
  <2>1. ASSUME NEW r \in Rec, Exists(r)
        PROVE  \E by \in [Added(r) -> Proc] : Shares(r, by)
    <3>1. Added(r) = {}
      BY <1>3, <2>1 DEF Added
    <3>2. PICK by \in [{} -> Proc] :
              \A p \in Proc : Share({}, by, p) = {} /\ Within(Share({}, by, p))
      BY NoShares
    <3> QED BY <3>1, <3>2 DEF Shares
  <2> QED BY <1>2, <2>1 DEF ShareInv, At
<1>7. LockInv /\ DeleteInv
  BY <1>2 DEF LockInv, LockPart, DeleteInv, DeletePart, At
<1> QED BY <1>4, <1>5, <1>6, <1>7 DEF CrudInv

-----------------------------------------------------------------------------
(* What a step leaves alone *)

\* Lists that do not change, and nobody new about to write one.
LEMMA ItemsStay ==
    ASSUME AskedInv, ShareInv,
           fresh' = fresh, people' = people, history' = history,
           \A r \in Rec : Exists(r)' => Exists(r) /\ rows'[r].items = rows[r].items,
           \A q \in Proc, r \in Rec : Writing(q, r)' => Writing(q, r) /\ req'[q].have = req[q].have,
           \A q \in Proc : ~At(q, "idle")' => Within(req'[q].want),
           fresh \subseteq Rec
    PROVE  AskedInv' /\ ShareInv'
<1> USE DEF history
<1>1. ASSUME NEW r \in fresh
      PROVE  ~Exists(r)' /\ asked'[r] = {} /\ \A p \in Proc : ~Writing(p, r)'
  BY DEF AskedInv
<1>2. ASSUME NEW r \in Rec \ raced
      PROVE  /\ Exists(r)' => rows'[r].items = asked'[r]
             /\ \A p \in Proc : Writing(p, r)' =>
                   /\ Exists(r)' => req'[p].have \cap people' = rows'[r].items
                   /\ \A q \in Proc \ {p} : ~Writing(q, r)'
  BY DEF AskedInv
<1>3. ASSUME NEW r \in Rec, Exists(r)'
      PROVE  \E by \in [Added(r)' -> Proc] : Shares(r, by)'
  <2>1. Exists(r) /\ Added(r)' = Added(r)
    BY <1>3 DEF Added
  <2>2. PICK by \in [Added(r) -> Proc] : Shares(r, by)
    BY <2>1 DEF ShareInv
  <2>3. Shares(r, by)'
    BY <2>1, <2>2 DEF Shares, Within
  <2> QED BY <2>1, <2>2, <2>3
<1>4. \A r \in Rec : Exists(r)' => rows'[r].items \subseteq people'
  BY DEF AskedInv
<1> QED BY <1>1, <1>2, <1>3, <1>4 DEF AskedInv, ShareInv

\* What another process does to rows that q has not written is nothing to q.
LEMMA DeletionStays ==
    ASSUME CrudTypes, NEW q \in Proc, LockPart(q), DeletePart(q),
           req'[q] = req[q], fresh' \subseteq fresh,
           \A r \in Rec \ fresh : Exists(r)' => Exists(r),
           ~At(q, "idle") => \A r \in req[q].pending : Exists(r)'
    PROVE  DeletePart(q)'
<1> SUFFICES ASSUME At(q, "delete") PROVE DeletePart(q)'
  BY DEF DeletePart, At
<1>1. ~At(q, "idle")
  BY DEF At
<1>2. req[q] \in Requests
  BY <1>1, RequestIs
<1>3. req[q].ids \in Seq(Rec)
  BY <1>2 DEF Requests
<1>4. PICK n \in 0..Len(req[q].ids) : Progress(q, n)
  BY DEF DeletePart
<1>5. \A i \in 1..Len(req[q].ids) : req[q].ids[i] \in Rec \ fresh
  BY <1>3 DEF DeletePart
<1>6. ASSUME NEW i \in 1..n
      PROVE  Handled(q, req[q].ids[i])'
  <2>1. i \in 1..Len(req[q].ids)
    BY <1>3, <1>4
  <2>2. PICK r \in Rec \ fresh : r = req[q].ids[i] /\ Handled(q, r)
    BY <1>4, <1>5, <2>1 DEF Progress
  <2>3. Exists(r)' <=> Exists(r)
    BY <1>1, <2>2 DEF Handled
  <2>4. Queried(r)' = Queried(r)
    BY <2>3 DEF Queried
  <2>5. Handled(q, r)'
    BY <2>2, <2>3, <2>4 DEF Handled, Permitted
  <2> QED BY <2>2, <2>5
<1>7. Progress(q, n)'
  BY <1>4, <1>6 DEF Progress
<1> QED BY <1>4, <1>5, <1>7 DEF DeletePart

\* A step of p that has written nothing, or has ended.
LEMMA OthersStay ==
    ASSUME CrudTypes, LockInv, DeleteInv, NEW p \in Proc,
           \A q \in Proc \ {p} : req'[q] = req[q],
           fresh' \subseteq fresh,
           \A r \in Rec \ fresh : Exists(r)' => Exists(r),
           \A q \in Proc \ {p} : ~At(q, "idle") => \A r \in req[q].pending : Exists(r)',
           At(p, "idle")' \/ req'[p].pending = {},
           At(p, "idle")' \/ At(p, "delete")' \/ req'[p].left # <<>>,
           DeletePart(p)'
    PROVE  LockInv' /\ DeleteInv'
<1>1. ASSUME NEW q \in Proc \ {p}
      PROVE  LockPart(q)' /\ DeletePart(q)'
  <2>1. LockPart(q) /\ DeletePart(q)
    BY DEF LockInv, DeleteInv
  <2>2. DeletePart(q)'
    BY <2>1, DeletionStays
  <2>3. ASSUME ~At(q, "idle")', NEW r \in req'[q].pending
        PROVE  Exists(r)' /\ Unlocked(q, r)'
    <3>1. ~At(q, "idle") /\ r \in req[q].pending
      BY <2>3 DEF At
    <3>2. Exists(r)' /\ Unlocked(q, r)
      BY <2>1, <3>1 DEF LockPart
    <3> QED BY <3>2 DEF Unlocked, Busy, At
  <2>4. LockPart(q)'
    BY <2>1, <2>3 DEF LockPart, At
  <2> QED BY <2>2, <2>4
<1>2. LockPart(p)'
  BY DEF LockPart
<1> QED BY <1>1, <1>2 DEF LockInv, DeleteInv

-----------------------------------------------------------------------------
(* One lemma for each action *)

LEMMA SentIs ==
    ASSUME CrudTypes, NEW p \in Proc,
           NEW kind \in {"create", "update", "disable", "remove", "purge"},
           NEW step \in {"created", "related", "permit", "delete"},
           NEW s \in Sessions, NEW ids \in Seq(Rec), NEW want \in SUBSET Related,
           Send(p, kind, step, s, ids, want)
    PROVE  /\ At(p, "idle")
           /\ req' \in [Proc -> {Idle} \cup Requests]
           /\ \A q \in Proc \ {p} : req'[q] = req[q]
           /\ req'[p].step = step /\ req'[p].pending = {} /\ req'[p].want = want
           /\ req'[p].ids = ids /\ req'[p].left = ids
           /\ \A i \in 1..Len(ids) : ids[i] \notin fresh'
<1> DEFINE new == [step |-> step, kind |-> kind, by |-> s, ids |-> ids, left |-> ids,
                   want |-> want, have |-> {}, pending |-> {}]
<1>1. new \in Requests
  BY DEF Requests
<1>2. req' = [req EXCEPT ![p] = new] /\ At(p, "idle") /\ \A i \in 1..Len(ids) : ids[i] \notin fresh'
  BY DEF Send, Free
<1>3. req'[p] = new
  BY <1>2 DEF CrudTypes
<1> QED BY <1>1, <1>2, <1>3 DEF CrudTypes

LEMMA EndIs ==
    ASSUME CrudTypes, NEW p \in Proc, End(p)
    PROVE  /\ req' \in [Proc -> {Idle} \cup Requests]
           /\ \A q \in Proc \ {p} : req'[q] = req[q]
           /\ req'[p] = Idle /\ At(p, "idle")'
<1>1. req'[p] = Idle
  BY DEF CrudTypes, End
<1> QED BY <1>1 DEF CrudTypes, End, At, Idle

\* Steps that begin or end a request, or change the status of a row.
LEMMA QuietKeeps ==
    ASSUME CrudInv, NEW p \in Proc,
           req' \in [Proc -> {Idle} \cup Requests],
           \A q \in Proc \ {p} : req'[q] = req[q],
           rows' \in [Rec -> {NoRow} \cup Stored],
           \A r \in Rec : /\ Exists(r)' <=> Exists(r)
                          /\ Exists(r)' => rows'[r].items = rows[r].items,
           UNCHANGED <<fresh, people, history>>,
           \/ At(p, "idle")'
           \/ /\ req'[p].step \in {"related", "permit", "delete"}
              /\ req'[p].pending = {} /\ Within(req'[p].want)
              /\ req'[p].step # "delete" => req'[p].left # <<>>,
           DeletePart(p)'
    PROVE  CrudInv'
<1> USE DEF CrudInv
<1>1. CrudTypes'
  BY DEF CrudTypes, history
<1>2. LockInv' /\ DeleteInv'
  <2>1. \A q \in Proc \ {p} : ~At(q, "idle") => \A r \in req[q].pending : Exists(r)'
    BY RequestIs DEF LockInv, LockPart, Requests
  <2>2. fresh' \subseteq fresh /\ \A r \in Rec \ fresh : Exists(r)' => Exists(r)
    OBVIOUS
  <2>3. /\ At(p, "idle")' \/ req'[p].pending = {}
        /\ At(p, "idle")' \/ At(p, "delete")' \/ req'[p].left # <<>>
    BY DEF At
  <2> HIDE DEF CrudInv
  <2>4. CrudTypes /\ LockInv /\ DeleteInv
    BY DEF CrudInv
  <2> QED BY <2>1, <2>2, <2>3, <2>4, OthersStay
<1>3. AskedInv' /\ ShareInv'
  <2>1. \A q \in Proc, r \in Rec : Writing(q, r)' => Writing(q, r) /\ req'[q].have = req[q].have
    BY DEF Writing, At, Target
  <2>2. \A q \in Proc : ~At(q, "idle")' => Within(req'[q].want)
    BY DEF ShareInv, At
  <2>3. \A r \in Rec : Exists(r)' => Exists(r) /\ rows'[r].items = rows[r].items
    OBVIOUS
  <2>4. fresh \subseteq Rec
    BY DEF CrudTypes
  <2> QED BY <2>1, <2>2, <2>3, <2>4, ItemsStay
<1> QED BY <1>1, <1>2, <1>3

LEMMA EndKeeps ==
    ASSUME CrudInv, NEW p \in Proc, End(p), UNCHANGED <<rows, fresh, people, history>>
    PROVE  CrudInv'
<1>1. CrudTypes
  BY DEF CrudInv
<1>2. /\ req' \in [Proc -> {Idle} \cup Requests] /\ At(p, "idle")'
      /\ \A q \in Proc \ {p} : req'[q] = req[q]
  BY <1>1, EndIs
<1>3. DeletePart(p)'
  BY <1>2 DEF DeletePart, At
<1>4. rows' \in [Rec -> {NoRow} \cup Stored]
  BY <1>1 DEF CrudTypes
<1>5. \A r \in Rec : (Exists(r)' <=> Exists(r)) /\ (Exists(r)' => rows'[r].items = rows[r].items)
  BY DEF Exists
<1> QED BY <1>2, <1>3, <1>4, <1>5, QuietKeeps

LEMMA StatusIs ==
    ASSUME CrudTypes, NEW r \in Rec, Exists(r), NEW status \in {"active", "disabled"},
           rows' = [rows EXCEPT ![r].status = status]
    PROVE  /\ rows' \in [Rec -> {NoRow} \cup Stored]
           /\ \A x \in Rec : /\ Exists(x)' <=> Exists(x)
                             /\ Exists(x)' => rows'[x].items = rows[x].items
<1>1. rows[r] \in Stored
  BY RowIs
<1>2. [rows[r] EXCEPT !.status = status] \in Stored
      /\ [rows[r] EXCEPT !.status = status].items = rows[r].items
  BY <1>1 DEF Stored
<1>3. rows'[r] = [rows[r] EXCEPT !.status = status] /\ \A x \in Rec \ {r} : rows'[x] = rows[x]
  BY DEF CrudTypes
<1>4. rows' \in [Rec -> {NoRow} \cup Stored]
  BY <1>2 DEF CrudTypes
<1>5. [rows[r] EXCEPT !.status = status] # NoRow
  BY <1>2, CrudConstants
<1> QED BY <1>2, <1>3, <1>4, <1>5 DEF Exists

LEMMA RestoreKeeps ==
    ASSUME CrudInv, NEW p \in Proc, NEW s \in Sessions, NEW r \in Rec, Restore(p, s, r)
    PROVE  CrudInv'
<1>1. CrudTypes
  BY DEF CrudInv
<1>2. /\ rows' \in [Rec -> {NoRow} \cup Stored]
      /\ \A x \in Rec : (Exists(x)' <=> Exists(x)) /\ (Exists(x)' => rows'[x].items = rows[x].items)
  BY <1>1, StatusIs DEF Restore
<1>3. UNCHANGED <<req, fresh, people, history>> /\ At(p, "idle")'
  BY DEF Restore, Free, At, others
<1>4. DeletePart(p)'
  BY <1>3 DEF DeletePart, At
<1>5. req' \in [Proc -> {Idle} \cup Requests]
  BY <1>1, <1>3 DEF CrudTypes
<1> QED BY <1>2, <1>3, <1>4, <1>5, QuietKeeps

LEMMA PermitKeeps ==
    ASSUME CrudInv, NEW p \in Proc, NEW status \in {"active", "disabled"}, Permit(p, status)
    PROVE  CrudInv'
<1>1. CASE rows' = rows
  BY <1>1, EndKeeps DEF Permit, others
<1>2. CASE rows' # rows
  <2>1. CrudTypes /\ LockInv /\ ~At(p, "idle") /\ ~At(p, "delete")
    BY DEF CrudInv, Permit, At
  <2>2. PICK r \in Rec : r = Target(p)
    BY <2>1, TargetIs
  <2>4. Exists(r) /\ rows' = [rows EXCEPT ![r].status = status]
    BY <1>2, <2>2 DEF Permit
  <2>5. /\ rows' \in [Rec -> {NoRow} \cup Stored]
        /\ \A x \in Rec : (Exists(x)' <=> Exists(x)) /\ (Exists(x)' => rows'[x].items = rows[x].items)
    BY <2>1, <2>4, StatusIs
  <2>6. End(p) /\ UNCHANGED <<fresh, people, history>>
    BY DEF Permit, others
  <2>7. /\ req' \in [Proc -> {Idle} \cup Requests] /\ At(p, "idle")'
        /\ \A q \in Proc \ {p} : req'[q] = req[q]
    BY <2>1, <2>6, EndIs
  <2>8. DeletePart(p)'
    BY <2>7 DEF DeletePart, At
  <2> QED BY <2>5, <2>6, <2>7, <2>8, QuietKeeps
<1> QED BY <1>1, <1>2

LEMMA UpdateKeeps ==
    ASSUME CrudInv, NEW p \in Proc, NEW s \in Sessions, NEW r \in Rec,
           NEW want \in SUBSET Related, NEW step \in {"related", "permit"}, Within(want),
           Send(p, "update", step, s, <<r>>, want),
           UNCHANGED <<rows, fresh, people, history>>
    PROVE  CrudInv'
<1>1. /\ CrudTypes
      /\ "update" \in {"create", "update", "disable", "remove", "purge"}
      /\ step \in {"created", "related", "permit", "delete"}
  BY DEF CrudInv
<1>2. /\ req' \in [Proc -> {Idle} \cup Requests]
      /\ \A q \in Proc \ {p} : req'[q] = req[q]
      /\ req'[p].step = step /\ req'[p].pending = {} /\ req'[p].want = want
      /\ req'[p].left = <<r>>
  <2> <<r>> \in Seq(Rec)
    OBVIOUS
  <2>1. PICK ids \in Seq(Rec) : ids = <<r>>
    BY Zenon
  <2>2. Send(p, "update", step, s, ids, want)
    BY <2>1
  <2>3. /\ req' \in [Proc -> {Idle} \cup Requests]
        /\ \A q \in Proc \ {p} : req'[q] = req[q]
        /\ req'[p].step = step /\ req'[p].pending = {} /\ req'[p].want = want
        /\ req'[p].left = ids
    BY <1>1, <2>2, SentIs
  <2> QED BY <2>1, <2>3
<1>3. DeletePart(p)'
  BY <1>2 DEF DeletePart, At
<1>4. rows' \in [Rec -> {NoRow} \cup Stored]
  BY <1>1 DEF CrudTypes
<1>5. \A x \in Rec : (Exists(x)' <=> Exists(x)) /\ (Exists(x)' => rows'[x].items = rows[x].items)
  BY DEF Exists
<1>6. <<r>> # <<>>
  OBVIOUS
<1> QED BY <1>2, <1>3, <1>4, <1>5, <1>6, QuietKeeps

LEMMA DeleteKeeps ==
    ASSUME CrudInv, NEW p \in Proc, NEW s \in Sessions, NEW ids \in Seq(Rec),
           NEW kind \in {"disable", "remove", "purge"}, Delete(p, s, ids, kind)
    PROVE  CrudInv'
<1>1. CrudTypes /\ UNCHANGED <<rows, fresh, people, history>>
  BY DEF CrudInv, Delete, others
<1>2. /\ Send(p, kind, "delete", s, ids, {})
      /\ kind \in {"create", "update", "disable", "remove", "purge"}
      /\ {} \in SUBSET Related
  BY DEF Delete
<1>3. /\ req' \in [Proc -> {Idle} \cup Requests]
      /\ \A q \in Proc \ {p} : req'[q] = req[q]
      /\ req'[p].step = "delete" /\ req'[p].pending = {} /\ req'[p].want = {}
      /\ req'[p].ids = ids /\ req'[p].left = ids
      /\ \A i \in 1..Len(ids) : ids[i] \notin fresh'
  BY <1>1, <1>2, SentIs
<1>4. DeletePart(p)'
  <2>1. Progress(p, 0)'
    BY <1>3 DEF Progress
  <2>2. 0 \in 0..Len(ids)
    OBVIOUS
  <2> QED BY <1>3, <2>1, <2>2 DEF DeletePart
<1>5. rows' \in [Rec -> {NoRow} \cup Stored]
  BY <1>1 DEF CrudTypes
<1>6. \A x \in Rec : (Exists(x)' <=> Exists(x)) /\ (Exists(x)' => rows'[x].items = rows[x].items)
  BY <1>1 DEF Exists
<1>7. Within(req'[p].want)
  BY <1>3, EmptyWithin
<1> QED BY <1>1, <1>3, <1>4, <1>5, <1>6, <1>7, QuietKeeps

LEMMA CreateKeeps ==
    ASSUME CrudInv, NEW p \in Proc, NEW s \in Sessions, NEW r \in Rec,
           NEW want \in SUBSET Related, Create(p, s, r, want)
    PROVE  CrudInv'
<1> DEFINE step == IF want = {} THEN "created" ELSE "related"
<1>1. /\ CrudTypes /\ AskedInv /\ ShareInv /\ LockInv /\ DeleteInv
      /\ step \in {"created", "related", "permit", "delete"}
  BY DEF CrudInv
<1>2. /\ r \in fresh /\ Within(want)
      /\ rows' = [rows EXCEPT ![r] = Row("active", {})]
      /\ fresh' = fresh \ {r} /\ people' = people
      /\ asked' = asked /\ raced' = raced /\ joined' = joined
  BY DEF Create, Within, others, history
<1>3. /\ req' \in [Proc -> {Idle} \cup Requests]
      /\ \A q \in Proc \ {p} : req'[q] = req[q]
      /\ req'[p].step = step /\ req'[p].pending = {} /\ req'[p].want = want
      /\ req'[p].left = <<r>> /\ At(p, "idle")
  <2> <<r>> \in Seq(Rec)
    OBVIOUS
  <2>1. PICK ids \in Seq(Rec) : ids = <<r>>
    BY Zenon
  <2>2. /\ Send(p, "create", step, s, ids, want)
        /\ "create" \in {"create", "update", "disable", "remove", "purge"}
    BY <2>1 DEF Create
  <2> HIDE DEF step
  <2>3. /\ req' \in [Proc -> {Idle} \cup Requests]
        /\ \A q \in Proc \ {p} : req'[q] = req[q]
        /\ req'[p].step = step /\ req'[p].pending = {} /\ req'[p].want = want
        /\ req'[p].left = ids /\ At(p, "idle")
    BY <1>1, <2>2, SentIs
  <2> QED BY <2>1, <2>3
<1>4. /\ Row("active", {}) \in Stored /\ Row("active", {}).items = {}
  BY DEF Stored, Row
<1>5. /\ rows'[r] = Row("active", {}) /\ Exists(r)' /\ rows'[r].items = {}
      /\ \A x \in Rec \ {r} : rows'[x] = rows[x]
      /\ rows' \in [Rec -> {NoRow} \cup Stored]
  BY <1>1, <1>2, <1>4, CrudConstants DEF CrudTypes, Exists
<1>6. \A q \in Proc, x \in Rec : Writing(q, x)' => Writing(q, x) /\ req'[q].have = req[q].have
  BY <1>1, <1>3 DEF Writing, At, Target
<1>7. CrudTypes'
  BY <1>1, <1>2, <1>3, <1>5 DEF CrudTypes
<1>8. AskedInv'
  <2>1. ASSUME NEW x \in fresh'
        PROVE  ~Exists(x)' /\ asked'[x] = {} /\ \A q \in Proc : ~Writing(q, x)'
    BY <1>1, <1>2, <1>5, <1>6 DEF AskedInv, Exists, CrudTypes
  <2>2. \A q \in Proc : ~Writing(q, r)'
    BY <1>1, <1>2, <1>6 DEF AskedInv
  <2>3. ASSUME NEW x \in Rec \ raced'
        PROVE  /\ Exists(x)' => rows'[x].items = asked'[x]
               /\ \A q \in Proc : Writing(q, x)' =>
                     /\ Exists(x)' => req'[q].have \cap people' = rows'[x].items
                     /\ \A o \in Proc \ {q} : ~Writing(o, x)'
    <3>1. CASE x = r
      BY <1>1, <1>2, <1>5, <2>2, <3>1 DEF AskedInv
    <3>2. CASE x # r
      BY <1>1, <1>2, <1>5, <1>6, <3>2 DEF AskedInv, Exists
    <3> QED BY <3>1, <3>2
  <2>4. \A x \in Rec : Exists(x)' => rows'[x].items \subseteq people'
    BY <1>1, <1>2, <1>5 DEF AskedInv, Exists
  <2> QED BY <2>1, <2>3, <2>4 DEF AskedInv
<1>9. ShareInv'
  <2>1. \A q \in Proc : ~At(q, "idle")' => Within(req'[q].want)
    BY <1>1, <1>2, <1>3 DEF ShareInv, At
  <2>2. ASSUME NEW x \in Rec, Exists(x)'
        PROVE  \E by \in [Added(x)' -> Proc] : Shares(x, by)'
    <3>1. CASE x = r
      <4>1. PICK by \in [{} -> Proc] :
                \A q \in Proc : Share({}, by, q) = {} /\ Within(Share({}, by, q))
        BY NoShares
      <4>2. Added(x)' = {}
        BY <1>5, <3>1 DEF Added
      <4>3. Shares(x, by)'
        BY <4>1, <4>2 DEF Shares, Within
      <4> QED BY <4>1, <4>2, <4>3
    <3>2. CASE x # r
      <4>1. Exists(x) /\ Added(x)' = Added(x)
        BY <1>2, <1>5, <2>2, <3>2 DEF Exists, Added
      <4>2. PICK by \in [Added(x) -> Proc] : Shares(x, by)
        BY <1>1, <4>1 DEF ShareInv
      <4>3. Shares(x, by)'
        BY <1>6, <4>1, <4>2 DEF Shares, Within
      <4> QED BY <4>1, <4>2, <4>3
    <3> QED BY <3>1, <3>2
  <2> QED BY <2>1, <2>2 DEF ShareInv
<1>10. LockInv' /\ DeleteInv'
  <2>1. \A q \in Proc \ {p} : ~At(q, "idle") => \A x \in req[q].pending : Exists(x)'
    <3>1. \A x \in Rec : Exists(x) => Exists(x)'
      BY <1>5 DEF Exists
    <3> QED BY <1>1, <3>1, RequestIs DEF LockInv, LockPart, Requests
  <2>2. fresh' \subseteq fresh /\ \A x \in Rec \ fresh : Exists(x)' => Exists(x)
    BY <1>2, <1>5 DEF Exists
  <2>3. DeletePart(p)'
    BY <1>3 DEF DeletePart, At
  <2>4. <<r>> # <<>>
    OBVIOUS
  <2> QED BY <1>1, <1>3, <2>1, <2>2, <2>3, <2>4, OthersStay
<1> QED BY <1>7, <1>8, <1>9, <1>10 DEF CrudInv

LEMMA ReadKeeps ==
    ASSUME CrudInv, NEW p \in Proc, ReadRelated(p)
    PROVE  CrudInv'
<1>1. CrudTypes /\ AskedInv /\ ShareInv /\ LockInv /\ DeleteInv
  BY DEF CrudInv
<1>2. At(p, "related") /\ ~At(p, "idle") /\ ~At(p, "delete") /\ UNCHANGED <<rows, fresh, people, asked, joined>>
  BY DEF ReadRelated, At, others
<1>3. PICK r \in Rec : r = Target(p)
  BY <1>1, <1>2, TargetIs
<1>4. CASE ~Exists(r)
  BY <1>2, <1>3, <1>4, EndKeeps DEF ReadRelated, history
<1>5. CASE Exists(r)
  <2>1. /\ req' = [req EXCEPT ![p].step = "link", ![p].have = rows[r].items]
        /\ raced' = IF \E q \in Proc \ {p} : Writing(q, r) THEN raced \cup {r} ELSE raced
    BY <1>3, <1>5 DEF ReadRelated, Writing
  <2>2. req[p] \in Requests /\ rows[r].items \in SUBSET Related
    BY <1>1, <1>2, <1>5, RequestIs, RowIs
  <2>3. /\ req'[p] = [req[p] EXCEPT !.step = "link", !.have = rows[r].items]
        /\ \A q \in Proc \ {p} : req'[q] = req[q]
    BY <1>1, <2>1 DEF CrudTypes
  <2>4. /\ req'[p] \in Requests /\ req'[p].step = "link" /\ req'[p].have = rows[r].items
        /\ req'[p].left = req[p].left /\ req'[p].want = req[p].want
        /\ req'[p].pending = req[p].pending
    BY <2>2, <2>3 DEF Requests
  <2>5. CrudTypes'
    BY <1>1, <1>2, <2>1, <2>3, <2>4 DEF CrudTypes
  <2>6. /\ \A x \in Rec : Writing(p, x)' => x = r
        /\ \A q \in Proc \ {p}, x \in Rec : Writing(q, x)' <=> Writing(q, x)
    BY <1>3, <2>3, <2>4 DEF Writing, At, Target
  <2>7. AskedInv'
    <3>1. ASSUME NEW x \in fresh'
          PROVE  ~Exists(x)' /\ asked'[x] = {} /\ \A q \in Proc : ~Writing(q, x)'
      <4>1. x \in fresh /\ x \in Rec /\ x # r
        BY <1>1, <1>2, <1>5, <3>1 DEF AskedInv, CrudTypes
      <4> QED BY <1>1, <1>2, <2>6, <4>1 DEF AskedInv, Exists
    <3>2. ASSUME NEW x \in Rec \ raced'
          PROVE  /\ Exists(x)' => rows'[x].items = asked'[x]
                 /\ \A q \in Proc : Writing(q, x)' =>
                       /\ Exists(x)' => req'[q].have \cap people' = rows'[x].items
                       /\ \A o \in Proc \ {q} : ~Writing(o, x)'
      <4>1. x \in Rec \ raced
        BY <2>1
      <4>2. CASE x = r
        <5>1. \A q \in Proc \ {p} : ~Writing(q, r)
          BY <2>1, <4>2
        <5> QED BY <1>1, <1>2, <2>4, <2>6, <4>1, <4>2, <5>1 DEF AskedInv, Exists
      <4>3. CASE x # r
        BY <1>1, <1>2, <2>3, <2>6, <4>1, <4>3 DEF AskedInv, Exists
      <4> QED BY <4>2, <4>3
    <3>3. \A x \in Rec : Exists(x)' => rows'[x].items \subseteq people'
      BY <1>1, <1>2 DEF AskedInv, Exists
    <3> QED BY <3>1, <3>2, <3>3 DEF AskedInv
  <2>8. ShareInv'
    <3>1. \A q \in Proc : ~At(q, "idle")' => Within(req'[q].want)
      BY <1>1, <1>2, <2>3, <2>4 DEF ShareInv, At
    <3>2. ASSUME NEW x \in Rec, Exists(x)'
          PROVE  \E by \in [Added(x)' -> Proc] : Shares(x, by)'
      <4>1. Exists(x) /\ Added(x)' = Added(x)
        BY <1>2, <3>2 DEF Exists, Added
      <4>2. PICK by \in [Added(x) -> Proc] : Shares(x, by)
        BY <1>1, <4>1 DEF ShareInv
      <4>3. Share(Added(x), by, p) \subseteq rows[x].items
        BY DEF Share, Added
      <4>4. Shares(x, by)'
        BY <2>3, <2>4, <2>6, <4>1, <4>2, <4>3 DEF Shares, Within
      <4> QED BY <4>1, <4>2, <4>4
    <3> QED BY <3>1, <3>2 DEF ShareInv
  <2>9. LockInv' /\ DeleteInv'
    <3>1. \A q \in Proc \ {p} : ~At(q, "idle") => \A x \in req[q].pending : Exists(x)'
      BY <1>1, <1>2, RequestIs DEF LockInv, LockPart, Requests, Exists
    <3>2. fresh' \subseteq fresh /\ \A x \in Rec \ fresh : Exists(x)' => Exists(x)
      BY <1>2 DEF Exists
    <3>3. DeletePart(p)'
      BY <2>4 DEF DeletePart, At
    <3>4. req'[p].pending = {} /\ req'[p].left # <<>>
      BY <1>1, <1>2, <2>4 DEF LockInv, LockPart
    <3> QED BY <1>1, <2>3, <3>1, <3>2, <3>3, <3>4, OthersStay
  <2> QED BY <2>5, <2>7, <2>8, <2>9 DEF CrudInv
<1> QED BY <1>4, <1>5

LEMMA LinkKeeps ==
    ASSUME CrudInv, NEW p \in Proc, Link(p)
    PROVE  CrudInv'
<1>1. CrudTypes /\ AskedInv /\ ShareInv /\ LockInv /\ DeleteInv
  BY DEF CrudInv
<1>2. At(p, "link") /\ ~At(p, "idle") /\ ~At(p, "delete") /\ UNCHANGED <<fresh, people, raced>>
  BY DEF Link, At, others
<1>3. PICK r \in Rec : r = Target(p)
  BY <1>1, <1>2, TargetIs
<1>4. CASE Clash(p)
  BY <1>2, <1>4, EndKeeps DEF Link, history
<1>5. CASE ~Clash(p)
  <2>1. PICK want \in SUBSET Related, have \in SUBSET Related :
            want = req[p].want /\ have = req[p].have
    BY <1>1, <1>2, RequestIs DEF Requests
  <2>2. /\ Exists(r) /\ Writing(p, r) /\ r \notin fresh /\ want \ have \subseteq people
        /\ (want \ have) \cap rows[r].items = {} /\ have \ want \subseteq rows[r].items
    BY <1>1, <1>2, <1>3, <1>5, <2>1 DEF Clash, Missing, Removed, Writing, AskedInv
  <2>3. PICK items \in SUBSET Related :
            items = (rows[r].items \cup (want \ have)) \ (have \ want)
    BY <1>1, <2>1, <2>2, RowIs
  <2>4. /\ rows' = [rows EXCEPT ![r].items = items] /\ asked' = [asked EXCEPT ![r] = want \cap people]
        /\ joined' = [joined EXCEPT ![r] = joined[r] \ want]
        /\ IF req[p].kind = "create" THEN End(p) ELSE req' = [req EXCEPT ![p].step = "permit"]
    BY <1>3, <1>5, <2>1, <2>3 DEF Link, Linked, Missing, Removed
  <2>5. /\ rows'[r] \in Stored /\ rows'[r].items = items /\ Exists(r)'
        /\ \A x \in Rec \ {r} : rows'[x] = rows[x]
        /\ rows' \in [Rec -> {NoRow} \cup Stored]
    <3>1. rows[r] \in Stored
      BY <1>1, <2>2, RowIs
    <3>2. [rows[r] EXCEPT !.items = items] \in Stored
          /\ [rows[r] EXCEPT !.items = items].items = items
      BY <3>1 DEF Stored
    <3>3. rows'[r] = [rows[r] EXCEPT !.items = items] /\ \A x \in Rec \ {r} : rows'[x] = rows[x]
      BY <1>1, <2>4 DEF CrudTypes
    <3>4. rows' \in [Rec -> {NoRow} \cup Stored]
      BY <1>1, <2>4, <3>2 DEF CrudTypes
    <3> QED BY <3>2, <3>3, <3>4, CrudConstants DEF Exists
  <2>6. /\ req' \in [Proc -> {Idle} \cup Requests]
        /\ \A q \in Proc \ {p} : req'[q] = req[q]
        /\ \/ req'[p] = Idle
           \/ /\ req'[p].step = "permit" /\ req'[p].left = req[p].left
              /\ req'[p].want = want /\ req'[p].pending = req[p].pending
    <3>1. CASE End(p)
      BY <1>1, <3>1, EndIs
    <3>2. CASE req' = [req EXCEPT ![p].step = "permit"]
      <4>1. req[p] \in Requests
        BY <1>1, <1>2, RequestIs
      <4>2. req'[p] = [req[p] EXCEPT !.step = "permit"]
            /\ \A q \in Proc \ {p} : req'[q] = req[q]
        BY <1>1, <3>2 DEF CrudTypes
      <4>3. [req[p] EXCEPT !.step = "permit"] \in Requests
        BY <4>1 DEF Requests
      <4>4. req' \in [Proc -> {Idle} \cup Requests]
        BY <1>1, <3>2, <4>3 DEF CrudTypes
      <4> QED BY <2>1, <4>1, <4>2, <4>4 DEF Requests
    <3> QED BY <2>4, <3>1, <3>2
  <2>7. \A q \in Proc, x \in Rec :
            Writing(q, x)' => q # p /\ Writing(q, x) /\ req'[q].have = req[q].have
    BY <2>6 DEF Writing, At, Target, Idle
  <2>8. CrudTypes'
    <3>1. asked' \in [Rec -> SUBSET Related] /\ joined' \in [Rec -> SUBSET Related]
      BY <1>1, <2>4 DEF CrudTypes
    <3> QED BY <1>1, <1>2, <2>5, <2>6, <3>1 DEF CrudTypes
  <2>9. AskedInv'
    <3>1. asked'[r] = want \cap people /\ \A x \in Rec \ {r} : asked'[x] = asked[x]
      BY <1>1, <2>4 DEF CrudTypes
    <3>2. ASSUME NEW x \in fresh'
          PROVE  ~Exists(x)' /\ asked'[x] = {} /\ \A q \in Proc : ~Writing(q, x)'
      <4>1. x \in fresh /\ x \in Rec \ {r}
        BY <1>1, <1>2, <2>2, <3>2 DEF CrudTypes
      <4> QED BY <1>1, <2>5, <2>7, <3>1, <4>1 DEF AskedInv, Exists
    <3>3. ASSUME NEW x \in Rec \ raced'
          PROVE  /\ Exists(x)' => rows'[x].items = asked'[x]
                 /\ \A q \in Proc : Writing(q, x)' =>
                       /\ Exists(x)' => req'[q].have \cap people' = rows'[x].items
                       /\ \A o \in Proc \ {q} : ~Writing(o, x)'
      <4>1. x \in Rec \ raced
        BY <1>2
      <4>2. CASE x = r
        <5>1. have \cap people = rows[r].items /\ \A q \in Proc \ {p} : ~Writing(q, r)
          BY <1>1, <2>1, <2>2, <4>1, <4>2 DEF AskedInv
        <5>2. items = want \cap people
          BY <2>2, <2>3, <5>1
        <5> QED BY <2>5, <2>7, <3>1, <4>2, <5>1, <5>2
      <4>3. CASE x # r
        BY <1>1, <1>2, <2>5, <2>7, <3>1, <4>1, <4>3 DEF AskedInv, Exists
      <4> QED BY <4>2, <4>3
    <3>4. \A x \in Rec : Exists(x)' => rows'[x].items \subseteq people'
      BY <1>1, <1>2, <2>2, <2>3, <2>5 DEF AskedInv, Exists
    <3> QED BY <3>2, <3>3, <3>4 DEF AskedInv
  <2>10. ShareInv'
    <3>1. \A q \in Proc : ~At(q, "idle")' => Within(req'[q].want)
      BY <1>1, <1>2, <2>1, <2>6 DEF ShareInv, At, Idle
    <3>2. PICK by \in [Added(r) -> Proc] : Shares(r, by)
      BY <1>1, <2>2 DEF ShareInv
    <3>3. PICK S \in SUBSET Related, T \in SUBSET Related :
              S = Added(r) /\ T = items \ (joined[r] \ want)
      BY <1>1, <2>2, RowIs DEF Added
    <3>4. T \ S \subseteq want /\ Added(r)' = T
      <4>1. joined'[r] = joined[r] \ want
        BY <1>1, <2>4 DEF CrudTypes
      <4>2. Added(r)' = T
        BY <2>5, <3>3, <4>1 DEF Added
      <4> QED BY <2>3, <3>3, <4>2 DEF Added
    <3> DEFINE new == [i \in T |-> IF i \in S THEN by[i] ELSE p]
    <3>5. new \in [T -> Proc] /\ \A i \in T : new[i] = IF i \in S THEN by[i] ELSE p
      BY <3>2, <3>3
    <3> HIDE DEF new
    <3>6. Share(T, new, p) \subseteq want
      BY <2>1, <2>2, <2>3, <3>2, <3>3, <3>4, <3>5 DEF Shares, Share
    <3>7. \A q \in Proc \ {p} : Share(T, new, q) \subseteq Share(S, by, q)
      BY <3>5 DEF Share
    <3>8. ASSUME NEW q \in Proc
          PROVE  Within(Share(T, new, q))
      <4>1. CASE q = p
        BY <1>1, <1>2, <2>1, <3>6, <4>1, Smaller DEF ShareInv
      <4>2. CASE q # p
        <5>1. Within(Share(S, by, q)) /\ Share(S, by, q) \in SUBSET Related
          BY <3>2, <3>3 DEF Shares, Share
        <5> QED BY <3>7, <4>2, <5>1, Smaller
      <4> QED BY <4>1, <4>2
    <3>9. ASSUME NEW x \in Rec, Exists(x)'
          PROVE  \E ways \in [Added(x)' -> Proc] : Shares(x, ways)'
      <4>1. CASE x = r
        <5>1. Shares(r, new)'
          BY <2>7, <3>2, <3>3, <3>4, <3>7, <3>8 DEF Shares, Within
        <5> QED BY <3>4, <3>5, <4>1, <5>1
      <4>2. CASE x # r
        <5>1. Exists(x) /\ Added(x)' = Added(x)
          <6>1. joined'[x] = joined[x]
            BY <1>1, <2>4, <4>2 DEF CrudTypes
          <6> QED BY <2>5, <3>9, <4>2, <6>1 DEF Exists, Added
        <5>2. PICK ways \in [Added(x) -> Proc] : Shares(x, ways)
          BY <1>1, <5>1 DEF ShareInv
        <5>3. Shares(x, ways)'
          BY <2>7, <5>1, <5>2 DEF Shares, Within
        <5> QED BY <5>1, <5>2, <5>3
      <4> QED BY <4>1, <4>2
    <3> QED BY <3>1, <3>9 DEF ShareInv
  <2>11. LockInv' /\ DeleteInv'
    <3>1. \A x \in Rec : Exists(x)' <=> Exists(x)
      BY <2>2, <2>5 DEF Exists
    <3>2. \A q \in Proc \ {p} : ~At(q, "idle") => \A x \in req[q].pending : Exists(x)'
      BY <1>1, <3>1, RequestIs DEF LockInv, LockPart, Requests
    <3>3. fresh' \subseteq fresh /\ \A x \in Rec \ fresh : Exists(x)' => Exists(x)
      BY <1>2, <3>1
    <3>4. DeletePart(p)'
      BY <2>6 DEF DeletePart, At, Idle
    <3>5. \/ At(p, "idle")'
          \/ req'[p].pending = {} /\ req'[p].left # <<>>
      BY <1>1, <1>2, <2>6 DEF LockInv, LockPart, At, Idle
    <3> QED BY <1>1, <2>6, <3>2, <3>3, <3>4, <3>5, OthersStay
  <2> QED BY <2>8, <2>9, <2>10, <2>11 DEF CrudInv
<1> QED BY <1>4, <1>5

LEMMA DeleteOneKeeps ==
    ASSUME CrudInv, NEW p \in Proc, DeleteOne(p)
    PROVE  CrudInv'
<1>1. CrudTypes /\ AskedInv /\ ShareInv /\ LockInv /\ DeleteInv
  BY DEF CrudInv
<1>2. At(p, "delete") /\ ~At(p, "idle") /\ req[p].left # <<>> /\ UNCHANGED <<rows, fresh, people, history>>
  BY DEF DeleteOne, Refusal, At, others
<1>3. PICK r \in Rec : r = Target(p)
  BY <1>1, <1>2, TargetIs
<1>4. CASE ~Permitted(req[p].by, "d", r)
  BY <1>2, <1>3, <1>4, EndKeeps DEF DeleteOne, Refusal
<1>5. CASE Permitted(req[p].by, "d", r)
  <2>1. req[p] \in Requests
    BY <1>1, <1>2, RequestIs
  <2>2. PICK ids \in Seq(Rec), left \in Seq(Rec), pending \in SUBSET Rec :
            ids = req[p].ids /\ left = req[p].left /\ pending = req[p].pending
    BY <2>1 DEF Requests
  <2>3. PICK written \in SUBSET Rec :
            written = IF Exists(r) THEN pending \cup {r} ELSE pending
    OBVIOUS
  <2>4. /\ left # <<>> /\ Tail(left) \in Seq(Rec) /\ Len(Tail(left)) = Len(left) - 1
        /\ r = left[1] /\ \A i \in 1..Len(Tail(left)) : Tail(left)[i] = left[i + 1]
    BY <1>2, <1>3, <2>2 DEF Target
  <2>5. req' = [req EXCEPT ![p] = [req[p] EXCEPT !.left = Tail(left), !.pending = written]]
    BY <1>3, <1>5, <2>2, <2>3 DEF DeleteOne
  <2>6. /\ req'[p] = [req[p] EXCEPT !.left = Tail(left), !.pending = written]
        /\ \A q \in Proc \ {p} : req'[q] = req[q]
    BY <1>1, <2>5 DEF CrudTypes
  <2>7. /\ req'[p] \in Requests /\ req'[p].step = "delete" /\ req'[p].ids = ids
        /\ req'[p].left = Tail(left) /\ req'[p].pending = written
        /\ req'[p].want = req[p].want /\ req'[p].by = req[p].by
    BY <1>2, <2>1, <2>2, <2>4, <2>6 DEF Requests, At
  <2>8. CrudTypes'
    BY <1>1, <1>2, <2>5, <2>6, <2>7 DEF CrudTypes, history
  <2>9. \A x \in Rec : (Exists(x)' <=> Exists(x)) /\ Queried(x)' = Queried(x)
    BY <1>2 DEF Exists, Queried
  <2>10. AskedInv' /\ ShareInv'
    <3>1. \A q \in Proc, x \in Rec : Writing(q, x)' => Writing(q, x) /\ req'[q].have = req[q].have
      BY <2>6, <2>7 DEF Writing, At, Target
    <3>2. \A q \in Proc : ~At(q, "idle")' => Within(req'[q].want)
      BY <1>1, <1>2, <2>6, <2>7 DEF ShareInv, At
    <3>3. \A x \in Rec : Exists(x)' => Exists(x) /\ rows'[x].items = rows[x].items
      BY <1>2, <2>9
    <3>4. fresh \subseteq Rec
      BY <1>1 DEF CrudTypes
    <3> QED BY <1>1, <1>2, <3>1, <3>2, <3>3, <3>4, ItemsStay
  <2>11. ASSUME NEW q \in Proc
         PROVE  LockPart(q)'
    <3>1. CASE q = p
      <4>1. ASSUME NEW x \in written
            PROVE  Exists(x)' /\ Unlocked(p, x)'
        <5>1. Exists(x) /\ Unlocked(p, x)
          BY <1>1, <1>2, <1>3, <2>2, <2>3 DEF LockInv, LockPart, DeleteOne
        <5> QED BY <2>3, <2>6, <2>9, <5>1 DEF Unlocked, Busy, At
      <4> QED BY <2>7, <3>1, <4>1 DEF LockPart, At
    <3>2. CASE q # p
      <4>1. ASSUME ~At(q, "idle"), NEW x \in req[q].pending
            PROVE  Exists(x)' /\ Unlocked(q, x)'
        <5>1. x \in Rec /\ Exists(x) /\ Unlocked(q, x) /\ q \in Busy \ {p}
          BY <1>1, <3>2, <4>1, RequestIs DEF LockInv, LockPart, Busy, Requests
        <5>2. x # r
          BY <1>3, <4>1, <5>1 DEF DeleteOne, Unlocked
        <5>3. x \notin written
          BY <1>2, <2>2, <2>3, <3>2, <5>1, <5>2 DEF Unlocked, Busy
        <5>4. Unlocked(q, x)'
          BY <2>6, <2>7, <5>1, <5>3 DEF Unlocked, Busy, At
        <5> QED BY <2>9, <5>1, <5>4
      <4>2. req'[q] = req[q]
        BY <2>6, <3>2
      <4> QED BY <1>1, <4>1, <4>2 DEF LockInv, LockPart, At
    <3> QED BY <3>1, <3>2
  <2>12. ASSUME NEW q \in Proc
         PROVE  DeletePart(q)'
    <3>1. CASE q # p
      <4>1. ~At(q, "idle") => \A x \in req[q].pending : Exists(x)'
        BY <1>1, <2>9, RequestIs DEF LockInv, LockPart, Requests
      <4>2. LockPart(q) /\ DeletePart(q) /\ req'[q] = req[q] /\ fresh' \subseteq fresh
        BY <1>1, <1>2, <2>6, <3>1 DEF LockInv, DeleteInv
      <4>3. \A x \in Rec \ fresh : Exists(x)' => Exists(x)
        BY <2>9
      <4> QED BY <1>1, <4>1, <4>2, <4>3, DeletionStays
    <3>2. CASE q = p
      <4>1. PICK n \in 0..Len(ids) : Progress(p, n)
        BY <1>1, <1>2, <2>2 DEF DeleteInv, DeletePart
      <4>2. /\ Len(left) = Len(ids) - n /\ \A i \in 1..Len(left) : left[i] = ids[n + i]
            /\ \A i \in 1..n : Handled(p, ids[i])
        BY <2>2, <4>1 DEF Progress
      <4>3. Len(left) \in Nat /\ Len(left) # 0 /\ Len(ids) \in Nat
        BY <2>2, <2>4
      <4>4. n + 1 \in 0..Len(ids) /\ r = ids[n + 1]
        BY <2>4, <4>2, <4>3
      <4>5. ASSUME NEW i \in 1..(n + 1)
            PROVE  Handled(p, ids[i])'
        <5>1. PICK x \in Rec : x = ids[i]
          BY <2>2, <4>3, <4>4
        <5>2. Permitted(req[p].by, "d", x) /\ (Exists(x) => x \in written)
          <6>1. CASE i = n + 1
            BY <1>5, <2>3, <4>4, <5>1, <6>1
          <6>2. CASE i # n + 1
            <7>1. i \in 1..n
              BY <6>2
            <7> QED BY <2>2, <2>3, <4>2, <5>1, <7>1 DEF Handled
          <6> QED BY <6>1, <6>2
        <5>3. Handled(p, x)'
          BY <2>7, <2>9, <5>2 DEF Handled, Permitted
        <5> QED BY <5>1, <5>3
      <4>6. Progress(p, n + 1)'
        <5>1. Len(Tail(left)) = Len(ids) - (n + 1)
          BY <2>4, <4>2, <4>3
        <5>2. ASSUME NEW i \in 1..Len(Tail(left))
              PROVE  Tail(left)[i] = ids[(n + 1) + i]
          <6>1. Tail(left)[i] = left[i + 1] /\ i + 1 \in 1..Len(left)
            BY <2>4, <4>3
          <6>2. left[i + 1] = ids[n + (i + 1)]
            BY <4>2, <6>1
          <6>3. n + (i + 1) = (n + 1) + i
            OBVIOUS
          <6> QED BY <6>1, <6>2, <6>3
        <5> QED BY <2>7, <4>5, <5>1, <5>2 DEF Progress
      <4>7. \A i \in 1..Len(ids) : ids[i] \notin fresh'
        BY <1>1, <1>2, <2>2 DEF DeleteInv, DeletePart
      <4> QED BY <2>7, <3>2, <4>4, <4>6, <4>7 DEF DeletePart
    <3> QED BY <3>1, <3>2
  <2> QED BY <2>8, <2>10, <2>11, <2>12 DEF CrudInv, LockInv, DeleteInv
<1> QED BY <1>4, <1>5

LEMMA FlushedIs ==
    ASSUME CrudTypes, LockInv, NEW p \in Proc, ~At(p, "idle"), rows' = Flushed(p)
    PROVE  /\ rows' \in [Rec -> {NoRow} \cup Stored]
           /\ \A x \in Rec :
                 /\ x \notin req[p].pending => rows'[x] = rows[x]
                 /\ x \in req[p].pending => rows'[x] = NoRow \/ rows'[x].status = "disabled"
                 /\ Exists(x)' => Exists(x) /\ rows'[x].items = rows[x].items
<1>1. ASSUME NEW x \in Rec
      PROVE  /\ rows'[x] \in {NoRow} \cup Stored
             /\ x \notin req[p].pending => rows'[x] = rows[x]
             /\ x \in req[p].pending => rows'[x] = NoRow \/ rows'[x].status = "disabled"
             /\ Exists(x)' => Exists(x) /\ rows'[x].items = rows[x].items
  <2>1. CASE x \notin req[p].pending
    BY <2>1 DEF Flushed, CrudTypes, Exists
  <2>2. CASE x \in req[p].pending
    <3>1. Exists(x) /\ rows[x] \in Stored
      BY <2>2, RowIs DEF LockInv, LockPart
    <3>2. /\ [rows[x] EXCEPT !.status = "disabled"] \in Stored
          /\ [rows[x] EXCEPT !.status = "disabled"].items = rows[x].items
          /\ [rows[x] EXCEPT !.status = "disabled"].status = "disabled"
      BY <3>1 DEF Stored
    <3>3. rows'[x] = IF req[p].kind = "disable" THEN [rows[x] EXCEPT !.status = "disabled"]
                     ELSE NoRow
      BY <2>2 DEF Flushed
    <3> QED BY <2>2, <3>1, <3>2, <3>3 DEF Exists
  <2> QED BY <2>1, <2>2
<1> QED BY <1>1 DEF Flushed

LEMMA DeleteCommitKeeps ==
    ASSUME CrudInv, NEW p \in Proc, DeleteCommit(p)
    PROVE  CrudInv'
<1>1. CrudTypes /\ AskedInv /\ ShareInv /\ LockInv /\ DeleteInv
  BY DEF CrudInv
<1>2. /\ At(p, "delete") /\ ~At(p, "idle") /\ rows' = Flushed(p) /\ End(p)
      /\ UNCHANGED <<fresh, people, history>>
  BY DEF DeleteCommit, At, others
<1>3. /\ rows' \in [Rec -> {NoRow} \cup Stored]
      /\ \A x \in Rec : /\ x \notin req[p].pending => rows'[x] = rows[x]
                        /\ Exists(x)' => Exists(x) /\ rows'[x].items = rows[x].items
  BY <1>1, <1>2, FlushedIs
<1>4. /\ req' \in [Proc -> {Idle} \cup Requests] /\ At(p, "idle")' /\ req'[p] = Idle
      /\ \A q \in Proc \ {p} : req'[q] = req[q]
  BY <1>1, <1>2, EndIs
<1>5. CrudTypes'
  BY <1>1, <1>2, <1>3, <1>4 DEF CrudTypes, history
<1>6. AskedInv' /\ ShareInv'
  <2>1. \A q \in Proc, x \in Rec : Writing(q, x)' => Writing(q, x) /\ req'[q].have = req[q].have
    BY <1>4 DEF Writing, At, Target
  <2>2. \A q \in Proc : ~At(q, "idle")' => Within(req'[q].want)
    BY <1>1, <1>4 DEF ShareInv, At
  <2>3. fresh \subseteq Rec
    BY <1>1 DEF CrudTypes
  <2> QED BY <1>1, <1>2, <1>3, <2>1, <2>2, <2>3, ItemsStay
<1>7. LockInv' /\ DeleteInv'
  <2>1. ASSUME NEW q \in Proc \ {p}, ~At(q, "idle"), NEW x \in req[q].pending
        PROVE  Exists(x)'
    <3>1. x \in Rec /\ Exists(x) /\ Unlocked(q, x)
      BY <1>1, <2>1, RequestIs DEF LockInv, LockPart, Requests
    <3>2. x \notin req[p].pending
      BY <1>2, <3>1 DEF Unlocked, Busy
    <3> QED BY <1>3, <3>1, <3>2 DEF Exists
  <2>2. fresh' \subseteq fresh /\ \A x \in Rec \ fresh : Exists(x)' => Exists(x)
    BY <1>2, <1>3
  <2>3. DeletePart(p)'
    BY <1>4 DEF DeletePart, At
  <2> QED BY <1>1, <1>4, <2>1, <2>2, <2>3, OthersStay
<1> QED BY <1>5, <1>6, <1>7 DEF CrudInv

\* A step that no request takes: it may take rows away that no session has written.
LEMMA NoRequestKeeps ==
    ASSUME CrudTypes, LockInv, DeleteInv, req' = req, fresh' = fresh,
           \A r \in Rec : Exists(r)' => Exists(r),
           \A q \in Proc, r \in Rec :
               (~At(q, "idle") /\ r \in req[q].pending /\ Exists(r)) => Exists(r)'
    PROVE  LockInv' /\ DeleteInv'
<1>1. ASSUME NEW q \in Proc
      PROVE  LockPart(q)' /\ DeletePart(q)'
  <2>1. LockPart(q) /\ DeletePart(q)
    BY DEF LockInv, DeleteInv
  <2>2. ~At(q, "idle") => \A r \in req[q].pending : Exists(r)'
    BY <2>1, RequestIs DEF LockPart, Requests
  <2>3. DeletePart(q)'
    BY <2>1, <2>2, DeletionStays
  <2>4. LockPart(q)'
    BY <2>1, <2>2 DEF LockPart, Unlocked, Busy, At
  <2> QED BY <2>3, <2>4
<1> QED BY <1>1 DEF LockInv, DeleteInv

\* Lists that lose records, all of which are recorded.
LEMMA SharesStay ==
    ASSUME CrudTypes, ShareInv, req' = req,
           \A r \in Rec : Exists(r)' => Exists(r) /\ Added(r)' \subseteq Added(r)
    PROVE  ShareInv'
<1>1. ASSUME NEW r \in Rec, Exists(r)'
      PROVE  \E by \in [Added(r)' -> Proc] : Shares(r, by)'
  <2>1. PICK by \in [Added(r) -> Proc] : Shares(r, by)
    BY <1>1 DEF ShareInv
  <2>2. PICK S \in SUBSET Related, T \in SUBSET Related :
            S = Added(r) /\ T = Added(r)' /\ T \subseteq S
    BY <1>1, RowIs DEF Added
  <2>3. PICK to \in [T -> Proc] : \A p \in Proc :
            /\ Share(T, to, p) \subseteq Share(S, by, p)
            /\ Within(Share(S, by, p)) => Within(Share(T, to, p))
    BY <2>1, <2>2, SharesShrink
  <2>4. ASSUME NEW p \in Proc
        PROVE  /\ Within(Share(T, to, p))
               /\ Writing(p, r) => Share(T, to, p) \subseteq req[p].have
    BY <2>1, <2>2, <2>3 DEF Shares
  <2>5. Shares(r, to)'
    BY <2>2, <2>4 DEF Shares, Within, Writing, At, Target
  <2> QED BY <2>2, <2>3, <2>5
<1>2. \A p \in Proc : ~At(p, "idle")' => Within(req'[p].want)
  BY DEF ShareInv, At
<1> QED BY <1>1, <1>2 DEF ShareInv, Within

LEMMA JoinListsKeeps ==
    ASSUME CrudInv, UNCHANGED <<rows, fresh, req, people, history>>
    PROVE  CrudInv'
<1>1. /\ rows' = rows /\ fresh' = fresh /\ req' = req /\ people' = people
      /\ asked' = asked /\ raced' = raced /\ joined' = joined
  BY DEF history
<1>2. CrudTypes'
  BY <1>1 DEF CrudInv, CrudTypes
<1>3. AskedInv'
  BY <1>1 DEF CrudInv, AskedInv, Writing, At, Target, Exists
<1>4. ShareInv'
  BY <1>1, SharesStay DEF CrudInv, Added, Exists
<1>5. LockInv' /\ DeleteInv'
  BY <1>1, NoRequestKeeps DEF CrudInv, Exists
<1> QED BY <1>2, <1>3, <1>4, <1>5 DEF CrudInv

LEMMA JoinKeeps ==
    ASSUME CrudInv, NEW p \in Proc, Join(p)
    PROVE  CrudInv'
<1>1. CrudTypes /\ AskedInv /\ ShareInv /\ LockInv /\ DeleteInv
  BY DEF CrudInv
<1>2. /\ UNCHANGED <<fresh, req, people>>
      /\ \E j \in joins[p] :
           IF JoinClash(j) THEN UNCHANGED <<rows, history>>
           ELSE /\ rows' = [r \in Rec |->
                     IF Exists(r) THEN [rows[r] EXCEPT !.items = With(@, r, j)] ELSE rows[r]]
                /\ asked' = [r \in Rec |-> With(asked[r], r, j)]
                /\ joined' = [r \in Rec |-> With(joined[r], r, j)]
                /\ raced' = raced \cup {r \in Entered(j) \cup Left(j) :
                                          \E q \in Proc : At(q, "link") /\ Target(q) = r}
  BY DEF Join
<1>3. PICK j \in joins[p] :
           IF JoinClash(j) THEN UNCHANGED <<rows, history>>
           ELSE /\ rows' = [r \in Rec |->
                     IF Exists(r) THEN [rows[r] EXCEPT !.items = With(@, r, j)] ELSE rows[r]]
                /\ asked' = [r \in Rec |-> With(asked[r], r, j)]
                /\ joined' = [r \in Rec |-> With(joined[r], r, j)]
                /\ raced' = raced \cup {r \in Entered(j) \cup Left(j) :
                                          \E q \in Proc : At(q, "link") /\ Target(q) = r}
  BY <1>2
<1>4. CASE JoinClash(j)
  BY <1>2, <1>3, <1>4, JoinListsKeeps
<1>5. CASE ~JoinClash(j)
  <2>1. j.who \in people /\ \A r \in Entered(j) \cup Left(j) : Exists(r) \/ r \notin Rec
    BY <1>5 DEF JoinClash
  <2>2. ASSUME NEW r \in Rec
        PROVE  /\ asked'[r] = With(asked[r], r, j) /\ joined'[r] = With(joined[r], r, j)
               /\ ~Exists(r) => rows'[r] = NoRow
               /\ Exists(r) => /\ rows'[r] \in Stored
                               /\ rows'[r].items = With(rows[r].items, r, j)
    <3>1. asked'[r] = With(asked[r], r, j) /\ joined'[r] = With(joined[r], r, j)
      BY <1>3, <1>5
    <3>2. ASSUME Exists(r)
          PROVE  rows'[r] \in Stored /\ rows'[r].items = With(rows[r].items, r, j)
      <4>1. PICK row \in Stored, items \in SUBSET Related :
                row = rows[r] /\ items = With(rows[r].items, r, j)
        BY <1>1, <2>1, <3>2, RowIs DEF With, CrudTypes
      <4>2. rows'[r] = [row EXCEPT !.items = items]
        BY <1>3, <1>5, <3>2, <4>1
      <4> QED BY <4>1, <4>2 DEF Stored
    <3>3. ~Exists(r) => rows'[r] = NoRow
      BY <1>3, <1>5 DEF Exists
    <3> QED BY <3>1, <3>2, <3>3
  <2>3. \A r \in Rec : Exists(r)' <=> Exists(r)
    BY <2>2, CrudConstants DEF Exists
  <2>4. CrudTypes'
    <3>1. rows' \in [Rec -> {NoRow} \cup Stored]
      BY <1>3, <1>5, <2>2
    <3>2. \A r \in Rec : With(asked[r], r, j) \in SUBSET Related
                        /\ With(joined[r], r, j) \in SUBSET Related
      BY <1>1, <2>1 DEF With, CrudTypes
    <3>3. asked' \in [Rec -> SUBSET Related] /\ joined' \in [Rec -> SUBSET Related]
      BY <1>3, <1>5, <3>2
    <3>4. raced' \subseteq Rec
      <4>1. \A q \in Proc : At(q, "link") => Target(q) \in Rec
        BY <1>1, TargetIs DEF At
      <4> QED BY <1>1, <1>3, <1>5, <4>1 DEF CrudTypes
    <3> QED BY <1>1, <1>2, <3>1, <3>3, <3>4 DEF CrudTypes
  <2>5. AskedInv'
    <3>1. \A q \in Proc, r \in Rec : Writing(q, r)' <=> Writing(q, r)
      BY <1>2 DEF Writing, At, Target
    <3>2. ASSUME NEW r \in fresh'
          PROVE  ~Exists(r)' /\ asked'[r] = {} /\ \A q \in Proc : ~Writing(q, r)'
      <4>1. r \in fresh /\ r \in Rec /\ ~Exists(r)
        BY <1>1, <1>2 DEF AskedInv, CrudTypes
      <4>2. asked'[r] = asked[r]
        BY <2>1, <2>2, <4>1 DEF With
      <4> QED BY <1>1, <2>3, <3>1, <4>1, <4>2 DEF AskedInv
    <3>3. ASSUME NEW r \in Rec, Exists(r)'
          PROVE  rows'[r].items \subseteq people'
      <4>1. rows[r].items \subseteq people /\ rows'[r].items = With(rows[r].items, r, j)
        BY <1>1, <2>2, <2>3, <3>3 DEF AskedInv
      <4>2. With(rows[r].items, r, j) \subseteq people
        BY <2>1, <4>1 DEF With
      <4> QED BY <1>2, <4>1, <4>2
    <3>4. ASSUME NEW r \in Rec \ raced'
          PROVE  /\ Exists(r)' => rows'[r].items = asked'[r]
                 /\ \A q \in Proc : Writing(q, r)' =>
                       /\ Exists(r)' => req'[q].have \cap people' = rows'[r].items
                       /\ \A o \in Proc \ {q} : ~Writing(o, r)'
      <4>1. /\ r \in Rec \ raced
            /\ r \in Entered(j) \cup Left(j) => \A q \in Proc : ~Writing(q, r)
        BY <1>3, <1>5 DEF Writing
      <4>2. CASE r \in Entered(j) \cup Left(j)
        BY <1>1, <2>2, <2>3, <3>1, <4>1, <4>2 DEF AskedInv
      <4>3. CASE r \notin Entered(j) \cup Left(j)
        <5>1. asked'[r] = asked[r] /\ (Exists(r) => rows'[r].items = rows[r].items)
          BY <2>2, <4>3 DEF With
        <5> QED BY <1>1, <1>2, <2>3, <3>1, <4>1, <5>1 DEF AskedInv
      <4> QED BY <4>2, <4>3
    <3> QED BY <3>2, <3>3, <3>4 DEF AskedInv
  <2>6. ShareInv'
    <3>1. ASSUME NEW r \in Rec, Exists(r)'
          PROVE  Exists(r) /\ Added(r)' \subseteq Added(r)
      BY <2>2, <2>3, <3>1 DEF Added, With
    <3> QED BY <1>1, <1>2, <3>1, SharesStay
  <2>7. LockInv' /\ DeleteInv'
    BY <1>1, <1>2, <2>3, NoRequestKeeps
  <2> QED BY <2>4, <2>5, <2>6, <2>7 DEF CrudInv
<1> QED BY <1>4, <1>5

LEMMA PurgeRelatedKeeps ==
    ASSUME CrudInv, NEW p \in Proc, NEW m \in Related, PurgeRelated(p, m)
    PROVE  CrudInv'
<1>1. CrudTypes /\ AskedInv /\ ShareInv /\ LockInv /\ DeleteInv
  BY DEF CrudInv
<1>2. /\ fresh' = fresh /\ req' = req /\ raced' = raced /\ joined' = joined
      /\ people' = people \ {m} /\ asked' = [r \in Rec |-> asked[r] \ {m}]
      /\ rows' = [r \in Rec |-> IF Exists(r) /\ Attr[r].owner # m
                                THEN [rows[r] EXCEPT !.items = @ \ {m}] ELSE NoRow]
      /\ At(p, "idle") /\ \A r \in Rec : Attr[r].owner = m => Unlocked(p, r)
  BY DEF PurgeRelated, Free
<1>3. ASSUME NEW r \in Rec
      PROVE  /\ asked'[r] = asked[r] \ {m}
             /\ rows'[r] = NoRow \/ (rows'[r] \in Stored /\ Exists(r)
                                     /\ rows'[r].items = rows[r].items \ {m})
             /\ (Exists(r) /\ Attr[r].owner # m) => Exists(r)'
  <2>1. asked'[r] = asked[r] \ {m}
    BY <1>2
  <2>2. CASE Exists(r) /\ Attr[r].owner # m
    <3>1. PICK row \in Stored : row = rows[r]
      BY <1>1, <2>2, RowIs
    <3>2. rows'[r] = [row EXCEPT !.items = row.items \ {m}]
      BY <1>2, <2>2, <3>1
    <3>3. rows'[r] \in Stored /\ rows'[r].items = row.items \ {m}
      BY <3>1, <3>2 DEF Stored
    <3> QED BY <2>1, <2>2, <3>1, <3>3, CrudConstants DEF Exists
  <2>3. CASE ~(Exists(r) /\ Attr[r].owner # m)
    <3>1. rows'[r] = NoRow
      BY <1>2, <2>3
    <3> QED BY <2>1, <2>3, <3>1
  <2> QED BY <2>2, <2>3
<1>4. \A r \in Rec : Exists(r)' => Exists(r) /\ rows'[r].items = rows[r].items \ {m}
  BY <1>3 DEF Exists
<1>5. CrudTypes'
  <2>1. rows' \in [Rec -> {NoRow} \cup Stored]
    BY <1>2, <1>3
  <2>2. asked' \in [Rec -> SUBSET Related]
    BY <1>1, <1>2 DEF CrudTypes
  <2> QED BY <1>1, <1>2, <2>1, <2>2 DEF CrudTypes
<1>6. AskedInv'
  <2>1. \A q \in Proc, r \in Rec : Writing(q, r)' <=> Writing(q, r)
    BY <1>2 DEF Writing, At, Target
  <2>2. ASSUME NEW r \in fresh'
        PROVE  ~Exists(r)' /\ asked'[r] = {} /\ \A q \in Proc : ~Writing(q, r)'
    <3>1. r \in fresh /\ r \in Rec
      BY <1>1, <1>2 DEF CrudTypes
    <3> QED BY <1>1, <1>3, <1>4, <2>1, <3>1 DEF AskedInv
  <2>3. \A r \in Rec : Exists(r)' => rows'[r].items \subseteq people'
    BY <1>1, <1>2, <1>4 DEF AskedInv
  <2>4. ASSUME NEW r \in Rec \ raced'
        PROVE  /\ Exists(r)' => rows'[r].items = asked'[r]
               /\ \A q \in Proc : Writing(q, r)' =>
                     /\ Exists(r)' => req'[q].have \cap people' = rows'[r].items
                     /\ \A o \in Proc \ {q} : ~Writing(o, r)'
    BY <1>1, <1>2, <1>3, <1>4, <2>1 DEF AskedInv
  <2> QED BY <2>2, <2>3, <2>4 DEF AskedInv
<1>7. ShareInv'
  <2>1. \A r \in Rec : Exists(r)' => Exists(r) /\ Added(r)' \subseteq Added(r)
    BY <1>2, <1>4 DEF Added
  <2> QED BY <1>1, <1>2, <2>1, SharesStay
<1>8. LockInv' /\ DeleteInv'
  <2>1. ASSUME NEW q \in Proc, NEW r \in Rec, ~At(q, "idle"), r \in req[q].pending, Exists(r)
        PROVE  Exists(r)'
    BY <1>2, <1>3, <2>1 DEF Unlocked, Busy
  <2>2. \A r \in Rec : Exists(r)' => Exists(r)
    BY <1>4
  <2> QED BY <1>1, <1>2, <2>1, <2>2, NoRequestKeeps
<1> QED BY <1>5, <1>6, <1>7, <1>8 DEF CrudInv

LEMMA CrudStep == CrudInv /\ [CrudNext]_crudVars => CrudInv'
<1> SUFFICES ASSUME CrudInv, [CrudNext]_crudVars PROVE CrudInv'
  OBVIOUS
<1>1. CASE UNCHANGED crudVars
  BY <1>1, JoinListsKeeps DEF crudVars, others
<1>2. CASE CrudNext
  <2>1. ASSUME NEW p \in Proc, NEW s \in Clients, NEW r \in Rec, NEW want \in Wants,
               Create(p, s, r, want)
        PROVE  CrudInv'
    BY <2>1, CreateKeeps, CrudConstants DEF Wants
  <2>2. ASSUME NEW p \in Proc, NEW s \in Clients, NEW r \in Rec, NEW want \in Wants,
               UpdateRelated(p, s, r, want)
        PROVE  CrudInv'
    <3>1. s \in Sessions /\ want \in SUBSET Related /\ "related" \in {"related", "permit"}
      BY CrudConstants DEF Wants
    <3>2. /\ Within(want) /\ UNCHANGED <<rows, fresh, people, history>>
          /\ Send(p, "update", "related", s, <<r>>, want)
      BY <2>2 DEF UpdateRelated, others
    <3> QED BY <3>1, <3>2, UpdateKeeps
  <2>3. ASSUME NEW p \in Proc, NEW s \in Clients, NEW r \in Rec, UpdateRecord(p, s, r)
        PROVE  CrudInv'
    <3>1. s \in Sessions /\ {} \in SUBSET Related /\ "permit" \in {"related", "permit"}
      BY CrudConstants
    <3>2. /\ UNCHANGED <<rows, fresh, people, history>>
          /\ Send(p, "update", "permit", s, <<r>>, {})
      BY <2>3 DEF UpdateRecord, others
    <3> QED BY <3>1, <3>2, EmptyWithin, UpdateKeeps
  <2>4. ASSUME NEW p \in Proc, NEW s \in Clients, NEW r \in Rec, Restore(p, s, r)
        PROVE  CrudInv'
    BY <2>4, RestoreKeeps, CrudConstants
  <2>5. ASSUME NEW p \in Proc, NEW s \in Clients, NEW ids \in Batches,
               NEW kind \in {"disable", "remove", "purge"}, Delete(p, s, ids, kind)
        PROVE  CrudInv'
    BY <2>5, DeleteKeeps, CrudConstants
  <2>6. ASSUME NEW p \in Proc,
               Created(p) \/ ReadRelated(p) \/ Link(p)
               \/ DeleteOne(p) \/ DeleteCommit(p) \/ Fails(p)
        PROVE  CrudInv'
    <3>1. CASE Created(p) \/ Fails(p)
      BY <3>1, EndKeeps DEF Created, Fails, others
    <3>2. CASE ReadRelated(p)
      BY <3>2, ReadKeeps
    <3>3. CASE Link(p)
      BY <3>3, LinkKeeps
    <3>5. CASE DeleteOne(p)
      BY <3>5, DeleteOneKeeps
    <3>6. CASE DeleteCommit(p)
      BY <3>6, DeleteCommitKeeps
    <3> QED BY <2>6, <3>1, <3>2, <3>3, <3>5, <3>6
  <2>7. ASSUME NEW p \in Proc, NEW status \in {"active", "disabled"}, Permit(p, status)
        PROVE  CrudInv'
    BY <2>7, PermitKeeps
  <2>8. ASSUME NEW p \in Proc, NEW m \in Related,
               PurgeRelated(p, m) \/ \E lists \in SUBSET TwoSided : JoinLists(p, m, lists)
        PROVE  CrudInv'
    BY <2>8, PurgeRelatedKeeps, JoinListsKeeps DEF JoinLists
  <2>9. ASSUME NEW p \in Proc, Join(p) \/ JoinFails(p)
        PROVE  CrudInv'
    BY <2>9, JoinKeeps, JoinListsKeeps DEF JoinFails
  <2> QED BY <1>2, <2>1, <2>2, <2>3, <2>4, <2>5, <2>6, <2>7, <2>8, <2>9 DEF CrudNext
<1> QED BY <1>1, <1>2

\* Paging reads: what changes records is a step of the requests.
LEMMA ListingSteps == [ListingNext]_vars => [CrudNext]_crudVars
  BY DEF ListingInit, ListingNext, StartListing, NextPage, OtherRequest, Done, vars, crudVars

\* Whatever requests are in progress, CrudInv holds.
THEOREM CrudInvariant == ListingSpec => []CrudInv
<1>1. ListingInit => CrudInv
  BY CrudInitial DEF ListingInit
<1>2. CrudInv /\ [ListingNext]_vars => CrudInv'
  BY CrudStep, ListingSteps
<1> QED BY <1>1, <1>2, PTL DEF ListingSpec

\* Unless two requests write it at a time, a related list is the last one that was
\* committed, after what persons have changed of their own membership since and without
\* those who were purged, wherever a create or an update fails.
THEOREM RelatedListsAreAsked == ListingSpec => []RelatedAsAsked
<1>1. CrudInv => RelatedAsAsked
  BY DEF CrudInv, AskedInv, RelatedAsAsked
<1> QED BY <1>1, CrudInvariant, PTL

\* A set whose members are shared out, so many to each, is no larger than all shares.
LEMMA SharesBound ==
    ASSUME NEW S \in SUBSET Related, NEW by \in [S -> Proc],
           \A p \in Proc : Cardinality(Share(S, by, p)) <= LimitRelated
    PROVE  Cardinality(S) <= LimitRelated * Cardinality(Proc)
<1> USE DEF Share
<1> DEFINE share(p) == Share(S, by, p)
           places == 1..LimitRelated
<1>1. ASSUME NEW p \in Proc
      PROVE  \E f \in [share(p) -> places] : \A i, j \in share(p) : f[i] = f[j] => i = j
  <2>1. PICK T : T = share(p)
    OBVIOUS
  <2>2. IsFiniteSet(T)
    BY <2>1, CrudConstants, FS_Subset
  <2>3. PICK n \in Nat : n = Cardinality(T) /\ n <= LimitRelated
    BY <2>1, <2>2, FS_CardinalityType
  <2>4. PICK b : b \in Bijection(1..n, T)
    BY <2>2, <2>3, FS_CardinalityType DEF ExistsBijection
  <2>5. b \in [1..n -> T] /\ \A i \in T : \E k \in 1..n : b[k] = i
    BY <2>4 DEF Bijection, Injection, Surjection
  <2> DEFINE f == [i \in T |-> CHOOSE k \in 1..n : b[k] = i]
  <2>6. \A i \in T : f[i] \in 1..n /\ b[f[i]] = i
    BY <2>5
  <2>7. 1..n \subseteq places
    BY <2>3, CrudConstants
  <2>8. f \in [T -> places]
    BY <2>6, <2>7
  <2>9. \A i, j \in T : f[i] = f[j] => i = j
    BY <2>6
  <2> HIDE DEF f
  <2> QED BY <2>1, <2>8, <2>9
<1> DEFINE place == [p \in Proc |-> CHOOSE f \in [share(p) -> places] :
                        \A i, j \in share(p) : f[i] = f[j] => i = j]
           at == [i \in S |-> <<by[i], place[by[i]][i]>>]
<1>2. ASSUME NEW p \in Proc
      PROVE  /\ place[p] \in [share(p) -> places]
             /\ \A i, j \in share(p) : place[p][i] = place[p][j] => i = j
  BY <1>1, <1>2
<1> HIDE DEF place
<1>3. ASSUME NEW i \in S
      PROVE  at[i] = <<by[i], place[by[i]][i]>> /\ at[i] \in Proc \X places
  BY <1>2
<1>4. \A i, j \in S : at[i] = at[j] => i = j
  BY <1>2, <1>3
<1>5. at \in [S -> Proc \X places]
  BY <1>3
<1> HIDE DEF at, share, places
<1>6. at \in Injection(S, Proc \X places)
  BY <1>4, <1>5 DEF Injection, IsInjective
<1>7. IsFiniteSet(places) /\ Cardinality(places) = LimitRelated
  BY CrudConstants, FS_Interval DEF places
<1>8. IsFiniteSet(Proc \X places) /\ Cardinality(Proc \X places) = Cardinality(Proc) * Cardinality(places)
  BY <1>7, CrudConstants, FS_Product
<1>9. Cardinality(S) <= Cardinality(Proc \X places)
  BY <1>6, <1>8, FS_Injection
<1>10. Cardinality(Proc) \in Nat
  BY CrudConstants, FS_CardinalityType
<1>11. Cardinality(Proc) * LimitRelated = LimitRelated * Cardinality(Proc)
  BY <1>10, CrudConstants
<1> QED BY <1>7, <1>8, <1>9, <1>11

\* Where there is a limit, merged related lists exceed it by no more than the requests
\* in progress add, and those who came in from the person's side.
THEOREM RelatedListsAreBounded == ListingSpec => []RelatedBounded
<1>1. ASSUME CrudInv PROVE RelatedBounded
  <2>1. SUFFICES ASSUME LimitRelated # 0, NEW r \in Rec, Exists(r)
                 PROVE  Cardinality(rows[r].items \ joined[r]) <= LimitRelated * Cardinality(Proc)
    BY DEF RelatedBounded
  <2>2. PICK S \in SUBSET Related : S = rows[r].items \ joined[r] /\ S = Added(r)
    BY <1>1, <2>1, RowIs DEF CrudInv, Added
  <2>3. PICK by \in [S -> Proc] : \A p \in Proc : Cardinality(Share(S, by, p)) <= LimitRelated
    BY <1>1, <2>1, <2>2 DEF CrudInv, ShareInv, Shares, Within
  <2> QED BY <2>2, <2>3, SharesBound
<1> QED BY <1>1, CrudInvariant, PTL

\* Only its commit ends a deletion with a change.
LEMMA DeletesByCommit ==
    ASSUME CrudInv, CrudNext, NEW p \in Proc, At(p, "delete"), req'[p] # req[p], rows' # rows
    PROVE  DeleteCommit(p)
<1>1. ASSUME NEW q \in Proc, NEW x, req' = [req EXCEPT ![q] = x]
      PROVE  q = p
  BY <1>1 DEF CrudInv, CrudTypes
<1>2. CrudTypes
  BY DEF CrudInv
<1>3. ASSUME NEW q \in Proc, NEW kind, NEW step, NEW s, NEW ids, NEW want,
             Send(q, kind, step, s, ids, want)
      PROVE  FALSE
  BY <1>1, <1>3 DEF Send, Free, At
<1>4. ASSUME NEW q \in Proc, End(q)
      PROVE  q = p
  BY <1>1, <1>4 DEF End
<1>5. PICK q \in Proc :
        \/ \E s \in Clients, r \in Rec :
             \/ \E want \in Wants : Create(q, s, r, want)
             \/ \E want \in Wants : UpdateRelated(q, s, r, want)
             \/ UpdateRecord(q, s, r)
             \/ Restore(q, s, r)
        \/ \E s \in Clients, ids \in Batches, kind \in {"disable", "remove", "purge"} :
             Delete(q, s, ids, kind)
        \/ Created(q) \/ ReadRelated(q) \/ Link(q)
        \/ \E status \in {"active", "disabled"} : Permit(q, status)
        \/ DeleteOne(q) \/ DeleteCommit(q)
        \/ Fails(q)
        \/ \E m \in Related :
             \/ \E lists \in SUBSET TwoSided : JoinLists(q, m, lists)
             \/ PurgeRelated(q, m)
        \/ Join(q) \/ JoinFails(q)
  BY DEF CrudNext
<1>6. CASE \E s \in Clients, r \in Rec :
             \/ \E want \in Wants : Create(q, s, r, want)
             \/ \E want \in Wants : UpdateRelated(q, s, r, want)
             \/ UpdateRecord(q, s, r)
             \/ Restore(q, s, r)
  BY <1>3, <1>6 DEF Create, UpdateRelated, UpdateRecord, Restore
<1>7. CASE \E s \in Clients, ids \in Batches, kind \in {"disable", "remove", "purge"} :
             Delete(q, s, ids, kind)
  BY <1>7 DEF Delete
<1>8. CASE Created(q) \/ ReadRelated(q) \/ Fails(q)
  BY <1>8 DEF Created, ReadRelated, Fails
<1>9. CASE Link(q)
  <2>1. q # p
    BY <1>9 DEF Link, At
  <2>2. End(q) \/ req' = [req EXCEPT ![q].step = "permit"]
    BY <1>9 DEF Link
  <2> QED BY <1>1, <1>4, <2>1, <2>2
<1>10. CASE \E status \in {"active", "disabled"} : Permit(q, status)
  BY <1>4, <1>10 DEF Permit, At
<1>11. CASE DeleteOne(q)
  BY <1>11 DEF DeleteOne, Refusal
<1>12. CASE DeleteCommit(q)
  BY <1>4, <1>12 DEF DeleteCommit
<1>13. CASE \/ \E m \in Related :
                \/ \E lists \in SUBSET TwoSided : JoinLists(q, m, lists)
                \/ PurgeRelated(q, m)
            \/ Join(q) \/ JoinFails(q)
  BY <1>13 DEF JoinLists, PurgeRelated, Join, JoinFails
<1> QED BY <1>5, <1>6, <1>7, <1>8, <1>9, <1>10, <1>11, <1>12, <1>13

\* A deletion changes the database once, and then every record of its list.
THEOREM DeletionsAreWhole == ListingSpec => DeletesAllOrNothing
<1>1. ASSUME CrudInv, [CrudNext]_crudVars
      PROVE  [\A p \in Proc : (At(p, "delete") /\ req'[p] # req[p] /\ rows' # rows) =>
                \A i \in 1..Len(req[p].ids) : LET r == req[p].ids[i] IN
                    /\ Permitted(req[p].by, "d", r)
                    /\ rows'[r] = NoRow \/ rows'[r].status = "disabled"]_crudVars
  <2>1. SUFFICES ASSUME CrudNext, NEW p \in Proc, At(p, "delete"), req'[p] # req[p], rows' # rows,
                        NEW i \in 1..Len(req[p].ids)
                 PROVE  /\ Permitted(req[p].by, "d", req[p].ids[i])
                        /\ rows'[req[p].ids[i]] = NoRow \/ rows'[req[p].ids[i]].status = "disabled"
    BY <1>1
  <2>2. DeleteCommit(p)
    BY <1>1, <2>1, DeletesByCommit
  <2>3. /\ CrudTypes /\ LockInv /\ DeleteInv /\ ~At(p, "idle")
        /\ req[p].left = <<>> /\ rows' = Flushed(p)
    BY <1>1, <2>1, <2>2 DEF CrudInv, DeleteCommit, At
  <2>4. PICK ids \in Seq(Rec) : ids = req[p].ids
    BY <2>3, RequestIs DEF Requests
  <2>5. PICK n \in 0..Len(ids) : Progress(p, n)
    BY <2>1, <2>3, <2>4 DEF DeleteInv, DeletePart
  <2>6. n = Len(ids)
    BY <2>3, <2>4, <2>5 DEF Progress
  <2>7. PICK r \in Rec : r = ids[i]
    BY <2>1, <2>4
  <2>8. Handled(p, r)
    BY <2>1, <2>4, <2>5, <2>6, <2>7 DEF Progress
  <2>9. rows'[r] = NoRow \/ rows'[r].status = "disabled"
    <3>1. CASE r \in req[p].pending
      BY <2>3, <3>1, FlushedIs
    <3>2. CASE r \notin req[p].pending
      <4>1. rows'[r] = rows[r]
        BY <2>3, <3>2, FlushedIs
      <4> QED BY <2>8, <3>2, <4>1 DEF Handled, Exists
    <3> QED BY <3>1, <3>2
  <2> QED BY <2>4, <2>7, <2>8, <2>9 DEF Handled
<1>2. CrudInv /\ [ListingNext]_vars =>
        [\A p \in Proc : (At(p, "delete") /\ req'[p] # req[p] /\ rows' # rows) =>
            \A i \in 1..Len(req[p].ids) : LET r == req[p].ids[i] IN
                /\ Permitted(req[p].by, "d", r)
                /\ rows'[r] = NoRow \/ rows'[r].status = "disabled"]_crudVars
  BY <1>1, ListingSteps
<1> QED BY <1>2, CrudInvariant, PTL DEF DeletesAllOrNothing, ListingSpec
-----------------------------------------------------------------------------
(* Lists, page by page *)

\* A set of numbers that has m, and with a number below n the next one, has all to n.
LEMMA AllFrom ==
    ASSUME NEW m \in Nat, NEW n \in Nat, m <= n, NEW T, m \in T,
           \A i \in m..(n - 1) : i \in T => i + 1 \in T
    PROVE  m..n \subseteq T
<1> DEFINE out == (m..n) \ T
           less == {ss \in Nat \X Nat : ss[1] < ss[2]}
<1>1. SUFFICES ASSUME out # {} PROVE FALSE
  OBVIOUS
<1>2. IsWellFoundedOn(less, Nat)
  BY NatLessThanWellFounded DEF OpToRel
<1>3. out \subseteq Nat
  OBVIOUS
<1>4. PICK i \in out : \A j \in out : ~ (<<j, i>> \in less)
  <2> HIDE DEF out, less
  <2> QED BY <1>1, <1>2, <1>3, WFMin
<1>5. i # m /\ i \in m..n
  BY <1>4
<1>6. i - 1 \in m..(n - 1) /\ i - 1 \in Nat
  BY <1>5
<1>7. i - 1 \notin T
  BY <1>4, <1>5, <1>6
<1>8. <<i - 1, i>> \in less /\ i - 1 \in out
  BY <1>5, <1>6, <1>7
<1> QED BY <1>4, <1>8

LEMMA PageConstants ==
    /\ PageSize \in Nat /\ PageSize > 0
    /\ IsFiniteSet(Rec)
    /\ Len(Resources) \in Nat
    /\ \A r \in Rec : ByName[r] \in Nat /\ ById[r] \in Nat
    /\ Ties \subseteq [Rec -> Nat]
    /\ \A tie \in Ties, q, r \in Rec : tie[q] = tie[r] => q = r
    /\ \A r \in Rec : \E i \in 1..Len(Resources) : Resources[i] = Attr[r].res
  BY PageAssumption DEF PageAssumption

LEMMA PositionIs ==
    ASSUME NEW i \in 1..Len(Resources)
    PROVE  Position(Resources[i]) = i
  BY PageAssumption DEF PageAssumption, Position

LEMMA PlaceIs ==
    ASSUME NEW r \in Rec
    PROVE  /\ Position(Attr[r].res) \in 1..Len(Resources)
           /\ Resources[Position(Attr[r].res)] = Attr[r].res
  BY PageConstants DEF Position

LEMMA Counts ==
    ASSUME NEW S \in SUBSET Rec
    PROVE  /\ IsFiniteSet(S) /\ Cardinality(S) \in Nat
           /\ \A T \in SUBSET S : Cardinality(T) \in Nat /\ Cardinality(T) <= Cardinality(S)
<1>1. IsFiniteSet(S)
  BY PageConstants, FS_Subset
<1>2. \A T \in SUBSET S : IsFiniteSet(T) /\ Cardinality(T) <= Cardinality(S)
  BY <1>1, FS_Subset
<1> QED BY <1>1, <1>2, FS_CardinalityType

\* An order in which the database may return its rows leaves nothing open.
Linear(order) ==
    /\ \A r \in Rec : <<r, r>> \notin order
    /\ \A q, r \in Rec : q # r => <<q, r>> \in order \/ <<r, q>> \in order
    /\ \A q, r, t \in Rec : <<q, r>> \in order /\ <<r, t>> \in order => <<q, t>> \in order

LEMMA OrderIs ==
    ASSUME NEW kind \in {"find", "trash"}, NEW order \in Orders(kind)
    PROVE  /\ Linear(order)
           /\ \A q, r \in Rec : SortKey(kind, q) # SortKey(kind, r) =>
                 (<<q, r>> \in order <=> SortKey(kind, q) < SortKey(kind, r))
<1>1. PICK tie \in Ties : order = {to \in Rec \X Rec : Before(kind, tie, to[1], to[2])}
  BY DEF Orders
<1>2. \A q, r \in Rec : <<q, r>> \in order <=> Before(kind, tie, q, r)
  BY <1>1
<1>3. \A r \in Rec : SortKey(kind, r) \in Nat /\ tie[r] \in Nat
  BY PageConstants DEF SortKey
<1>4. \A q, r \in Rec : tie[q] = tie[r] => q = r
  BY PageConstants
<1>5. ASSUME NEW q \in Rec, NEW r \in Rec
      PROVE  /\ <<r, r>> \notin order
             /\ q # r => <<q, r>> \in order \/ <<r, q>> \in order
             /\ SortKey(kind, q) # SortKey(kind, r) =>
                   (<<q, r>> \in order <=> SortKey(kind, q) < SortKey(kind, r))
  BY <1>2, <1>3, <1>4 DEF Before
<1>6. ASSUME NEW q \in Rec, NEW r \in Rec, NEW t \in Rec,
             <<q, r>> \in order, <<r, t>> \in order
      PROVE  <<q, t>> \in order
  <2>1. Before(kind, tie, q, r) /\ Before(kind, tie, r, t)
    BY <1>2, <1>6
  <2>2. Before(kind, tie, q, t)
    BY <1>3, <2>1 DEF Before
  <2> QED BY <1>2, <2>2
<1> QED BY <1>5, <1>6 DEF Linear

\* The ranks of the records of a query are the numbers from 0 on, without a gap.
LEMMA RankIs ==
    ASSUME NEW S \in SUBSET Rec, NEW order, Linear(order)
    PROVE  /\ \A r \in Rec : Rank(S, order, r) \in Nat
           /\ \A r \in S : Rank(S, order, r) < Cardinality(S)
           /\ \A q, r \in S : Rank(S, order, q) = Rank(S, order, r) => q = r
<1> DEFINE below(r) == {q \in S : <<q, r>> \in order}
<1>1. \A r : Rank(S, order, r) = Cardinality(below(r)) /\ below(r) \in SUBSET S
  BY DEF Rank
<1>2. ASSUME NEW T \in SUBSET S, NEW r \in S, r \notin T, NEW U \in SUBSET S, r \in U, T \subseteq U
      PROVE  Cardinality(T) < Cardinality(U)
  <2>1. IsFiniteSet(U) /\ Cardinality(U) \in Nat
    BY Counts
  <2>2. IsFiniteSet(U \ {r}) /\ Cardinality(U \ {r}) = Cardinality(U) - 1
    BY <1>2, <2>1, FS_RemoveElement
  <2>3. Cardinality(T) <= Cardinality(U \ {r})
    BY <1>2, <2>2, FS_Subset
  <2>4. Cardinality(T) \in Nat
    BY Counts
  <2> QED BY <2>1, <2>2, <2>3, <2>4
<1>3. ASSUME NEW q \in S, NEW r \in S, <<q, r>> \in order
      PROVE  Rank(S, order, q) < Rank(S, order, r)
  <2>1. q \in below(r) /\ q \notin below(q) /\ below(q) \subseteq below(r)
    BY <1>3 DEF Linear
  <2> HIDE DEF below
  <2> QED BY <1>1, <1>2, <2>1
<1>4. ASSUME NEW r \in S
      PROVE  Rank(S, order, r) < Cardinality(S)
  <2>1. r \notin below(r)
    BY DEF Linear
  <2> HIDE DEF below
  <2> QED BY <1>1, <1>2, <2>1
<1>5. \A r \in Rec : Rank(S, order, r) \in Nat
  <2> HIDE DEF below
  <2> QED BY <1>1, Counts
<1>6. ASSUME NEW q \in S, NEW r \in S, Rank(S, order, q) = Rank(S, order, r)
      PROVE  q = r
  <2>1. Rank(S, order, q) \in Nat /\ Rank(S, order, r) \in Nat
    BY <1>5
  <2>2. <<q, r>> \notin order /\ <<r, q>> \notin order
    BY <1>3, <1>6, <2>1
  <2> QED BY <2>2 DEF Linear
<1> QED BY <1>4, <1>5, <1>6

\* Where a query puts a record that it leaves no choice about.
Place(kind, S, r) == Cardinality({q \in S : SortKey(kind, q) < SortKey(kind, r)})

LEMMA RankIsPlace ==
    ASSUME NEW kind \in {"find", "trash"}, NEW order \in Orders(kind),
           NEW S \in SUBSET Rec, NEW r \in S \cap Fixed(kind),
           \A q \in S : Attr[q].res = Attr[r].res
    PROVE  Rank(S, order, r) = Place(kind, S, r)
<1>1. \A q \in S \ {r} : <<q, r>> \in order <=> SortKey(kind, q) < SortKey(kind, r)
  BY OrderIs DEF Fixed
<1>2. <<r, r>> \notin order /\ ~(SortKey(kind, r) < SortKey(kind, r))
  <2>1. SortKey(kind, r) \in Nat
    BY PageConstants DEF SortKey
  <2> QED BY <2>1, OrderIs DEF Linear
<1>3. {q \in S : <<q, r>> \in order} = {q \in S : SortKey(kind, q) < SortKey(kind, r)}
  BY <1>1, <1>2
<1> QED BY <1>3 DEF Rank, Place

LEMMA RanksAll ==
    ASSUME NEW S \in SUBSET Rec, NEW order, Linear(order),
           NEW k \in 0..(Cardinality(S) - 1)
    PROVE  \E r \in S : Rank(S, order, r) = k
<1> DEFINE rank == [r \in S |-> Rank(S, order, r)]
           ranks == 0..(Cardinality(S) - 1)
<1>1. IsFiniteSet(S) /\ Cardinality(S) \in Nat
  BY Counts
<1>2. IsFiniteSet(ranks) /\ Cardinality(ranks) = Cardinality(S)
  BY <1>1, FS_Interval
<1>3. rank \in [S -> ranks]
  BY <1>1, RankIs
<1>4. \A q, r \in S : rank[q] = rank[r] => q = r
  BY RankIs
<1>5. rank \in Injection(S, ranks)
  BY <1>3, <1>4 DEF Injection, IsInjective
<1>6. rank \in Surjection(S, ranks)
  <2> HIDE DEF rank, ranks
  <2> QED BY <1>2, <1>5, FS_Injection
<1>7. PICK r \in S : rank[r] = k
  BY <1>6 DEF Surjection
<1> QED BY <1>7

LEMMA SliceSize ==
    ASSUME NEW S \in SUBSET Rec, NEW order, Linear(order),
           NEW offset \in Nat, NEW n \in Nat
    PROVE  Cardinality(Slice(S, order, offset, n)) =
             IF offset + n <= Cardinality(S) THEN n
             ELSE IF offset <= Cardinality(S) THEN Cardinality(S) - offset ELSE 0
<1>1. PICK c \in Nat : c = Cardinality(S)
  BY Counts
<1>2. PICK last \in Int : last = IF offset + n <= c THEN offset + n - 1 ELSE c - 1
  OBVIOUS
<1> DEFINE T == Slice(S, order, offset, n)
           places == offset..last
           rank == [r \in T |-> Rank(S, order, r)]
<1>3. T \in SUBSET S /\ \A r \in S : r \in T <=> Rank(S, order, r) \in offset..(offset + n - 1)
  BY DEF Slice
<1>4. \A r \in S : Rank(S, order, r) \in Nat /\ Rank(S, order, r) < c
  BY <1>1, RankIs
<1>5. \A r \in S : r \in T <=> Rank(S, order, r) \in places
  BY <1>2, <1>3, <1>4
<1>6. ASSUME NEW k \in places
      PROVE  \E r \in T : Rank(S, order, r) = k
  <2>1. k \in 0..(c - 1)
    BY <1>2, <1>6
  <2> QED BY <1>1, <1>5, <2>1, RanksAll
<1> HIDE DEF T, places
<1>7. rank \in [T -> places] /\ \A q, r \in T : rank[q] = rank[r] => q = r
  BY <1>3, <1>5, RankIs
<1>8. rank \in Injection(T, places)
  BY <1>7 DEF Injection, IsInjective
<1>9. \A k \in places : \E r \in T : rank[r] = k
  BY <1>6
<1>10. rank \in Surjection(T, places)
  BY <1>7, <1>9 DEF Surjection
<1>11. IsFiniteSet(T)
  BY <1>3, Counts
<1>12. Cardinality(places) = Cardinality(T)
  BY <1>8, <1>10, <1>11, FS_Surjection
<1>13. Cardinality(places) = IF offset > last THEN 0 ELSE last - offset + 1
  BY FS_Interval DEF places
<1> QED BY <1>1, <1>2, <1>12, <1>13 DEF T

LEMMA SliceIs ==
    ASSUME NEW S \in SUBSET Rec, NEW order, Linear(order),
           NEW offset \in Nat, NEW n \in Nat
    PROVE  /\ Slice(S, order, offset, n) \subseteq S
           /\ \A r \in S : r \in Slice(S, order, offset, n) <=>
                           ~(Rank(S, order, r) < offset) /\ Rank(S, order, r) < offset + n
           /\ Cardinality(Slice(S, order, offset, n)) <= n
<1>1. \A r \in S : Rank(S, order, r) \in Nat
  BY RankIs
<1>2. PICK c \in Nat : c = Cardinality(S)
  BY Counts
<1>3. Cardinality(Slice(S, order, offset, n)) =
        IF offset + n <= c THEN n ELSE IF offset <= c THEN c - offset ELSE 0
  BY <1>2, SliceSize
<1> QED BY <1>1, <1>2, <1>3 DEF Slice

\* One more row than there is room for says whether rows are left.
LEMMA SliceRest ==
    ASSUME NEW S \in SUBSET Rec, NEW order, Linear(order),
           NEW offset \in Nat, NEW room \in Nat, room <= PageSize
    PROVE  LET read == Cardinality(Slice(S, order, offset, PageSize + 1)) IN
           /\ read \in Nat
           /\ read > room <=> Cardinality(S) > offset + room
           /\ Cardinality(S) <= offset => read = 0
           /\ read <= room => \A r \in S : Rank(S, order, r) < offset + room
<1>1. PICK c \in Nat : c = Cardinality(S)
  BY Counts
<1>2. PICK n \in Nat : n = PageSize + 1 /\ room < n
  BY PageConstants
<1>3. PICK read : read = Cardinality(Slice(S, order, offset, PageSize + 1))
  OBVIOUS
<1>4. read = IF offset + n <= c THEN n ELSE IF offset <= c THEN c - offset ELSE 0
  BY <1>1, <1>2, <1>3, SliceSize
<1>5. \A r \in S : Rank(S, order, r) \in Nat /\ Rank(S, order, r) < c
  BY <1>1, RankIs
<1> QED BY <1>1, <1>2, <1>3, <1>4, <1>5

\* The pages up to a cursor have had the place of r, if it has one.
Passed(kind, s, res, offset, r) ==
    \/ Position(Attr[r].res) < Position(res)
    \/ Attr[r].res = res /\ Place(kind, Results(kind, s, res), r) < offset

\* Of the records that have a place, a page shows what is listed between its own
\* cursor and the next one, which is further on, and where there are records left.
Shows(kind, s, res, offset, page) ==
    LET now == Listed(kind, s, res) \cap Fixed(kind)
        before(r) == Passed(kind, s, res, offset, r)
        after(r) == Passed(kind, s, page.res, page.offset, r)
    IN  /\ page.more \in BOOLEAN
        /\ page.items \cap Fixed(kind) = {r \in now : ~before(r) /\ (page.more => after(r))}
        /\ page.more =>
             /\ \E i \in 1..Len(Resources) : page.res = Resources[i]
             /\ kind = "find" => page.res = res
             /\ page.offset \in Nat
             /\ Cardinality(Results(kind, s, page.res)) > page.offset
             /\ \A r \in now : before(r) => after(r)

LEMMA FindPageShows ==
    ASSUME NEW s, NEW i \in 1..Len(Resources), NEW offset \in Nat,
           NEW order \in Orders("find")
    PROVE  Shows("find", s, Resources[i], offset, FindPage(s, Resources[i], offset, order))
<1>1. PICK res : res = Resources[i]
  OBVIOUS
<1>2. PICK S \in SUBSET Rec : S = Results("find", s, res)
  BY DEF Results
<1>3. /\ Listed("find", s, res) = S /\ \A r \in S : Attr[r].res = res
      /\ Linear(order)
  BY <1>2, OrderIs DEF Results, Listed
<1> DEFINE fixed == Fixed("find")
           now == S \cap fixed
<1> HIDE DEF fixed
<1>4. PICK size \in Nat : size = PageSize /\ size <= PageSize
  BY PageConstants
<1>5. PICK read : read = Cardinality(Slice(S, order, offset, PageSize + 1))
  OBVIOUS
<1>6. PICK items : items = Slice(S, order, offset, size)
  OBVIOUS
<1>7. PICK page : page = FindPage(s, res, offset, order)
  OBVIOUS
<1>8. page = IF read > size
             THEN Page(items, offset + size, TRUE, res) ELSE Page(items, 0, FALSE, res)
  BY <1>2, <1>4, <1>5, <1>6, <1>7 DEF FindPage
<1>9. /\ read \in Nat
      /\ read > size <=> Cardinality(S) > offset + size
      /\ items \subseteq S
      /\ \A r \in S : r \in items <=> ~(Rank(S, order, r) < offset) /\ Rank(S, order, r) < offset + size
      /\ read <= size => \A r \in S : Rank(S, order, r) < offset + size
  <2>1. /\ read \in Nat
        /\ read > size <=> Cardinality(S) > offset + size
        /\ read <= size => \A r \in S : Rank(S, order, r) < offset + size
    BY <1>3, <1>4, <1>5, SliceRest
  <2>2. /\ items \subseteq S
        /\ \A r \in S : r \in items <=> ~(Rank(S, order, r) < offset) /\ Rank(S, order, r) < offset + size
    BY <1>3, <1>4, <1>6, SliceIs
  <2> QED BY <2>1, <2>2
<1>10. \A n : \A r \in now : Passed("find", s, res, n, r) <=> Rank(S, order, r) < n
  <2>1. \A r \in S : ~(Position(Attr[r].res) < Position(res))
    BY <1>1, <1>3, PositionIs
  <2>2. \A r \in now : Rank(S, order, r) = Place("find", S, r)
    BY <1>3, RankIsPlace DEF fixed
  <2> QED BY <1>2, <1>3, <2>1, <2>2 DEF Passed
<1>11. CASE read > size
  <2>1. page.items = items /\ page.offset = offset + size /\ page.more = TRUE /\ page.res = res
    BY <1>8, <1>11 DEF Page
  <2>2. PICK n \in Nat : n = offset + size /\ offset <= n
    BY <1>4
  <2>3. ASSUME NEW r \in S
        PROVE  Rank(S, order, r) < offset => Rank(S, order, r) < n
    <3>1. Rank(S, order, r) \in Nat
      BY <1>3, RankIs
    <3> QED BY <2>2, <3>1
  <2>4. items = {r \in S : ~(Rank(S, order, r) < offset) /\ Rank(S, order, r) < n}
    BY <1>9, <2>2
  <2>5. items \cap fixed = {r \in now : ~Passed("find", s, res, offset, r) /\ Passed("find", s, res, n, r)}
    BY <1>10, <2>4
  <2>6. \A r \in now : Passed("find", s, res, offset, r) => Passed("find", s, res, n, r)
    BY <1>10, <2>3
  <2>7. Cardinality(S) > n
    BY <1>9, <1>11, <2>2
  <2> QED BY <1>1, <1>2, <1>3, <1>7, <2>1, <2>2, <2>5, <2>6, <2>7 DEF Shows, fixed
<1>12. CASE ~(read > size)
  <2>1. page.items = items /\ page.more = FALSE
    BY <1>8, <1>12 DEF Page
  <2>2. read <= size
    BY <1>9, <1>12
  <2>3. items = {r \in S : ~(Rank(S, order, r) < offset)}
    BY <1>9, <2>2
  <2>4. items \cap fixed = {r \in now : ~Passed("find", s, res, offset, r)}
    BY <1>10, <2>3
  <2> QED BY <1>1, <1>3, <1>7, <2>1, <2>4 DEF Shows, fixed
<1> QED BY <1>11, <1>12

\* After the resource at i of the trash: all that is listed up to there, or a page.
Fills(s, start, offset, i, page) ==
    /\ page.more \in BOOLEAN
    /\ page.items \in SUBSET Rec /\ Cardinality(page.items) <= PageSize
    /\ page.more => Shows("trash", s, Resources[start], offset, page)
    /\ ~page.more =>
         /\ page.offset = IF i < start THEN offset ELSE 0
         /\ page.items \cap Fixed("trash") =
              {r \in Listed("trash", s, Resources[start]) \cap Fixed("trash") :
                 /\ ~Passed("trash", s, Resources[start], offset, r)
                 /\ Position(Attr[r].res) <= i}

LEMMA TrashOfFills ==
    ASSUME NEW s, NEW start \in 1..Len(Resources), NEW offset \in Nat,
           NEW i \in start..Len(Resources), NEW page, NEW order \in Orders("trash"),
           offset > 0 => Cardinality(Results("trash", s, Resources[start])) > offset,
           Fills(s, start, offset, i - 1, page)
    PROVE  Fills(s, start, offset, i, TrashOf(s, page, Resources[i], order))
<1>1. PICK first, res : first = Resources[start] /\ res = Resources[i]
  OBVIOUS
<1>2. PICK S \in SUBSET Rec : S = Results("trash", s, res)
  BY DEF Results
<1>3. PICK fixed, now \in SUBSET Rec :
         fixed = Fixed("trash") /\ now = Listed("trash", s, first) \cap fixed
  BY DEF Listed, Fixed
<1>4. PICK gone \in SUBSET now : gone = {r \in now : Passed("trash", s, first, offset, r)}
  OBVIOUS
<1>5. PICK next : next = TrashOf(s, page, res, order)
  OBVIOUS
<1>6. Linear(order) /\ \A r \in S : Rank(S, order, r) \in Nat
  BY OrderIs, RankIs
<1>7. CASE page.more
  <2>1. next = page
    BY <1>5, <1>7 DEF TrashOf
  <2> QED BY <1>1, <1>5, <1>7, <2>1 DEF Fills
<1>8. CASE ~page.more
  <2>1. PICK o \in Nat : o = page.offset /\ o = IF i = start THEN offset ELSE 0
    BY <1>8 DEF Fills
  <2>2. PICK items \in SUBSET Rec : items = page.items /\ Cardinality(items) <= PageSize
    BY DEF Fills
  <2>3. PICK room \in Nat : room = PageSize - Cardinality(items) /\ room <= PageSize
    BY <2>2, Counts, PageConstants
  <2>4. PICK read, part : read = Cardinality(Slice(S, order, o, PageSize + 1)) /\ part = Slice(S, order, o, room)
    OBVIOUS
  <2>5. next = IF read > room THEN Page(items \cup part, o + room, TRUE, res)
               ELSE Rewind(Page(items \cup part, o + read, FALSE, res))
    BY <1>2, <1>5, <1>8, <2>1, <2>2, <2>3, <2>4 DEF TrashOf
  <2>6. /\ read \in Nat
        /\ read > room <=> Cardinality(S) > o + room
        /\ part \subseteq S
        /\ \A r \in S : r \in part <=> ~(Rank(S, order, r) < o) /\ Rank(S, order, r) < o + room
        /\ read <= room => \A r \in S : Rank(S, order, r) < o + room
        /\ Cardinality(part) <= room
        /\ Cardinality(S) <= o => read = 0
    <3>1. /\ read \in Nat
          /\ read > room <=> Cardinality(S) > o + room
          /\ Cardinality(S) <= o => read = 0
          /\ read <= room => \A r \in S : Rank(S, order, r) < o + room
      BY <1>6, <2>3, <2>4, SliceRest
    <3>2. /\ part \subseteq S
          /\ \A r \in S : r \in part <=> ~(Rank(S, order, r) < o) /\ Rank(S, order, r) < o + room
          /\ Cardinality(part) <= room
      BY <1>6, <2>3, <2>4, SliceIs
    <3> QED BY <3>1, <3>2
  <2>7. i \in 1..Len(Resources) /\ Position(res) = i /\ Position(first) = start /\ start <= i
    BY <1>1, PositionIs
  <2>8. \A r \in Rec : Position(Attr[r].res) \in Nat /\ (Attr[r].res = res <=> Position(Attr[r].res) = i)
    BY <1>1, <2>7, PlaceIs
  <2>9. /\ S \cap fixed \subseteq now /\ now \subseteq fixed
        /\ \A r \in now : r \in S <=> Position(Attr[r].res) = i
        /\ \A r \in S : Position(Attr[r].res) = i
    BY <1>2, <1>3, <2>8 DEF Listed, Results
  <2>10. \A r \in S \cap fixed : r \in gone <=> Rank(S, order, r) < o
    <3> \A r \in S \cap fixed : Rank(S, order, r) = Place("trash", S, r)
      <4>1. \A q, r \in S : Attr[q].res = Attr[r].res
        BY <1>2 DEF Results
      <4> QED BY <1>3, <4>1, RankIsPlace
    <3>1. CASE i = start
      <4>1. first = res
        BY <1>1, <3>1
      <4>2. \A r \in S : ~(Position(Attr[r].res) < Position(first)) /\ Attr[r].res = first
        BY <2>7, <2>8, <2>9, <3>1, <4>1
      <4>3. Results("trash", s, first) = S /\ offset = o
        BY <1>2, <2>1, <3>1, <4>1
      <4> QED BY <1>4, <2>9, <4>2, <4>3 DEF Passed
    <3>2. CASE i # start
      <4>1. \A r \in S : Position(Attr[r].res) = i /\ Attr[r].res # first
        BY <2>7, <2>9, <3>2
      <4>2. \A r \in S : ~(Rank(S, order, r) < o)
        BY <1>6, <2>1, <3>2
      <4>3. ~(i < start)
        BY <2>7
      <4> QED BY <1>4, <2>7, <2>9, <4>1, <4>2, <4>3 DEF Passed
    <3> QED BY <3>1, <3>2
  <2>11. items \cap fixed = {r \in now \ gone : Position(Attr[r].res) <= i - 1}
    BY <1>1, <1>3, <1>4, <1>8, <2>2 DEF Fills
  <2>12. PICK shown \in SUBSET Rec : shown = items \cup part
    BY <2>6
  <2>13. Cardinality(shown) <= PageSize
    <3>1. /\ IsFiniteSet(items) /\ IsFiniteSet(part)
          /\ Cardinality(items) \in Nat /\ Cardinality(part) \in Nat
      BY <2>6, Counts
    <3>2. Cardinality(shown) = Cardinality(items) + Cardinality(part) - Cardinality(items \cap part)
      BY <2>12, <3>1, FS_Union
    <3>3. Cardinality(items \cap part) \in Nat /\ Cardinality(shown) \in Nat
      BY Counts
    <3> QED BY <2>3, <2>6, <3>1, <3>2, <3>3, PageConstants
  <2>14. CASE read > room
    <3>1. PICK n \in Nat : n = o + room /\ o <= n
      BY <2>1, <2>3
    <3>2. next.items = shown /\ next.offset = n /\ next.more = TRUE /\ next.res = res
      BY <2>5, <2>12, <2>14, <3>1 DEF Page
    <3>3. PICK past \in SUBSET now : past = {r \in now : Passed("trash", s, res, n, r)}
      OBVIOUS
    <3>4. \A r \in now : r \in past <=> Position(Attr[r].res) < i \/ (r \in S /\ Rank(S, order, r) < n)
      <4>1. \A q, r \in S : Attr[q].res = Attr[r].res
        BY <1>2 DEF Results
      <4>2. \A r \in S \cap now : Rank(S, order, r) = Place("trash", S, r)
        BY <1>3, <4>1, RankIsPlace
      <4> QED BY <1>2, <2>7, <2>8, <2>9, <3>3, <4>2 DEF Passed
    <3>5. ASSUME NEW r \in now
          PROVE  /\ r \in shown <=> r \notin gone /\ r \in past
                 /\ r \in gone => r \in past
      <4>1. PICK p \in Nat : p = Position(Attr[r].res)
        BY <2>8, <3>5
      <4>2. r \in items <=> r \notin gone /\ p < i
        BY <2>9, <2>11, <3>5, <4>1
      <4>3. r \in part <=> r \in S /\ r \notin gone /\ Rank(S, order, r) < n
        BY <2>6, <2>9, <2>10, <3>1
      <4>4. r \in past <=> p < i \/ (r \in S /\ Rank(S, order, r) < n)
        BY <3>4, <4>1
      <4>5. r \in S /\ r \in gone => Rank(S, order, r) < n
        BY <1>6, <2>1, <2>9, <2>10, <3>1
      <4>6. r \notin S /\ r \in gone => p < i
        <5>1. r \in gone => p <= start
          BY <1>4, <2>7, <4>1 DEF Passed
        <5>2. r \in S <=> p = i
          BY <2>9, <4>1
        <5> QED BY <2>7, <4>1, <5>1, <5>2
      <4> QED BY <2>12, <4>2, <4>3, <4>4, <4>5, <4>6
    <3>6. next.items \cap fixed = {r \in now : ~(r \in gone) /\ r \in past}
      BY <2>6, <2>9, <2>11, <2>12, <3>2, <3>5
    <3>7. Cardinality(S) > n
      BY <2>6, <2>14, <3>1
    <3>8. Shows("trash", s, first, offset, next)
      BY <1>1, <1>2, <1>3, <1>4, <2>7, <3>2, <3>3, <3>5, <3>6, <3>7 DEF Shows
    <3> QED BY <1>1, <1>5, <2>13, <3>2, <3>8 DEF Fills
  <2>15. CASE ~(read > room)
    <3>1. read <= room
      BY <2>3, <2>6, <2>15
    <3>2. /\ next.items = shown /\ next.more = FALSE
          /\ next.offset = IF shown # {} THEN 0 ELSE o + read
      BY <2>5, <2>12, <2>15 DEF Page, Rewind
    <3>3. \A r \in S : r \in part <=> ~(Rank(S, order, r) < o)
      BY <2>6, <3>1
    <3>4. next.offset = 0
      <4>1. CASE part # {}
        BY <2>12, <3>2, <4>1
      <4>2. CASE part = {}
        <5>1. PICK c \in Nat : c = Cardinality(S)
          BY Counts
        <5>2. c <= o
          <6>1. SUFFICES ASSUME c > o PROVE FALSE
            BY <2>1, <5>1
          <6>2. o \in 0..(Cardinality(S) - 1)
            BY <2>1, <5>1, <6>1
          <6>3. PICK r \in S : Rank(S, order, r) = o
            BY <1>6, <6>2, RanksAll
          <6> QED BY <2>1, <3>3, <4>2, <6>3
        <5>3. o = 0
          BY <1>1, <1>2, <2>1, <5>1, <5>2
        <5>4. read = 0
          BY <2>6, <5>1, <5>2
        <5> QED BY <3>2, <5>3, <5>4
      <4> QED BY <4>1, <4>2
    <3>5. ASSUME NEW r \in now
          PROVE  r \in shown <=> r \notin gone /\ Position(Attr[r].res) <= i
      <4>1. PICK p \in Nat : p = Position(Attr[r].res)
        BY <2>8, <3>5
      <4>2. r \in items <=> r \notin gone /\ p < i
        BY <2>9, <2>11, <3>5, <4>1
      <4>3. r \in part <=> p = i /\ r \notin gone
        BY <2>6, <2>9, <2>10, <3>3, <3>5, <4>1
      <4> QED BY <2>7, <2>12, <4>1, <4>2, <4>3
    <3>6. next.items \cap fixed = {r \in now : ~(r \in gone) /\ Position(Attr[r].res) <= i}
      BY <2>6, <2>9, <2>11, <2>12, <3>2, <3>5
    <3>7. ~(i < start)
      BY <2>7
    <3> QED BY <1>1, <1>3, <1>4, <1>5, <2>13, <3>2, <3>4, <3>6, <3>7 DEF Fills
  <2> QED BY <2>14, <2>15
<1> QED BY <1>7, <1>8

\* A page in the making, after each resource.
Follows(page, s, start, offset, order) ==
    /\ \A i \in 0..(start - 1) : page[i] = Page({}, offset, FALSE, Resources[start])
    /\ \A i \in start..Len(Resources) : page[i] = TrashOf(s, page[i - 1], Resources[i], order)

\* The recursion of TrashPage is sound: it goes through the resources one by one.
LEMMA TrashPageIs ==
    ASSUME NEW s, NEW start \in 1..Len(Resources), NEW offset, NEW order
    PROVE  \E page : /\ Follows(page, s, start, offset, order)
                     /\ TrashPage(s, start, offset, order) = page[Len(Resources)]
<1> DEFINE N == Len(Resources)
           At0 == Page({}, offset, FALSE, Resources[start])
           Loop(f, i) == IF i < start THEN At0 ELSE TrashOf(s, f[i - 1], Resources[i], order)
           built == {n \in 0..N : \E f : f = [i \in 0..n |-> Loop(f, i)]}
<1>1. N \in Nat /\ start \in 1..N
  BY PageConstants
<1>2. 0 \in built
  <2> DEFINE f == [i \in 0..0 |-> At0]
  <2>1. \A i \in 0..0 : Loop(f, i) = At0
    <3> HIDE DEF f, At0
    <3> QED BY <1>1
  <2>2. f = [i \in 0..0 |-> Loop(f, i)]
    <3>1. \A i \in 0..0 : f[i] = Loop(f, i)
      <4> HIDE DEF Loop, At0
      <4> QED BY <2>1
    <3> HIDE DEF Loop, At0
    <3> QED BY <3>1
  <2> HIDE DEF f, Loop, N
  <2> QED BY <1>1, <2>2
<1>3. ASSUME NEW n \in 0..(N - 1), n \in built
      PROVE  n + 1 \in built
  <2>1. PICK f : f = [i \in 0..n |-> Loop(f, i)]
    BY <1>3
  <2> DEFINE g == [i \in 0..(n + 1) |-> IF i = n + 1 THEN Loop(f, n + 1) ELSE f[i]]
  <2>2. ASSUME NEW i \in 0..(n + 1)
        PROVE  g[i] = Loop(g, i)
    <3>1. i >= start => i - 1 \in 0..n /\ i - 1 # n + 1
      BY <1>1, <1>3
    <3>2. i >= start => g[i - 1] = f[i - 1]
      BY <1>3, <3>1
    <3>3. i # n + 1 => f[i] = Loop(f, i)
      <4>1. i # n + 1 => i \in 0..n
        BY <1>3
      <4> HIDE DEF Loop
      <4> QED BY <2>1, <4>1
    <3>4. g[i] = Loop(f, i)
      <4> HIDE DEF Loop
      <4> QED BY <3>3
    <3> HIDE DEF g, At0, N
    <3>5. CASE i < start
      BY <3>4, <3>5
    <3>6. CASE i >= start
      BY <3>2, <3>4, <3>6
    <3>7. i < start \/ i >= start
      BY <1>1, <1>3
    <3> QED BY <3>5, <3>6, <3>7
  <2>3. g = [i \in 0..(n + 1) |-> Loop(g, i)]
    <3> HIDE DEF Loop
    <3> QED BY <2>2
  <2>4. n + 1 \in 0..N
    BY <1>1, <1>3
  <2> HIDE DEF g, Loop
  <2> QED BY <2>3, <2>4
<1>4. N \in built
  <2> HIDE DEF built, N
  <2>1. PICK m \in Nat, n \in Nat : m = 0 /\ n = N /\ m <= n
    BY <1>1
  <2>2. m..n \subseteq built
    BY <1>2, <1>3, <2>1, AllFrom
  <2> QED BY <2>1, <2>2
<1> DEFINE page == CHOOSE f : f = [i \in 0..N |-> Loop(f, i)]
<1>5. TrashPage(s, start, offset, order) = page[N]
  BY DEF TrashPage
<1>6. page = [i \in 0..N |-> Loop(page, i)]
  <2> HIDE DEF Loop
  <2> QED BY <1>4
<1> HIDE DEF page
<1>7. \A i \in 0..N : page[i] = Loop(page, i)
  <2> HIDE DEF Loop
  <2> QED BY <1>6
<1>8. ASSUME NEW i \in 0..(start - 1)
      PROVE  page[i] = At0
  <2>1. i \in 0..N /\ i < start
    BY <1>1
  <2> HIDE DEF N, At0
  <2> QED BY <1>7, <2>1
<1>9. ASSUME NEW i \in start..N
      PROVE  page[i] = TrashOf(s, page[i - 1], Resources[i], order)
  <2>1. i \in 0..N /\ ~(i < start)
    BY <1>1
  <2> HIDE DEF N, At0
  <2> QED BY <1>7, <2>1
<1> QED BY <1>5, <1>8, <1>9 DEF Follows

LEMMA TrashPageShows ==
    ASSUME NEW s, NEW start \in 1..Len(Resources), NEW offset \in Nat,
           NEW order \in Orders("trash"),
           offset > 0 => Cardinality(Results("trash", s, Resources[start])) > offset
    PROVE  Shows("trash", s, Resources[start], offset, TrashPage(s, start, offset, order))
<1>1. PICK N \in Nat : N = Len(Resources) /\ start <= N /\ start - 1 \in Nat
  BY PageConstants
<1>2. PICK page :
         /\ \A i \in 0..(start - 1) : page[i] = Page({}, offset, FALSE, Resources[start])
         /\ \A i \in start..N : page[i] = TrashOf(s, page[i - 1], Resources[i], order)
         /\ TrashPage(s, start, offset, order) = page[N]
  <2>1. \E page : /\ Follows(page, s, start, offset, order)
                  /\ TrashPage(s, start, offset, order) = page[Len(Resources)]
    BY TrashPageIs
  <2> QED BY <1>1, <2>1 DEF Follows
<1> DEFINE filled == {i \in (start - 1)..N : Fills(s, start, offset, i, page[i])}
<1>3. Fills(s, start, offset, start - 1, page[start - 1])
  <2>1. /\ page[start - 1].items = {} /\ page[start - 1].offset = offset
        /\ page[start - 1].more = FALSE
    BY <1>1, <1>2 DEF Page
  <2>2. start - 1 < start
    BY <1>1
  <2>3. Cardinality({}) <= PageSize
    BY FS_EmptySet, PageConstants
  <2>4. \A r \in Listed("trash", s, Resources[start]) :
           Position(Attr[r].res) <= start - 1 => Passed("trash", s, Resources[start], offset, r)
    BY PositionIs, PlaceIs DEF Passed, Listed
  <2> QED BY <2>1, <2>2, <2>3, <2>4 DEF Fills
<1>4. ASSUME NEW i \in (start - 1)..(N - 1), i \in filled
      PROVE  i + 1 \in filled
  <2>1. PICK next \in start..N : next = i + 1 /\ next - 1 = i
    BY <1>1
  <2>2. Fills(s, start, offset, next - 1, page[next - 1])
    BY <1>4, <2>1
  <2>3. page[next] = TrashOf(s, page[next - 1], Resources[next], order)
    BY <1>2
  <2>4. Fills(s, start, offset, next, page[next])
    BY <1>1, <2>2, <2>3, TrashOfFills
  <2> QED BY <1>1, <2>1, <2>4
<1>5. N \in filled
  <2>1. start - 1 \in filled /\ start - 1 <= N
    BY <1>1, <1>3
  <2> HIDE DEF filled
  <2>2. (start - 1)..N \subseteq filled
    BY <1>1, <1>4, <2>1, AllFrom
  <2> QED BY <1>1, <2>2
<1>6. PICK last : last = page[N] /\ Fills(s, start, offset, N, last)
  BY <1>5
<1>7. \A r \in Listed("trash", s, Resources[start]) : Position(Attr[r].res) <= N
  BY <1>1, PlaceIs DEF Listed
<1>8. Shows("trash", s, Resources[start], offset, last)
  <2>1. CASE last.more
    BY <1>6, <2>1 DEF Fills
  <2>2. CASE ~last.more
    BY <1>6, <1>7, <2>2 DEF Fills, Shows
  <2> QED BY <2>1, <2>2
<1> QED BY <1>2, <1>6, <1>8

\* A page, whatever the cursor it was asked for.
Names == {Resources[i] : i \in 1..Len(Resources)}
Pages == [items : SUBSET Rec, offset : Nat, more : BOOLEAN, res : Names]
Fits(page) == page \in Pages /\ Cardinality(page.items) <= PageSize

LEMMA TrashOfFits ==
    ASSUME NEW s, NEW page, Fits(page), NEW i \in 1..Len(Resources),
           NEW order \in Orders("trash")
    PROVE  Fits(TrashOf(s, page, Resources[i], order))
<1>1. PICK res \in Names : res = Resources[i]
  BY DEF Names
<1>2. PICK S \in SUBSET Rec : S = Results("trash", s, res)
  BY DEF Results
<1>3. PICK next : next = TrashOf(s, page, res, order)
  OBVIOUS
<1>4. CASE page.more
  BY <1>1, <1>3, <1>4 DEF TrashOf
<1>5. CASE ~page.more
  <2>1. PICK o \in Nat, items \in SUBSET Rec : o = page.offset /\ items = page.items
    BY DEF Fits, Pages
  <2>2. PICK room \in Nat : room = PageSize - Cardinality(items) /\ room <= PageSize
    BY <2>1, Counts, PageConstants DEF Fits
  <2>3. PICK read, part : read = Cardinality(Slice(S, order, o, PageSize + 1)) /\ part = Slice(S, order, o, room)
    OBVIOUS
  <2>4. next = IF read > room THEN Page(items \cup part, o + room, TRUE, res)
               ELSE Rewind(Page(items \cup part, o + read, FALSE, res))
    BY <1>2, <1>3, <1>5, <2>1, <2>2, <2>3 DEF TrashOf
  <2>5. read \in Nat /\ part \subseteq S /\ Cardinality(part) <= room
    <3>1. \E k : k = o + room
      OBVIOUS
    <3>2. PICK n \in Nat : n = PageSize + 1
      BY PageConstants
    <3>3. read \in Nat
      BY <2>3, <3>2, Counts DEF Slice
    <3> QED BY <2>3, <3>1, <3>3, SliceIs, OrderIs
  <2>6. PICK shown \in SUBSET Rec : shown = items \cup part
    BY <2>5
  <2>7. Cardinality(shown) <= PageSize
    <3>1. /\ IsFiniteSet(items) /\ IsFiniteSet(part)
          /\ Cardinality(items) \in Nat /\ Cardinality(part) \in Nat
      BY <2>5, Counts
    <3>2. Cardinality(shown) = Cardinality(items) + Cardinality(part) - Cardinality(items \cap part)
      BY <2>6, <3>1, FS_Union
    <3>3. Cardinality(items \cap part) \in Nat /\ Cardinality(shown) \in Nat
      BY Counts
    <3> QED BY <2>2, <2>5, <3>1, <3>2, <3>3, PageConstants
  <2>8. \/ next = Page(shown, o + room, TRUE, res)
        \/ next = Page(shown, o + read, FALSE, res)
        \/ next = Page(shown, 0, FALSE, res)
    BY <2>4, <2>6 DEF Page, Rewind
  <2>9. o + room \in Nat /\ o + read \in Nat /\ 0 \in Nat
    BY <2>5
  <2>10. PICK n \in Nat : next = Page(shown, n, TRUE, res) \/ next = Page(shown, n, FALSE, res)
    BY <2>8, <2>9
  <2>11. next \in Pages /\ next.items = shown
    <3>1. ASSUME NEW more \in BOOLEAN
          PROVE  Page(shown, n, more, res) \in Pages /\ Page(shown, n, more, res).items = shown
      BY <3>1 DEF Page, Pages
    <3> QED BY <2>10, <3>1
  <2> QED BY <1>1, <1>3, <2>7, <2>11 DEF Fits
<1> QED BY <1>4, <1>5

LEMMA TrashPageFits ==
    ASSUME NEW s, NEW start \in 1..Len(Resources), NEW offset \in Nat,
           NEW order \in Orders("trash")
    PROVE  TrashPage(s, start, offset, order) \in Pages
<1>1. PICK N \in Nat : N = Len(Resources) /\ start <= N /\ start - 1 \in Nat
  BY PageConstants
<1>2. PICK page : Follows(page, s, start, offset, order) /\ TrashPage(s, start, offset, order) = page[N]
  BY <1>1, TrashPageIs
<1> DEFINE fitting == {i \in (start - 1)..N : Fits(page[i])}
<1>3. Fits(page[start - 1])
  <2>1. PICK n \in 0..(start - 1) : n = start - 1
    BY <1>1
  <2>2. Cardinality({}) <= PageSize
    BY FS_EmptySet, PageConstants
  <2>3. page[n] = Page({}, offset, FALSE, Resources[start])
    BY <1>2 DEF Follows
  <2> QED BY <2>1, <2>3, <2>2 DEF Fits, Page, Pages, Names
<1>4. ASSUME NEW i \in (start - 1)..(N - 1), i \in fitting
      PROVE  i + 1 \in fitting
  <2>1. PICK next \in start..N : next = i + 1 /\ next - 1 = i /\ next \in 1..N
    BY <1>1
  <2>2. page[next] = TrashOf(s, page[next - 1], Resources[next], order)
    BY <1>1, <1>2 DEF Follows
  <2>3. Fits(page[next])
    BY <1>1, <1>4, <2>1, <2>2, TrashOfFits
  <2> QED BY <1>1, <2>1, <2>3
<1>5. N \in fitting
  <2>1. start - 1 \in fitting /\ start - 1 <= N
    BY <1>1, <1>3
  <2> HIDE DEF fitting
  <2>2. (start - 1)..N \subseteq fitting
    BY <1>1, <1>4, <2>1, AllFrom
  <2> QED BY <1>1, <2>2
<1> QED BY <1>2, <1>5 DEF Fits

LEMMA FindPageFits ==
    ASSUME NEW s, NEW i \in 1..Len(Resources), NEW offset \in Nat, NEW order
    PROVE  FindPage(s, Resources[i], offset, order) \in Pages
<1>1. PICK res \in Names : res = Resources[i]
  BY DEF Names
<1>2. PICK items \in SUBSET Rec : items = Slice(Results("find", s, res), order, offset, PageSize)
  BY DEF Slice, Results
<1>3. \/ FindPage(s, res, offset, order) = Page(items, offset + PageSize, TRUE, res)
      \/ FindPage(s, res, offset, order) = Page(items, 0, FALSE, res)
  BY <1>2 DEF FindPage
<1>4. offset + PageSize \in Nat /\ 0 \in Nat
  BY PageConstants
<1>5. \A n \in Nat, more \in BOOLEAN : Page(items, n, more, res) \in Pages
  BY DEF Page, Pages
<1> QED BY <1>1, <1>3, <1>4, <1>5

Listings ==
    [step : {"paging", "done"}, kind : {"find", "trash"}, by : Clients, res : Names,
     offset : Nat, seen : SUBSET Rec, twice : SUBSET Rec, first : SUBSET Rec,
     left : SUBSET Rec, came : SUBSET Rec]
ListingTypes == listing = NoListing \/ listing \in Listings

\* While nothing leaves the list, what was there at first and has a place before the
\* cursor has been shown: records that join move the others back, never across the cursor.
\* An offset is that of a resource with records left, so that it is not carried over to
\* another one.  While nothing joins, nothing else has been shown, and all of it once.
CursorPart(kind, s, res, offset, first, seen, twice, came) ==
    /\ first \subseteq Listed(kind, s, res)
    /\ \A r \in first \cap Fixed(kind) : Passed(kind, s, res, offset, r) => r \in seen
    /\ offset > 0 => Cardinality(Results(kind, s, res)) > offset
    /\ came = {} =>
         /\ seen \cap Fixed(kind) =
              {r \in Listed(kind, s, res) \cap Fixed(kind) : Passed(kind, s, res, offset, r)}
         /\ twice \cap Fixed(kind) = {}
CursorInv ==
    listing.step = "paging" /\ listing.left = {} =>
        CursorPart(listing.kind, listing.by, listing.res, listing.offset,
                   listing.first, listing.seen, listing.twice, listing.came)

ListingInv == ListingTypes /\ CursorInv /\ PagesComplete

LEMMA PageFits ==
    ASSUME listing \in Listings, NEW order \in Orders(listing.kind)
    PROVE  PageOf(listing, order) \in Pages
<1>1. PICK i \in 1..Len(Resources), offset \in Nat :
         listing.res = Resources[i] /\ listing.offset = offset
  BY DEF Listings, Names
<1>2. Position(listing.res) = i
  BY <1>1, PositionIs
<1>3. CASE listing.kind = "find"
  BY <1>1, <1>3, FindPageFits DEF PageOf
<1>4. CASE listing.kind = "trash"
  BY <1>1, <1>2, <1>4, TrashPageFits DEF PageOf
<1> QED BY <1>3, <1>4 DEF Listings

LEMMA PageShows ==
    ASSUME listing \in Listings, NEW order \in Orders(listing.kind),
           listing.offset > 0 =>
             Cardinality(Results(listing.kind, listing.by, listing.res)) > listing.offset
    PROVE  Shows(listing.kind, listing.by, listing.res, listing.offset,
                 PageOf(listing, order))
<1>1. PICK i \in 1..Len(Resources), offset \in Nat, s \in Clients :
         listing.res = Resources[i] /\ listing.offset = offset /\ listing.by = s
  BY DEF Listings, Names
<1>2. Position(listing.res) = i
  BY <1>1, PositionIs
<1>3. CASE listing.kind = "find"
  BY <1>1, <1>3, FindPageShows DEF PageOf
<1>4. CASE listing.kind = "trash"
  BY <1>1, <1>2, <1>4, TrashPageShows DEF PageOf
<1> QED BY <1>3, <1>4 DEF Listings

\* A record that is not before the cursor does not get there when others join.
LEMMA PlaceGrows ==
    ASSUME NEW kind, NEW T \in SUBSET Rec, NEW S \in SUBSET T, NEW r \in Rec
    PROVE  /\ Place(kind, S, r) <= Place(kind, T, r)
           /\ Place(kind, S, r) \in Nat /\ Place(kind, T, r) \in Nat
<1>1. PICK more \in SUBSET Rec : more = {q \in T : SortKey(kind, q) < SortKey(kind, r)}
  OBVIOUS
<1>2. PICK less \in SUBSET more : less = {q \in S : SortKey(kind, q) < SortKey(kind, r)}
  BY <1>1
<1>3. Cardinality(less) <= Cardinality(more)
  BY Counts
<1> QED BY <1>1, <1>2, <1>3, Counts DEF Place

LEMMA PagingStarts ==
    ASSUME NEW kind \in {"find", "trash"}, NEW s \in Clients, NEW i \in 1..Len(Resources),
           StartListing(kind, s, Resources[i])
    PROVE  ListingInv'
<1>1. PICK res \in Names : res = Resources[i] /\ (kind = "trash" => res = Resources[1])
  BY DEF StartListing, Names
<1>2. PICK now \in SUBSET Rec : now = Listed(kind, s, res)
  BY DEF Listed
<1>3. listing' = [step |-> "paging", kind |-> kind, by |-> s, res |-> res, offset |-> 0,
                  seen |-> {}, twice |-> {}, first |-> now, left |-> {}, came |-> {}]
  BY <1>1, <1>2 DEF StartListing
<1>4. ListingTypes' /\ PagesComplete'
  BY <1>2, <1>3 DEF ListingTypes, Listings, PagesComplete
<1>5. rows' = rows
  BY DEF StartListing, crudVars
<1>6. \A r \in now : ~Passed(kind, s, res, 0, r)
  <2>1. \A r \in now : ~(Position(Attr[r].res) < Position(res))
    <3>1. CASE kind = "find"
      BY <1>1, <1>2, <3>1, PositionIs DEF Listed
    <3>2. CASE kind = "trash"
      BY <1>1, <1>2, <3>2, PositionIs, PlaceIs, PageConstants DEF Listed
    <3> QED BY <3>1, <3>2
  <2>2. PICK S \in SUBSET Rec : S = Results(kind, s, res)
    BY DEF Results
  <2>3. \A r \in Rec : Place(kind, S, r) \in Nat
    BY PlaceGrows
  <2> QED BY <1>2, <2>1, <2>2, <2>3 DEF Passed
<1>7. CursorPart(kind, s, res, 0, now, {}, {}, {})
  BY <1>2, <1>6 DEF CursorPart
<1>8. CursorPart(kind, s, res, 0, now, {}, {}, {})'
  BY <1>5, <1>7 DEF CursorPart, Listed, Results, Passed
<1>9. CursorInv'
  BY <1>3, <1>8 DEF CursorInv
<1> QED BY <1>4, <1>9 DEF ListingInv

LEMMA NextPageKeeps == ListingInv /\ NextPage => ListingInv'
<1> SUFFICES ASSUME ListingInv, NextPage PROVE ListingInv'
  OBVIOUS
<1>1. listing \in Listings /\ listing.step = "paging" /\ rows' = rows
  BY DEF ListingInv, ListingTypes, NextPage, NoListing, crudVars
<1>2. PICK order \in Orders(listing.kind) :
         LET page == PageOf(listing, order)
         IN listing' = [listing EXCEPT
              !.step = IF page.more THEN "paging" ELSE "done",
              !.res = page.res, !.offset = page.offset,
              !.seen = @ \cup page.items,
              !.twice = @ \cup (page.items \cap listing.seen)]
  BY DEF NextPage
<1>9. PICK page \in Pages : page = PageOf(listing, order)
  BY <1>1, PageFits
<1>3. listing' = [listing EXCEPT
         !.step = IF page.more THEN "paging" ELSE "done",
         !.res = page.res, !.offset = page.offset,
         !.seen = listing.seen \cup page.items,
         !.twice = listing.twice \cup (page.items \cap listing.seen)]
  BY <1>2, <1>9
<1>4. /\ page.items \in SUBSET Rec /\ page.res \in Names
      /\ page.offset \in Nat /\ page.more \in BOOLEAN
  BY DEF Pages
<1>5. /\ listing' \in Listings
      /\ listing'.step = IF page.more THEN "paging" ELSE "done"
      /\ listing'.kind = listing.kind /\ listing'.by = listing.by
      /\ listing'.res = page.res /\ listing'.offset = page.offset
      /\ listing'.first = listing.first /\ listing'.left = listing.left
      /\ listing'.came = listing.came
      /\ listing'.seen = listing.seen \cup page.items
      /\ listing'.twice = listing.twice \cup (page.items \cap listing.seen)
  BY <1>1, <1>3, <1>4 DEF Listings
<1>6. ListingTypes'
  BY <1>5 DEF ListingTypes
<1>7. CASE listing.left # {}
  BY <1>5, <1>6, <1>7 DEF ListingInv, CursorInv, PagesComplete
<1>8. CASE listing.left = {}
  <2>1. PICK kind, s, res, offset :
           kind = listing.kind /\ s = listing.by /\ res = listing.res /\ offset = listing.offset
    OBVIOUS
  <2>2. PICK first, seen, twice, came :
           /\ first = listing.first /\ seen = listing.seen
           /\ twice = listing.twice /\ came = listing.came
    OBVIOUS
  <2>3. CursorPart(kind, s, res, offset, first, seen, twice, came)
    BY <1>1, <1>8, <2>1, <2>2 DEF ListingInv, CursorInv
  <2>4. Shows(kind, s, res, offset, page)
    BY <1>1, <1>9, <2>1, <2>3, PageShows DEF CursorPart
  <2>5. PICK fixed, now \in SUBSET Rec :
           fixed = Fixed(kind) /\ now = Listed(kind, s, res) \cap fixed
    BY DEF Listed, Fixed
  <2>6. PICK gone \in SUBSET now : gone = {r \in now : Passed(kind, s, res, offset, r)}
    OBVIOUS
  <2>7. first \cap fixed \subseteq now /\ \A r \in first \cap fixed : r \in gone => r \in seen
    BY <2>3, <2>5, <2>6 DEF CursorPart
  <2>8. came = {} => seen \cap fixed = gone /\ twice \cap fixed = {}
    BY <2>3, <2>5, <2>6 DEF CursorPart
  <2>9. CASE page.more
    <3>1. PICK past \in SUBSET now :
             past = {r \in now : Passed(kind, s, page.res, page.offset, r)}
      OBVIOUS
    <3>2. page.items \cap fixed = {r \in now : r \notin gone /\ r \in past} /\ gone \subseteq past
      BY <2>4, <2>5, <2>6, <2>9, <3>1 DEF Shows
    <3>3. Listed(kind, s, page.res) = Listed(kind, s, res)
      <4>1. kind = "find" => page.res = res
        BY <2>4, <2>9 DEF Shows
      <4> QED BY <4>1 DEF Listed
    <3>4. CursorPart(kind, s, page.res, page.offset, first, seen \cup page.items,
                     twice \cup (page.items \cap seen), came)
      <4>1. first \subseteq Listed(kind, s, page.res)
        BY <2>3, <3>3 DEF CursorPart
      <4>2. \A r \in first \cap fixed : Passed(kind, s, page.res, page.offset, r) => r \in seen \cup page.items
        BY <2>7, <3>1, <3>2
      <4>3. Cardinality(Results(kind, s, page.res)) > page.offset
        BY <2>4, <2>9 DEF Shows
      <4>4. ASSUME came = {}
            PROVE  /\ (seen \cup page.items) \cap fixed = past
                   /\ (twice \cup (page.items \cap seen)) \cap fixed = {}
        BY <2>8, <3>2, <4>4
      <4> QED BY <2>5, <3>1, <3>3, <4>1, <4>2, <4>3, <4>4 DEF CursorPart
    <3>5. CursorPart(kind, s, page.res, page.offset, first, seen \cup page.items,
                     twice \cup (page.items \cap seen), came)'
      BY <1>1, <3>4 DEF CursorPart, Listed, Results, Passed
    <3>6. CursorInv'
      BY <1>5, <2>1, <2>2, <3>5 DEF CursorInv
    <3>7. PagesComplete'
      BY <1>5, <2>9 DEF PagesComplete
    <3> QED BY <1>6, <3>6, <3>7 DEF ListingInv
  <2>10. CASE ~page.more
    <3>1. page.items \cap fixed = {r \in now : r \notin gone}
      BY <2>4, <2>5, <2>6, <2>10 DEF Shows
    <3>2. first \cap fixed \subseteq seen \cup page.items
      BY <2>7, <3>1
    <3>3. came = {} => (twice \cup (page.items \cap seen)) \cap fixed = {}
      BY <2>8, <3>1
    <3>4. PagesComplete'
      BY <1>5, <2>1, <2>2, <2>5, <3>2, <3>3 DEF PagesComplete
    <3>5. CursorInv'
      BY <1>5, <2>10 DEF CursorInv
    <3> QED BY <1>6, <3>4, <3>5 DEF ListingInv
  <2> QED BY <2>9, <2>10
<1> QED BY <1>7, <1>8

LEMMA OthersKeepPages == ListingInv /\ OtherRequest => ListingInv'
<1> SUFFICES ASSUME ListingInv, OtherRequest PROVE ListingInv'
  OBVIOUS
<1>1. CASE listing.step # "paging"
  <2>1. listing' = listing
    BY <1>1 DEF OtherRequest
  <2> QED BY <1>1, <2>1 DEF ListingInv, ListingTypes, CursorInv, PagesComplete
<1>2. CASE listing.step = "paging"
  <2>1. listing \in Listings
    BY <1>2 DEF ListingInv, ListingTypes, NoListing
  <2>2. PICK kind, s, res, offset :
           kind = listing.kind /\ s = listing.by /\ res = listing.res /\ offset = listing.offset
    OBVIOUS
  <2>3. PICK first, seen, twice, came, left :
           /\ first = listing.first /\ seen = listing.seen /\ twice = listing.twice
           /\ came = listing.came /\ left = listing.left
    OBVIOUS
  <2>4. PICK now \in SUBSET Rec : now = {r \in Rec : Queries(rows, kind, s, r)}
    OBVIOUS
  <2>5. PICK then \in SUBSET Rec : then = {r \in Rec : Queries(rows', kind, s, r)}
    OBVIOUS
  <2>6. listing' = [listing EXCEPT !.left = left \cup (now \ then), !.came = came \cup (then \ now)]
    BY <1>2, <2>2, <2>3, <2>4, <2>5 DEF OtherRequest
  <2>7. /\ listing' \in Listings
        /\ listing'.step = "paging" /\ listing'.kind = kind /\ listing'.by = s
        /\ listing'.res = res /\ listing'.offset = offset
        /\ listing'.first = first /\ listing'.seen = seen /\ listing'.twice = twice
        /\ listing'.left = left \cup (now \ then) /\ listing'.came = came \cup (then \ now)
    BY <1>2, <2>1, <2>2, <2>3, <2>6 DEF Listings
  <2>8. ListingTypes' /\ PagesComplete'
    BY <2>7 DEF ListingTypes, PagesComplete
  <2>9. ASSUME left \cup (now \ then) = {}
        PROVE  CursorPart(kind, s, res, offset, first, seen, twice, came \cup (then \ now))'
    <3>1. now \subseteq then /\ left = {}
      BY <2>9
    <3>2. CursorPart(kind, s, res, offset, first, seen, twice, came)
      BY <1>2, <2>2, <2>3, <3>1 DEF ListingInv, CursorInv
    <3>3. PICK R \in SUBSET Rec : R = {r \in now : Attr[r].res = res}
      OBVIOUS
    <3>4. PICK T \in SUBSET Rec : T = {r \in then : Attr[r].res = res}
      OBVIOUS
    <3>5. PICK L \in SUBSET now : L = {r \in now : kind = "find" => Attr[r].res = res}
      OBVIOUS
    <3>6. PICK M \in SUBSET then : M = {r \in then : kind = "find" => Attr[r].res = res}
      OBVIOUS
    <3>7. Results(kind, s, res) = R /\ Results(kind, s, res)' = T
      BY <2>4, <2>5, <3>3, <3>4 DEF Results
    <3>8. Listed(kind, s, res) = L /\ Listed(kind, s, res)' = M
      BY <2>4, <2>5, <3>5, <3>6 DEF Listed
    <3>9. R \subseteq T /\ L \subseteq M
      BY <3>1, <3>3, <3>4, <3>5, <3>6
    <3>10. \A r \in Rec : Passed(kind, s, res, offset, r) <=>
             \/ Position(Attr[r].res) < Position(res)
             \/ Attr[r].res = res /\ Place(kind, R, r) < offset
      BY <3>7 DEF Passed
    <3>11. \A r \in Rec : Passed(kind, s, res, offset, r)' <=>
             \/ Position(Attr[r].res) < Position(res)
             \/ Attr[r].res = res /\ Place(kind, T, r) < offset
      BY <3>7 DEF Passed
    <3>12. offset \in Nat
      BY <2>1, <2>2 DEF Listings
    <3>13. \A r \in Rec : Place(kind, T, r) < offset => Place(kind, R, r) < offset
      <4>1. ASSUME NEW r \in Rec PROVE Place(kind, T, r) < offset => Place(kind, R, r) < offset
        BY <3>9, <3>12, PlaceGrows
      <4> QED BY <4>1
    <3>14. \A r \in first \cap Fixed(kind) : Passed(kind, s, res, offset, r)' => r \in seen
      BY <3>2, <3>8, <3>10, <3>11, <3>13 DEF CursorPart
    <3>15. offset > 0 => Cardinality(T) > offset
      <4>1. Cardinality(R) <= Cardinality(T) /\ Cardinality(R) \in Nat /\ Cardinality(T) \in Nat
        BY <3>9, Counts
      <4>2. offset > 0 => Cardinality(R) > offset
        BY <3>2, <3>7 DEF CursorPart
      <4> QED BY <3>12, <4>1, <4>2
    <3>16. ASSUME came \cup (then \ now) = {}
           PROVE  /\ seen \cap Fixed(kind) = {r \in M \cap Fixed(kind) : Passed(kind, s, res, offset, r)'}
                  /\ twice \cap Fixed(kind) = {}
      <4>1. now = then /\ came = {}
        BY <3>1, <3>16
      <4>2. R = T /\ L = M
        BY <3>3, <3>4, <3>5, <3>6, <4>1
      <4>3. /\ seen \cap Fixed(kind) = {r \in L \cap Fixed(kind) : Passed(kind, s, res, offset, r)}
            /\ twice \cap Fixed(kind) = {}
        BY <3>2, <3>8, <4>1 DEF CursorPart
      <4>4. \A r \in L : Passed(kind, s, res, offset, r)' <=> Passed(kind, s, res, offset, r)
        BY <3>10, <3>11, <4>2
      <4> QED BY <4>2, <4>3, <4>4
    <3>17. first \subseteq M
      BY <3>2, <3>8, <3>9 DEF CursorPart
    <3> QED BY <3>7, <3>8, <3>14, <3>15, <3>16, <3>17 DEF CursorPart
  <2>10. CursorInv'
    BY <2>7, <2>9 DEF CursorInv
  <2> QED BY <2>8, <2>10 DEF ListingInv
<1> QED BY <1>1, <1>2

\* While nothing leaves the list, its pages show every record that was there at the
\* first one and that the query gives a place; while nothing joins it either, none of
\* those is shown twice.  For find and for the trash, whatever the records, the order
\* of the others, the size of a page and the requests in between.
THEOREM PagesAreComplete == ListingSpec => []PagesComplete
<1>1. ListingInit => ListingInv
  BY DEF ListingInit, ListingInv, ListingTypes, CursorInv, PagesComplete, NoListing
<1>2. ListingInv /\ [ListingNext]_vars => ListingInv'
  <2> SUFFICES ASSUME ListingInv, [ListingNext]_vars PROVE ListingInv'
    OBVIOUS
  <2>1. CASE UNCHANGED vars
    <3>1. rows' = rows /\ listing' = listing
      BY <2>1 DEF vars, crudVars
    <3> QED BY <3>1 DEF ListingInv, ListingTypes, CursorInv, CursorPart, Listed, Results, Passed,
                        PagesComplete
  <2>2. CASE \E kind \in {"find", "trash"}, s \in Clients, i \in 1..Len(Resources) :
               StartListing(kind, s, Resources[i])
    BY <2>2, PagingStarts
  <2>3. CASE NextPage
    BY <2>3, NextPageKeeps
  <2>4. CASE OtherRequest
    BY <2>4, OthersKeepPages
  <2>5. CASE Done
    BY <2>1, <2>5 DEF Done
  <2> QED BY <2>1, <2>2, <2>3, <2>4, <2>5 DEF ListingNext
<1>3. ListingInv => PagesComplete
  BY DEF ListingInv
<1> QED BY <1>1, <1>2, <1>3, PTL DEF ListingSpec

-----------------------------------------------------------------------------
(* The database as Records promises it *)

LEMMA AllowedIs ==
    ASSUME NEW s \in Sessions, NEW r \in Rec, NEW act, Permitted(s, act, r), Exists(r)
    PROVE  <<s, r>> \in Allowed(act)
  BY DEF Permitted, Queried, Allowed

\* A request that deletes nothing is none of the deletions that Records knows.
LEMMA NothingAsked ==
    ASSUME NEW p \in Proc, \A q \in Proc \ {p} : req'[q] = req[q],
           ~At(p, "delete"), ~At(p, "delete")'
    PROVE  deletion' = deletion
<1>1. ASSUME NEW q \in Proc
      PROVE  deletion'[q] = deletion[q]
  BY DEF deletion, At
<1> QED BY <1>1 DEF deletion

LEMMA NothingLeft ==
    ASSUME NEW p \in Proc, \A q \in Proc \ {p} : req'[q] = req[q], ~At(p, "delete")'
    PROVE  deletion' = [deletion EXCEPT ![p] = {}]
<1>1. deletion'[p] = {} /\ \A q \in Proc \ {p} : deletion'[q] = deletion[q]
  BY DEF deletion, At
<1> QED BY <1>1 DEF deletion

LEMMA CreateAdds ==
    ASSUME CrudInv, NEW p \in Proc, NEW s \in Sessions, NEW r \in Rec,
           NEW want \in SUBSET Related, Create(p, s, r, want)
    PROVE  Database!Add(r)
<1>1. CrudTypes
  BY DEF CrudInv
<1>2. PICK step \in {"created", "related"} : Send(p, "create", step, s, <<r>>, want)
  BY DEF Create
<1>3. /\ At(p, "idle") /\ req'[p].step = step /\ \A q \in Proc \ {p} : req'[q] = req[q]
  <2>1. PICK ids \in Seq(Rec) : ids = <<r>>
    <3> <<r>> \in Seq(Rec)
      OBVIOUS
    <3> QED OBVIOUS
  <2>2. Send(p, "create", step, s, ids, want)
    BY <1>2, <2>1
  <2> QED BY <1>1, <2>2, SentIs
<1>4. deletion' = deletion
  BY <1>3, NothingAsked DEF At
<1> QED BY <1>4 DEF Create, Row, Database!Add

LEMMA UpdateStutters ==
    ASSUME CrudInv, NEW p \in Proc, NEW s \in Sessions, NEW r \in Rec,
           NEW want \in SUBSET Related,
           NEW step \in {"related", "permit"},
           Send(p, "update", step, s, <<r>>, want)
    PROVE  deletion' = deletion
<1>1. CrudTypes
  BY DEF CrudInv
<1>2. /\ At(p, "idle") /\ req'[p].step = step /\ \A q \in Proc \ {p} : req'[q] = req[q]
  <2>1. PICK ids \in Seq(Rec) : ids = <<r>>
    <3> <<r>> \in Seq(Rec)
      OBVIOUS
    <3> QED OBVIOUS
  <2>2. Send(p, "update", step, s, ids, want)
    BY <2>1
  <2> QED BY <1>1, <2>2, SentIs
<1> QED BY <1>2, NothingAsked DEF At

LEMMA RestoreMarks ==
    ASSUME CrudInv, NEW p \in Proc, NEW s \in Sessions, NEW r \in Rec, Restore(p, s, r)
    PROVE  Database!Mark(r, "active")
<1>1. <<s, r>> \in Allowed("d") /\ rows[r] # NoRow
  BY AllowedIs DEF Restore, Exists
<1>2. deletion' = deletion
  BY DEF Restore, deletion, At
<1> QED BY <1>1, <1>2 DEF Restore, Database!Mark, Database!There

LEMMA PermitMarks ==
    ASSUME CrudInv, NEW p \in Proc, NEW status \in {"active", "disabled"}, Permit(p, status)
    PROVE  \/ UNCHANGED <<rows, fresh, deletion>>
           \/ \E r \in Rec : Database!Mark(r, status)
<1>1. CrudTypes /\ LockInv /\ ~At(p, "idle") /\ ~At(p, "delete") /\ End(p) /\ UNCHANGED fresh
  BY DEF CrudInv, Permit, At
<1>2. At(p, "idle")' /\ \A q \in Proc \ {p} : req'[q] = req[q]
  BY <1>1, EndIs
<1>3. deletion' = deletion
  BY <1>1, <1>2, NothingAsked DEF At
<1>4. PICK r \in Rec : r = Target(p)
  BY <1>1, TargetIs
<1>5. req[p].by \in Sessions
  BY <1>1, RequestIs DEF Requests
<1>6. CASE Permitted(req[p].by, "u", r) /\ Exists(r)
  <2>1. <<req[p].by, r>> \in Allowed("u") /\ rows[r] # NoRow
    BY <1>5, <1>6, AllowedIs DEF Exists
  <2>2. rows' = [rows EXCEPT ![r].status = status]
    BY <1>4, <1>6 DEF Permit
  <2>3. Database!Mark(r, status)
    BY <1>1, <1>3, <1>5, <2>1, <2>2 DEF Database!Mark, Database!There
  <2> QED BY <1>5, <2>3
<1>7. CASE ~(Permitted(req[p].by, "u", r) /\ Exists(r))
  BY <1>1, <1>3, <1>4, <1>7 DEF Permit
<1> QED BY <1>6, <1>7

\* A request that goes on, but deletes nothing.
LEMMA ReadsAlone ==
    ASSUME CrudInv, NEW p \in Proc, ReadRelated(p)
    PROVE  /\ ~At(p, "delete") /\ ~At(p, "delete")' /\ UNCHANGED <<rows, fresh>>
           /\ \A q \in Proc \ {p} : req'[q] = req[q]
<1>1. CrudTypes /\ At(p, "related") /\ ~At(p, "delete") /\ ~At(p, "idle") /\ UNCHANGED <<rows, fresh>>
  BY DEF CrudInv, ReadRelated, At
<1>2. CASE End(p)
  BY <1>1, <1>2, EndIs DEF At
<1>3. CASE ~End(p)
  <2>1. req[p] \in Requests
    BY <1>1, RequestIs
  <2>2. PICK have : req' = [req EXCEPT ![p] = [req[p] EXCEPT !.step = "link", !.have = have]]
    <3>1. req' = [req EXCEPT ![p].step = "link", ![p].have = rows[Target(p)].items]
      BY <1>3 DEF ReadRelated
    <3> QED BY <3>1
  <2>3. /\ req'[p] = [req[p] EXCEPT !.step = "link", !.have = have]
        /\ \A q \in Proc \ {p} : req'[q] = req[q]
    BY <1>1, <2>2 DEF CrudTypes
  <2>4. req'[p].step = "link"
    BY <2>1, <2>3 DEF Requests
  <2> QED BY <1>1, <2>3, <2>4 DEF At
<1> QED BY <1>2, <1>3

LEMMA LinksAlone ==
    ASSUME CrudInv, NEW p \in Proc, Link(p)
    PROVE  /\ ~At(p, "delete") /\ ~At(p, "delete")'
           /\ \A q \in Proc \ {p} : req'[q] = req[q]
<1>1. CrudTypes /\ ~At(p, "delete") /\ ~At(p, "idle")
  BY DEF CrudInv, Link, At
<1>2. End(p) \/ req' = [req EXCEPT ![p].step = "permit"]
  BY DEF Link
<1>3. CASE End(p)
  BY <1>1, <1>3, EndIs DEF At
<1>4. CASE req' = [req EXCEPT ![p].step = "permit"]
  <2>1. req[p] \in Requests
    BY <1>1, RequestIs
  <2>2. [req[p] EXCEPT !.step = "permit"].step = "permit"
    BY <2>1 DEF Requests
  <2>3. req'[p] = [req[p] EXCEPT !.step = "permit"] /\ \A q \in Proc \ {p} : req'[q] = req[q]
    BY <1>1, <1>4 DEF CrudTypes
  <2> QED BY <1>1, <2>2, <2>3 DEF At
<1> QED BY <1>2, <1>3, <1>4

LEMMA LinkRelates ==
    ASSUME CrudInv, NEW p \in Proc, Link(p)
    PROVE  \/ UNCHANGED <<rows, fresh, deletion>>
           \/ \E r \in Rec, items \in SUBSET Related : Database!Relate(r, items)
<1>1. CrudTypes /\ LockInv /\ ~At(p, "idle") /\ ~At(p, "delete") /\ UNCHANGED fresh
  BY DEF CrudInv, Link, At
<1>2. deletion' = deletion
  BY LinksAlone, NothingAsked
<1>3. PICK r \in Rec : r = Target(p)
  BY <1>1, TargetIs
<1>4. CASE Clash(p)
  BY <1>1, <1>2, <1>4 DEF Link
<1>5. CASE ~Clash(p)
  <2>1. Exists(r)
    BY <1>3, <1>5 DEF Clash
  <2>2. Linked(p) \in SUBSET Related
    <3>1. rows[r].items \in SUBSET Related /\ req[p].want \in SUBSET Related
      BY <1>1, <2>1, RowIs, RequestIs DEF Requests
    <3> QED BY <1>3, <3>1 DEF Linked, Missing
  <2>3. rows' = [rows EXCEPT ![r].items = Linked(p)]
    BY <1>3, <1>5 DEF Link
  <2>4. Database!Relate(r, Linked(p))
    BY <1>1, <1>2, <2>1, <2>3 DEF Database!Relate, Database!There, Exists
  <2> QED BY <2>2, <2>4
<1> QED BY <1>4, <1>5

LEMMA JoinJoins ==
    ASSUME CrudInv, NEW p \in Proc, Join(p)
    PROVE  UNCHANGED <<rows, fresh, deletion>> \/ \E m \in Related : Database!Join(m)
<1>1. CrudTypes /\ fresh' = fresh /\ deletion' = deletion
  BY DEF CrudInv, Join, deletion, At
<1>2. PICK j \in joins[p] :
         IF JoinClash(j) THEN rows' = rows
         ELSE rows' = [r \in Rec |->
                  IF Exists(r) THEN [rows[r] EXCEPT !.items = With(@, r, j)] ELSE rows[r]]
  BY DEF Join
<1>3. CASE JoinClash(j)
  BY <1>1, <1>2, <1>3
<1>4. CASE ~JoinClash(j)
  <2>1. PICK m \in Related : m = j.who
    BY <1>1, <1>4 DEF JoinClash, CrudTypes
  <2>2. ASSUME NEW r \in Rec
        PROVE  \/ rows'[r] = rows[r]
               \/ rows[r] # NoRow /\ rows'[r] = [rows[r] EXCEPT !.items = @ \cup {m}]
               \/ rows[r] # NoRow /\ rows'[r] = [rows[r] EXCEPT !.items = @ \ {m}]
    <3>1. CASE ~Exists(r)
      BY <1>2, <1>4, <3>1
    <3>2. CASE Exists(r)
      <4>1. PICK row \in Stored : row = rows[r]
        BY <1>1, <3>2, RowIs
      <4>2. rows'[r] = [row EXCEPT !.items = With(row.items, r, j)]
        BY <1>2, <1>4, <3>2, <4>1
      <4>3. [row EXCEPT !.items = row.items] = row
        BY DEF Stored
      <4> QED BY <2>1, <3>2, <4>1, <4>2, <4>3 DEF With, Exists
    <3> QED BY <3>1, <3>2
  <2>3. rows' = [r \in Rec |-> rows'[r]]
    BY <1>2, <1>4
  <2> QED BY <1>1, <2>2, <2>3 DEF Database!Join, Database!There
<1> QED BY <1>3, <1>4

LEMMA PurgeLeaves ==
    ASSUME NEW p \in Proc, NEW m \in Related, PurgeRelated(p, m)
    PROVE  Database!Leave(m)
<1>1. deletion' = deletion /\ fresh' = fresh
  BY DEF PurgeRelated, deletion, At
<1>2. \A r \in Rec : Attr[r].owner # m <=>
          <<m, r>> \notin {of \in Related \X Rec : Attr[of[2]].owner = of[1]}
  OBVIOUS
<1> QED BY <1>1, <1>2 DEF PurgeRelated, Exists, Database!Leave, Database!There

LEMMA DeleteAsks ==
    ASSUME CrudInv, NEW p \in Proc, NEW s \in Sessions, NEW ids \in Seq(Rec),
           NEW kind \in {"disable", "remove", "purge"}, Delete(p, s, ids, kind)
    PROVE  Database!Ask(p, s, Named(ids), kind)
<1>1. CrudTypes /\ Send(p, kind, "delete", s, ids, {}) /\ UNCHANGED <<rows, fresh>>
  BY DEF CrudInv, Delete
<1>2. /\ At(p, "idle") /\ req'[p].step = "delete" /\ req'[p].ids = ids
      /\ \A q \in Proc \ {p} : req'[q] = req[q]
      /\ \A i \in 1..Len(ids) : ids[i] \notin fresh'
  BY <1>1, SentIs
<1>3. req'[p].by = s /\ req'[p].kind = kind
  BY <1>1 DEF Send, CrudTypes
<1>4. deletion[p] = {}
  BY <1>2 DEF deletion, At
<1>5. deletion'[p] = {[by |-> s, list |-> Named(ids), kind |-> kind]}
  BY <1>2, <1>3 DEF deletion, At
<1>6. deletion' = [deletion EXCEPT ![p] = {[by |-> s, list |-> Named(ids), kind |-> kind]}]
  <2>1. \A q \in Proc \ {p} : deletion'[q] = deletion[q]
    BY <1>2 DEF deletion, At
  <2> QED BY <1>5, <2>1 DEF deletion
<1>7. Named(ids) \cap fresh = {}
  BY <1>1, <1>2 DEF Named
<1> QED BY <1>1, <1>4, <1>6, <1>7 DEF Database!Ask

LEMMA DeleteOneDrops ==
    ASSUME CrudInv, NEW p \in Proc, DeleteOne(p)
    PROVE  UNCHANGED <<rows, fresh, deletion>> \/ Database!Drop(p)
<1>1. CrudTypes /\ At(p, "delete") /\ ~At(p, "idle") /\ UNCHANGED <<rows, fresh>>
  BY DEF CrudInv, DeleteOne, Refusal, At
<1>2. CASE End(p)
  <2>1. At(p, "idle")' /\ \A q \in Proc \ {p} : req'[q] = req[q]
    BY <1>1, <1>2, EndIs
  <2>2. deletion' = [deletion EXCEPT ![p] = {}]
    BY <2>1, NothingLeft DEF At
  <2> QED BY <1>1, <2>2 DEF Database!Drop
<1>3. CASE ~End(p)
  <2>1. req[p] \in Requests
    BY <1>1, RequestIs
  <2>2. PICK left, written :
          req' = [req EXCEPT ![p] = [req[p] EXCEPT !.left = left, !.pending = written]]
    BY <1>3 DEF DeleteOne, Refusal
  <2>3. /\ req'[p] = [req[p] EXCEPT !.left = left, !.pending = written]
        /\ \A q \in Proc \ {p} : req'[q] = req[q]
    BY <1>1, <2>2 DEF CrudTypes
  <2>4. /\ req'[p].step = req[p].step /\ req'[p].by = req[p].by
        /\ req'[p].ids = req[p].ids /\ req'[p].kind = req[p].kind
    BY <2>1, <2>3 DEF Requests
  <2>5. ASSUME NEW q \in Proc
        PROVE  deletion'[q] = deletion[q]
    BY <2>3, <2>4 DEF deletion, At
  <2>6. deletion' = deletion
    BY <2>5 DEF deletion
  <2> QED BY <1>1, <2>6
<1> QED BY <1>2, <1>3

\* What is pending is of the list that was asked for.
PendingInv ==
    \A p \in Proc : At(p, "delete") => req[p].pending \subseteq Named(req[p].ids)

LEMMA PendingStays ==
    ASSUME PendingInv, NEW p \in Proc, \A q \in Proc \ {p} : req'[q] = req[q],
           ~At(p, "delete")' \/ req'[p].pending = {}
    PROVE  PendingInv'
<1>1. ASSUME NEW q \in Proc, At(q, "delete")'
      PROVE  req'[q].pending \subseteq Named(req'[q].ids)
  <2>1. CASE q = p
    BY <1>1, <2>1
  <2>2. CASE q # p
    BY <1>1, <2>2 DEF PendingInv, At
  <2> QED BY <2>1, <2>2
<1> QED BY <1>1 DEF PendingInv

LEMMA DeleteOnePending ==
    ASSUME CrudInv, PendingInv, NEW p \in Proc, DeleteOne(p)
    PROVE  PendingInv'
<1>1. /\ CrudTypes /\ LockInv /\ DeleteInv /\ At(p, "delete") /\ ~At(p, "idle")
      /\ req[p].left # <<>> /\ req[p] \in Requests
  <2>1. CrudTypes /\ LockInv /\ DeleteInv /\ At(p, "delete") /\ ~At(p, "idle") /\ req[p].left # <<>>
    BY DEF CrudInv, DeleteOne, At
  <2> QED BY <2>1, RequestIs
<1>2. CASE End(p)
  <2>1. At(p, "idle")' /\ \A q \in Proc \ {p} : req'[q] = req[q]
    BY <1>1, <1>2, EndIs
  <2> QED BY <2>1, PendingStays DEF At
<1>3. CASE ~End(p)
  <2>1. PICK ids \in Seq(Rec), left \in Seq(Rec), pending \in SUBSET Rec :
            ids = req[p].ids /\ left = req[p].left /\ pending = req[p].pending
    BY <1>1 DEF Requests
  <2>2. PICK r \in Rec : r = Target(p)
    BY <1>1, TargetIs
  <2>3. PICK n \in 0..Len(ids) : Progress(p, n)
    BY <1>1, <2>1 DEF DeleteInv, DeletePart
  <2>4. Len(left) = Len(ids) - n /\ \A i \in 1..Len(left) : left[i] = ids[n + i]
    BY <2>1, <2>3 DEF Progress
  <2>5. Len(left) \in Nat \ {0} /\ Len(ids) \in Nat /\ r = left[1]
    BY <1>1, <2>1, <2>2 DEF Target
  <2>6. n + 1 \in 1..Len(ids) /\ r = ids[n + 1]
    BY <2>4, <2>5
  <2>7. PICK written \in SUBSET (pending \cup {r}) :
            req' = [req EXCEPT ![p] = [req[p] EXCEPT !.left = Tail(left), !.pending = written]]
    <3>1. req' = [req EXCEPT ![p].left = Tail(@),
                             ![p].pending = IF Exists(r) THEN @ \cup {r} ELSE @]
      BY <1>3, <2>2 DEF DeleteOne, Refusal
    <3>2. PICK written \in SUBSET (pending \cup {r}) :
              written = IF Exists(r) THEN pending \cup {r} ELSE pending
      OBVIOUS
    <3>3. req' = [req EXCEPT ![p] = [req[p] EXCEPT !.left = Tail(left), !.pending = written]]
      BY <2>1, <3>1, <3>2
    <3> QED BY <3>3
  <2>8. /\ req'[p].pending = written /\ req'[p].ids = ids
        /\ \A q \in Proc \ {p} : req'[q] = req[q]
    <3>1. /\ req'[p] = [req[p] EXCEPT !.left = Tail(left), !.pending = written]
          /\ \A q \in Proc \ {p} : req'[q] = req[q]
      BY <1>1, <2>7 DEF CrudTypes
    <3> QED BY <1>1, <2>1, <3>1 DEF Requests
  <2>9. written \subseteq Named(ids)
    BY <1>1, <2>1, <2>6 DEF PendingInv, Named
  <2>10. ASSUME NEW q \in Proc, At(q, "delete")'
         PROVE  req'[q].pending \subseteq Named(req'[q].ids)
    <3>1. CASE q = p
      BY <2>8, <2>9, <3>1
    <3>2. CASE q # p
      BY <2>8, <2>10, <3>2 DEF PendingInv, At
    <3> QED BY <3>1, <3>2
  <2> QED BY <2>10 DEF PendingInv
<1> QED BY <1>2, <1>3

\* What is pending when a deletion commits is what there is of its list.
LEMMA PendingIs ==
    ASSUME CrudInv, PendingInv, NEW p \in Proc, At(p, "delete"), req[p].left = <<>>, NEW r \in Rec
    PROVE  /\ r \in req[p].pending <=> r \in Named(req[p].ids) /\ Exists(r)
           /\ r \in Named(req[p].ids) => Permitted(req[p].by, "d", r)
<1>1. CrudTypes /\ LockInv /\ DeleteInv /\ ~At(p, "idle")
  BY DEF CrudInv, At
<1>2. PICK ids \in Seq(Rec) : ids = req[p].ids
  BY <1>1, RequestIs DEF Requests
<1>3. PICK n \in 0..Len(ids) : Progress(p, n)
  BY <1>1, <1>2 DEF DeleteInv, DeletePart
<1>4. n = Len(ids)
  BY <1>2, <1>3 DEF Progress
<1>5. \A i \in 1..Len(ids) : Handled(p, ids[i])
  BY <1>2, <1>3, <1>4 DEF Progress
<1>6. r \in req[p].pending => r \in Named(ids) /\ Exists(r)
  BY <1>1, <1>2 DEF PendingInv, LockInv, LockPart
<1> QED BY <1>2, <1>5, <1>6 DEF Named, Handled

LEMMA CommitCarries ==
    ASSUME CrudInv, PendingInv, NEW p \in Proc, DeleteCommit(p)
    PROVE  Database!Carry(p)
<1>1. /\ CrudTypes /\ At(p, "delete") /\ ~At(p, "idle") /\ req[p].left = <<>>
      /\ rows' = Flushed(p) /\ End(p) /\ UNCHANGED fresh
  BY DEF CrudInv, DeleteCommit, At
<1>2. req[p].by \in Sessions
  BY <1>1, RequestIs DEF Requests
<1>3. PICK d : d = [by |-> req[p].by, list |-> Named(req[p].ids), kind |-> req[p].kind]
  OBVIOUS
<1>4. d \in deletion[p] /\ d.by = req[p].by /\ d.list = Named(req[p].ids) /\ d.kind = req[p].kind
  BY <1>1, <1>3 DEF deletion
<1>5. \A r \in Rec : r \in req[p].pending <=> r \in d.list /\ Exists(r)
  BY <1>1, <1>4, PendingIs
<1>6. d.list \subseteq Rec
  BY <1>1, <1>4, RequestIs DEF Requests, Named
<1>7. PICK named : named = {r \in d.list : rows[r] # NoRow}
  OBVIOUS
<1>8. \A r \in Rec : r \in req[p].pending <=> r \in named
  BY <1>5, <1>7 DEF Exists
<1>9. ASSUME NEW r \in named
      PROVE  <<d.by, r>> \in Allowed("d")
  <2>1. r \in Rec /\ r \in Named(req[p].ids) /\ Exists(r)
    BY <1>4, <1>6, <1>7 DEF Exists
  <2> QED BY <1>1, <1>2, <1>4, <2>1, PendingIs, AllowedIs
<1>10. rows' = [r \in Rec |-> IF r \in named THEN Database!Gone(r, d.kind) ELSE rows[r]]
  BY <1>1, <1>4, <1>8 DEF Flushed, Database!Gone
<1>11. deletion' = [deletion EXCEPT ![p] = {}]
  <2>1. At(p, "idle")' /\ \A q \in Proc \ {p} : req'[q] = req[q]
    BY <1>1, EndIs
  <2> QED BY <2>1, NothingLeft DEF At
<1> QED BY <1>1, <1>4, <1>7, <1>9, <1>10, <1>11 DEF Database!Carry, Database!There

LEMMA PendingStep ==
    ASSUME CrudInv, PendingInv, CrudNext
    PROVE  PendingInv'
<1>1. CrudTypes /\ Clients \subseteq Sessions /\ \A ids \in Batches : ids \in Seq(Rec)
  BY CrudConstants DEF CrudInv
<1>2. PICK p \in Proc :
        \/ \E s \in Clients, r \in Rec :
             \/ \E want \in Wants : Create(p, s, r, want)
             \/ \E want \in Wants : UpdateRelated(p, s, r, want)
             \/ UpdateRecord(p, s, r)
             \/ Restore(p, s, r)
        \/ \E s \in Clients, ids \in Batches, kind \in {"disable", "remove", "purge"} :
             Delete(p, s, ids, kind)
        \/ Created(p) \/ ReadRelated(p) \/ Link(p)
        \/ \E status \in {"active", "disabled"} : Permit(p, status)
        \/ DeleteOne(p) \/ DeleteCommit(p)
        \/ Fails(p)
        \/ \E m \in Related :
             \/ \E lists \in SUBSET TwoSided : JoinLists(p, m, lists)
             \/ PurgeRelated(p, m)
        \/ Join(p) \/ JoinFails(p)
  BY DEF CrudNext
<1>3. ASSUME ~At(p, "idle"), End(p)
      PROVE  PendingInv'
  <2>1. At(p, "idle")' /\ \A q \in Proc \ {p} : req'[q] = req[q]
    BY <1>1, <1>3, EndIs
  <2> QED BY <2>1, PendingStays DEF At
<1>4. ASSUME \E kind, step, s, ids, want : Send(p, kind, step, s, ids, want)
      PROVE  PendingInv'
  <2>1. PICK kind, step, s, ids, want : Send(p, kind, step, s, ids, want)
    BY <1>4
  <2>2. PICK new : new = [step |-> step, kind |-> kind, by |-> s, ids |-> ids, left |-> ids,
                          want |-> want, have |-> {}, pending |-> {}]
    OBVIOUS
  <2>3. req' = [req EXCEPT ![p] = new] /\ new.pending = {}
    BY <2>1, <2>2 DEF Send
  <2>4. req'[p].pending = {} /\ \A q \in Proc \ {p} : req'[q] = req[q]
    BY <1>1, <2>3 DEF CrudTypes
  <2> QED BY <2>4, PendingStays
<1>5. CASE \E s \in Clients, r \in Rec :
             \/ \E want \in Wants : Create(p, s, r, want)
             \/ \E want \in Wants : UpdateRelated(p, s, r, want)
             \/ UpdateRecord(p, s, r)
  BY <1>4, <1>5 DEF Create, UpdateRelated, UpdateRecord
<1>6. CASE \E s \in Clients, r \in Rec : Restore(p, s, r)
  BY <1>6 DEF Restore, PendingInv, At
<1>7. CASE \E s \in Clients, ids \in Batches, kind \in {"disable", "remove", "purge"} :
             Delete(p, s, ids, kind)
  BY <1>4, <1>7 DEF Delete
<1>8. CASE \/ Created(p) \/ DeleteCommit(p) \/ Fails(p)
           \/ \E status \in {"active", "disabled"} : Permit(p, status)
  BY <1>3, <1>8 DEF Created, Permit, DeleteCommit, Fails, Busy, At
<1>9. CASE ReadRelated(p)
  BY <1>9, ReadsAlone, PendingStays
<1>10. CASE Link(p)
  BY <1>10, LinksAlone, PendingStays
<1>11. CASE DeleteOne(p)
  BY <1>11, DeleteOnePending
<1>12. CASE \/ \E m \in Related :
                \/ \E lists \in SUBSET TwoSided : JoinLists(p, m, lists)
                \/ PurgeRelated(p, m)
            \/ Join(p) \/ JoinFails(p)
  <2>1. req' = req
    BY <1>12 DEF JoinLists, PurgeRelated, Join, JoinFails
  <2> QED BY <2>1 DEF PendingInv, At
<1> QED BY <1>2, <1>5, <1>6, <1>7, <1>8, <1>9, <1>10, <1>11, <1>12

\* One step of the code is one of Records, or none.
LEMMA RecordsStep ==
    ASSUME CrudInv, PendingInv, CrudNext
    PROVE  [Database!Next]_<<rows, fresh, deletion>>
<1>1. CrudTypes /\ Clients \subseteq Sessions /\ \A ids \in Batches : ids \in Seq(Rec)
  BY CrudConstants DEF CrudInv
<1>2. PICK p \in Proc :
        \/ \E s \in Clients, r \in Rec :
             \/ \E want \in Wants : Create(p, s, r, want)
             \/ \E want \in Wants : UpdateRelated(p, s, r, want)
             \/ UpdateRecord(p, s, r)
             \/ Restore(p, s, r)
        \/ \E s \in Clients, ids \in Batches, kind \in {"disable", "remove", "purge"} :
             Delete(p, s, ids, kind)
        \/ Created(p) \/ ReadRelated(p) \/ Link(p)
        \/ \E status \in {"active", "disabled"} : Permit(p, status)
        \/ DeleteOne(p) \/ DeleteCommit(p)
        \/ Fails(p)
        \/ \E m \in Related :
             \/ \E lists \in SUBSET TwoSided : JoinLists(p, m, lists)
             \/ PurgeRelated(p, m)
        \/ Join(p) \/ JoinFails(p)
  BY DEF CrudNext
<1>3. CASE \E s \in Clients, r \in Rec, want \in Wants : Create(p, s, r, want)
  <2>1. PICK s \in Sessions, r \in Rec, want \in SUBSET Related : Create(p, s, r, want)
    BY <1>1, <1>3 DEF Wants
  <2> QED BY <2>1, CreateAdds DEF Database!Next
<1>4. CASE \E s \in Clients, r \in Rec, want \in Wants : UpdateRelated(p, s, r, want)
  <2>1. PICK s \in Sessions, r \in Rec, want \in SUBSET Related : UpdateRelated(p, s, r, want)
    BY <1>1, <1>4 DEF Wants
  <2>2. Send(p, "update", "related", s, <<r>>, want) /\ UNCHANGED <<rows, fresh>>
    BY <2>1 DEF UpdateRelated
  <2> QED BY <2>2, UpdateStutters
<1>5. CASE \E s \in Clients, r \in Rec : UpdateRecord(p, s, r)
  <2>1. PICK s \in Sessions, r \in Rec : UpdateRecord(p, s, r)
    BY <1>1, <1>5
  <2>2. Send(p, "update", "permit", s, <<r>>, {}) /\ UNCHANGED <<rows, fresh>>
    BY <2>1 DEF UpdateRecord
  <2>3. {} \in SUBSET Related
    OBVIOUS
  <2> QED BY <2>2, <2>3, UpdateStutters
<1>6. CASE \E s \in Clients, r \in Rec : Restore(p, s, r)
  <2>1. PICK s \in Sessions, r \in Rec : Restore(p, s, r)
    BY <1>1, <1>6
  <2> QED BY <2>1, RestoreMarks DEF Database!Next
<1>7. CASE \E s \in Clients, ids \in Batches, kind \in {"disable", "remove", "purge"} :
             Delete(p, s, ids, kind)
  <2>1. PICK s \in Sessions, ids \in Batches, kind \in {"disable", "remove", "purge"} :
               Delete(p, s, ids, kind)
    BY <1>1, <1>7
  <2>2. PICK list \in {Named(these) : these \in Batches} : list = Named(ids)
    BY <2>1
  <2>3. Database!Ask(p, s, list, kind)
    BY <1>1, <2>1, <2>2, DeleteAsks
  <2> QED BY <2>3 DEF Database!Next
<1>8. CASE Created(p) \/ Fails(p)
  <2>1. End(p) /\ UNCHANGED <<rows, fresh>> /\ ~At(p, "idle")
    BY <1>8 DEF Created, Fails, Busy, At
  <2>2. At(p, "idle")' /\ \A q \in Proc \ {p} : req'[q] = req[q]
    BY <1>1, <2>1, EndIs
  <2>3. Database!Drop(p)
    BY <2>1, <2>2, NothingLeft DEF At, Database!Drop
  <2> QED BY <2>3 DEF Database!Next
<1>9. CASE ReadRelated(p)
  BY <1>9, ReadsAlone, NothingAsked
<1>10. CASE Link(p)
  BY <1>10, LinkRelates DEF Database!Next
<1>11. CASE \E status \in {"active", "disabled"} : Permit(p, status)
  BY <1>11, PermitMarks DEF Database!Next
<1>12. CASE DeleteOne(p)
  BY <1>12, DeleteOneDrops DEF Database!Next
<1>13. CASE DeleteCommit(p)
  BY <1>13, CommitCarries DEF Database!Next
<1>14. CASE \E m \in Related : PurgeRelated(p, m)
  BY <1>14, PurgeLeaves DEF Database!Next
<1>15. CASE Join(p)
  BY <1>15, JoinJoins DEF Database!Next
<1>16. CASE JoinFails(p) \/ \E m \in Related, lists \in SUBSET TwoSided : JoinLists(p, m, lists)
  BY <1>16 DEF JoinFails, JoinLists, deletion, At
<1> QED BY <1>2, <1>3, <1>4, <1>5, <1>6, <1>7, <1>8, <1>9, <1>10, <1>11, <1>12, <1>13,
           <1>14, <1>15, <1>16

\* Of the statements and commits a request is made of, who reads the database sees
\* the single steps of Records.
THEOREM RecordsAreAsPromised == ListingSpec => RecordsAsPromised
<1>1. ListingInit => Database!Init /\ PendingInv
  <2>1. SUFFICES ASSUME ListingInit
                 PROVE  Database!Init /\ PendingInv
    OBVIOUS
  <2>2. /\ rows \in InitialRows /\ fresh = {r \in Rec : rows[r] = NoRow}
        /\ \A p \in Proc : ~At(p, "delete")
    BY <2>1 DEF ListingInit, CrudInit, Exists, At, Idle
  <2>3. deletion = [p \in Proc |-> {}]
    BY <2>2 DEF deletion
  <2> QED BY <2>2, <2>3 DEF Database!Init, PendingInv
<1>2. CrudInv /\ PendingInv /\ [ListingNext]_vars =>
        PendingInv' /\ [Database!Next]_<<rows, fresh, deletion>>
  <2>1. CASE UNCHANGED crudVars
    BY <2>1 DEF crudVars, PendingInv, deletion, At
  <2>2. CASE CrudNext
    BY <2>2, PendingStep, RecordsStep
  <2> QED BY <2>1, <2>2, ListingSteps
<1> QED BY <1>1, <1>2, CrudInvariant, PTL DEF ListingSpec, RecordsAsPromised, Database!Spec
=============================================================================
