-------------------------------- MODULE Rbac --------------------------------
(***************************************************************************)
(* Access control: the policies of rbac.yaml and the two readings of them  *)
(* in access.py.  rbac_permissions says what a session may do with one     *)
(* record, with_filter turns the same policies into the query of a find.   *)
(* A '*' of the file has become '.*' by the time either of them reads it.  *)
(*                                                                         *)
(* A session is [uid, auth], auth being a set of roles; a role is a name,  *)
(* and of a list's members the list and the level as well.  A record is    *)
(* [res, owner, privacy, list, referrer, primary].                         *)
(***************************************************************************)
EXTENDS FiniteSets

CONSTANT None  \* no owner, no list, no uid, no privacy

ASSUME NoneAssumption == None # "public"

Plain(name) == [name |-> name, list |-> None, level |-> None]
Member(list, level) == [name |-> "list", list |-> list, level |-> level]

Policy(principal, resource, actions) ==
    [principal |-> Plain(principal), resource |-> resource, actions |-> actions]
\* principal list-{{list_id}}-<level>, whose list is filled in for each record
OfList(level, resource, actions) ==
    [principal |-> Member("list_id", level), resource |-> resource, actions |-> actions]

Base ==
    { Policy("admin", "*", {"c", "d", "r", "u"}),
      Policy("user", "uid", {"c", "d", "r", "u"}) }

Policies(res) ==
    CASE res = "contact" -> Base \cup
           { Policy("pending", "uid", {"r", "u"}),
             Policy("person", "uid", {"r", "u"}),
             Policy("list-*", "uid", {"c", "r", "u"}),
             OfList("member", "list_id", {"r"}) }
      [] res = "list" ->
           { Policy("admin", "*", {"c", "d", "i", "r", "u"}),
             Policy("user", "uid", {"c", "d", "g", "h", "j", "i", "r", "u"}),
             OfList("manager", "list_id", {"c", "d", "g", "h", "i", "j", "r", "u"}),
             OfList("member", "list_id", {"g", "i", "j", "r"}),
             OfList("invitee", "list_id", {"r"}) }
      [] res = "message" -> Base \cup
           { OfList("manager", "list_id", {"c", "d", "h", "r"}),
             OfList("invitee", "list_id", {"c", "r"}) }
      [] res = "scope" ->
           { Policy("admin", "*", {"c", "d", "r", "u"}), Policy("*", "*", {"r"}) }
      [] OTHER -> Base

-----------------------------------------------------------------------------
(* rbac_permissions *)

\* The principal, formatted for the record, is the session's formatted role.
\* 'list-*' has become 'list-.*' and is nobody's.
PrincipalIs(policy, role, s, owner, list) ==
    /\ policy.principal.name = role.name
    /\ policy.principal.level = role.level
    /\ role.name = "list" => role.list = list
    /\ role.name \in {"person", "user"} => owner = s.uid

\* match_id is the session's uid for a uid resource, and nothing for list_id.
ResourceIs(policy, s, owner, list) ==
    CASE policy.resource = "*"   -> TRUE
      [] policy.resource = "uid" -> owner = s.uid
      [] OTHER                   -> list = None

OwnerAs(s, rec) ==                \* a contact also belongs to who introduced its owner
    IF rec.res = "contact" /\ s.uid # None /\ s.uid # rec.owner /\ rec.referrer # None
    THEN rec.referrer ELSE rec.owner

\* The privacy level of the record opens it for reading.
Shared(s, list, privacy) ==
    \/ privacy = "public"
    \/ list # None /\ Member(list, privacy) \in s.auth

PermissionsOf(s, res, owner, list, privacy, denied) ==
    LET any == {policy \in Policies(res) : policy.principal.name = "*"}
        defaults == IF any # {} THEN UNION {policy.actions : policy \in any}
                    ELSE IF Shared(s, list, privacy) THEN {"r"} ELSE {}
        matched == {policy \in Policies(res) \ any :
                        \E role \in s.auth :
                            /\ PrincipalIs(policy, role, s, owner, list)
                            /\ ResourceIs(policy, s, owner, list)}
        actions == UNION {policy.actions : policy \in matched} \ denied
    IN  IF actions # {} THEN actions ELSE defaults

\* With an open query: the record's own attributes, and a primary contact stays.
\* A record that is not there has no owner, privacy or list.
Permissions(s, rec) ==
    PermissionsOf(s, rec.res, OwnerAs(s, rec), rec.list, rec.privacy,
                  IF rec.res = "contact" /\ rec.primary THEN {"d"} ELSE {})

\* get() passes on the first list of the session, for records that have none.
FirstList(s) ==
    LET lists == {role.list : role \in {r \in s.auth : r.name = "list"}}
    IN  IF lists = {} THEN None ELSE CHOOSE list \in lists : TRUE

Readable(s, rec) ==
    LET list == IF rec.res = "message" THEN rec.list ELSE FirstList(s)
    IN  "r" \in PermissionsOf(s, rec.res, OwnerAs(s, rec), list, rec.privacy, {})

\* with_permission(new_uid=...): no record yet.
MayCreate(s, res, owner) ==
    "c" \in PermissionsOf(s, res, owner, None, None, {})

-----------------------------------------------------------------------------
(* with_filter *)

\* re.match goes by a prefix of the role: 'pending' also matches 'pendingtotp'.
PrefixOf(name) == IF name = "pending" THEN {"pending", "pendingtotp"}
                  ELSE IF name = "list-*" THEN {"list"} ELSE {name}

Own(s, rec) ==
    rec.owner = s.uid \/ (rec.res = "contact" /\ rec.referrer = s.uid /\ rec.referrer # None)

Filtered(s, rec) ==
    LET readers == {policy \in Policies(rec.res) : "r" \in policy.actions}
        named(policy) == \E role \in s.auth : policy.principal = role
        whole == {policy \in readers : policy.principal.name = "*"
                                        \/ (policy.resource = "*" /\ named(policy))}
        own == {policy \in readers : policy.resource = "uid"}
    IN  \/ whole # {}
        \/ rec.privacy = "public"
        \/ \E policy \in own :
              /\ policy.principal.name \in {"person", "user"}
              /\ named(policy)
              /\ Own(s, rec)
        \/ \E policy \in own, role \in s.auth :
              /\ policy.principal.name \notin {"person", "user"}
              /\ role.name \in PrefixOf(policy.principal.name)
              /\ rec.owner = s.uid

\* A session that may not read records of its own finds nothing (status 403).
Unguarded(s, res) == TRUE                            \* mutant: without the band-aid
MayFind(s, res) ==
    "r" \in PermissionsOf(s, res, s.uid, None, None, {})
=============================================================================
