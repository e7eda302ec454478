----------------------------- MODULE MCListing -----------------------------
(***************************************************************************)
(* Two lists and two messages of u1 and a list of u2, a list's related     *)
(* records limited to one of three; requests by both users, an             *)
(* administrator, and sessions that are not logged in completely.          *)
(***************************************************************************)
EXTENDS Listing, TLC

CONSTANTS u1, u2, admin, a1, a2, a3, b1, b2, c1, m1, m2

Record(res, owner, privacy, list) ==
    [res |-> res, owner |-> owner, privacy |-> privacy, list |-> list,
     referrer |-> None, primary |-> FALSE]

MCAttr ==
    (a1 :> Record("list", u1, "secret", None)) @@ (a2 :> Record("list", u1, "public", None))
    @@ (a3 :> Record("list", u2, "member", None))
    @@ (b1 :> Record("message", u1, "member", a1)) @@ (b2 :> Record("message", u1, "secret", a3))
    @@ (c1 :> [res |-> "contact", owner |-> u2, privacy |-> "member", list |-> None,
               referrer |-> u1, primary |-> TRUE])

MCResources == <<"contact", "list", "message">>
MCByName == (a3 :> 1) @@ (a1 :> 2) @@ (b1 :> 0) @@ (c1 :> 0) @@ (a2 :> 3) @@ (b2 :> 0)
MCById == (b1 :> 1) @@ (c1 :> 2) @@ (a2 :> 3) @@ (b2 :> 4) @@ (a3 :> 5) @@ (a1 :> 6)
MCTies == {MCById, [r \in Rec |-> 7 - MCById[r]]}
MCBatches == {<<a1, b1>>, <<a2, a3>>, <<a1>>, <<a1, c1>>}

Session(uid, roles) == [uid |-> uid, auth |-> roles]
MCSessions ==
    { Session(u1, {Plain("user"), Plain("person")}),
      Session(u2, {Plain("user"), Member(a1, "member")}),
      Session(admin, {Plain("admin"), Plain("user")}),
      Session(u2, {Plain("pendingtotp")}),
      Session(u2, {Plain("pending")}),
      Session(u1, {Plain("person"), Member(a3, "member")}) }

MCClients == {s \in MCSessions : Plain("user") \in s.auth}

InRows(there, trashed) ==
    [r \in Rec |-> IF r \in there THEN Row("active", {})
                   ELSE IF r \in trashed THEN Row("disabled", {}) ELSE NoRow]
MCInitialRows ==
    { InRows({c1}, {a1, a2, b1, b2}),
      InRows({a1, a2, a3, c1}, {b1, b2}) }

MCRelated == {m1, m2, u2}
MCSymmetry == Permutations(Proc) \cup Permutations({m1, m2})
=============================================================================
