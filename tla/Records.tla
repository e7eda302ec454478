------------------------------ MODULE Records ------------------------------
(***************************************************************************)
(* What the requests that change records promise to whoever reads the      *)
(* database, whatever statements and commits they are made of: an id is    *)
(* used once; a change touches one record; a deletion takes effect on      *)
(* everything it names at a time or on nothing, and only for someone who   *)
(* may delete it all.  Nothing is said of sessions, locks or the order of  *)
(* the statements; nor of who may write a related list, which the code     *)
(* does before it asks.                                                    *)
(***************************************************************************)
CONSTANTS
    Proc, Rec, Related, NoRow,
    Initial,    \* what the database may hold at first
    Who,        \* who sends requests
    Updatable,  \* <<who, record>>: who may update what is there
    Deletable,  \* <<who, record>>: who may delete it
    Lists,      \* sets of records a client asks to delete
    Owned       \* <<related record, record>>: which goes with it

VARIABLES
    rows,     \* per record: its status and related records
    fresh,    \* ids never used
    deletion  \* per process: the deletion it was asked for, if any

There(r) == rows[r] # NoRow

Init ==
    /\ rows \in Initial
    /\ fresh = {r \in Rec : rows[r] = NoRow}
    /\ deletion = [p \in Proc |-> {}]

Add(r) ==
    /\ r \in fresh
    /\ rows' = [rows EXCEPT ![r] = [status |-> "active", items |-> {}]]
    /\ fresh' = fresh \ {r}
    /\ UNCHANGED deletion

Mark(r, status) ==
    /\ There(r)
    /\ \E s \in Who : \/ <<s, r>> \in Updatable
                      \/ <<s, r>> \in Deletable /\ status = "active"
    /\ rows' = [rows EXCEPT ![r].status = status]
    /\ UNCHANGED <<fresh, deletion>>

Relate(r, items) ==
    /\ There(r)
    /\ rows' = [rows EXCEPT ![r].items = items]
    /\ UNCHANGED <<fresh, deletion>>

\* A related record enters lists and leaves others, all at a time.
Join(m) ==
    /\ rows' = [r \in Rec |-> rows'[r]]
    /\ \A r \in Rec :
         \/ rows'[r] = rows[r]
         \/ There(r) /\ rows'[r] = [rows[r] EXCEPT !.items = @ \cup {m}]
         \/ There(r) /\ rows'[r] = [rows[r] EXCEPT !.items = @ \ {m}]
    /\ UNCHANGED <<fresh, deletion>>

\* A related record leaves for good: every list, and with all that it owns.
Leave(m) ==
    /\ rows' = [r \in Rec |-> IF There(r) /\ <<m, r>> \notin Owned
                             THEN [rows[r] EXCEPT !.items = @ \ {m}] ELSE NoRow]
    /\ UNCHANGED <<fresh, deletion>>

Ask(p, s, list, kind) ==
    /\ deletion[p] = {}
    /\ list \cap fresh = {}
    /\ deletion' = [deletion EXCEPT ![p] = {[by |-> s, list |-> list, kind |-> kind]}]
    /\ UNCHANGED <<rows, fresh>>

Gone(r, kind) == IF kind = "disable" THEN [rows[r] EXCEPT !.status = "disabled"] ELSE NoRow

\* Everything the deletion names that is there goes.
Carry(p) ==
    \E d \in deletion[p] :
      LET named == {r \in d.list : There(r)} IN
      /\ \A r \in named : <<d.by, r>> \in Deletable
      /\ rows' = [r \in Rec |-> IF r \in named THEN Gone(r, d.kind) ELSE rows[r]]
      /\ deletion' = [deletion EXCEPT ![p] = {}]
      /\ UNCHANGED fresh

\* Refused or failed: nothing goes.
Drop(p) ==
    /\ deletion' = [deletion EXCEPT ![p] = {}]
    /\ UNCHANGED <<rows, fresh>>

Next ==
    \/ \E r \in Rec :
         \/ Add(r)
         \/ \E status \in {"active", "disabled"} : Mark(r, status)
         \/ \E items \in SUBSET Related : Relate(r, items)
    \/ \E p \in Proc :
         \/ \E s \in Who, list \in Lists, kind \in {"disable", "remove", "purge"} :
              Ask(p, s, list, kind)
         \/ Carry(p) \/ Drop(p)
    \/ \E m \in Related : Join(m) \/ Leave(m)

Spec == Init /\ [][Next]_<<rows, fresh, deletion>>
=============================================================================
