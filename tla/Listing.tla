------------------------------ MODULE Listing ------------------------------
(***************************************************************************)
(* Reading records page by page while requests change them: BasicCRUD.find *)
(* for one resource, Trashcan.find for the disabled records of all of them.*)
(* A page is a request that reads one snapshot of the database; the cursor *)
(* it returns says where the next one starts, by position.                 *)
(***************************************************************************)
EXTENDS Crud

CONSTANTS
    Resources, \* the resources in the order their controllers registered
    Titled,    \* those whose model has a name
    ByName,    \* [Rec -> Nat]: the names, as they compare; two may be equal
    ById,      \* [Rec -> Nat]: the ids, as they compare
    Ties,      \* bound: how the database may settle an order that a query leaves open
    PageSize,  \* the limit of a page
    MaxDuring  \* bound: requests that change records after a listing began

ASSUME PageAssumption ==
    /\ PageSize \in Nat \ {0} /\ MaxDuring \in Nat
    \* ids are of a fixed length; each record is of one of the resources
    /\ IsFiniteSet(Rec)
    /\ Resources \in Seq(STRING)
    /\ \A r \in Rec : \E i \in 1..Len(Resources) : Resources[i] = Attr[r].res
    /\ \A i, j \in 1..Len(Resources) : Resources[i] = Resources[j] => i = j
    /\ ByName \in [Rec -> Nat] /\ ById \in [Rec -> Nat]
    /\ Ties \subseteq [Rec -> Nat]
    /\ \A tie \in Ties \cup {ById}, q, r \in Rec : tie[q] = tie[r] => q = r

VARIABLE listing  \* the client: what it lists, the cursor and what it has seen

vars == <<crudVars, listing>>

NoListing == [step |-> "none", left |-> {}]

\* The query of a page for one resource.
FindOwn(s, r) == Attr[r].owner = s.uid
Queries(table, kind, s, r) ==
    /\ table[r] # NoRow
    /\ Filtered(s, Attr[r])
    /\ IF kind = "find" THEN table[r].status # "disabled"
       ELSE /\ table[r].status = "disabled"
            /\ Plain("admin") \in s.auth \/ FindOwn(s, r)

Results(kind, s, res) == {r \in Rec : Attr[r].res = res /\ Queries(rows, kind, s, r)}

\* What a query orders by: find by the name, or else the id; the trash by the name,
\* if there is one.
SortKey(kind, r) ==
    IF Attr[r].res \in Titled THEN ByName[r] ELSE IF kind = "find" THEN ById[r] ELSE 0

\* The orders in which the database may return what it finds: what the query leaves
\* open is settled in any way, which may differ from one query to the next.
Before(kind, tie, q, r) ==
    \/ SortKey(kind, q) < SortKey(kind, r)
    \/ SortKey(kind, q) = SortKey(kind, r) /\ tie[q] < tie[r]
Orders(kind) ==
    {{to \in Rec \X Rec : Before(kind, tie, to[1], to[2])} : tie \in Ties}

\* Rows offset to offset + n of what a query finds.
Rank(results, order, r) == Cardinality({q \in results : <<q, r>> \in order})
Slice(results, order, offset, n) ==
    {r \in results : Rank(results, order, r) \in offset..(offset + n - 1)}

-----------------------------------------------------------------------------
\* A page in the making, and where the next one starts.
Page(items, offset, more, res) ==
    [items |-> items, offset |-> offset, more |-> more, res |-> res]

\* BasicCRUD.find
FindPage(s, res, offset, order) ==
    LET results == Results("find", s, res)
        items   == Slice(results, order, offset, PageSize)
    IN  IF Cardinality(Slice(results, order, offset, PageSize + 1)) > PageSize
        THEN Page(items, offset + PageSize, TRUE, res)
        ELSE Page(items, 0, FALSE, res)

\* Trashcan.find: the next resource of a page, read from its offset, which goes
\* back to 0 after a resource only once the page has an item.
Rewound(page) ==                                     \* mutant: not set back to 0
    page
Rewind(page) == IF page.items # {} THEN [page EXCEPT !.offset = 0] ELSE page

TrashOf(s, page, res, order) ==
    LET results == Results("trash", s, res)
        read    == Cardinality(Slice(results, order, page.offset, PageSize + 1))
        room    == PageSize - Cardinality(page.items)
        items   == page.items \cup Slice(results, order, page.offset, room)
    IN  IF page.more THEN page
        ELSE IF read > room THEN Page(items, page.offset + room, TRUE, res)
        ELSE Rewind(Page(items, page.offset + read, FALSE, res))

\* The resources from the cursor's on; a first page starts with all of them.
TrashPage(s, start, offset, order) ==
    LET page[i \in 0..Len(Resources)] ==
          IF i < start THEN Page({}, offset, FALSE, Resources[start])
          ELSE TrashOf(s, page[i - 1], Resources[i], order)
    IN  page[Len(Resources)]

Position(res) == CHOOSE i \in 1..Len(Resources) : Resources[i] = res
PageOf(l, order) ==
    IF l.kind = "find" THEN FindPage(l.by, l.res, l.offset, order)
    ELSE TrashPage(l.by, Position(l.res), l.offset, order)

-----------------------------------------------------------------------------
Listed(kind, s, res) ==
    {r \in Rec : Queries(rows, kind, s, r) /\ (kind = "find" => Attr[r].res = res)}

\* find asks first whether the session may read records of its own.
StartListing(kind, s, res) ==
    /\ listing = NoListing
    /\ sent = 0
    /\ kind = "find" => MayFind(s, res)
    /\ kind = "trash" => res = Resources[1]
    /\ listing' = [step |-> "paging", kind |-> kind, by |-> s, res |-> res, offset |-> 0,
                   seen |-> {}, twice |-> {}, first |-> Listed(kind, s, res),
                   left |-> {}, came |-> {}]
    /\ UNCHANGED crudVars

NextPage ==
    /\ listing.step = "paging"
    /\ \E order \in Orders(listing.kind) :
         LET page == PageOf(listing, order)
         IN listing' = [listing EXCEPT
              !.step = IF page.more THEN "paging" ELSE "done",
              !.res = page.res, !.offset = page.offset,
              !.seen = @ \cup page.items,
              !.twice = @ \cup (page.items \cap listing.seen)]
    /\ UNCHANGED crudVars

\* Another request: who lists does not know what has left or joined the list.
OtherRequest ==
    /\ CrudNext
    /\ listing.step # "none" => sent' <= MaxDuring
    /\ IF listing.step # "paging" THEN UNCHANGED listing
       ELSE LET kind == listing.kind
                now == {r \in Rec : Queries(rows, kind, listing.by, r)}
                then == {r \in Rec : Queries(rows', kind, listing.by, r)}
            IN  listing' = [listing EXCEPT !.left = @ \cup (now \ then),
                                           !.came = @ \cup (then \ now)]

\* Nothing more comes in: the bounds are used up.
Done == listing.step # "paging" /\ Busy = {} /\ UNCHANGED vars

ListingInit == CrudInit /\ listing = NoListing

ListingNext ==
    \/ \E kind \in {"find", "trash"}, s \in Clients, i \in 1..Len(Resources) :
         StartListing(kind, s, Resources[i])
    \/ NextPage
    \/ OtherRequest
    \/ Done

ListingSpec == ListingInit /\ [][ListingNext]_vars

-----------------------------------------------------------------------------
\* The query puts it before or after any other record of its resource.
Fixed(kind) ==
    {r \in Rec : \A q \in Rec \ {r} :
        Attr[q].res = Attr[r].res => SortKey(kind, q) # SortKey(kind, r)}

(***************************************************************************)
(* While nothing leaves the list, its pages show every record that was     *)
(* there at the first one and that the query gives a place; while nothing  *)
(* joins it either, none of those is shown twice.  The others (in the      *)
(* trash, whatever has no name) may be missed or shown again: they only    *)
(* never take a page from those that have a place.                         *)
(***************************************************************************)
PagesComplete ==
    (listing.step = "done" /\ listing.left = {}) =>
        /\ listing.first \cap Fixed(listing.kind) \subseteq listing.seen
        /\ listing.came = {} => listing.twice \cap Fixed(listing.kind) = {}

(***************************************************************************)
(* Whatever find lists for a session, get shows to the same session: the   *)
(* query that with_filter makes of the policies never lets through more    *)
(* than rbac_permissions.                                                  *)
(***************************************************************************)
FindOnlyReadable ==
    \A s \in Sessions, r \in Rec :
        (Queries(rows, "find", s, r) /\ MayFind(s, Attr[r].res)) => Readable(s, Attr[r])
=============================================================================
