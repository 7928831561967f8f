------------------------------ MODULE UserList ------------------------------
(***************************************************************************)
(* getUserList, called page by page by a client that wants all users, while *)
(* removeUser takes users away.  findAndCount is two queries of TypeORM, the *)
(* page and then the count, each with a snapshot of its own.                *)
(*                                                                         *)
(* @IsNumber lets fractions through, so that page sizes are counted in      *)
(* parts of 1/Unit; PostgreSQL rounds LIMIT and OFFSET to whole rows.       *)
(***************************************************************************)
EXTENDS Integers, FiniteSets

CONSTANTS
    Account,    \* the users, by their place in the order of a column without ties
    Unit,       \* parts of one
    PageSizes   \* bound: page sizes that clients ask for, in parts

ASSUME AccountAssumption == IsFiniteSet(Account) /\ Account \subseteq Nat
ASSUME UnitAssumption == Unit \in Nat \ {0}
ASSUME SizeAssumption == PageSizes \subseteq Unit..(50 * Unit)   \* @Min(1), @Max(50)

VARIABLES
    live,      \* users whose row has no deleted_at
    awaits,    \* the client: "idle", awaiting the "page" query, the "count" query, or "done"
    page,      \* the page asked for
    pageSize,  \* its size, in parts
    list,      \* the page read, while the count is awaited
    total,     \* totalPages of the last answer
    seen,      \* how often each user was listed in this walk
    start      \* history: the users there when the walk began

vars == <<live, awaits, page, pageSize, list, total, seen, start>>

FirstPage == 1   \* PagingQueryDTO's default

ListInit ==
    /\ live \in SUBSET Account
    /\ awaits = "idle" /\ page = FirstPage /\ pageSize = Unit
    /\ list = {} /\ total = 0
    /\ seen = [u \in Account |-> 0]
    /\ start = live

-----------------------------------------------------------------------------
(* Pages.                                                                  *)

\* What PostgreSQL makes of a number of rows given in parts: the nearest whole one.
WholeRows(parts) == (2 * parts + Unit) \div (2 * Unit)

MutantSkip == IF page = 1 THEN 0 ELSE (page - 1) * pageSize - Unit   \* Mutant: off by one

Skip == (page - 1) * pageSize

Place(u) == Cardinality({v \in live : v < u})

\* SELECT ... ORDER BY ... LIMIT pageSize OFFSET skip
PageOf == {u \in live : Place(u) >= WholeRows(Skip) /\ Place(u) < WholeRows(Skip) + WholeRows(pageSize)}

TotalPages(items) == (items * Unit + pageSize - 1) \div pageSize   \* Math.ceil

-----------------------------------------------------------------------------

\* A client begins to read the list, from the first page.
Walk(size) ==
    /\ awaits \in {"idle", "done"}
    /\ awaits' = "page" /\ page' = FirstPage /\ pageSize' = size
    /\ list' = {} /\ total' = 0
    /\ seen' = [u \in Account |-> 0]
    /\ start' = live
    /\ UNCHANGED live

MutantPageQuery ==   \* Mutant: an empty page is asked for again
    /\ awaits = "page"
    /\ IF PageOf = {} THEN UNCHANGED <<awaits, list>> ELSE awaits' = "count" /\ list' = PageOf
    /\ UNCHANGED <<live, page, pageSize, total, seen, start>>

PageQuery ==
    /\ awaits = "page"
    /\ awaits' = "count"
    /\ list' = PageOf
    /\ UNCHANGED <<live, page, pageSize, total, seen, start>>

\* The count query and the answer; the client goes on up to totalPages.
CountQuery ==
    /\ awaits = "count"
    /\ total' = TotalPages(Cardinality(live))
    /\ seen' = [u \in Account |-> IF u \in list THEN seen[u] + 1 ELSE seen[u]]
    /\ IF page < total' THEN awaits' = "page" /\ page' = page + 1
                        ELSE awaits' = "done" /\ UNCHANGED page
    /\ UNCHANGED <<live, pageSize, list, start>>

\* removeUser, by anybody.
Remove(u) ==
    /\ u \in live
    /\ live' = live \ {u}
    /\ UNCHANGED <<awaits, page, pageSize, list, total, seen, start>>

ListNext ==
    \/ \E size \in PageSizes : Walk(size)
    \/ PageQuery
    \/ CountQuery
    \/ \E u \in Account : Remove(u)

ListSpec == ListInit /\ [][ListNext]_vars

FairListSpec == ListSpec /\ WF_vars(PageQuery) /\ WF_vars(CountQuery)

-----------------------------------------------------------------------------
(* Properties.                                                             *)

WholePages == pageSize % Unit = 0

\* A walk over whole pages lists nobody twice, whoever is removed meanwhile.
NoneTwice == WholePages => \A u \in Account : seen[u] <= 1

Omitted == {u \in start \cap live : seen[u] = 0}

\* A removal moves at most one user behind a page that was read already: a walk over
\* whole pages misses no more of the remaining users than were removed during it.
OmittedAtMostRemoved ==
    awaits = "done" /\ WholePages => Cardinality(Omitted) <= Cardinality(start \ live)

\* A walk is no worse than what was removed under it.
PagesFaithful == NoneTwice /\ OmittedAtMostRemoved

\* No walk goes on for ever: the pages end with the users that are left.
WalkEnds == (awaits = "page") ~> (awaits = "done")

=============================================================================
