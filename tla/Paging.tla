-------------------------------- MODULE Paging --------------------------------
(***************************************************************************)
(* One caller walks through the pages of one ticket list while tickets      *)
(* enter and leave it.  Every page is a query of its own, by offset into    *)
(* the tickets newest first, or an answer cached a while ago.  The order is *)
(* taken to be total: nothing breaks a tie of created_at in the source, so  *)
(* that tied tickets could change places from page to page.                 *)
(***************************************************************************)
EXTENDS FiniteSets, Naturals, Sequences

CONSTANTS
    Times,       \* the tickets, named by their places in the order of created_at
    page_size,
    MaxChanges   \* bound on the commits

ASSUME TimesAssumption == Times \subseteq Nat /\ IsFiniteSet(Times)
ASSUME PageSizeAssumption == page_size \in Nat \ {0}
ASSUME ChangesAssumption == MaxChanges \in Nat

VARIABLES
    listing,  \* the tickets that meet the conditions of the list
    cached,   \* earlier listings, of which any page may still be in the cache
    seen,     \* the listing each page of the walk so far was taken from
    changes   \* commits so far

walk == <<listing, cached, seen, changes>>

WalkInit ==
    /\ listing \in SUBSET Times
    /\ cached = {}
    /\ seen = <<>>
    /\ changes = 0

Newer(S, x) == {y \in S : y > x}

\* Faulty variant: pages numbered from 0.
OffsetFromZero(n) == n * page_size

\* Faulty variant: every page begins with the last ticket of the one before.
OffsetOverlaps(n) == (n - 1) * (page_size - 1)

Offset(n) == (n - 1) * page_size

Limit(n) == Offset(n) + page_size

\* ORDER BY created_at DESC, OFFSET and LIMIT.  Tickets of one moment keep their places,
\* which the ORDER BY alone does not promise.
PageAt(S, n) ==
    {x \in S : Offset(n) <= Cardinality(Newer(S, x)) /\ Cardinality(Newer(S, x)) < Limit(n)}

\* The walk ends with a page that is not full.
Over == seen # <<>> /\ Cardinality(PageAt(seen[Len(seen)], Len(seen))) < page_size

\* A commit: a ticket is created, deleted, or changed so that it enters or leaves the
\* list.  A ticket may become visible after one created later.
Write(x) ==
    /\ changes < MaxChanges /\ ~Over
    /\ listing' = IF x \in listing THEN listing \ {x} ELSE listing \cup {x}
    /\ cached' = cached \cup {listing}
    /\ changes' = changes + 1
    /\ UNCHANGED seen

\* The next page, queried now or found in the cache as it was stored before.
ReadPage(S) ==
    /\ ~Over
    /\ seen' = Append(seen, S)
    /\ UNCHANGED <<listing, cached, changes>>

WalkNext ==
    \/ \E x \in Times : Write(x)
    \/ \E S \in cached \cup {listing} : ReadPage(S)

WalkSpec == WalkInit /\ [][WalkNext]_walk

-------------------------------------------------------------------------------
(* Properties. *)

PagesWith(x) == {n \in DOMAIN seen : x \in PageAt(seen[n], n)}

\* Tickets that were in the list whenever a page of it was taken.
Stable == {x \in Times : \A n \in DOMAIN seen : x \in seen[n]}

\* A ticket that went from the list, or came, between one page and the next.
Later == 2..Len(seen)
Departures == {p \in Times \X Later : p[1] \in seen[p[2] - 1] \ seen[p[2]]}
Arrivals == {p \in Times \X Later : p[1] \in seen[p[2]] \ seen[p[2] - 1]}

\* However writes and cached pages mix, a walk skips no more tickets than went from
\* the list between one page and the next; if none did, it skips nothing.
SkipsExplained ==
    Over => Cardinality({x \in Stable : PagesWith(x) = {}}) <= Cardinality(Departures)

\* A ticket on a page of the walk, shown on an earlier page already.
Repeats ==
    {p \in Stable \X DOMAIN seen : p[2] \in PagesWith(p[1]) /\ \E m \in PagesWith(p[1]) : m < p[2]}

\* And it shows tickets again no more often than others came in between two pages.
RepeatsExplained == Cardinality(Repeats) <= Cardinality(Arrivals)
===============================================================================
