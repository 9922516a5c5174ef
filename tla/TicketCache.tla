------------------------------ MODULE TicketCache ------------------------------
(***************************************************************************)
(* The Redis cache of ticket lists and dashboard statistics: readers fill   *)
(* it after querying the database, every ticket write clears it afterwards. *)
(*                                                                          *)
(* A fill is several queries, each with a snapshot of its own, and then a   *)
(* SET; a write is a commit and then a walk over the cached keys.  Other    *)
(* coroutines run between any two of these steps.                           *)
(***************************************************************************)
EXTENDS FiniteSets, Naturals

CONSTANTS
    TicketIds, Customers,
    Statuses, Priorities,  \* the values of the two columns the queries group by
    Filters,               \* a status to list, or None
    Readers, Writers,      \* coroutines serving list and stats requests, and writes
    None,                  \* no row, no entry, no filter
    StatsKey,              \* DASHBOARD_STATS_KEY
    MaxWrites              \* bound on the number of committed writes

ASSUME FiltersAreStatuses == Filters \subseteq Statuses \cup {None} /\ None \notin Statuses
ASSUME TableIsFinite == IsFiniteSet(TicketIds)
ASSUME WritesBounded == MaxWrites \in Nat

Row == [owner : Customers, status : Statuses, priority : Priorities]

\* build_ticket_list_cache_key: agents are one caller, None; each customer is one.
ListKeys == [caller : Customers \cup {None}, filter : Filters]
Keys == ListKeys \cup {StatsKey}

ASSUME StatsKeyIsNoList == StatsKey \notin ListKeys

VARIABLES
    tickets,    \* the `tickets` table
    cache,      \* Redis: key -> what was stored, or None
    rpc, rkey,  \* where each reader is, and the key it is filling
    got,        \* what its queries have returned so far
    wpc,        \* where each writer is
    todo,       \* the list keys its SCAN will still return
    writes,     \* number of commits
    missed,     \* readers that had begun to read when a writer was done with their key
    late,       \* keys last stored by such a reader
    abandoned   \* keys some writer committed and failed to clear

vars == <<tickets, cache, rpc, rkey, got, wpc, todo, writes, missed, late, abandoned>>
reader == <<rpc, rkey, got>>
writer == <<wpc, todo, writes>>
history == <<missed, late, abandoned>>

Init ==
    /\ tickets \in [TicketIds -> Row \cup {None}]
    /\ cache = [k \in Keys |-> None]
    /\ rpc = [q \in Readers |-> "idle"]
    /\ rkey = [q \in Readers |-> None]
    /\ got = [q \in Readers |-> None]
    /\ wpc = [w \in Writers |-> "idle"]
    /\ todo = [w \in Writers |-> {}]
    /\ writes = 0
    /\ missed = {} /\ late = {} /\ abandoned = {}

-------------------------------------------------------------------------------
(* What the queries return. *)

Stored == {t \in TicketIds : tickets[t] # None}

\* The WHERE clause of a list: own tickets only for a customer, then the filter.
Matches(k) ==
    {t \in Stored : /\ k.caller # None => tickets[t].owner = k.caller
                    /\ k.filter # None => tickets[t].status = k.filter}

Page(k) == {[id |-> t, row |-> tickets[t]] : t \in Matches(k)}

ByStatus == [s \in Statuses |-> Cardinality({t \in Stored : tickets[t].status = s})]
ByPriority == [p \in Priorities |-> Cardinality({t \in Stored : tickets[t].priority = p})]

\* What a request with nothing running beside it would be answered.
Answer(k) ==
    IF k = StatsKey
    THEN [total |-> Cardinality(Stored), byStatus |-> ByStatus, byPriority |-> ByPriority]
    ELSE [total |-> Cardinality(Matches(k)), items |-> Page(k)]

-------------------------------------------------------------------------------
(* list_tickets and get_dashboard_stats.  A hit changes nothing. *)

Lookup(q, k) ==
    /\ rpc[q] = "idle" /\ cache[k] = None
    /\ rpc' = [rpc EXCEPT ![q] = "count"]
    /\ rkey' = [rkey EXCEPT ![q] = k]
    /\ UNCHANGED <<tickets, cache, got, writer, history>>

Count(q) ==
    /\ rpc[q] = "count"
    /\ rpc' = [rpc EXCEPT ![q] = IF rkey[q] = StatsKey THEN "by_status" ELSE "page"]
    /\ got' = [got EXCEPT ![q] = [total |-> Answer(rkey[q]).total]]
    /\ UNCHANGED <<tickets, cache, rkey, writer, history>>

\* select(Ticket) with the conditions, a statement after the count.
SelectPage(q) ==
    /\ rpc[q] = "page"
    /\ rpc' = [rpc EXCEPT ![q] = "store"]
    /\ got' = [got EXCEPT ![q] = [total |-> @.total, items |-> Page(rkey[q])]]
    /\ UNCHANGED <<tickets, cache, rkey, writer, history>>

\* Faulty variant: the statistics are stored without the last breakdown.
StoreEarly == "store"

AfterByStatus == "by_priority"

CountByStatus(q) ==
    /\ rpc[q] = "by_status"
    /\ rpc' = [rpc EXCEPT ![q] = AfterByStatus]
    /\ got' = [got EXCEPT ![q] = [total |-> @.total, byStatus |-> ByStatus]]
    /\ UNCHANGED <<tickets, cache, rkey, writer, history>>

CountByPriority(q) ==
    /\ rpc[q] = "by_priority"
    /\ rpc' = [rpc EXCEPT ![q] = "store"]
    /\ got' = [got EXCEPT ![q] = [total |-> @.total, byStatus |-> @.byStatus,
                                  byPriority |-> ByPriority]]
    /\ UNCHANGED <<tickets, cache, rkey, writer, history>>

Without(f, x) == [f EXCEPT ![x] = None]

Forget(q) ==
    /\ rpc' = [rpc EXCEPT ![q] = "idle"]
    /\ rkey' = Without(rkey, q)
    /\ got' = Without(got, q)
    /\ missed' = missed \ {q}

\* set_cached with the time to live of the key.
SetCached(q) ==
    /\ rpc[q] = "store"
    /\ cache' = [cache EXCEPT ![rkey[q]] = got[q]]
    /\ late' = IF q \in missed THEN late \cup {rkey[q]} ELSE late \ {rkey[q]}
    /\ Forget(q)
    /\ UNCHANGED <<tickets, writer, abandoned>>

-------------------------------------------------------------------------------
(* The ticket writes. *)

\* Readers of these keys that have an answer from before now will store it later.
Passed(ks) ==
    missed' = missed \cup {q \in Readers : rpc[q] \notin {"idle", "count"} /\ rkey[q] \in ks}

Go(w, place) == wpc' = [wpc EXCEPT ![w] = place]

\* Faulty variant: only creations and deletions invalidate, edits do not.
EditKeepsCache(old, new) == IF new # None /\ old # None THEN "idle" ELSE "stats"

\* Everything but a delete refreshes the row before it invalidates.
AfterCommit(old, new) == IF new = None THEN "stats" ELSE "refresh"

\* session.commit of create, status change, edit or delete; their guards are in
\* Tickets.
Commit(w, t, new) ==
    /\ wpc[w] = "idle" /\ writes < MaxWrites
    /\ new # None \/ tickets[t] # None
    /\ tickets' = [tickets EXCEPT ![t] = new]
    /\ writes' = writes + 1
    /\ Go(w, AfterCommit(tickets[t], new))
    /\ UNCHANGED <<cache, reader, todo, history>>

Refresh(w) ==
    /\ wpc[w] = "refresh"
    /\ Go(w, "stats")
    /\ UNCHANGED <<tickets, cache, reader, todo, writes, history>>

\* The keys are deleted, whoever else's SCAN was to return them.
Drop(ks) ==
    /\ cache' = [k \in Keys |-> IF k \in ks THEN None ELSE cache[k]]
    /\ late' = late \ ks

\* Faulty variant: only the lists are invalidated.
NoKey == {}

DeletedFirst == {StatsKey}

DeleteStats(w) ==
    /\ wpc[w] = "stats"
    /\ Drop(DeletedFirst)
    /\ Passed(DeletedFirst)
    /\ abandoned' = abandoned \ DeletedFirst
    /\ Go(w, "scan")
    /\ UNCHANGED <<tickets, reader, todo, writes>>

Cached == {k \in ListKeys : cache[k] # None}

\* The SCAN begins: it returns every key that is there from now until it is deleted.
\* A key that is not there is done with.
Scan(w) ==
    /\ wpc[w] = "scan"
    /\ todo' = [todo EXCEPT ![w] = Cached]
    /\ Passed(ListKeys \ Cached)
    /\ abandoned' = abandoned \ (ListKeys \ Cached)
    /\ Go(w, "delete")
    /\ UNCHANGED <<tickets, cache, reader, writes, late>>

\* A key gone from Redis is gone from every SCAN that has not returned it yet.
DeleteKey(w, k) ==
    /\ wpc[w] = "delete" /\ k \in Cached
    /\ Drop({k})
    /\ Passed({k})
    /\ todo' = [v \in Writers |-> todo[v] \ {k}]
    /\ abandoned' = abandoned \ {k}
    /\ UNCHANGED <<tickets, reader, wpc, writes>>

ScanEnds(w) ==
    /\ wpc[w] = "delete" /\ todo[w] = {}
    /\ Go(w, "idle")
    /\ UNCHANGED <<tickets, cache, reader, todo, writes, history>>

-------------------------------------------------------------------------------
(* Time and faults. *)

\* Faulty variant: set_cached without a time to live.
NeverExpires(k) == FALSE

\* A key reaches its time to live.
Expire(k) ==
    /\ cache[k] # None
    /\ Drop({k})
    /\ todo' = [v \in Writers |-> todo[v] \ {k}]
    /\ IF \E v \in Writers : k \in todo[v] THEN Passed({k}) ELSE UNCHANGED missed
    /\ UNCHANGED <<tickets, reader, wpc, writes, abandoned>>

\* The keys a writer has committed against and has not cleared.
Uncleared(w) ==
    CASE wpc[w] = "idle" -> {}
      [] wpc[w] \in {"refresh", "stats"} -> Keys
      [] wpc[w] = "scan" -> ListKeys
      [] wpc[w] = "delete" -> todo[w]

\* The refresh finds no row, or PostgreSQL or Redis raises: nothing more is cleared.
WriterFails(w) ==
    /\ wpc[w] # "idle"
    /\ abandoned' = abandoned \cup Uncleared(w)
    /\ Go(w, "idle")
    /\ todo' = [todo EXCEPT ![w] = {}]
    /\ UNCHANGED <<tickets, cache, reader, writes, missed, late>>

ReaderFails(q) ==
    /\ rpc[q] # "idle"
    /\ Forget(q)
    /\ UNCHANGED <<tickets, cache, writer, late, abandoned>>

\* The server process dies; PostgreSQL and Redis live on.
Crash ==
    /\ abandoned' = abandoned \cup UNION {Uncleared(w) : w \in Writers}
    /\ wpc' = [w \in Writers |-> "idle"]
    /\ todo' = [w \in Writers |-> {}]
    /\ rpc' = [q \in Readers |-> "idle"]
    /\ rkey' = [q \in Readers |-> None]
    /\ got' = [q \in Readers |-> None]
    /\ missed' = {}
    /\ UNCHANGED <<tickets, cache, writes, late>>

Read(q) ==
    \/ Count(q) \/ SelectPage(q) \/ CountByStatus(q) \/ CountByPriority(q)
    \/ SetCached(q)

Invalidate(w) ==
    \/ Refresh(w) \/ DeleteStats(w) \/ Scan(w)
    \/ \E k \in ListKeys : DeleteKey(w, k)
    \/ ScanEnds(w)

Work ==
    \/ \E q \in Readers : Read(q) \/ \E k \in Keys : Lookup(q, k)
    \/ \E w \in Writers : Invalidate(w)
    \/ \E w \in Writers, t \in TicketIds, new \in Row \cup {None} : Commit(w, t, new)
    \/ \E k \in Keys : Expire(k)

Faults ==
    \/ \E w \in Writers : WriterFails(w)
    \/ \E q \in Readers : ReaderFails(q)
    \/ Crash

Spec == Init /\ [][Work \/ Faults]_vars

\* The loop resumes coroutines whose await has completed, and a time to live passes.
FairSpec ==
    /\ Spec
    /\ \A q \in Readers : WF_vars(Read(q))
    /\ \A w \in Writers : WF_vars(Invalidate(w))
    /\ \A k \in Keys : WF_vars(Expire(k))
-------------------------------------------------------------------------------
(* Properties. *)

Lists == [total : Nat, items : SUBSET [id : TicketIds, row : Row]]
Stats == [total : Nat, byStatus : [Statuses -> Nat], byPriority : [Priorities -> Nat]]
Partial == [total : Nat] \cup [total : Nat, byStatus : [Statuses -> Nat]]

ASSUME NoneIsNoAnswer == None \notin Lists /\ None \notin Stats

\* Types; a list key never holds statistics, nor the statistics key a list.
TypeOK ==
    /\ tickets \in [TicketIds -> Row \cup {None}]
    /\ cache \in [Keys -> Lists \cup Stats \cup {None}]
    /\ \A k \in Keys : cache[k] # None => (cache[k] \in Stats <=> k = StatsKey)
    /\ rpc \in [Readers -> {"idle", "count", "page", "by_status", "by_priority", "store"}]
    /\ rkey \in [Readers -> Keys \cup {None}]
    /\ got \in [Readers -> Partial \cup Lists \cup Stats \cup {None}]
    /\ wpc \in [Writers -> {"idle", "refresh", "stats", "scan", "delete"}]
    /\ todo \in [Writers -> SUBSET ListKeys]
    /\ writes \in 0..MaxWrites
    /\ missed \subseteq Readers /\ late \subseteq Keys /\ abandoned \subseteq Keys

Stale(k) == cache[k] # None /\ cache[k] # Answer(k)

\* A cached answer differs from what the database would say now only while some
\* writer has yet to clear it, because one failed before it could, or because it was
\* stored by a reader that had begun to read before the clearing.  Every writer
\* clears every variant, in any interleaving with the others, with the SCAN's
\* weak guarantee, and with keys that expire under it.
StalenessExplained ==
    \A k \in Keys :
       Stale(k) => k \in late \cup abandoned \/ \E w \in Writers : k \in Uncleared(w)

\* Whatever races and faults leave in the cache, once the writes stop every stale
\* answer goes away for good: the time to live is the backstop.
EventuallyFresh == <>[](\A k \in Keys : ~Stale(k))

===============================================================================
