------------------------------ MODULE ListProofs ------------------------------
(***************************************************************************)
(* Proofs about the lists of tickets: about TicketCache, for any finite     *)
(* table, any readers, writers, filters and number of writes, and about     *)
(* Paging, for any finite list, page size and number of commits.            *)
(***************************************************************************)
EXTENDS TicketCache, Paging, FiniteSetTheorems, NaturalsInduction, TLAPS

-------------------------------------------------------------------------------
(* The inductive invariant of the cache. *)

\* Somebody is still to clear this key, or failed to.
Owed(k) == k \in abandoned \/ \E w \in Writers : k \in Uncleared(w)

Pieces(q) ==
    CASE rpc[q] = "page" -> [total |-> Answer(rkey[q]).total]
      [] rpc[q] = "by_status" -> [total |-> Answer(rkey[q]).total]
      [] rpc[q] = "by_priority" -> [total |-> Answer(rkey[q]).total, byStatus |-> ByStatus]
      [] rpc[q] = "store" -> Answer(rkey[q])

\* A reader goes through the queries of its kind of key.
ReadersOnTheirWay ==
    \A q \in Readers :
       /\ rpc[q] # "idle" => rkey[q] \in Keys
       /\ rpc[q] = "page" => rkey[q] \in ListKeys
       /\ rpc[q] \in {"by_status", "by_priority"} => rkey[q] = StatsKey
       /\ q \in missed => rpc[q] \notin {"idle", "count"}

GotSoFar(q) ==
    CASE rpc[q] \in {"page", "by_status"} -> [total : Nat]
      [] rpc[q] = "by_priority" -> [total : Nat, byStatus : [Statuses -> Nat]]
      [] rpc[q] = "store" -> IF rkey[q] = StatsKey THEN Stats ELSE Lists

ReadersTyped ==
    \A q \in Readers : rpc[q] \notin {"idle", "count"} => got[q] \in GotSoFar(q)

\* What a reader has got is what the queries it made would return now, unless its key
\* is still to be cleared, or was cleared while it read.
ReadersExplained ==
    \A q \in Readers \ missed :
       rpc[q] \notin {"idle", "count"} => got[q] = Pieces(q) \/ Owed(rkey[q])

\* A SCAN returns list keys that are cached.
ScansCached ==
    \A w \in Writers : /\ todo[w] \subseteq Cached
                       /\ wpc[w] # "delete" => todo[w] = {}

Inv ==
    /\ TypeOK /\ StalenessExplained /\ ScansCached
    /\ ReadersOnTheirWay /\ ReadersTyped /\ ReadersExplained

-------------------------------------------------------------------------------
(* The queries. *)

\* COUNT over the table is a number.
LEMMA CountsAreNumbers ==
    ASSUME NEW S \in SUBSET TicketIds
    PROVE  Cardinality(S) \in Nat
  BY FS_Subset, FS_CardinalityType, TableIsFinite

\* The queries return pages, totals and groups of the types the readers keep.
LEMMA AnswerTypes ==
    ASSUME TypeOK
    PROVE  /\ ByStatus \in [Statuses -> Nat] /\ ByPriority \in [Priorities -> Nat]
           /\ \A k \in ListKeys : Page(k) \in SUBSET [id : TicketIds, row : Row]
           /\ \A k \in Keys : Answer(k).total \in Nat
  <1>1. Stored \subseteq TicketIds /\ \A k \in ListKeys : Matches(k) \subseteq Stored
    BY DEF Stored, Matches
  <1>2. ByStatus \in [Statuses -> Nat] /\ ByPriority \in [Priorities -> Nat]
    BY <1>1, CountsAreNumbers DEF ByStatus, ByPriority
  <1>3. \A k \in ListKeys : Page(k) \in SUBSET [id : TicketIds, row : Row]
    BY <1>1 DEF TypeOK, Page, Stored
  <1>4. \A k \in Keys : Answer(k).total \in Nat
    BY <1>1, CountsAreNumbers DEF Keys, Answer
  <1> QED
    BY <1>2, <1>3, <1>4

\* The queries read nothing but the table.
LEMMA SameTableSameAnswers ==
    ASSUME UNCHANGED tickets
    PROVE  /\ \A k : Answer(k)' = Answer(k) /\ Page(k)' = Page(k)
           /\ ByStatus' = ByStatus /\ ByPriority' = ByPriority
  BY DEF Answer, Page, Matches, Stored, ByStatus, ByPriority

\* The answer of a list is not one of the dashboard.
LEMMA ListsAreNoStats == Lists \cap Stats = {}
  <1> SUFFICES ASSUME NEW a \in Lists, a \in Stats
               PROVE  FALSE
    OBVIOUS
  <1>1. DOMAIN a = {"total", "items"}
    BY DEF Lists
  <1>2. DOMAIN a = {"total", "byStatus", "byPriority"}
    BY DEF Stats
  <1> QED
    BY <1>1, <1>2

-------------------------------------------------------------------------------
(* Steps that leave the table alone. *)

\* Neither Pieces nor Owed change for a reader that stays where it is.
LEMMA PiecesKept ==
    ASSUME UNCHANGED tickets, NEW q \in Readers, rpc'[q] = rpc[q], rkey'[q] = rkey[q]
    PROVE  Pieces(q)' = Pieces(q)
  BY SameTableSameAnswers DEF Pieces

\* What the writers owe changes only with a writer.
LEMMA OwedKept ==
    ASSUME UNCHANGED <<wpc, todo, abandoned>>, NEW k
    PROVE  Owed(k)' = Owed(k)
  BY DEF Owed, Uncleared

\* A step that clears the keys ks: they are gone from the cache, their readers are
\* marked, and every other key is owed as it was.
LEMMA ClearingStep ==
    ASSUME Inv, NEW ks \in SUBSET Keys,
           UNCHANGED <<tickets, reader>>, Passed(ks),
           \A k \in Keys : cache'[k] = cache[k] \/ cache'[k] = None,
           \A k \in ks : cache'[k] = None,
           \A k \in late : k \in late' \/ cache'[k] = None,
           \A k \in Keys \ ks : Owed(k) => Owed(k)'
    PROVE  StalenessExplained' /\ ReadersOnTheirWay' /\ ReadersExplained'
  <1> USE DEF Inv, reader
  <1>1. ReadersOnTheirWay'
    BY DEF ReadersOnTheirWay, Passed
  <1>2. StalenessExplained'
    <2> SUFFICES ASSUME NEW k \in Keys, Stale(k)'
                 PROVE  k \in late' \/ Owed(k)'
      BY DEF StalenessExplained, Owed
    <2>1. cache'[k] # None /\ cache'[k] = cache[k] /\ k \notin ks
      BY DEF Stale
    <2>2. Stale(k)
      BY <2>1, SameTableSameAnswers DEF Stale
    <2>3. k \in late \/ Owed(k)
      BY <2>2 DEF StalenessExplained, Owed
    <2> QED
      BY <2>1, <2>3
  <1>3. ReadersExplained'
    <2> SUFFICES ASSUME NEW q \in Readers \ missed', rpc[q] \notin {"idle", "count"}
                 PROVE  got[q] = Pieces(q)' \/ Owed(rkey[q])'
      BY DEF ReadersExplained
    <2>1. q \notin missed /\ rkey[q] \in Keys \ ks
      BY DEF Passed, ReadersOnTheirWay
    <2>2. got[q] = Pieces(q) \/ Owed(rkey[q])
      BY <2>1 DEF ReadersExplained
    <2> QED
      BY <2>1, <2>2, PiecesKept
  <1> QED
    BY <1>1, <1>2, <1>3

\* A step of one reader, to the key k and the answer a: nobody clears anything.
LEMMA ReadingStep ==
    ASSUME Inv, NEW q \in Readers, NEW place, NEW k, NEW a,
           UNCHANGED <<tickets, writer, abandoned>>,
           rpc' = [rpc EXCEPT ![q] = place], rkey' = [rkey EXCEPT ![q] = k],
           got' = [got EXCEPT ![q] = a],
           missed \ {q} \subseteq missed',
           place \notin {"idle", "count"} => q \in missed' \/ a = Pieces(q)' \/ Owed(k)
    PROVE  ReadersExplained'
  <1>1. SUFFICES ASSUME NEW r \in Readers \ missed', rpc'[r] \notin {"idle", "count"}
        PROVE  got'[r] = Pieces(r)' \/ Owed(rkey[r])'
    BY DEF ReadersExplained
  <1>2. /\ rpc \in [Readers -> {"idle", "count", "page", "by_status", "by_priority", "store"}]
        /\ rkey \in [Readers -> Keys \cup {None}] /\ DOMAIN got = Readers
    BY DEF Inv, TypeOK
  <1>0. (\A w \in Writers : Uncleared(w)' = Uncleared(w)) /\ abandoned' = abandoned
    BY DEF Uncleared, writer
  <1>3. CASE r = q
    <2>1. rpc'[q] = place /\ got'[q] = a /\ rkey'[q] = k
      BY <1>2
    <2>2. a = Pieces(q)' \/ Owed(k)
      BY <1>1, <1>3, <2>1
    <2>3. Owed(k) => Owed(rkey[q])'
      BY <1>0, <2>1 DEF Owed
    <2> QED
      BY <1>3, <2>1, <2>2, <2>3
  <1>4. CASE r # q
    <2>1. rpc'[r] = rpc[r] /\ rkey'[r] = rkey[r] /\ got'[r] = got[r] /\ r \notin missed
      BY <1>2, <1>4
    <2>2. got[r] = Pieces(r) \/ Owed(rkey[r])
      BY <1>1, <2>1 DEF Inv, ReadersExplained
    <2>3. Owed(rkey[r]) => Owed(rkey[r])'
      BY <1>0, <2>1 DEF Owed
    <2> QED
      BY <2>1, <2>2, <2>3, PiecesKept
  <1> QED
    BY <1>3, <1>4

\* The same for the types of what the reader has.
LEMMA ReadingTyped ==
    ASSUME Inv, NEW q \in Readers,
           NEW place \in {"idle", "count", "page", "by_status", "by_priority", "store"},
           NEW k \in Keys \cup {None}, NEW a,
           rpc' = [rpc EXCEPT ![q] = place], rkey' = [rkey EXCEPT ![q] = k],
           got' = [got EXCEPT ![q] = a],
           place \notin {"idle", "count"} => a \in GotSoFar(q)',
           place # "idle" => k \in Keys,
           place = "page" => k \in ListKeys,
           place \in {"by_status", "by_priority"} => k = StatsKey
    PROVE  /\ ReadersTyped'
           /\ missed' \subseteq missed /\ (q \in missed' => place \notin {"idle", "count"})
                 => ReadersOnTheirWay'
  <1>1. /\ rpc \in [Readers -> {"idle", "count", "page", "by_status", "by_priority", "store"}]
        /\ rkey \in [Readers -> Keys \cup {None}] /\ DOMAIN got = Readers
    BY DEF Inv, TypeOK
  <1>2. rpc'[q] = place /\ got'[q] = a /\ rkey'[q] = k
    BY <1>1
  <1>3. \A r \in Readers \ {q} : rpc'[r] = rpc[r] /\ got'[r] = got[r] /\ rkey'[r] = rkey[r]
    BY <1>1
  <1>4. ReadersTyped'
    <2>1. SUFFICES ASSUME NEW r \in Readers, rpc'[r] \notin {"idle", "count"}
          PROVE  got'[r] \in GotSoFar(r)'
      BY DEF ReadersTyped
    <2>2. CASE r = q
      BY <1>2, <2>1, <2>2
    <2>3. CASE r # q
      BY <1>3, <2>1, <2>3 DEF Inv, ReadersTyped, GotSoFar
    <2> QED
      BY <2>2, <2>3
  <1>5. ASSUME missed' \subseteq missed, q \in missed' => place \notin {"idle", "count"}
        PROVE  ReadersOnTheirWay'
    BY <1>2, <1>3, <1>5 DEF Inv, ReadersOnTheirWay
  <1> QED
    BY <1>4, <1>5

\* A miss begins a fill whose missed commits are none yet.
LEMMA LookupStep ==
    ASSUME Inv, NEW q \in Readers, NEW k \in Keys, Lookup(q, k)
    PROVE  Inv'
  <1> USE DEF Inv, Lookup, writer, history
  <1>2. got' = [got EXCEPT ![q] = got[q]]
    BY DEF TypeOK
  <1>3. TypeOK'
    BY DEF TypeOK
  <1>4. ScansCached' /\ StalenessExplained'
    BY SameTableSameAnswers
    DEF ScansCached, Cached, StalenessExplained, Stale, Uncleared
  <1>5. ReadersTyped' /\ ReadersOnTheirWay'
    <2>1. q \notin missed
      BY DEF ReadersOnTheirWay
    <2> QED
      BY <1>2, <2>1, ReadingTyped
  <1>6. ReadersExplained'
    BY <1>2, ReadingStep
  <1> QED
    BY <1>3, <1>4, <1>5, <1>6

\* The four queries; each returns what it would return now.
LEMMA QueryStep ==
    ASSUME Inv, NEW q \in Readers, NEW place, NEW a, place \notin {"idle", "count"},
           place \in {"page", "by_status", "by_priority", "store"},
           rpc[q] # "idle",
           rpc' = [rpc EXCEPT ![q] = place], got' = [got EXCEPT ![q] = a],
           UNCHANGED <<tickets, cache, rkey, writer, history>>,
           place = "page" => rkey[q] \in ListKeys,
           place \in {"by_status", "by_priority"} => rkey[q] = StatsKey,
           a \in GotSoFar(q)',
           q \in missed \/ a = Pieces(q)' \/ Owed(rkey[q])
    PROVE  Inv'
  <1> USE DEF Inv, writer, history
  <1>1. rkey[q] \in Keys /\ rkey' = [rkey EXCEPT ![q] = rkey[q]]
    BY DEF ReadersOnTheirWay, TypeOK
  <1>2. rpc'[q] = place
    BY DEF TypeOK
  <1>3. a \in Partial \cup Lists \cup Stats
    BY <1>2 DEF GotSoFar, Partial
  <1>4. TypeOK'
    BY <1>3 DEF TypeOK
  <1>5. ScansCached' /\ StalenessExplained'
    BY SameTableSameAnswers
    DEF ScansCached, Cached, StalenessExplained, Stale, Uncleared
  <1>6. ReadersTyped' /\ ReadersOnTheirWay'
    BY <1>1, ReadingTyped
  <1>7. ReadersExplained'
    BY <1>1, ReadingStep
  <1> QED
    BY <1>4, <1>5, <1>6, <1>7

\* The total read by a list or dashboard fill is that of the table now.
LEMMA CountStep ==
    ASSUME Inv, NEW q \in Readers, Count(q)
    PROVE  Inv'
  <1> USE DEF Inv, Count
  <1> DEFINE place == IF rkey[q] = StatsKey THEN "by_status" ELSE "page"
             a == [total |-> Answer(rkey[q]).total]
  <1>1. rkey[q] \in Keys /\ (rkey[q] # StatsKey => rkey[q] \in ListKeys)
    BY DEF ReadersOnTheirWay, Keys
  <1>2. rpc'[q] = place /\ place \in {"page", "by_status"}
    BY DEF TypeOK
  <1>3. a \in GotSoFar(q)'
    <2>1. Answer(rkey[q]).total \in Nat
      BY <1>1, AnswerTypes
    <2> QED
      BY <1>2, <2>1 DEF GotSoFar
  <1>4. a = Pieces(q)'
    BY <1>2, SameTableSameAnswers DEF Pieces
  <1>5. /\ place \in {"page", "by_status", "by_priority", "store"}
        /\ place = "page" => rkey[q] \in ListKeys
        /\ place \in {"by_status", "by_priority"} => rkey[q] = StatsKey
        /\ rpc' = [rpc EXCEPT ![q] = place] /\ got' = [got EXCEPT ![q] = a]
        /\ UNCHANGED <<tickets, cache, rkey, writer, history>> /\ rpc[q] # "idle"
    BY <1>1
  <1> HIDE DEF place, a
  <1> QED
    BY <1>3, <1>4, <1>5, QueryStep

\* The page read by a list fill is that of the table now.
LEMMA PageStep ==
    ASSUME Inv, NEW q \in Readers, SelectPage(q)
    PROVE  Inv'
  <1> USE DEF Inv, SelectPage
  <1> DEFINE a == [total |-> got[q].total, items |-> Page(rkey[q])]
  <1>1. rkey[q] \in ListKeys /\ rkey[q] # StatsKey /\ got[q] \in [total : Nat]
    BY StatsKeyIsNoList DEF ReadersOnTheirWay, ReadersTyped, GotSoFar
  <1>2. rpc'[q] = "store" /\ rkey'[q] = rkey[q] /\ a \in Lists
    BY <1>1, AnswerTypes DEF TypeOK, Lists
  <1>3. a \in GotSoFar(q)'
    BY <1>1, <1>2 DEF GotSoFar
  <1>4. q \in missed \/ a = Pieces(q)' \/ Owed(rkey[q])
    <2>1. Answer(rkey[q]) = [total |-> Answer(rkey[q]).total, items |-> Page(rkey[q])]
      BY <1>1 DEF Answer
    <2>2. Pieces(q)' = Answer(rkey[q])
      BY <1>2, SameTableSameAnswers DEF Pieces
    <2>3. q \in missed \/ got[q] = [total |-> Answer(rkey[q]).total] \/ Owed(rkey[q])
      BY DEF ReadersExplained, Pieces
    <2> QED
      BY <2>1, <2>2, <2>3
  <1> QED
    BY <1>3, <1>4, QueryStep

\* The groups by status are those of the table now.
LEMMA ByStatusStep ==
    ASSUME Inv, NEW q \in Readers, CountByStatus(q)
    PROVE  Inv'
  <1> USE DEF Inv, CountByStatus, AfterByStatus
  <1> DEFINE a == [total |-> got[q].total, byStatus |-> ByStatus]
  <1>1. rkey[q] = StatsKey /\ got[q] \in [total : Nat]
    BY DEF ReadersOnTheirWay, ReadersTyped, GotSoFar
  <1>2. rpc'[q] = "by_priority" /\ rkey'[q] = rkey[q]
    BY DEF TypeOK
  <1>3. a \in GotSoFar(q)'
    BY <1>1, <1>2, AnswerTypes DEF GotSoFar
  <1>4. q \in missed \/ a = Pieces(q)' \/ Owed(rkey[q])
    <2>1. Pieces(q)' = [total |-> Answer(rkey[q]).total, byStatus |-> ByStatus]
      BY <1>2, SameTableSameAnswers DEF Pieces
    <2>2. q \in missed \/ got[q] = [total |-> Answer(rkey[q]).total] \/ Owed(rkey[q])
      BY DEF ReadersExplained, Pieces
    <2> QED
      BY <2>1, <2>2
  <1> QED
    BY <1>1, <1>3, <1>4, QueryStep

\* The groups by priority are those of the table now.
LEMMA ByPriorityStep ==
    ASSUME Inv, NEW q \in Readers, CountByPriority(q)
    PROVE  Inv'
  <1> USE DEF Inv, CountByPriority
  <1> DEFINE a == [total |-> got[q].total, byStatus |-> got[q].byStatus,
                   byPriority |-> ByPriority]
  <1>1. rkey[q] = StatsKey /\ got[q] \in [total : Nat, byStatus : [Statuses -> Nat]]
    BY DEF ReadersOnTheirWay, ReadersTyped, GotSoFar
  <1>2. rpc'[q] = "store" /\ rkey'[q] = rkey[q] /\ a \in Stats
    BY <1>1, AnswerTypes DEF TypeOK, Stats
  <1>3. a \in GotSoFar(q)'
    BY <1>1, <1>2 DEF GotSoFar
  <1>4. q \in missed \/ a = Pieces(q)' \/ Owed(rkey[q])
    <2>1. Answer(rkey[q]) = [total |-> Answer(rkey[q]).total, byStatus |-> ByStatus,
                             byPriority |-> ByPriority]
      BY <1>1 DEF Answer
    <2>2. Pieces(q)' = Answer(rkey[q])
      BY <1>2, SameTableSameAnswers DEF Pieces
    <2>3. \/ q \in missed \/ Owed(rkey[q])
          \/ got[q] = [total |-> Answer(rkey[q]).total, byStatus |-> ByStatus]
      BY DEF ReadersExplained, Pieces
    <2> QED
      BY <2>1, <2>2, <2>3
  <1> QED
    BY <1>1, <1>3, <1>4, QueryStep

\* A fill stored late carries the commits it missed over to its entry.
LEMMA StoreStep ==
    ASSUME Inv, NEW q \in Readers, SetCached(q)
    PROVE  Inv'
  <1> USE DEF Inv, SetCached, Forget, Without, writer
  <1> DEFINE k == rkey[q]
  <1>1. k \in Keys /\ got[q] \in (IF k = StatsKey THEN Stats ELSE Lists)
    BY DEF ReadersOnTheirWay, ReadersTyped, GotSoFar
  <1>2. TypeOK'
    BY <1>1, ListsAreNoStats DEF TypeOK
  <1>3. ScansCached'
    BY <1>1, NoneIsNoAnswer DEF ScansCached, Cached, TypeOK
  <1>4. StalenessExplained'
    <2>1. SUFFICES ASSUME NEW j \in Keys, Stale(j)'
          PROVE  j \in late' \/ Owed(j)'
      BY DEF StalenessExplained, Owed
    <2>2. Owed(j)' <=> Owed(j)
      BY OwedKept
    <2>3. CASE j = k
      <3>1. got[q] # Answer(k)
        BY <1>1, <2>1, <2>3, SameTableSameAnswers DEF Stale, TypeOK
      <3>2. q \notin missed => Owed(k)
        BY <3>1 DEF ReadersExplained, Pieces
      <3> QED
        BY <2>2, <2>3, <3>2
    <2>4. CASE j # k
      BY <2>1, <2>2, <2>4, SameTableSameAnswers DEF StalenessExplained, Stale, Owed, TypeOK
    <2> QED
      BY <2>3, <2>4
  <1>5. ReadersTyped' /\ ReadersOnTheirWay'
    BY ReadingTyped
  <1>6. ReadersExplained'
    BY ReadingStep
  <1> QED
    BY <1>2, <1>3, <1>4, <1>5, <1>6

\* A reader that fails stores nothing.
LEMMA ReaderFailsStep ==
    ASSUME Inv, NEW q \in Readers, ReaderFails(q)
    PROVE  Inv'
  <1> USE DEF Inv, ReaderFails, Forget, Without, writer
  <1>1. TypeOK'
    BY DEF TypeOK
  <1>2. ScansCached' /\ StalenessExplained'
    BY SameTableSameAnswers
    DEF ScansCached, Cached, StalenessExplained, Stale, Uncleared
  <1>3. ReadersTyped' /\ ReadersOnTheirWay'
    BY ReadingTyped
  <1>4. ReadersExplained'
    BY ReadingStep
  <1> QED
    BY <1>1, <1>2, <1>3, <1>4

-------------------------------------------------------------------------------
(* The writers, time and faults. *)

\* What a writer owes, place by place.
LEMMA OwedAt ==
    ASSUME Inv, NEW w \in Writers
    PROVE  /\ wpc[w] = "idle" => Uncleared(w) = {}
           /\ wpc[w] \in {"refresh", "stats"} => Uncleared(w) = Keys
           /\ wpc[w] = "scan" => Uncleared(w) = ListKeys
           /\ wpc[w] = "delete" => Uncleared(w) = todo[w]
           /\ Uncleared(w) \subseteq Keys
  BY DEF Inv, TypeOK, Uncleared, Keys

\* What a writer owes when it is at the place p.
OwedNext(w, p) ==
    IF p = "idle" THEN {} ELSE IF p \in {"refresh", "stats"} THEN Keys
    ELSE IF p = "scan" THEN ListKeys ELSE todo'[w]

\* What a writer owes is read off the place it has moved to.
LEMMA OwedAfter ==
    ASSUME NEW w \in Writers,
           wpc'[w] \in {"idle", "refresh", "stats", "scan", "delete"}
    PROVE  Uncleared(w)' = OwedNext(w, wpc'[w])
  BY DEF Uncleared, OwedNext

\* What the readers hold is typed as long as they do not move.
LEMMA TypedKept ==
    ASSUME Inv, UNCHANGED reader
    PROVE  ReadersTyped'
  BY DEF Inv, ReadersTyped, GotSoFar, reader

\* A commit owes every key.
LEMMA CommitStep ==
    ASSUME Inv, NEW w \in Writers, NEW t \in TicketIds, NEW new \in Row \cup {None},
           Commit(w, t, new)
    PROVE  Inv'
  <1> USE DEF Inv, Commit, Go, reader, history
  <1>1. wpc'[w] \in {"stats", "refresh"}
    BY DEF TypeOK, AfterCommit
  <1>2. \A k \in Keys : Owed(k)'
    BY <1>1, OwedAfter DEF Owed, OwedNext
  <1>3. TypeOK'
    <2>1. writes' \in 0..MaxWrites
      BY WritesBounded DEF TypeOK
    <2> QED
      BY <1>1, <2>1 DEF TypeOK, AfterCommit
  <1>4. ScansCached' /\ ReadersOnTheirWay' /\ ReadersTyped'
    BY <1>1, TypedKept DEF ScansCached, Cached, ReadersOnTheirWay, TypeOK
  <1>5. StalenessExplained' /\ ReadersExplained'
    BY <1>2 DEF StalenessExplained, ReadersExplained, ReadersOnTheirWay, Owed
  <1> QED
    BY <1>3, <1>4, <1>5

\* Refreshing and the end of a scan delete nothing and owe what was owed.
LEMMA RefreshStep ==
    ASSUME Inv, NEW w \in Writers, Refresh(w) \/ ScanEnds(w)
    PROVE  Inv'
  <1> USE DEF Inv, Refresh, ScanEnds, Go, reader, history
  <1>1. TypeOK' /\ ScansCached' /\ ReadersTyped'
    BY TypedKept DEF TypeOK, ScansCached, Cached
  <1>2. \A k : Owed(k) => Owed(k)'
    <2>1. wpc'[w] \in {"idle", "stats"} /\ Uncleared(w)' = Uncleared(w)
      BY OwedAt, OwedAfter DEF TypeOK, OwedNext
    <2>2. \A v \in Writers \ {w} : Uncleared(v)' = Uncleared(v)
      BY DEF TypeOK, Uncleared
    <2> QED
      BY <2>1, <2>2 DEF Owed
  <1>3. Passed({})
    BY DEF Passed
  <1>4. StalenessExplained' /\ ReadersOnTheirWay' /\ ReadersExplained'
    BY <1>2, <1>3, ClearingStep
  <1> QED
    BY <1>1, <1>4

\* Deleting the statistics clears them, and leaves the lists still owed.
LEMMA DeleteStatsStep ==
    ASSUME Inv, NEW w \in Writers, DeleteStats(w)
    PROVE  Inv'
  <1> USE DEF Inv, DeleteStats, Go, Drop, DeletedFirst, reader
  <1>1. TypeOK' /\ ReadersTyped'
    BY TypedKept DEF TypeOK, Passed, Keys
  <1>2. ScansCached'
    BY StatsKeyIsNoList DEF TypeOK, ScansCached, Cached, Keys
  <1>3. \A k \in Keys \ {StatsKey} : Owed(k) => Owed(k)'
    <2>1. wpc'[w] = "scan" /\ Uncleared(w)' = ListKeys
      BY OwedAfter DEF TypeOK, OwedNext
    <2>2. \A v \in Writers \ {w} : Uncleared(v)' = Uncleared(v)
      BY DEF TypeOK, Uncleared
    <2> QED
      BY <2>1, <2>2 DEF Owed, Keys
  <1>4. StalenessExplained' /\ ReadersOnTheirWay' /\ ReadersExplained'
    BY <1>3, ClearingStep DEF Keys, TypeOK
  <1> QED
    BY <1>1, <1>2, <1>4

\* SCAN returns every list key stored when it starts: those not returned are empty.
LEMMA ScanStep ==
    ASSUME Inv, NEW w \in Writers, Scan(w)
    PROVE  Inv'
  <1> USE DEF Inv, Scan, Go, reader
  <1>1. TypeOK' /\ ReadersTyped'
    BY TypedKept DEF TypeOK, Passed, Cached
  <1>2. ScansCached'
    BY DEF TypeOK, ScansCached, Cached
  <1>3. \A k \in Keys \ (ListKeys \ Cached) : Owed(k) => Owed(k)'
    <2>1. Uncleared(w)' = Cached /\ Uncleared(w) = ListKeys
      BY OwedAt, OwedAfter DEF TypeOK, OwedNext
    <2>2. \A v \in Writers \ {w} : Uncleared(v)' = Uncleared(v)
      BY DEF TypeOK, Uncleared
    <2> QED
      BY <2>1, <2>2 DEF Owed
  <1>4. ListKeys \ Cached \in SUBSET Keys /\ \A k \in ListKeys \ Cached : cache[k] = None
    BY DEF Keys, Cached
  <1>5. StalenessExplained' /\ ReadersOnTheirWay' /\ ReadersExplained'
    BY <1>3, <1>4, ClearingStep
  <1> QED
    BY <1>1, <1>2, <1>5

\* A key leaves Redis and every SCAN.  Whoever's SCAN was to return it has cleared it;
\* ks is empty when there is nobody.
LEMMA KeyGone ==
    ASSUME Inv, NEW k \in Keys, NEW ks \in SUBSET {k}, Drop({k}), Passed(ks),
           UNCHANGED <<tickets, reader, wpc, writes>>,
           todo' = [v \in Writers |-> todo[v] \ {k}],
           \A v \in Writers : k \in todo[v] => k \in ks,
           abandoned' \subseteq abandoned, abandoned \ ks \subseteq abandoned'
    PROVE  Inv'
  <1> USE DEF Inv, Drop, reader
  <1>1. TypeOK'
    BY DEF TypeOK, Passed
  <1>2. ReadersTyped'
    BY TypedKept
  <1>3. ScansCached'
    BY DEF TypeOK, ScansCached, Cached, Keys
  <1>4. \A j \in Keys \ ks : Owed(j) => Owed(j)'
    <2> SUFFICES ASSUME NEW j \in Keys \ ks, NEW v \in Writers, j \in Uncleared(v)
                 PROVE  j \in Uncleared(v)'
      BY DEF Owed
    <2>1. CASE wpc[v] = "delete"
      <3>1. j \in todo[v] /\ j # k
        BY <2>1, OwedAt
      <3>2. todo'[v] = todo[v] \ {k} /\ wpc'[v] = "delete"
        BY <2>1
      <3> QED
        BY <3>1, <3>2, OwedAfter DEF OwedNext
    <2>2. CASE wpc[v] # "delete"
      <3>1. Uncleared(v)' = Uncleared(v)
        BY <2>2, OwedAt, OwedAfter DEF TypeOK, OwedNext
      <3> QED
        BY <3>1
    <2> QED
      BY <2>1, <2>2
  <1>5. StalenessExplained' /\ ReadersOnTheirWay' /\ ReadersExplained'
    BY <1>4, ClearingStep
  <1> QED
    BY <1>1, <1>2, <1>3, <1>5

\* Deleting a scanned key clears it.
LEMMA DeleteKeyStep ==
    ASSUME Inv, NEW w \in Writers, NEW k \in ListKeys, DeleteKey(w, k)
    PROVE  Inv'
  BY KeyGone DEF DeleteKey, Keys

\* An entry whose time to live ends can no longer be stale.
LEMMA ExpireStep ==
    ASSUME Inv, NEW k \in Keys, Expire(k)
    PROVE  Inv'
  <1>1. CASE \E v \in Writers : k \in todo[v]
    BY <1>1, KeyGone DEF Expire
  <1>2. CASE ~ \E v \in Writers : k \in todo[v]
    <2>1. Passed({})
      BY <1>2 DEF Expire, Passed
    <2> QED
      BY <1>2, <2>1, KeyGone DEF Expire
  <1> QED
    BY <1>1, <1>2

\* What the writer owed is abandoned.
LEMMA WriterFailsStep ==
    ASSUME Inv, NEW w \in Writers, WriterFails(w)
    PROVE  Inv'
  <1> USE DEF Inv, WriterFails, Go, reader
  <1>1. TypeOK'
    BY OwedAt DEF TypeOK
  <1>2. ReadersTyped'
    BY TypedKept
  <1>3. ScansCached'
    BY DEF TypeOK, ScansCached, Cached
  <1>4. \A k \in Keys : Owed(k) => Owed(k)'
    <2>1. \A v \in Writers \ {w} : Uncleared(v)' = Uncleared(v)
      BY DEF TypeOK, Uncleared
    <2> QED
      BY <2>1 DEF Owed
  <1>5. Passed({})
    BY DEF Passed
  <1>6. StalenessExplained' /\ ReadersOnTheirWay' /\ ReadersExplained'
    BY <1>4, <1>5, ClearingStep
  <1> QED
    BY <1>1, <1>2, <1>3, <1>6

\* Everything any writer owed is abandoned, and nobody reads.
LEMMA CrashStep ==
    ASSUME Inv, Crash
    PROVE  Inv'
  <1> USE DEF Inv, Crash
  <1>1. TypeOK'
    <2>1. abandoned' \subseteq Keys
      BY OwedAt DEF TypeOK
    <2> QED
      BY <2>1 DEF TypeOK
  <1>2. ScansCached' /\ ReadersOnTheirWay' /\ ReadersTyped' /\ ReadersExplained'
    BY DEF ScansCached, ReadersOnTheirWay, ReadersTyped, ReadersExplained
  <1>3. StalenessExplained'
    BY SameTableSameAnswers DEF StalenessExplained, Stale
  <1> QED
    BY <1>1, <1>2, <1>3

-------------------------------------------------------------------------------
(* Every behaviour of the cache. *)

\* With an empty cache and nobody at work the invariant holds.
LEMMA Initially == Init => Inv
  <1> SUFFICES ASSUME Init
               PROVE  Inv
    OBVIOUS
  <1>1. TypeOK
    BY WritesBounded DEF Init, TypeOK
  <1>2. ScansCached /\ ReadersOnTheirWay /\ ReadersTyped /\ ReadersExplained
    BY DEF Init, ScansCached, ReadersOnTheirWay, ReadersTyped, ReadersExplained
  <1>3. StalenessExplained
    BY DEF Init, StalenessExplained, Stale
  <1> QED
    BY <1>1, <1>2, <1>3 DEF Inv

\* Every step of readers, writers, Redis and the faults keeps the invariant.
LEMMA Inductive == Inv /\ [Work \/ Faults]_vars => Inv'
  <1> SUFFICES ASSUME Inv, [Work \/ Faults]_vars
               PROVE  Inv'
    OBVIOUS
  <1>1. CASE \E q \in Readers : Read(q)
    BY <1>1, CountStep, PageStep, ByStatusStep, ByPriorityStep, StoreStep DEF Read
  <1>2. CASE \E q \in Readers, k \in Keys : Lookup(q, k)
    BY <1>2, LookupStep
  <1>3. CASE \E w \in Writers : Invalidate(w)
    BY <1>3, RefreshStep, DeleteStatsStep, ScanStep, DeleteKeyStep DEF Invalidate
  <1>4. CASE \E w \in Writers, t \in TicketIds, new \in Row \cup {None} : Commit(w, t, new)
    BY <1>4, CommitStep
  <1>5. CASE \E k \in Keys : Expire(k)
    BY <1>5, ExpireStep
  <1>6. CASE Faults
    BY <1>6, WriterFailsStep, ReaderFailsStep, CrashStep DEF Faults
  <1>7. CASE UNCHANGED vars
    <2> USE <1>7 DEF vars, reader, Inv
    <2>1. Passed({})
      BY DEF Passed
    <2>2. StalenessExplained' /\ ReadersOnTheirWay' /\ ReadersExplained'
      BY <2>1, OwedKept, ClearingStep
    <2>3. TypeOK' /\ ScansCached' /\ ReadersTyped'
      BY TypedKept DEF TypeOK, ScansCached, Cached
    <2> QED
      BY <2>2, <2>3
  <1> QED
    BY <1>1, <1>2, <1>3, <1>4, <1>5, <1>6, <1>7 DEF Work

\* The invariant holds in every behaviour of the cache.
THEOREM Invariance == Spec => []Inv
  <1>1. Init => Inv
    BY Initially
  <1>2. Inv /\ [Work \/ Faults]_vars => Inv'
    BY Inductive
  <1> QED
    BY <1>1, <1>2, PTL DEF Spec

\* No list key ever holds statistics, nor the statistics key a list, and every cached
\* answer and every piece a reader holds is of the shape its queries return.
THEOREM TypeCorrect == Spec => []TypeOK
  <1>1. Inv => TypeOK
    BY DEF Inv
  <1> QED
    BY <1>1, Invariance, PTL

\* However readers, writes, expiries, failures and crashes interleave, a cached answer
\* that differs from the table is one that a writer is still to clear, failed to clear,
\* or that a reader stored which had begun to read before the clearing.
THEOREM StalenessIsExplained == Spec => []StalenessExplained
  <1>1. Inv => StalenessExplained
    BY DEF Inv
  <1> QED
    BY <1>1, Invariance, PTL

-------------------------------------------------------------------------------
(* Where a ticket is in a list. *)

\* The tickets before x, newest first.
Place(S, x) == Cardinality(Newer(S, x))

\* A list is finite, and every part of it; a place is a number.
LEMMA ListsAreFinite ==
    ASSUME NEW S \in SUBSET Times
    PROVE  /\ IsFiniteSet(S) /\ Cardinality(S) \in Nat
           /\ \A x : IsFiniteSet(Newer(S, x)) /\ Place(S, x) \in Nat
  <1>1. \A U \in SUBSET Times : IsFiniteSet(U) /\ Cardinality(U) \in Nat
    BY TimesAssumption, FS_Subset, FS_CardinalityType
  <1>2. \A x : Newer(S, x) \in SUBSET Times
    BY DEF Newer
  <1> QED
    BY <1>1, <1>2 DEF Place

\* Cardinality(S) when S is the disjoint union of two finite sets.
LEMMA DisjointUnion ==
    ASSUME NEW A, NEW B, IsFiniteSet(A), IsFiniteSet(B), A \cap B = {}
    PROVE  /\ IsFiniteSet(A \cup B)
           /\ Cardinality(A \cup B) = Cardinality(A) + Cardinality(B)
           /\ Cardinality(A) \in Nat /\ Cardinality(B) \in Nat
  <1>1. Cardinality(A) \in Nat /\ Cardinality(B) \in Nat
    BY FS_CardinalityType
  <1>2. Cardinality(A \cap B) = 0
    BY FS_EmptySet
  <1>3. IsFiniteSet(A \cup B)
        /\ Cardinality(A \cup B) = Cardinality(A) + Cardinality(B) - Cardinality(A \cap B)
    BY FS_Union
  <1> QED
    BY <1>1, <1>2, <1>3

\* A newer ticket has fewer before it.
LEMMA NewerIsEarlier ==
    ASSUME NEW S \in SUBSET Times, NEW x \in S, NEW y \in S, x < y
    PROVE  Place(S, y) < Place(S, x)
  <1>1. Newer(S, y) \cap {y} = {} /\ Newer(S, y) \cup {y} \subseteq Newer(S, x)
    <2>1. S \in SUBSET Nat /\ ~(y > y)
      BY TimesAssumption
    <2>2. \A z \in S : z > y => z > x
      BY <2>1
    <2> QED
      BY <2>1, <2>2 DEF Newer
  <1>2. Cardinality(Newer(S, y) \cup {y}) = Place(S, y) + 1
    <2>1. IsFiniteSet(Newer(S, y)) /\ y \notin Newer(S, y)
      BY <1>1, ListsAreFinite
    <2> QED
      BY <2>1, FS_AddElement DEF Place
  <1>3. Cardinality(Newer(S, y) \cup {y}) <= Place(S, x)
    BY <1>1, ListsAreFinite, FS_Subset DEF Place
  <1> QED
    BY <1>2, <1>3, ListsAreFinite

\* Every non-empty set of numbers has a least one.
LEMMA LeastNumber ==
    ASSUME NEW N \in SUBSET Nat, N # {}
    PROVE  \E m \in N : \A n \in N : m <= n
  <1> DEFINE R == {ss \in Nat \X Nat : ss[1] < ss[2]}
  <1>1. IsWellFoundedOn(R, Nat)
    BY NatLessThanWellFounded DEF OpToRel
  <1>2. \A m, n \in Nat : n < m => <<n, m>> \in R
    OBVIOUS
  <1>3. PICK m \in N : \A n \in N : <<n, m>> \notin R
    <2> HIDE DEF R
    <2> QED
      BY <1>1, WFMin
  <1> HIDE DEF R
  <1>4. \A n \in N : ~(n < m)
    BY <1>2, <1>3
  <1> QED
    BY <1>4

\* Some tickets of a list, if there are any, have a newest among them.
LEMMA Newest ==
    ASSUME NEW S \in SUBSET Times, NEW U \in SUBSET S, U # {}
    PROVE  \E y \in U : \A z \in U : z <= y
  <1> DEFINE Places == {Place(S, z) : z \in U}
  <1>1. Places \in SUBSET Nat /\ Places # {}
    BY ListsAreFinite
  <1>2. PICK y \in U : \A z \in U : Place(S, y) <= Place(S, z)
    <2>1. PICK m \in Places : \A n \in Places : m <= n
      <3> HIDE DEF Places
      <3> QED
        BY <1>1, LeastNumber
    <2> QED
      BY <2>1
  <1>3. ASSUME NEW z \in U PROVE z <= y
    <2>1. ~(y < z)
      BY <1>2, NewerIsEarlier, ListsAreFinite
    <2> QED
      BY <2>1, TimesAssumption
  <1> QED
    BY <1>3

First(S, k) == {x \in S : Place(S, x) < k}

\* One more place, one more ticket: there is exactly one at each place.
LEMMA NextPlace ==
    ASSUME NEW S \in SUBSET Times, NEW k \in Nat, k < Cardinality(S),
           Cardinality(First(S, k)) = k
    PROVE  Cardinality(First(S, k + 1)) = k + 1
  <1>1. First(S, k) \in SUBSET S /\ IsFiniteSet(First(S, k))
    BY ListsAreFinite, FS_Subset DEF First
  <1>2. S \ First(S, k) # {}
    BY <1>1
  <1>3. PICK y \in S \ First(S, k) : \A z \in S \ First(S, k) : z <= y
    BY <1>2, Newest
  <1>4. Newer(S, y) = First(S, k)
    <2>1. ASSUME NEW z \in S, z > y PROVE z \in First(S, k)
      BY <1>3, <2>1, TimesAssumption
    <2>2. ASSUME NEW z \in First(S, k) PROVE z > y
      <3>1. z \in S /\ Place(S, z) < k /\ Place(S, y) >= k /\ z # y
        BY <1>3, <2>2, ListsAreFinite DEF First
      <3>2. ~(z < y)
        BY <3>1, NewerIsEarlier, ListsAreFinite
      <3> QED
        BY <3>1, <3>2, TimesAssumption
    <2> QED
      BY <1>1, <2>1, <2>2 DEF Newer
  <1>5. Place(S, y) = k
    BY <1>4 DEF Place
  <1>6. ASSUME NEW z \in S, Place(S, z) = k PROVE z = y
    <2>1. ~(z < y) /\ ~(y < z)
      BY <1>5, <1>6, NewerIsEarlier
    <2> QED
      BY <2>1, TimesAssumption
  <1>7. First(S, k + 1) = First(S, k) \cup {y} /\ y \notin First(S, k)
    BY <1>3, <1>5, <1>6, ListsAreFinite DEF First
  <1> QED
    BY <1>1, <1>7, FS_AddElement

\* The first k places of a list with that many tickets hold k of them: there is no
\* first k of which this is not so.
LEMMA FirstPlaces ==
    ASSUME NEW S \in SUBSET Times, NEW k \in Nat, k <= Cardinality(S)
    PROVE  Cardinality(First(S, k)) = k
  <1> DEFINE Wrong == {j \in Nat : j <= Cardinality(S) /\ Cardinality(First(S, j)) # j}
  <1>1. SUFFICES ASSUME Wrong # {}
        PROVE  FALSE
    OBVIOUS
  <1>2. PICK j \in Wrong : \A i \in Wrong : j <= i
    <2>1. Wrong \in SUBSET Nat
      OBVIOUS
    <2> HIDE DEF Wrong
    <2> QED
      BY <1>1, <2>1, LeastNumber
  <1>3. CASE j = 0
    <2>1. First(S, 0) = {}
      BY ListsAreFinite DEF First
    <2> QED
      BY <1>2, <1>3, <2>1, FS_EmptySet
  <1>4. CASE j > 0
    <2>1. j - 1 \in Nat /\ j - 1 < Cardinality(S) /\ j - 1 \notin Wrong
      BY <1>2, <1>4, ListsAreFinite
    <2>2. Cardinality(First(S, j - 1)) = j - 1
      BY <2>1, ListsAreFinite
    <2>3. Cardinality(First(S, (j - 1) + 1)) = (j - 1) + 1
      BY <2>1, <2>2, NextPlace
    <2> QED
      BY <1>2, <2>3
  <1> QED
    BY <1>2, <1>3, <1>4

\* Page by page, the limits are numbers, and a page begins where the last one ends.
LEMMA Limits ==
    ASSUME NEW n \in Nat, n > 0
    PROVE  /\ Offset(n) \in Nat /\ Limit(n) \in Nat /\ Limit(n) = Offset(n) + page_size
           /\ Offset(n + 1) = Limit(n) /\ Offset(1) = 0
  <1>1. \A i, j \in Nat : i * j \in Nat
    OBVIOUS
  <1>2. n - 1 \in Nat /\ page_size \in Nat
    BY PageSizeAssumption
  <1>3. Offset(n) \in Nat
    BY <1>1, <1>2 DEF Offset
  <1>4. n * page_size = (n - 1) * page_size + page_size
    BY <1>2
  <1>5. Offset(n + 1) = n * page_size /\ Offset(1) = 0
    BY <1>2 DEF Offset
  <1> QED
    BY <1>2, <1>3, <1>4, <1>5 DEF Limit, Offset

\* A page with a ticket after it is full.
LEMMA FullPage ==
    ASSUME NEW S \in SUBSET Times, NEW n \in Nat, n > 0, NEW x \in S,
           Place(S, x) >= Limit(n)
    PROVE  Cardinality(PageAt(S, n)) = page_size
  <1>1. Offset(n) \in Nat /\ Limit(n) \in Nat /\ Limit(n) = Offset(n) + page_size
    BY Limits
  <1>2. Limit(n) <= Cardinality(S)
    <2>1. Newer(S, x) \in SUBSET S
      BY DEF Newer
    <2>2. Place(S, x) <= Cardinality(S)
      BY <2>1, ListsAreFinite, FS_Subset DEF Place
    <2> QED
      BY <1>1, <2>2, ListsAreFinite
  <1>3. Cardinality(First(S, Limit(n))) = Limit(n)
    BY <1>1, <1>2, FirstPlaces
  <1>4. Cardinality(First(S, Offset(n))) = Offset(n)
    <2>1. Offset(n) <= Cardinality(S)
      BY <1>1, <1>2, ListsAreFinite, PageSizeAssumption
    <2> QED
      BY <1>1, <2>1, FirstPlaces
  <1>5. /\ PageAt(S, n) \cap First(S, Offset(n)) = {}
        /\ PageAt(S, n) \cup First(S, Offset(n)) = First(S, Limit(n))
    <2>1. \A z : Place(S, z) \in Nat
      BY ListsAreFinite
    <2>2. \A z : ~(z \in PageAt(S, n) /\ z \in First(S, Offset(n)))
      BY <1>1, <2>1 DEF PageAt, First, Place
    <2>3. \A z : z \in PageAt(S, n) \/ z \in First(S, Offset(n)) <=> z \in First(S, Limit(n))
      BY <1>1, <2>1, PageSizeAssumption DEF PageAt, First, Place
    <2> QED
      BY <2>2, <2>3
  <1>6. PageAt(S, n) \in SUBSET S /\ First(S, Offset(n)) \in SUBSET S
    BY DEF PageAt, First
  <1>7. IsFiniteSet(PageAt(S, n)) /\ IsFiniteSet(First(S, Offset(n)))
    BY <1>6, ListsAreFinite, FS_Subset
  <1>8. /\ Cardinality(First(S, Limit(n)))
              = Cardinality(PageAt(S, n)) + Cardinality(First(S, Offset(n)))
        /\ Cardinality(PageAt(S, n)) \in Nat
    BY <1>5, <1>7, DisjointUnion
  <1> QED
    BY <1>1, <1>3, <1>4, <1>8, PageSizeAssumption

\* The tickets that are beyond the first k places of S and among those of T.
MovedUp(S, T, k) == {x \in S \cap T : Place(S, x) >= k /\ Place(T, x) < k}

\* As many tickets went from S as there are that moved up beyond a place: the oldest
\* of these has all the others before it in T, and of the k or more which the newest
\* had before it in S, all that are left.
LEMMA FewMoveUp ==
    ASSUME NEW S \in SUBSET Times, NEW T \in SUBSET Times, NEW k \in Nat
    PROVE  /\ IsFiniteSet(MovedUp(S, T, k)) /\ IsFiniteSet(S \ T)
           /\ Cardinality(MovedUp(S, T, k)) <= Cardinality(S \ T)
           /\ Cardinality(MovedUp(S, T, k)) \in Nat /\ Cardinality(S \ T) \in Nat
  <1> DEFINE E == MovedUp(S, T, k)
  <1>1. E \in SUBSET S /\ E \in SUBSET T /\ E \in SUBSET Times /\ S \ T \in SUBSET Times
    BY DEF MovedUp
  <1>2. /\ IsFiniteSet(E) /\ Cardinality(E) \in Nat
        /\ IsFiniteSet(S \ T) /\ Cardinality(S \ T) \in Nat
    BY <1>1, ListsAreFinite
  <1>3. CASE E = {}
    BY <1>2, <1>3, FS_EmptySet
  <1>4. CASE E # {}
    <2>1. PICK y \in E : \A z \in E : z <= y
      BY <1>1, <1>4, Newest
    <2>2. PICK x \in E : \A z \in E : x <= z
      BY <1>1, <1>4, TimesAssumption, LeastNumber
    <2> DEFINE Others == E \ {x}
               Left == Newer(S, y) \cap T
               Went == Newer(S, y) \ T
    <2>3. IsFiniteSet(Others) /\ Cardinality(Others) = Cardinality(E) - 1
      BY <1>2, <2>2, FS_RemoveElement
    <2>4. IsFiniteSet(Left) /\ IsFiniteSet(Went) /\ Cardinality(Went) <= Cardinality(S \ T)
      <3>1. Left \in SUBSET Newer(S, y) /\ Went \in SUBSET Newer(S, y) /\ Went \in SUBSET (S \ T)
        BY DEF Newer
      <3> QED
        BY <1>2, <3>1, ListsAreFinite, FS_Subset
    <2>5. Place(S, y) = Cardinality(Left) + Cardinality(Went)
          /\ Cardinality(Left) \in Nat /\ Cardinality(Went) \in Nat
      <3>1. Left \cap Went = {} /\ Left \cup Went = Newer(S, y)
        OBVIOUS
      <3> HIDE DEF Left, Went
      <3> QED
        BY <2>4, <3>1, DisjointUnion DEF Place
    <2>6. Others \cap Left = {} /\ Others \cup Left \in SUBSET Newer(T, x)
      <3>1. x \in Nat /\ y \in Nat /\ x <= y /\ \A z \in E \cup S : z \in Nat
        BY <1>1, <2>2, TimesAssumption
      <3>2. \A z \in Others : z \in T /\ z > x /\ ~(z > y)
        <4> SUFFICES ASSUME NEW z \in E, z # x
                     PROVE  z \in T /\ z > x /\ ~(z > y)
          OBVIOUS
        <4>1. z \in T /\ z \in Nat /\ x <= z /\ z <= y
          BY <1>1, <2>1, <2>2, <3>1
        <4> QED
          BY <3>1, <4>1
      <3>3. \A z \in Left : z \in T /\ z > x /\ z > y
        <4> SUFFICES ASSUME NEW z \in S, z \in T, z > y
                     PROVE  z > x
          BY DEF Newer
        <4>1. z \in Nat
          BY <3>1
        <4> HIDE DEF E
        <4> QED
          BY <3>1, <4>1
      <3> HIDE DEF Others, Left
      <3> QED
        BY <3>2, <3>3 DEF Newer
    <2>7. Cardinality(Others \cup Left) = Cardinality(Others) + Cardinality(Left)
      <3> HIDE DEF Others, Left
      <3> QED
        BY <2>3, <2>4, <2>6, DisjointUnion
    <2>8. Cardinality(Others \cup Left) <= Place(T, x)
      <3> HIDE DEF Others, Left
      <3> QED
        BY <2>6, ListsAreFinite, FS_Subset DEF Place
    <2>9. Place(S, y) >= k /\ Place(T, x) < k
      BY DEF MovedUp
    <2>10. Place(S, y) \in Nat /\ Place(T, x) \in Nat
      BY ListsAreFinite
    <2> HIDE DEF Others, Left, Went, E
    <2> QED
      BY <1>2, <2>3, <2>4, <2>5, <2>7, <2>8, <2>9, <2>10 DEF E
  <1> QED
    BY <1>3, <1>4

-------------------------------------------------------------------------------
(* The inductive invariant of the walk. *)

Last == seen[Len(seen)]
Stop == Limit(Len(seen))  \* the place at which the next page begins

\* Tickets never shown whose place the walk has passed.
Skipped == {x \in Stable : seen # <<>> /\ PagesWith(x) = {} /\ Place(Last, x) < Stop}

\* Tickets shown whose place the walk has not reached yet: they will be shown again.
Again == {x \in Stable : seen # <<>> /\ PagesWith(x) # {} /\ Place(Last, x) >= Stop}

WalkTypes ==
    /\ listing \in SUBSET Times /\ cached \in SUBSET SUBSET Times
    /\ seen \in Seq(SUBSET Times)
    /\ changes \in 0..MaxChanges

WalkInv ==
    /\ WalkTypes
    /\ Cardinality(Skipped) <= Cardinality(Departures)
    /\ Cardinality(Repeats) + Cardinality(Again) <= Cardinality(Arrivals)

\* Pairing a set with one page makes as many pairs.
LEMMA Paired ==
    ASSUME NEW A, IsFiniteSet(A), NEW n
    PROVE  IsFiniteSet(A \X {n}) /\ Cardinality(A \X {n}) = Cardinality(A)
  <1>1. IsFiniteSet({n}) /\ Cardinality({n}) = 1
    BY FS_Singleton
  <1>2. IsFiniteSet(A \X {n}) /\ Cardinality(A \X {n}) = Cardinality(A) * Cardinality({n})
    BY <1>1, FS_Product
  <1>3. Cardinality(A) \in Nat
    BY FS_CardinalityType
  <1> QED
    BY <1>1, <1>2, <1>3

\* What is counted along a walk is finite.
LEMMA Counted ==
    ASSUME WalkTypes
    PROVE  /\ \A A \in {Departures, Arrivals, Repeats, Skipped, Again} :
                 IsFiniteSet(A) /\ Cardinality(A) \in Nat
           /\ Stable \in SUBSET Times
  <1>1. DOMAIN seen = 1..Len(seen) /\ Len(seen) \in Nat
    BY DEF WalkTypes
  <1>2. IsFiniteSet(1..Len(seen))
    BY <1>1, FS_Interval
  <1>3. IsFiniteSet(Times \X (1..Len(seen)))
    BY <1>2, TimesAssumption, FS_Product
  <1>4. /\ Stable \in SUBSET Times
        /\ Skipped \in SUBSET Times /\ Again \in SUBSET Times
    BY DEF Stable, Skipped, Again
  <1>5. /\ Departures \in SUBSET (Times \X (1..Len(seen)))
        /\ Arrivals \in SUBSET (Times \X (1..Len(seen)))
        /\ Repeats \in SUBSET (Times \X (1..Len(seen)))
    BY <1>1, <1>4 DEF Departures, Arrivals, Repeats, Later
  <1>6. \A A \in {Departures, Arrivals, Repeats} : IsFiniteSet(A)
    BY <1>3, <1>5, FS_Subset
  <1> QED
    BY <1>4, <1>6, ListsAreFinite, FS_CardinalityType

\* The walk with one page more.
LEMMA OnePageMore ==
    ASSUME WalkTypes, NEW S \in SUBSET Times, seen' = Append(seen, S)
    PROVE  /\ seen' \in Seq(SUBSET Times) /\ seen' # <<>>
           /\ Len(seen') = Len(seen) + 1 /\ Len(seen) \in Nat
           /\ DOMAIN seen = 1..Len(seen) /\ DOMAIN seen' = 1..(Len(seen) + 1)
           /\ \A n \in 1..Len(seen) : seen'[n] = seen[n]
           /\ seen'[Len(seen) + 1] = S
           /\ \A x \in Stable' : x \in Stable /\ x \in S
           /\ \A x : \A n \in 1..Len(seen) : n \in PagesWith(x)' <=> n \in PagesWith(x)
           /\ \A x : Len(seen) + 1 \in PagesWith(x)' <=> x \in PageAt(S, Len(seen) + 1)
           /\ \A x : PagesWith(x) \subseteq 1..Len(seen)
           /\ \A x : PagesWith(x)' \subseteq 1..(Len(seen) + 1)
  <1>1. /\ seen' \in Seq(SUBSET Times) /\ seen' # <<>>
        /\ Len(seen') = Len(seen) + 1 /\ Len(seen) \in Nat
        /\ DOMAIN seen = 1..Len(seen) /\ DOMAIN seen' = 1..(Len(seen) + 1)
        /\ \A n \in 1..Len(seen) : seen'[n] = seen[n]
        /\ seen'[Len(seen) + 1] = S
    BY DEF WalkTypes
  <1>2. 1..Len(seen) \subseteq 1..(Len(seen) + 1) /\ Len(seen) + 1 \in 1..(Len(seen) + 1)
    BY <1>1
  <1>3. \A x \in Stable' : x \in Stable /\ x \in S
    BY <1>1, <1>2 DEF Stable
  <1>4. \A x : \A n \in 1..Len(seen) : n \in PagesWith(x)' <=> n \in PagesWith(x)
    BY <1>1, <1>2 DEF PagesWith
  <1>5. \A x : Len(seen) + 1 \in PagesWith(x)' <=> x \in PageAt(S, Len(seen) + 1)
    BY <1>1, <1>2 DEF PagesWith
  <1>6. \A x : PagesWith(x) \subseteq 1..Len(seen) /\ PagesWith(x)' \subseteq 1..(Len(seen) + 1)
    BY <1>1 DEF PagesWith
  <1> QED
    BY <1>1, <1>3, <1>4, <1>5, <1>6

\* The pairs of the new page, after an earlier one.
LEMMA PairsOfThePage ==
    ASSUME WalkTypes, NEW S \in SUBSET Times, seen' = Append(seen, S), seen # <<>>
    PROVE  /\ Cardinality(Departures') = Cardinality(Departures) + Cardinality(Last \ S)
           /\ Cardinality(Arrivals') = Cardinality(Arrivals) + Cardinality(S \ Last)
  <1> DEFINE n == Len(seen) + 1
  <1>1. /\ Len(seen) \in Nat /\ Len(seen) > 0 /\ Len(seen') = n
        /\ \A i \in 1..Len(seen) : seen'[i] = seen[i]
        /\ seen'[n] = S /\ Last \in SUBSET Times
    BY OnePageMore DEF WalkTypes, Last
  <1>2. Later' = Later \cup {n} /\ n \notin Later
    BY <1>1 DEF Later
  <1>3. \A i \in Later : i - 1 \in 1..Len(seen) /\ i \in 1..Len(seen)
    BY <1>1 DEF Later
  <1>4. seen'[n - 1] = Last
    BY <1>1 DEF Last
  <1>5. \A i \in Later : seen'[i - 1] = seen[i - 1] /\ seen'[i] = seen[i]
    BY <1>1, <1>3
  <1> HIDE DEF n
  <1>6. /\ Departures' = Departures \cup ((Last \ S) \X {n})
        /\ Departures \cap ((Last \ S) \X {n}) = {}
    BY <1>1, <1>2, <1>4, <1>5 DEF Departures
  <1>7. /\ Arrivals' = Arrivals \cup ((S \ Last) \X {n})
        /\ Arrivals \cap ((S \ Last) \X {n}) = {}
    BY <1>1, <1>2, <1>4, <1>5 DEF Arrivals
  <1>8. IsFiniteSet(Last \ S) /\ IsFiniteSet(S \ Last)
    <2>1. Last \ S \in SUBSET Times /\ S \ Last \in SUBSET Times
      BY <1>1
    <2> QED
      BY <2>1, ListsAreFinite
  <1>9. IsFiniteSet(Departures) /\ IsFiniteSet(Arrivals)
    BY Counted
  <1>10. /\ IsFiniteSet((Last \ S) \X {n})
         /\ Cardinality((Last \ S) \X {n}) = Cardinality(Last \ S)
    BY <1>8, Paired
  <1>11. /\ IsFiniteSet((S \ Last) \X {n})
         /\ Cardinality((S \ Last) \X {n}) = Cardinality(S \ Last)
    BY <1>8, Paired
  <1>12. Cardinality(Departures') = Cardinality(Departures) + Cardinality(Last \ S)
    BY <1>6, <1>9, <1>10, DisjointUnion
  <1>13. Cardinality(Arrivals') = Cardinality(Arrivals) + Cardinality(S \ Last)
    BY <1>7, <1>9, <1>11, DisjointUnion
  <1> QED
    BY <1>12, <1>13

\* No more than the union of two finite sets.
LEMMA AtMostBoth ==
    ASSUME NEW A, NEW B, NEW C, IsFiniteSet(A), IsFiniteSet(B), C \subseteq A \cup B
    PROVE  IsFiniteSet(C) /\ Cardinality(C) <= Cardinality(A) + Cardinality(B)
  <1>1. IsFiniteSet(A \cap B) /\ Cardinality(A) \in Nat /\ Cardinality(B) \in Nat
    BY FS_Intersection, FS_CardinalityType
  <1>2. Cardinality(A \cap B) \in Nat
    BY <1>1, FS_CardinalityType
  <1>3. /\ IsFiniteSet(A \cup B)
        /\ Cardinality(A \cup B) = Cardinality(A) + Cardinality(B) - Cardinality(A \cap B)
    BY FS_Union
  <1>4. IsFiniteSet(C) /\ Cardinality(C) <= Cardinality(A \cup B) /\ Cardinality(C) \in Nat
    BY <1>3, FS_Subset, FS_CardinalityType
  <1> QED
    BY <1>1, <1>2, <1>3, <1>4

\* The new page begins where the one before ended, or at the newest ticket.
LEMMA NewPage ==
    ASSUME WalkTypes, NEW S \in SUBSET Times, seen' = Append(seen, S),
           NEW n, n = Len(seen) + 1
    PROVE  /\ n \in Nat /\ Last' = S /\ Stop' = Limit(n) /\ Limit(n) \in Nat
           /\ Offset(n) \in Nat /\ Offset(n) <= Limit(n)
           /\ seen = <<>> => /\ Offset(n) = 0
                             /\ Departures' = {} /\ Arrivals' = {}
           /\ seen # <<>> => Offset(n) = Stop /\ Last \in SUBSET Times
  <1>1. /\ Len(seen) \in Nat /\ Len(seen') = n /\ seen'[n] = S
        /\ (seen = <<>> => n = 1)
        /\ (seen # <<>> => Len(seen) > 0 /\ Last \in SUBSET Times)
    BY OnePageMore DEF WalkTypes, Last
  <1>2. n \in Nat /\ n > 0
    BY <1>1
  <1>3. Last' = S /\ Stop' = Limit(n)
    BY <1>1 DEF Last, Stop
  <1>4. Offset(n) \in Nat /\ Limit(n) \in Nat /\ Limit(n) = Offset(n) + page_size
    BY <1>2, Limits
  <1>5. CASE seen = <<>>
    <2>1. Offset(n) = 0
      BY <1>1, <1>2, <1>5, Limits
    <2>2. Later' = {}
      BY <1>1, <1>5 DEF Later
    <2> QED
      BY <1>2, <1>3, <1>4, <1>5, <2>1, <2>2, PageSizeAssumption DEF Departures, Arrivals
  <1>6. CASE seen # <<>>
    <2>1. Offset(n) = Stop
      BY <1>1, <1>6, Limits DEF Stop
    <2> QED
      BY <1>1, <1>2, <1>3, <1>4, <1>6, <2>1, PageSizeAssumption
  <1> QED
    BY <1>5, <1>6

\* A ticket the new page skips was skipped before, or moved up beyond the place where
\* the page begins while others went.
LEMMA SkippingStep ==
    ASSUME WalkInv, NEW S \in SUBSET Times, seen' = Append(seen, S)
    PROVE  Cardinality(Skipped') <= Cardinality(Departures')
  <1> USE DEF WalkInv
  <1> DEFINE n == Len(seen) + 1
  <1>1. /\ seen' # <<>>
        /\ \A x \in Stable' : x \in Stable /\ x \in S
        /\ \A x : PagesWith(x) \subseteq 1..Len(seen)
        /\ \A x : \A i \in 1..Len(seen) : i \in PagesWith(x)' <=> i \in PagesWith(x)
        /\ \A x : n \in PagesWith(x)' <=> x \in PageAt(S, n)
    BY OnePageMore
  <1>2. /\ n \in Nat /\ Last' = S /\ Stop' = Limit(n) /\ Limit(n) \in Nat
        /\ Offset(n) \in Nat /\ Offset(n) <= Limit(n)
        /\ seen = <<>> => /\ Offset(n) = 0 /\ Departures' = {}
        /\ seen # <<>> => Offset(n) = Stop /\ Last \in SUBSET Times
    BY NewPage
  <1>3. ASSUME NEW x \in Skipped'
        PROVE  /\ x \in Stable /\ x \in S /\ PagesWith(x) = {}
               /\ Place(S, x) < Offset(n) /\ Place(S, x) \in Nat
    <2>1. x \in Stable' /\ PagesWith(x)' = {} /\ Place(S, x) < Limit(n)
      BY <1>2, <1>3 DEF Skipped
    <2>2. x \in S /\ x \in Stable
      BY <1>1, <2>1
    <2>3. PagesWith(x) = {} /\ x \notin PageAt(S, n)
      BY <1>1, <2>1
    <2>4. ~(Offset(n) <= Place(S, x))
      BY <2>1, <2>2, <2>3 DEF PageAt, Place
    <2>5. Place(S, x) \in Nat
      BY ListsAreFinite
    <2> QED
      BY <1>2, <2>2, <2>3, <2>4, <2>5
  <1> HIDE DEF n
  <1>4. CASE seen = <<>>
    <2>1. Skipped' = {}
      BY <1>2, <1>3, <1>4
    <2>2. Departures' = {}
      BY <1>2, <1>4
    <2>3. 0 <= 0
      OBVIOUS
    <2> QED
      BY <2>1, <2>2, <2>3, FS_EmptySet, Zenon
  <1>5. CASE seen # <<>>
    <2>1. Offset(n) = Stop /\ Last \in SUBSET Times /\ Stop \in Nat
      BY <1>2, <1>5
    <2>2. ASSUME NEW x \in Skipped', x \notin Skipped
          PROVE  x \in MovedUp(Last, S, Stop)
      <3>1. /\ x \in Stable /\ x \in S /\ PagesWith(x) = {}
            /\ Place(S, x) < Stop
        BY <1>3, <2>1, <2>2
      <3>2. x \in Last
        BY <1>5, <3>1 DEF Stable, Last, WalkTypes
      <3>3. ~(Place(Last, x) < Stop)
        BY <1>5, <2>2, <3>1 DEF Skipped
      <3>4. Place(Last, x) >= Stop
        <4>1. Place(Last, x) \in Nat
          BY <2>1, ListsAreFinite
        <4> QED
          BY <2>1, <3>3, <4>1
      <3> QED
        BY <3>1, <3>2, <3>4 DEF MovedUp
    <2>3. Skipped' \subseteq Skipped \cup MovedUp(Last, S, Stop)
      BY <2>2
    <2>4. /\ IsFiniteSet(MovedUp(Last, S, Stop))
          /\ Cardinality(MovedUp(Last, S, Stop)) <= Cardinality(Last \ S)
          /\ Cardinality(MovedUp(Last, S, Stop)) \in Nat /\ Cardinality(Last \ S) \in Nat
      BY <2>1, FewMoveUp
    <2>5. IsFiniteSet(Skipped) /\ Cardinality(Skipped) \in Nat /\ Cardinality(Departures) \in Nat
      BY Counted
    <2>6. IsFiniteSet(Skipped')
          /\ Cardinality(Skipped') <= Cardinality(Skipped) + Cardinality(MovedUp(Last, S, Stop))
      BY <2>3, <2>4, <2>5, AtMostBoth
    <2>7. Cardinality(Skipped') \in Nat
      BY <2>6, FS_CardinalityType
    <2>8. Cardinality(Departures') = Cardinality(Departures) + Cardinality(Last \ S)
      BY <1>5, PairsOfThePage
    <2> QED
      BY <2>4, <2>5, <2>6, <2>7, <2>8
  <1> QED
    BY <1>4, <1>5

\* A ticket the new page shows again, or that will be shown again after it, was due to
\* be, or moved down beyond the place where the page begins while others came.
LEMMA RepeatingStep ==
    ASSUME WalkInv, NEW S \in SUBSET Times, seen' = Append(seen, S)
    PROVE  Cardinality(Repeats') + Cardinality(Again') <= Cardinality(Arrivals')
  <1> USE DEF WalkInv
  <1> DEFINE n == Len(seen) + 1
             Shown == {x \in Stable' : PagesWith(x) # {} /\ x \in PageAt(S, n)}
  <1>1. /\ seen' # <<>> /\ Len(seen) \in Nat /\ DOMAIN seen' = 1..n
        /\ DOMAIN seen = 1..Len(seen)
        /\ \A x \in Stable' : x \in Stable /\ x \in S
        /\ \A x : PagesWith(x) \subseteq 1..Len(seen) /\ PagesWith(x)' \subseteq 1..n
        /\ \A x : \A i \in 1..Len(seen) : i \in PagesWith(x)' <=> i \in PagesWith(x)
        /\ \A x : n \in PagesWith(x)' <=> x \in PageAt(S, n)
    BY OnePageMore
  <1>2. /\ n \in Nat /\ Last' = S /\ Stop' = Limit(n) /\ Limit(n) \in Nat
        /\ Offset(n) \in Nat /\ Offset(n) <= Limit(n)
        /\ seen = <<>> => /\ Offset(n) = 0 /\ Arrivals' = {}
        /\ seen # <<>> => Offset(n) = Stop /\ Last \in SUBSET Times
    BY NewPage
  <1>3. \A x : Place(S, x) \in Nat
    BY ListsAreFinite
  <1>4. ASSUME NEW x \in Again'
        PROVE  /\ x \in Stable' /\ PagesWith(x) # {} /\ x \notin PageAt(S, n)
               /\ Place(S, x) >= Limit(n)
    <2>1. x \in Stable' /\ PagesWith(x)' # {} /\ Place(S, x) >= Limit(n)
      BY <1>2, <1>4 DEF Again
    <2>2. x \notin PageAt(S, n)
      BY <1>2, <1>3, <2>1 DEF PageAt, Place
    <2>3. PagesWith(x) # {}
      <3>1. PICK i \in 1..n : i \in PagesWith(x)'
        BY <1>1, <2>1
      <3>2. i # n
        BY <1>1, <2>2, <3>1
      <3>3. i \in 1..Len(seen)
        BY <1>1, <3>1, <3>2
      <3> QED
        BY <1>1, <3>1, <3>3
    <2> QED
      BY <2>1, <2>2, <2>3
  <1>5. Shown \cap Again' = {}
    BY <1>4
  <1>6. ASSUME NEW x \in Shown \cup Again'
        PROVE  x \in Stable /\ x \in S /\ PagesWith(x) # {} /\ Place(S, x) >= Offset(n)
    <2>1. x \in Stable' /\ PagesWith(x) # {}
      BY <1>4, <1>6
    <2>2. Place(S, x) >= Offset(n)
      <3>1. CASE x \in Again'
        BY <1>2, <1>3, <1>4, <3>1
      <3>2. CASE x \in PageAt(S, n)
        BY <1>2, <1>3, <3>2 DEF PageAt, Place
      <3> QED
        BY <1>6, <3>1, <3>2
    <2> QED
      BY <1>1, <2>1, <2>2
  <1>7. Repeats' \subseteq Repeats \cup (Shown \X {n})
    <2> SUFFICES ASSUME NEW p \in Repeats'
                 PROVE  p \in Repeats \cup (Shown \X {n})
      OBVIOUS
    <2>1. /\ p \in Stable' \X (1..n) /\ p[2] \in PagesWith(p[1])'
          /\ \E m \in PagesWith(p[1])' : m < p[2]
      BY <1>1 DEF Repeats
    <2>2. PICK x \in Stable', i \in 1..n : p = <<x, i>>
      BY <2>1
    <2>3. PICK m \in PagesWith(x)' : m < i
      BY <2>1, <2>2
    <2>4. i \in PagesWith(x)'
      BY <2>1, <2>2
    <2>5. m \in 1..Len(seen)
      BY <1>1, <2>2, <2>3
    <2>6. m \in PagesWith(x)
      BY <1>1, <2>3, <2>5
    <2>7. CASE i = n
      BY <1>1, <2>2, <2>4, <2>6, <2>7
    <2>8. CASE i # n
      <3>1. i \in 1..Len(seen) /\ x \in Stable
        BY <1>1, <2>2, <2>8
      <3>2. i \in PagesWith(x)
        BY <1>1, <2>4, <3>1
      <3> HIDE DEF n, Shown
      <3> QED
        BY <1>1, <2>2, <2>3, <2>6, <3>1, <3>2 DEF Repeats
    <2> QED
      BY <2>7, <2>8
  <1>8. Shown \in SUBSET Times /\ Again' \in SUBSET Times /\ Stable \in SUBSET Times
    BY <1>6, Counted
  <1> HIDE DEF n, Shown
  <1>9. IsFiniteSet(Shown) /\ IsFiniteSet(Again')
    BY <1>8, ListsAreFinite
  <1>10. /\ IsFiniteSet(Shown \cup Again')
         /\ Cardinality(Shown \cup Again') = Cardinality(Shown) + Cardinality(Again')
         /\ Cardinality(Shown) \in Nat /\ Cardinality(Again') \in Nat
    BY <1>5, <1>9, DisjointUnion
  <1>11. /\ IsFiniteSet(Repeats) /\ Cardinality(Repeats) \in Nat
         /\ IsFiniteSet(Again) /\ Cardinality(Again) \in Nat
         /\ Cardinality(Arrivals) \in Nat
    BY Counted
  <1>12. /\ Cardinality(Repeats') <= Cardinality(Repeats) + Cardinality(Shown)
         /\ Cardinality(Repeats') \in Nat
    <2>1. /\ IsFiniteSet(Shown \X {n})
          /\ Cardinality(Shown \X {n}) = Cardinality(Shown)
      BY <1>9, Paired
    <2>2. IsFiniteSet(Repeats')
          /\ Cardinality(Repeats') <= Cardinality(Repeats) + Cardinality(Shown \X {n})
      BY <1>7, <1>11, <2>1, AtMostBoth
    <2> QED
      BY <2>1, <2>2, FS_CardinalityType
  <1>13. CASE seen = <<>>
    <2>1. Shown = {} /\ Again' = {} /\ Repeats = {}
      <3>1. \A x : PagesWith(x) = {}
        BY <1>1, <1>13
      <3>2. Repeats = {}
        BY <3>1 DEF Repeats
      <3>3. \A x : x \notin Shown \cup Again'
        BY <1>6, <3>1
      <3> QED
        BY <3>2, <3>3
    <2>2. Cardinality(Shown) = 0 /\ Cardinality(Again') = 0 /\ Cardinality(Repeats) = 0
      BY <2>1, FS_EmptySet
    <2>3. Cardinality(Arrivals') = 0
      <3>1. Arrivals' = {}
        BY <1>2, <1>13
      <3> QED
        BY <3>1, FS_EmptySet
    <2> QED
      BY <1>12, <2>2, <2>3
  <1>14. CASE seen # <<>>
    <2>1. Offset(n) = Stop /\ Last \in SUBSET Times /\ Stop \in Nat
      BY <1>2, <1>14
    <2>2. ASSUME NEW x \in Shown \cup Again', x \notin Again
          PROVE  x \in MovedUp(S, Last, Stop)
      <3>1. x \in Stable /\ x \in S /\ PagesWith(x) # {} /\ Place(S, x) >= Stop
        BY <1>6, <2>1, <2>2
      <3>2. x \in Last
        BY <1>14, <3>1 DEF Stable, Last, WalkTypes
      <3>3. ~(Place(Last, x) >= Stop)
        BY <1>14, <2>2, <3>1 DEF Again
      <3>4. Place(Last, x) < Stop
        <4>1. Place(Last, x) \in Nat
          BY <2>1, ListsAreFinite
        <4> QED
          BY <2>1, <3>3, <4>1
      <3> QED
        BY <3>1, <3>2, <3>4 DEF MovedUp
    <2>3. Shown \cup Again' \subseteq Again \cup MovedUp(S, Last, Stop)
      BY <2>2
    <2>4. /\ IsFiniteSet(MovedUp(S, Last, Stop))
          /\ Cardinality(MovedUp(S, Last, Stop)) <= Cardinality(S \ Last)
          /\ Cardinality(MovedUp(S, Last, Stop)) \in Nat /\ Cardinality(S \ Last) \in Nat
      BY <2>1, FewMoveUp
    <2>5. Cardinality(Shown \cup Again') <= Cardinality(Again) + Cardinality(MovedUp(S, Last, Stop))
      BY <1>11, <2>3, <2>4, AtMostBoth
    <2>6. Cardinality(Arrivals') = Cardinality(Arrivals) + Cardinality(S \ Last)
      BY <1>14, PairsOfThePage
    <2> QED
      BY <1>10, <1>11, <1>12, <2>4, <2>5, <2>6
  <1> QED
    BY <1>13, <1>14

-------------------------------------------------------------------------------
(* Every walk. *)

\* Before the first page nothing is counted.
LEMMA WalkInitially == WalkInit => WalkInv
  <1> SUFFICES ASSUME WalkInit
               PROVE  WalkInv
    OBVIOUS
  <1>1. WalkTypes
    BY ChangesAssumption DEF WalkInit, WalkTypes
  <1>2. Skipped = {} /\ Again = {} /\ Repeats = {}
    BY DEF WalkInit, Skipped, Again, Repeats
  <1>3. Cardinality(Skipped) = 0 /\ Cardinality(Again) = 0 /\ Cardinality(Repeats) = 0
    BY <1>2, FS_EmptySet
  <1>4. Cardinality(Departures) \in Nat /\ Cardinality(Arrivals) \in Nat
    BY <1>1, Counted
  <1> QED
    BY <1>1, <1>3, <1>4 DEF WalkInv

\* Nothing that is counted changes unless a page is read.
LEMMA SamePages ==
    ASSUME WalkInv, WalkTypes', seen' = seen
    PROVE  WalkInv'
  <1>1. /\ Skipped' = Skipped /\ Again' = Again /\ Repeats' = Repeats
        /\ Departures' = Departures /\ Arrivals' = Arrivals
    BY DEF Skipped, Again, Repeats, Departures, Arrivals, Stable, PagesWith, Later,
           Last, Stop
  <1> QED
    BY <1>1 DEF WalkInv

\* A commit changes the list, not the pages read; a page read keeps both counts.
LEMMA WalkInductive == WalkInv /\ [WalkNext]_walk => WalkInv'
  <1> SUFFICES ASSUME WalkInv, [WalkNext]_walk
               PROVE  WalkInv'
    OBVIOUS
  <1>1. ASSUME NEW x \in Times, Write(x)
        PROVE  WalkInv'
    <2>1. WalkTypes'
      BY <1>1, ChangesAssumption DEF Write, WalkInv, WalkTypes
    <2> QED
      BY <1>1, <2>1, SamePages DEF Write
  <1>2. ASSUME NEW S \in cached \cup {listing}, ReadPage(S)
        PROVE  WalkInv'
    <2>1. S \in SUBSET Times /\ seen' = Append(seen, S)
      BY <1>2 DEF ReadPage, WalkInv, WalkTypes
    <2>2. WalkTypes'
      BY <1>2, <2>1, OnePageMore DEF ReadPage, WalkInv, WalkTypes
    <2> QED
      BY <2>1, <2>2, SkippingStep, RepeatingStep DEF WalkInv
  <1>3. CASE UNCHANGED walk
    <2>1. WalkTypes'
      BY <1>3 DEF walk, WalkInv, WalkTypes
    <2> QED
      BY <1>3, <2>1, SamePages DEF walk
  <1> QED
    BY <1>1, <1>2, <1>3 DEF WalkNext

\* The invariant holds along every walk.
THEOREM WalkInvariance == WalkSpec => []WalkInv
  <1> QED
    BY WalkInitially, WalkInductive, PTL DEF WalkSpec

\* For every page size, list and number of commits, with any page taken from the cache
\* as it once was: a walk to its end misses no more of the tickets that stayed on the
\* list than others went from it between one page and the next.
THEOREM SkipsAreExplained == WalkSpec => []SkipsExplained
  <1>1. ASSUME WalkInv
        PROVE  SkipsExplained
    <2> SUFFICES ASSUME Over
                 PROVE  Cardinality({x \in Stable : PagesWith(x) = {}}) <= Cardinality(Departures)
      BY DEF SkipsExplained
    <2> DEFINE n == Len(seen)
    <2>1. seen # <<>> /\ n \in Nat /\ n > 0 /\ Last \in SUBSET Times /\ DOMAIN seen = 1..n
      BY <1>1 DEF Over, WalkInv, WalkTypes, Last
    <2>2. Cardinality(PageAt(Last, n)) < page_size
      BY DEF Over, Last
    <2>3. ASSUME NEW x \in Stable
          PROVE  Place(Last, x) < Stop
      <3>1. x \in Last
        BY <2>1, <2>3 DEF Stable, Last
      <3>2. ~(Place(Last, x) >= Limit(n))
        <4>1. SUFFICES ASSUME Place(Last, x) >= Limit(n)
              PROVE  FALSE
          OBVIOUS
        <4>2. Cardinality(PageAt(Last, n)) = page_size
          BY <2>1, <3>1, <4>1, FullPage
        <4> QED
          BY <2>2, <4>2, PageSizeAssumption
      <3>3. Place(Last, x) \in Nat /\ Limit(n) \in Nat
        BY <2>1, ListsAreFinite, Limits
      <3> QED
        BY <3>2, <3>3 DEF Stop
    <2>4. {x \in Stable : PagesWith(x) = {}} = Skipped
      BY <2>1, <2>3 DEF Skipped
    <2> QED
      BY <1>1, <2>4 DEF WalkInv
  <1> QED
    BY <1>1, WalkInvariance, PTL

\* And it shows tickets again no more often than others came in between two pages.
THEOREM RepeatsAreExplained == WalkSpec => []RepeatsExplained
  <1>1. ASSUME WalkInv
        PROVE  RepeatsExplained
    <2>1. /\ Cardinality(Again) \in Nat /\ Cardinality(Repeats) \in Nat
          /\ Cardinality(Arrivals) \in Nat
      BY <1>1, Counted DEF WalkInv
    <2> QED
      BY <1>1, <2>1 DEF WalkInv, RepeatsExplained
  <1> QED
    BY <1>1, WalkInvariance, PTL

\* While no ticket goes from the list or comes to it between two pages, wherever in it,
\* the pages read to the end show every ticket on exactly one of them.
THEOREM QuietWalkShowsEachOnce ==
    WalkSpec => [](Over /\ Departures = {} /\ Arrivals = {}
                       => \A x \in seen[1] : \E n \in DOMAIN seen : PagesWith(x) = {n})
  <1>1. ASSUME WalkInv, SkipsExplained, RepeatsExplained,
               Over, Departures = {}, Arrivals = {}, NEW x \in seen[1]
        PROVE  \E n \in DOMAIN seen : PagesWith(x) = {n}
    <2>1. Len(seen) \in Nat /\ Len(seen) > 0 /\ DOMAIN seen = 1..Len(seen)
          /\ \A n \in 1..Len(seen) : seen[n] \in SUBSET Times
      BY <1>1 DEF Over, WalkInv, WalkTypes
    <2>2. x \in Stable
      <3> DEFINE Off == {n \in 1..Len(seen) : x \notin seen[n]}
      <3>1. SUFFICES ASSUME Off # {}
            PROVE  FALSE
        BY <1>1, <2>1 DEF Stable
      <3>2. PICK n \in Off : \A i \in Off : n <= i
        <4>1. Off \in SUBSET Nat
          OBVIOUS
        <4> HIDE DEF Off
        <4> QED
          BY <3>1, <4>1, LeastNumber
      <3>3. n \in 1..Len(seen) /\ n # 1 /\ x \notin seen[n]
        BY <1>1, <3>2
      <3>4. n \in Later /\ n - 1 \in 1..Len(seen) /\ n - 1 \notin Off
        BY <2>1, <3>2, <3>3 DEF Later
      <3>5. x \in seen[n - 1] /\ x \in Times
        BY <2>1, <3>4
      <3>6. <<x, n>> \in Departures
        BY <3>3, <3>4, <3>5 DEF Departures
      <3> QED
        BY <1>1, <3>6
    <2>3. PagesWith(x) # {}
      <3> DEFINE Missed == {z \in Stable : PagesWith(z) = {}}
      <3>1. IsFiniteSet(Missed) /\ Cardinality(Missed) \in Nat
        <4>1. Missed \in SUBSET Times
          BY <1>1, Counted DEF WalkInv
        <4> QED
          BY <4>1, ListsAreFinite
      <3>2. Cardinality(Missed) <= Cardinality(Departures)
        BY <1>1 DEF SkipsExplained
      <3> HIDE DEF Missed
      <3>3. Cardinality(Missed) = 0
        BY <1>1, <3>1, <3>2, FS_EmptySet
      <3>4. Missed = {}
        BY <3>1, <3>3, FS_EmptySet
      <3> QED
        BY <2>2, <3>4 DEF Missed
    <2>4. Repeats = {}
      <3>1. IsFiniteSet(Repeats) /\ Cardinality(Repeats) \in Nat
        BY <1>1, Counted DEF WalkInv
      <3>2. Cardinality(Repeats) = 0
        BY <1>1, <3>1, FS_EmptySet DEF RepeatsExplained
      <3> QED
        BY <3>1, <3>2, FS_EmptySet
    <2>5. ASSUME NEW m \in PagesWith(x), NEW n \in PagesWith(x)
          PROVE  ~(m < n)
      <3>1. n \in DOMAIN seen
        BY DEF PagesWith
      <3>2. m < n => <<x, n>> \in Repeats
        BY <2>2, <3>1 DEF Repeats
      <3> QED
        BY <2>4, <3>2
    <2>6. PagesWith(x) \subseteq 1..Len(seen)
      BY <2>1 DEF PagesWith
    <2>7. PICK n \in PagesWith(x) : TRUE
      BY <2>3
    <2>8. \A m \in PagesWith(x) : m = n
      BY <2>1, <2>5, <2>6, <2>7
    <2> QED
      BY <2>1, <2>6, <2>7, <2>8
  <1>2. WalkInv /\ SkipsExplained /\ RepeatsExplained
          => (Over /\ Departures = {} /\ Arrivals = {}
                 => \A x \in seen[1] : \E n \in DOMAIN seen : PagesWith(x) = {n})
    BY <1>1
  <1> QED
    BY <1>2, WalkInvariance, SkipsAreExplained, RepeatsAreExplained, PTL
===============================================================================
