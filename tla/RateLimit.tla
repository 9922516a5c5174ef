------------------------------- MODULE RateLimit -------------------------------
(***************************************************************************)
(* The fixed-window counter of one account or address in Redis, and the     *)
(* requests that pass through it: INCR, then EXPIRE by the first of a       *)
(* window, then the comparison with the limit.                              *)
(***************************************************************************)
EXTENDS Integers

CONSTANTS
    Callers,   \* coroutines running the rate-limit dependency
    LIMIT,     \* requests per window
    WINDOW,    \* length of a window in ticks
    MaxCount   \* the counter saturates here, beyond the limit

ASSUME LimitAssumption == LIMIT \in Nat \ {0} /\ WINDOW \in Nat \ {0}
ASSUME SaturationAssumption == MaxCount \in Nat /\ MaxCount > LIMIT + 1

VARIABLES
    count,     \* the counter, 0 when the key does not exist
    ttl,       \* its remaining time to live, 0 when it has none
    pc, got,   \* where each caller is, and what its INCR returned
    recent,    \* history: requests let through in this tick and in the WINDOW - 1 before it
    lost       \* history: whether a request that was to set the time to live has failed

vars == <<count, ttl, pc, got, recent, lost>>

Init ==
    /\ count = 0 /\ ttl = 0
    /\ pc = [c \in Callers |-> "idle"]
    /\ got = [c \in Callers |-> 0]
    /\ recent = [age \in 0..(WINDOW - 1) |-> 0]
    /\ lost = FALSE

Goto(c, place) == pc' = [pc EXCEPT ![c] = place]

\* Faulty variant: the limit is off by one.
AdmitsOneMore(n) == n <= LIMIT + 1

Admits(n) == n <= LIMIT

\* Faulty variant: every request renews the window.
ExpiresAlways(n) == TRUE

\* Faulty variant: only the requests over the limit set the time to live.
ExpiresOverLimit(n) == n > LIMIT

SetsExpiry(n) == n = 1

\* INCR; what it returned decides the answer.
Incr(c) ==
    LET n == IF count < MaxCount THEN count + 1 ELSE count
    IN  /\ pc[c] = "idle"
        /\ count' = n
        /\ got' = [got EXCEPT ![c] = n]
        /\ recent' = [recent EXCEPT ![0] = IF Admits(n) THEN @ + 1 ELSE @]
        /\ Goto(c, IF SetsExpiry(n) THEN "expire" ELSE "check")
        /\ UNCHANGED <<ttl, lost>>

\* EXPIRE does nothing to a key that is gone.
Expire(c) ==
    /\ pc[c] = "expire"
    /\ ttl' = IF count > 0 THEN WINDOW ELSE ttl
    /\ Goto(c, "check")
    /\ UNCHANGED <<count, got, recent, lost>>

\* Faulty variant: a refused request takes its INCR back, whichever counter there is.
CheckTakesBack(c) ==
    /\ pc[c] = "check"
    /\ count' = IF Admits(got[c]) THEN count ELSE count - 1
    /\ Goto(c, IF Admits(got[c]) THEN "admitted" ELSE "refused")
    /\ UNCHANGED <<ttl, got, recent, lost>>

\* Let through, or 429 with the time to live as Retry-After.
Check(c) ==
    /\ pc[c] = "check"
    /\ Goto(c, IF Admits(got[c]) THEN "admitted" ELSE "refused")
    /\ UNCHANGED <<count, ttl, got, recent, lost>>

Return(c) ==
    /\ pc[c] \in {"admitted", "refused"}
    /\ Goto(c, "idle")
    /\ UNCHANGED <<count, ttl, got, recent, lost>>

\* History: everything counted so far is a tick older.
Older == [age \in 0..(WINDOW - 1) |-> IF age = 0 THEN 0 ELSE recent[age - 1]]

\* A tick passes; the key is dropped at the end of its time to live.
Tick ==
    /\ ttl' = IF ttl > 0 THEN ttl - 1 ELSE 0
    /\ count' = IF ttl = 1 THEN 0 ELSE count
    /\ recent' = Older
    /\ UNCHANGED <<pc, got, lost>>

\* EXPIRE raises, the client disconnects or the process dies: the request is over.
Fails(c) ==
    /\ pc[c] \in {"expire", "check"}
    /\ lost' = (lost \/ pc[c] = "expire")
    /\ Goto(c, "idle")
    /\ UNCHANGED <<count, ttl, got, recent>>

Proceed(c) == Expire(c) \/ Check(c) \/ Return(c)

Next == (\E c \in Callers : Incr(c) \/ Proceed(c) \/ Fails(c)) \/ Tick

Spec == Init /\ [][Next]_vars

\* Time passes, and a caller whose Redis call has returned is resumed.
FairSpec == Spec /\ WF_vars(Tick) /\ \A c \in Callers : WF_vars(Proceed(c))

-------------------------------------------------------------------------------
(* Properties. *)

\* Types and ranges: the counter is never negative, nor its time to live longer than a
\* window, wherever the calls of the callers fall between its expiries.
TypeOK ==
    /\ count \in 0..MaxCount /\ ttl \in 0..WINDOW
    /\ pc \in [Callers -> {"idle", "expire", "check", "admitted", "refused"}]
    /\ got \in [Callers -> 0..MaxCount]
    /\ recent \in [0..(WINDOW - 1) -> Nat]
    /\ lost \in BOOLEAN

\* How many requests were let through in the youngest n ticks.
Youngest(f) ==
    LET sum[n \in 0..WINDOW] == IF n = 0 THEN 0 ELSE sum[n - 1] + f[n - 1]
    IN  sum

\* Whatever the interleaving of INCR, EXPIRE, expiry and failures, a stretch of time
\* as long as a window lets through at most twice the limit.
AtMostTwiceTheLimit == Youngest(recent)[WINDOW] <= 2 * LIMIT

\* A counter lives on without a time to live only while the one caller that saw it
\* become 1 is about to set it, or after that caller failed before it could.
WindowsEnd ==
    count > 0 /\ ttl = 0 /\ ~lost =>
       \E c \in Callers : /\ pc[c] = "expire"
                          /\ \A d \in Callers \ {c} : pc[d] # "expire"

\* However many requests keep coming, an exhausted limit lifts again; only a failure
\* between INCR and EXPIRE can prevent it.
LimitLifts == count > LIMIT ~> count = 0 \/ lost

===============================================================================
