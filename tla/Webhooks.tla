------------------------------- MODULE Webhooks -------------------------------
(***************************************************************************)
(* Webhook registrations and the background tasks that deliver events to    *)
(* them: one task per event goes through the registrations it selected,     *)
(* one after the other, posting, logging every attempt, backing off and     *)
(* retrying, while agents register and delete webhooks.                     *)
(***************************************************************************)
EXTENDS FiniteSets, Naturals

CONSTANTS
    Events,        \* calls of dispatch_event; each is its own idempotency key
    Regs,          \* ids of webhook registrations, each registered at most once
    Deleters,      \* the DELETE requests that may be served at one time
    EventTypes,    \* ALLOWED_EVENT_TYPES
    MAX_ATTEMPTS,
    None

ASSUME AttemptsAssumption == MAX_ATTEMPTS \in Nat \ {0}
ASSUME NoneIsNoWebhook == None \notin Regs /\ \A types \in SUBSET EventTypes : types # None

VARIABLES
    regs,      \* the `webhook_registrations` table: id -> event_types, or None
    used,      \* the ids ever given to a registration
    log,       \* the `webhook_deliveries` table
    removing,  \* the registration each delete request has found, or None
    cascade,   \* the deliveries it loaded for its cascade
    stage,     \* where each task is
    type,      \* the event type of a task, or None before it is scheduled
    selected,  \* the registrations a task's query returned
    pending,   \* those among them it has not come to yet
    current,   \* the one it is delivering to
    attempt,   \* the attempt it is at
    outcome,   \* how the last POST ended
    posts      \* every POST made; `live` if the registration was stored at that time

vars == <<regs, used, log, removing, cascade, stage, type, selected, pending, current, attempt,
          outcome, posts>>
tables == <<regs, used, log, removing, cascade>>
task == <<type, selected, pending, current, attempt, outcome>>

\* 2xx; any other status below 500; a 5xx, a network failure or a timeout.
Outcomes == {"success", "rejected", "failed"}

Delivery == [reg : Regs, event : Events, attempt : 1..MAX_ATTEMPTS, outcome : Outcomes]
PostMade == [reg : Regs, event : Events, attempt : 1..MAX_ATTEMPTS, outcome : Outcomes,
             live : BOOLEAN]

Active == {"select", "next", "post", "log", "sleep"}
Ended == {"done", "failed", "lost"}

Init ==
    /\ regs = [g \in Regs |-> None]
    /\ used = {}
    /\ log = {}
    /\ removing = [d \in Deleters |-> None]
    /\ cascade = [d \in Deleters |-> {}]
    /\ stage = [e \in Events |-> "idle"]
    /\ type = [e \in Events |-> None]
    /\ selected = [e \in Events |-> {}]
    /\ pending = [e \in Events |-> {}]
    /\ current = [e \in Events |-> None]
    /\ attempt = [e \in Events |-> 1]
    /\ outcome = [e \in Events |-> None]
    /\ posts = {}

-------------------------------------------------------------------------------
(* The agents' requests. *)

RegisterWebhook(g, types) ==
    /\ g \notin used
    /\ used' = used \cup {g}
    /\ regs' = [regs EXCEPT ![g] = types]
    /\ UNCHANGED <<log, removing, cascade, stage, task, posts>>

Deliveries(g) == {d \in log : d.reg = g}

\* delete_webhook finds the registration; session.delete loads its deliveries.
LoadDeliveries(d, g) ==
    /\ removing[d] = None /\ regs[g] # None
    /\ removing' = [removing EXCEPT ![d] = g]
    /\ cascade' = [cascade EXCEPT ![d] = Deliveries(g)]
    /\ UNCHANGED <<regs, used, log, stage, task, posts>>

\* Faulty variant: no foreign key on webhook_registration_id.
Unchecked(d) == TRUE

\* A delivery logged since the load makes the foreign key reject the DELETE.
Covered(d) == Deliveries(removing[d]) \subseteq cascade[d]

\* The deletion commits, or is rejected or fails: 500.  If another request was first,
\* deleting what is already gone is only a warning.
DeleteWebhook(d) ==
    /\ removing[d] # None
    /\ \/ /\ Covered(d)
          /\ regs' = [regs EXCEPT ![removing[d]] = None]
          /\ log' = log \ cascade[d]
       \/ UNCHANGED <<regs, log>>
    /\ removing' = [removing EXCEPT ![d] = None]
    /\ cascade' = [cascade EXCEPT ![d] = {}]
    /\ UNCHANGED <<used, stage, task, posts>>

-------------------------------------------------------------------------------
(* dispatch_event and _deliver_with_retries. *)

Goto(e, place) == stage' = [stage EXCEPT ![e] = place]

\* An answered request hands its event to the background.
Start(e, ty) ==
    /\ stage[e] = "idle"
    /\ type' = [type EXCEPT ![e] = ty]
    /\ Goto(e, "select")
    /\ UNCHANGED <<tables, selected, pending, current, attempt, outcome, posts>>

\* The active registrations subscribed to the event, in no particular order.
SelectRegistrations(e) ==
    LET subscribed == {g \in Regs : regs[g] # None /\ type[e] \in regs[g]}
    IN  /\ stage[e] = "select"
        /\ selected' = [selected EXCEPT ![e] = subscribed]
        /\ pending' = [pending EXCEPT ![e] = subscribed]
        /\ Goto(e, "next")
        /\ UNCHANGED <<tables, type, current, attempt, outcome, posts>>

NextRegistration(e, g) ==
    /\ stage[e] = "next" /\ g \in pending[e]
    /\ pending' = [pending EXCEPT ![e] = @ \ {g}]
    /\ current' = [current EXCEPT ![e] = g]
    /\ attempt' = [attempt EXCEPT ![e] = 1]
    /\ Goto(e, "post")
    /\ UNCHANGED <<tables, type, selected, outcome, posts>>

Finish(e) ==
    /\ stage[e] = "next" /\ pending[e] = {}
    /\ Goto(e, "done")
    /\ UNCHANGED <<tables, task, posts>>

Row(e) == [reg |-> current[e], event |-> e, attempt |-> attempt[e], outcome |-> outcome[e]]

\* The registration in memory is posted to, stored or not.  The client's timeout is
\* for each connect, read and write: a receiver that drips its answer is never cut off.
Post(e, o) ==
    /\ stage[e] = "post"
    /\ outcome' = [outcome EXCEPT ![e] = o]
    /\ posts' = posts \cup {[reg |-> current[e], event |-> e, attempt |-> attempt[e],
                             outcome |-> o, live |-> regs[current[e]] # None]}
    /\ Goto(e, "log")
    /\ UNCHANGED <<tables, type, selected, pending, current, attempt>>

\* Faulty variant: a rejection is retried like a failure.
RetryRejection(e) == outcome[e] # "success" /\ attempt[e] < MAX_ATTEMPTS

\* Faulty variant: the last attempt is not made.
StopEarly(e) == outcome[e] = "failed" /\ attempt[e] + 1 < MAX_ATTEMPTS

Retries(e) == outcome[e] = "failed" /\ attempt[e] < MAX_ATTEMPTS

\* Faulty variant: only the attempt that settles a delivery is logged.
LogTheLast(e) == IF Retries(e) THEN {} ELSE {Row(e)}

Logged(e) == {Row(e)}

AfterAttempt(e) == IF Retries(e) THEN "sleep" ELSE "next"

\* Faulty variant: the error of the rejected INSERT is swallowed.
GoOn(e) == AfterAttempt(e)

\* The IntegrityError is not caught: it ends the whole task.
AfterRejection(e) == "failed"

\* The attempt is committed before anything else; the foreign key rejects it when
\* the registration was deleted.
LogAttempt(e) ==
    LET stored == regs[current[e]] # None
    IN  /\ stage[e] = "log"
        /\ log' = IF stored THEN log \cup Logged(e) ELSE log
        /\ Goto(e, IF stored THEN AfterAttempt(e) ELSE AfterRejection(e))
        /\ UNCHANGED <<regs, used, removing, cascade, task, posts>>

\* Faulty variant: the attempts are not counted.
Uncounted(e) == attempt[e]

\* Faulty variant: the interrupted attempt is counted again.
CountedTwice(e) == attempt[e] + 2

NextAttempt(e) == attempt[e] + 1

\* The backoff ends.
Wake(e) ==
    /\ stage[e] = "sleep"
    /\ attempt' = [attempt EXCEPT ![e] = NextAttempt(e)]
    /\ Goto(e, "post")
    /\ UNCHANGED <<tables, type, selected, pending, current, outcome, posts>>

\* The database raises, or the client does before it sends anything, and not an
\* httpx.HTTPError: nobody catches it.
TaskRaises(e) ==
    /\ stage[e] \in {"select", "post", "log"}
    /\ Goto(e, "failed")
    /\ UNCHANGED <<tables, task, posts>>

\* The server process dies, its background tasks and open requests with it.
Crash ==
    /\ stage' = [e \in Events |-> IF stage[e] \in Active THEN "lost" ELSE stage[e]]
    /\ removing' = [d \in Deleters |-> None]
    /\ cascade' = [d \in Deleters |-> {}]
    /\ UNCHANGED <<regs, used, log, task, posts>>

\* What the task does without waiting for a receiver.
Proceed(e) ==
    \/ SelectRegistrations(e)
    \/ \E g \in Regs : NextRegistration(e, g)
    \/ Finish(e)
    \/ LogAttempt(e)
    \/ Wake(e)

Deliver(e) == Proceed(e) \/ \E o \in Outcomes : Post(e, o)

Manage ==
    \/ \E g \in Regs, types \in SUBSET EventTypes \ {{}} : RegisterWebhook(g, types)
    \/ \E d \in Deleters : DeleteWebhook(d) \/ \E g \in Regs : LoadDeliveries(d, g)

Work ==
    \/ \E e \in Events : Deliver(e) \/ \E ty \in EventTypes : Start(e, ty)
    \/ Manage

Next == Work \/ (\E e \in Events : TaskRaises(e)) \/ Crash

Spec == Init /\ [][Next]_vars

\* A backoff ends, a statement completes.  Nothing makes a receiver end its answer.
FairSpec == Spec /\ \A e \in Events : WF_vars(Proceed(e))

\* Nothing fails and nobody crashes.
Faultless == Init /\ [][Work]_vars

-------------------------------------------------------------------------------
(* Properties. *)

\* Types of the tables and of the tasks' state.
TypeOK ==
    /\ regs \in [Regs -> (SUBSET EventTypes) \cup {None}]
    /\ used \subseteq Regs
    /\ log \subseteq Delivery
    /\ removing \in [Deleters -> Regs \cup {None}]
    /\ cascade \in [Deleters -> SUBSET Delivery]
    /\ stage \in [Events -> {"idle"} \cup Active \cup Ended]
    /\ type \in [Events -> EventTypes \cup {None}]
    /\ selected \in [Events -> SUBSET Regs]
    /\ pending \in [Events -> SUBSET Regs]
    /\ current \in [Events -> Regs \cup {None}]
    /\ attempt \in [Events -> 1..MAX_ATTEMPTS]
    /\ outcome \in [Events -> Outcomes \cup {None}]
    /\ posts \subseteq PostMade

\* However a deletion races with deliveries, every logged delivery has its
\* registration.
NoOrphanDeliveries == \A d \in log : regs[d.reg] # None

\* The log of one event at one registration is attempts 1 to n, once each, with
\* nothing but failures before the last: nothing is retried after it was settled,
\* and a crash, a deletion or another event's task leaves no gap.
AttemptsInOrder ==
    \A d \in log :
       /\ \A c \in log : c.reg = d.reg /\ c.event = d.event /\ c.attempt = d.attempt => c = d
       /\ \A n \in 1..(d.attempt - 1) :
             [reg |-> d.reg, event |-> d.event, attempt |-> n, outcome |-> "failed"] \in log

Settles(d) == d.outcome # "failed" \/ d.attempt = MAX_ATTEMPTS

\* A task that ran to its end has settled the event with every registration it
\* selected that is still stored: accepted, rejected, or every attempt used up.
DoneMeansSettled ==
    \A e \in Events : stage[e] = "done" =>
       \A g \in selected[e] :
          regs[g] # None => \E d \in log : d.reg = g /\ d.event = e /\ Settles(d)

Unlogged(e) ==
    {p \in posts : /\ p.event = e /\ regs[p.reg] # None
                   /\ ~\E d \in log : d.reg = p.reg /\ d.event = e /\ d.attempt = p.attempt}

\* What is posted is logged before the task goes on: of one event at most one POST is
\* not in the log, the one being logged or the one at which the task was cut short.
AtMostOneUnlogged ==
    \A e \in Events :
       /\ Cardinality(Unlogged(e)) <= 1
       /\ Unlogged(e) # {} => stage[e] \in {"log", "failed", "lost"}

\* A deleted registration, still in the memory of a task that selected it, is posted
\* to at most once more per event: the rejected log entry ends the task.
AtMostOneStalePost ==
    \A e \in Events : Cardinality({p \in posts : p.event = e /\ ~p.live}) <= 1

\* A dispatch that has started ends, unless one receiver holds one POST for ever.
DispatchEnds ==
    \A e \in Events :
       stage[e] = "select" ~> (stage[e] \in Ended \/ [](stage[e] = "post"))

-------------------------------------------------------------------------------
(* What the repository's texts say, and the task does not keep. *)

\* "Signs and POSTs `event_type` to every active registration subscribed to it".
EveryRegistrationPosted ==
    \A e \in Events : stage[e] \in {"done", "failed"} =>
       \A g \in selected[e] :
          regs[g] # None => \E p \in posts : p.event = e /\ p.reg = g
===============================================================================
