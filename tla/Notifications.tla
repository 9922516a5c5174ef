----------------------------- MODULE Notifications -----------------------------
(***************************************************************************)
(* The ticket handlers together with the webhook tasks they start: one      *)
(* process, in which a request that is acknowledged hands its event to the  *)
(* background, and which dies with all of its requests and tasks.           *)
(***************************************************************************)
EXTENDS FiniteSets, Naturals

CONSTANTS
    Customers, Agents, Contents, Existing, Requests,  \* of Tickets
    Regs, Deleters, MAX_ATTEMPTS,                     \* of Webhooks
    None

ALLOWED_EVENT_TYPES == {"ticket.created", "ticket.status_changed"}

ASSUME AttemptsAssumption == MAX_ATTEMPTS \in Nat \ {0}
ASSUME NoneIsNoWebhook ==
    None \notin Regs /\ \A types \in SUBSET ALLOWED_EVENT_TYPES : types # None

VARIABLES
    tickets, comments, pc, job, row, attrs, kids, broadcasts, scheduled,
    regs, used, log, removing, cascade, stage, type, selected, pending, current, attempt,
    outcome, posts,
    entitled   \* the webhooks that subscribed to a request's event before its answer

desk == <<tickets, comments, pc, job, row, attrs, kids, broadcasts, scheduled>>
hooks == <<regs, used, log, removing, cascade, stage, type, selected, pending, current, attempt,
           outcome, posts>>
vars == <<desk, hooks, entitled>>

Desk == INSTANCE Tickets
Hooks == INSTANCE Webhooks WITH Events <- Requests, EventTypes <- ALLOWED_EVENT_TYPES

ASSUME RequestsAreFresh == Existing \cap Requests = {}
ASSUME RolesAreExclusive == Customers \cap Agents = {}
ASSUME NoneIsNoValue == None \notin Contents /\ None \notin Desk!Ticket
ASSUME NoneIsNoJob == None \notin Desk!Job

Init == Desk!Init /\ Hooks!Init /\ entitled = [r \in Requests |-> {}]

-------------------------------------------------------------------------------
EventType(r) == IF job[r].op = "create" THEN "ticket.created" ELSE "ticket.status_changed"

Subscribed(r) == {g \in Regs : regs[g] # None /\ EventType(r) \in regs[g]}

\* Faulty variant: the task is started by the commit, before the answer.
StartedByTheCommit(r) ==
    pc[r] = "commit" /\ pc'[r] = "refresh" /\ job[r].op \in {"create", "status"}

\* BackgroundTasks runs what the handler added once the response is sent.
StartsTask(r) == r \in scheduled' \ scheduled

\* A step of a request's handler, with the task it may start.
Handle(r) ==
    /\ Desk!Handle(r) \/ Desk!StoreFails(r)
    /\ IF StartsTask(r)
       THEN /\ Hooks!Start(r, EventType(r))
            /\ entitled' = [entitled EXCEPT ![r] = Subscribed(r)]
       ELSE UNCHANGED <<hooks, entitled>>

Deliver(r) == Hooks!Deliver(r) /\ UNCHANGED <<desk, entitled>>

\* The part of it that waits for no receiver.
Proceed(r) == Hooks!Proceed(r) /\ UNCHANGED <<desk, entitled>>

TaskFails(r) == Hooks!TaskRaises(r) /\ UNCHANGED <<desk, entitled>>

Manage == Hooks!Manage /\ UNCHANGED <<desk, entitled>>

\* The one process dies with its handlers and its tasks.
Crash ==
    /\ Hooks!Crash
    /\ IF \E r \in Requests : pc[r] \in Desk!Waiting THEN Desk!Crash ELSE UNCHANGED desk
    /\ UNCHANGED entitled

Next ==
    \/ \E r \in Requests : Handle(r) \/ Deliver(r) \/ TaskFails(r)
    \/ Manage
    \/ Crash

Spec == Init /\ [][Next]_vars

\* The loop resumes tasks whose statement or backoff has ended; a receiver need not
\* end its answer.
FairSpec == Spec /\ \A r \in Requests : WF_vars(Proceed(r))

-------------------------------------------------------------------------------
(* Properties. *)

\* Receivers hear only of writes whose request was acknowledged, under the name of
\* what was done: neither refused, failed nor unanswered requests reach them.
OnlyAcknowledgedIsPosted ==
    \A p \in posts :
       LET r == p.event
       IN  /\ pc[r] = "ok" /\ job[r].op \in {"create", "status"}
           /\ type[r] = EventType(r)

\* A task that ran to its end has settled its event with every webhook that had
\* subscribed before the request was answered and is still registered.
SubscribersHear ==
    \A r \in Requests : stage[r] = "done" =>
       \A g \in entitled[r] :
          regs[g] # None => \E d \in log : d.reg = g /\ d.event = r /\ Hooks!Settles(d)

Answered(r) ==
    IF pc[r] = "ok" THEN "ok" ELSE IF pc[r] \in Desk!Answers THEN "failed" ELSE "none"

NoticeOf(r) ==
    CASE stage[r] = "idle" -> "none"
      [] stage[r] = "post" -> "out"
      [] stage[r] \in Hooks!Active \ {"post"} -> "due"
      [] stage[r] = "done" -> "told"
      [] stage[r] \in {"failed", "lost"} -> "lost"

Promise == INSTANCE Notices WITH
    answer <- [r \in Requests |-> Answered(r)],
    notice <- [r \in Requests |-> NoticeOf(r)]

\* Handlers and tasks together keep the promise: a notice falls due with the
\* acknowledgement of its request and never otherwise, is settled once unless a receiver
\* never answers, and nothing brings it back after a crash.
ImplementsNotices == Promise!Spec
===============================================================================
