-------------------------- MODULE NotificationsProofs --------------------------
(***************************************************************************)
(* Proofs about Notifications, for any accounts, tickets, requests and      *)
(* registrations and any number of attempts.  What WebhooksProofs proves of *)
(* the tasks alone is used here of the tasks the handlers start, and what   *)
(* TicketsProofs proves of the handlers alone, of the handlers that start   *)
(* them.                                                                    *)
(***************************************************************************)
EXTENDS Notifications, TLAPS

Proved == INSTANCE WebhooksProofs WITH Events <- Requests, EventTypes <- ALLOWED_EVENT_TYPES
Handlers == INSTANCE TicketsProofs

-------------------------------------------------------------------------------
(* The inductive invariant. *)

Places == {"new"} \cup Desk!Waiting \cup Desk!Answers

Typed ==
    /\ pc \in [Requests -> Places] /\ DOMAIN job = Requests /\ scheduled \subseteq Requests
    /\ entitled \in [Requests -> SUBSET Regs]

\* A task is that of an acknowledged creation or status change, under its name.
HandedOver ==
    \A r \in Requests :
       /\ r \in scheduled <=> stage[r] # "idle"
       /\ r \in scheduled => /\ pc[r] = "ok" /\ job[r].op \in {"create", "status"}
                             /\ type[r] = EventType(r)

\* Who was entitled to hear is selected, or will be, or is gone for good.
EntitledReached ==
    \A r \in Requests :
       /\ entitled[r] \subseteq used
       /\ stage[r] \in Hooks!Active \cup {"done"} =>
             \A g \in entitled[r] :
                \/ regs[g] = None
                \/ IF stage[r] = "select" THEN type[r] \in regs[g] ELSE g \in selected[r]

Inv == Proved!Inv /\ Typed /\ HandedOver /\ EntitledReached

-------------------------------------------------------------------------------
(* The handlers and tasks step as they do alone. *)

\* What a handler's step does to the request it serves.
Moved(r, p) ==
    /\ pc[r] \in {"new"} \cup Desk!Waiting
    /\ pc' = [pc EXCEPT ![r] = p]
    /\ DOMAIN job' = Requests
    /\ \A q \in Requests : q # r \/ pc[r] # "new" => job'[q] = job[q]
    /\ \/ scheduled' = scheduled
       \/ /\ scheduled' = scheduled \cup {r} /\ p = "ok"
          /\ pc[r] # "new" /\ job[r].op \in {"create", "status"}

Moves(r) == \E p \in Desk!Waiting \cup Desk!Answers : Moved(r, p)

\* The arrival of a request moves it and schedules nothing.
LEMMA ReceiveMoves ==
    ASSUME Typed, NEW r \in Requests, Desk!Receive(r)
    PROVE  Moves(r)
  <1> USE DEF Typed, Moves, Moved, Desk!Goto, Desk!Waiting, Desk!Answers
  <1>1. ASSUME NEW a \in {"forbidden", "not_found", "conflict"}, pc[r] = "new",
               Desk!Refuse(r, a)
        PROVE  Moves(r)
    BY <1>1 DEF Desk!Refuse, Desk!local, Desk!events
  <1>2. ASSUME NEW place \in {"cascade", "commit"}, pc[r] = "new",
               NEW op, NEW u, NEW t, NEW old, NEW new, Desk!Accept(r, place, op, u, t, old, new)
        PROVE  Moves(r)
    BY <1>2 DEF Desk!Accept, Desk!events
  <1> HIDE DEF Moves
  <1>3. ASSUME NEW u, NEW c, Desk!CreateTicket(r, u, c)
        PROVE  Moves(r)
    BY <1>1, <1>2, <1>3 DEF Desk!CreateTicket
  <1>4. ASSUME NEW u, NEW t, NEW s, Desk!ChangeStatus(r, u, t, s)
        PROVE  Moves(r)
    BY <1>1, <1>2, <1>4 DEF Desk!ChangeStatus
  <1>5. ASSUME NEW u, NEW t, NEW c, Desk!UpdateTicket(r, u, t, c)
        PROVE  Moves(r)
    BY <1>1, <1>2, <1>5 DEF Desk!UpdateTicket, Desk!OwnerOnlyWhileOpen
  <1>6. ASSUME NEW u, NEW t, Desk!DeleteTicket(r, u, t)
        PROVE  Moves(r)
    BY <1>1, <1>2, <1>6 DEF Desk!DeleteTicket, Desk!OwnerOnlyWhileOpen
  <1>7. ASSUME NEW u, NEW t, Desk!CreateComment(r, u, t)
        PROVE  Moves(r)
    BY <1>1, <1>2, <1>7 DEF Desk!CreateComment
  <1> QED
    BY <1>3, <1>4, <1>5, <1>6, <1>7 DEF Desk!Receive

\* Each handler step moves its own request, from a place that is not an answer, and
\* schedules at most its own task.
LEMMA HandlerMoves ==
    ASSUME Typed, NEW r \in Requests, Desk!Handle(r) \/ Desk!StoreFails(r)
    PROVE  Moves(r)
  <1> USE DEF Typed, Moves, Moved, Desk!Goto, Desk!At, Desk!Waiting, Desk!Answers, Desk!local,
              Desk!events, Desk!Raises
  <1>1. CASE Desk!LoadCascade(r)
    BY <1>1 DEF Desk!LoadCascade
  <1>2. CASE Desk!CommitCreate(r)
    BY <1>2 DEF Desk!CommitCreate
  <1>3. CASE Desk!CommitUpdate(r)
    BY <1>3 DEF Desk!CommitUpdate
  <1>4. CASE Desk!CommitDelete(r)
    BY <1>4 DEF Desk!CommitDelete
  <1>5. CASE Desk!CommitComment(r)
    BY <1>5 DEF Desk!CommitComment
  <1>6. CASE Desk!RefreshTicket(r)
    BY <1>6 DEF Desk!RefreshTicket
  <1>7. CASE Desk!RefreshComment(r)
    BY <1>7 DEF Desk!RefreshComment
  <1>8. CASE Desk!Invalidated(r)
    BY <1>8 DEF Desk!Invalidated
  <1>9. CASE Desk!Announce(r)
    BY <1>9 DEF Desk!Announce
  <1>10. CASE Desk!StoreFails(r)
    BY <1>10 DEF Desk!StoreFails
  <1>11. CASE Desk!Receive(r)
    BY <1>11, ReceiveMoves
  <1> HIDE DEF Moves
  <1> QED
    BY <1>1, <1>2, <1>3, <1>4, <1>5, <1>6, <1>7, <1>8, <1>9, <1>10, <1>11
    DEF Desk!Handle, Desk!Resume

\* The tasks of this module are those WebhooksProofs is about.
LEMMA SameStart ==
    ASSUME NEW r \in Requests, NEW ty \in ALLOWED_EVENT_TYPES, Hooks!Start(r, ty)
    PROVE  Proved!Next
  <1>1. Proved!Start(r, ty)
    BY DEF Hooks!Start, Proved!Start, Hooks!Goto, Proved!Goto, Hooks!tables, Proved!tables
  <1> QED
    BY <1>1 DEF Proved!Next, Proved!Work

\* A task's step in the composition is one that WebhooksProofs speaks of.
LEMMA SameDeliver ==
    ASSUME NEW r \in Requests, Hooks!Deliver(r)
    PROVE  Proved!Deliver(r)
  <1> USE DEF Hooks!Goto, Proved!Goto, Hooks!tables, Proved!tables, Hooks!task, Proved!task,
              Proved!Deliver, Proved!Proceed
  <1>1. CASE Hooks!SelectRegistrations(r)
    BY <1>1 DEF Hooks!SelectRegistrations, Proved!SelectRegistrations
  <1>2. ASSUME NEW g \in Regs, Hooks!NextRegistration(r, g)
        PROVE  Proved!NextRegistration(r, g)
    BY <1>2 DEF Hooks!NextRegistration, Proved!NextRegistration
  <1>3. CASE Hooks!Finish(r)
    BY <1>3 DEF Hooks!Finish, Proved!Finish
  <1>4. ASSUME NEW o \in Proved!Outcomes, Hooks!Post(r, o)
        PROVE  Proved!Post(r, o)
    BY <1>4 DEF Hooks!Post, Proved!Post
  <1>5. CASE Hooks!LogAttempt(r)
    <2>1. /\ Hooks!Logged(r) = Proved!Logged(r) /\ Hooks!AfterAttempt(r) = Proved!AfterAttempt(r)
          /\ Hooks!AfterRejection(r) = Proved!AfterRejection(r)
      BY DEF Hooks!Logged, Proved!Logged, Hooks!Row, Proved!Row, Hooks!AfterAttempt,
             Proved!AfterAttempt, Hooks!Retries, Proved!Retries, Hooks!AfterRejection,
             Proved!AfterRejection
    <2> QED
      BY <1>5, <2>1 DEF Hooks!LogAttempt, Proved!LogAttempt
  <1>6. CASE Hooks!Wake(r)
    BY <1>6 DEF Hooks!Wake, Proved!Wake, Hooks!NextAttempt, Proved!NextAttempt
  <1>7. Hooks!Outcomes = Proved!Outcomes
    BY DEF Hooks!Outcomes, Proved!Outcomes
  <1> QED
    BY <1>1, <1>2, <1>3, <1>4, <1>5, <1>6, <1>7 DEF Hooks!Deliver, Hooks!Proceed

\* A task that fails in the composition fails as WebhooksProofs has it.
LEMMA SameFailure ==
    ASSUME NEW r \in Requests, Hooks!TaskRaises(r)
    PROVE  Proved!TaskRaises(r)
  BY DEF Hooks!TaskRaises, Proved!TaskRaises, Hooks!Goto, Proved!Goto, Hooks!tables,
         Proved!tables, Hooks!task, Proved!task

\* The webhook routes take the steps that WebhooksProofs speaks of.
LEMMA SameManage == Hooks!Manage => Proved!Manage
  <1> USE DEF Hooks!task, Proved!task, Hooks!Deliveries, Proved!Deliveries
  <1>1. \A g, types : Hooks!RegisterWebhook(g, types) => Proved!RegisterWebhook(g, types)
    BY DEF Hooks!RegisterWebhook, Proved!RegisterWebhook
  <1>2. \A d, g : Hooks!LoadDeliveries(d, g) => Proved!LoadDeliveries(d, g)
    BY DEF Hooks!LoadDeliveries, Proved!LoadDeliveries
  <1>3. \A d : Hooks!DeleteWebhook(d) => Proved!DeleteWebhook(d)
    BY DEF Hooks!DeleteWebhook, Proved!DeleteWebhook, Hooks!Covered, Proved!Covered
  <1> QED
    BY <1>1, <1>2, <1>3 DEF Hooks!Manage, Proved!Manage

\* A crash is to the tasks the crash of WebhooksProofs.
LEMMA SameCrash ==
    ASSUME Hooks!Crash
    PROVE  Proved!Crash
  BY DEF Hooks!Crash, Proved!Crash, Hooks!Active, Proved!Active, Hooks!task, Proved!task

\* The composition begins where WebhooksProofs does.
LEMMA SameInit == Hooks!Init => Proved!Init
  BY DEF Hooks!Init, Proved!Init

\* What WebhooksProofs established.
LEMMA ProvedStep ==
    ASSUME Proved!Inv, Proved!Next \/ UNCHANGED hooks
    PROVE  Proved!Inv'
  BY Proved!Inductive, AttemptsAssumption, NoneIsNoWebhook DEF hooks, Proved!vars

\* What WebhooksProofs shows of the beginning holds here too.
LEMMA ProvedInit ==
    ASSUME Proved!Init
    PROVE  Proved!Inv
  BY Proved!InitialInv, AttemptsAssumption, NoneIsNoWebhook

-------------------------------------------------------------------------------
(* What the tasks' and the agents' steps do to what the invariant speaks of. *)

Subscribers(r) == {g \in Regs : regs[g] # None /\ type[r] \in regs[g]}

\* A task's step moves that task on and leaves the registrations alone.
LEMMA TaskMoves ==
    ASSUME Proved!Inv, NEW r \in Requests, Hooks!Deliver(r) \/ Hooks!TaskRaises(r)
    PROVE  /\ UNCHANGED <<regs, used, type>> /\ stage[r] \in Hooks!Active
           /\ \E s \in (Hooks!Active \cup {"done", "failed"}) \ {"select"} :
                 /\ stage' = [stage EXCEPT ![r] = s]
                 /\ stage[r] = "select" => s \in {"next", "failed"}
                 /\ stage[r] = "post" => s \in {"log", "failed"}
           /\ selected' = [selected EXCEPT ![r] = IF stage[r] = "select" /\ stage'[r] = "next"
                                                  THEN Subscribers(r) ELSE @]
  <1> USE DEF Hooks!Goto, Hooks!tables, Hooks!task, Hooks!Active, Subscribers
  <1>1. stage \in [Requests -> {"idle", "select", "next", "post", "log", "sleep",
                                "done", "failed", "lost"}]
    BY DEF Proved!Inv, Proved!TypeOK, Proved!Active, Proved!Ended
  <1>2. DOMAIN selected = Requests /\ selected = [selected EXCEPT ![r] = selected[r]]
    BY DEF Proved!Inv, Proved!TypeOK
  <1>3. CASE Hooks!SelectRegistrations(r)
    BY <1>1, <1>3 DEF Hooks!SelectRegistrations
  <1>4. ASSUME NEW g \in Regs, Hooks!NextRegistration(r, g)
        PROVE  stage[r] # "select" /\ stage' = [stage EXCEPT ![r] = "post"]
    BY <1>4 DEF Hooks!NextRegistration
  <1>5. CASE \E g \in Regs : Hooks!NextRegistration(r, g)
    BY <1>1, <1>2, <1>4, <1>5 DEF Hooks!NextRegistration
  <1>6. CASE Hooks!Finish(r)
    BY <1>1, <1>2, <1>6 DEF Hooks!Finish
  <1>7. CASE \E o \in Hooks!Outcomes : Hooks!Post(r, o)
    BY <1>1, <1>2, <1>7 DEF Hooks!Post
  <1>8. CASE Hooks!LogAttempt(r)
    BY <1>1, <1>2, <1>8 DEF Hooks!LogAttempt, Hooks!AfterAttempt, Hooks!AfterRejection
  <1>9. CASE Hooks!Wake(r)
    BY <1>1, <1>2, <1>9 DEF Hooks!Wake
  <1>10. CASE Hooks!TaskRaises(r)
    BY <1>1, <1>2, <1>10 DEF Hooks!TaskRaises
  <1> QED
    BY <1>3, <1>5, <1>6, <1>7, <1>8, <1>9, <1>10 DEF Hooks!Deliver, Hooks!Proceed

\* An id that was given to a registration is never given to another.
LEMMA ManageMoves ==
    ASSUME Proved!Inv, Hooks!Manage
    PROVE  /\ UNCHANGED <<stage, type, selected>> /\ used \subseteq used'
           /\ \A h \in used : regs'[h] = regs[h] \/ regs'[h] = None
  <1> USE DEF Hooks!task
  <1>1. DOMAIN regs = Regs /\ used \subseteq Regs
    BY DEF Proved!Inv, Proved!TypeOK
  <1>2. ASSUME NEW g, NEW types, Hooks!RegisterWebhook(g, types)
        PROVE  /\ UNCHANGED <<stage, type, selected>> /\ used \subseteq used'
               /\ \A h \in used : regs'[h] = regs[h]
    BY <1>1, <1>2 DEF Hooks!RegisterWebhook
  <1>3. ASSUME NEW d, NEW g, Hooks!LoadDeliveries(d, g)
        PROVE  UNCHANGED <<stage, type, selected, used, regs>>
    BY <1>3 DEF Hooks!LoadDeliveries
  <1>4. ASSUME NEW d, Hooks!DeleteWebhook(d)
        PROVE  /\ UNCHANGED <<stage, type, selected, used>>
               /\ \A h \in used : regs'[h] = regs[h] \/ regs'[h] = None
    BY <1>1, <1>4 DEF Hooks!DeleteWebhook
  <1> QED
    BY <1>2, <1>3, <1>4 DEF Hooks!Manage

-------------------------------------------------------------------------------
(* Every step keeps the invariant and the promise. *)

PromiseStep == [Promise!Next]_(Promise!vars)

\* The two views of a request, for the steps below.
LEMMA Views ==
    ASSUME Inv, NEW r \in Requests
    PROVE  /\ pc[r] \in {"new"} \cup Desk!Waiting => Answered(r) = "none"
           /\ stage[r] = "idle" => NoticeOf(r) = "none"
           /\ stage[r] = "post" => NoticeOf(r) = "out"
           /\ stage[r] \in Hooks!Active \ {"post"} => NoticeOf(r) = "due"
           /\ stage[r] = "done" => NoticeOf(r) = "told"
           /\ stage[r] \in {"failed", "lost"} => NoticeOf(r) = "lost"
  BY DEF Answered, NoticeOf, Desk!Waiting, Desk!Answers, Hooks!Active

\* A handler's step, with the start of the task it schedules, keeps the invariant; to
\* the promise it is an acknowledgement, a refusal or nothing.
LEMMA HandleStep ==
    ASSUME Inv, NEW r \in Requests, Handle(r)
    PROVE  Inv' /\ PromiseStep
  <1> USE DEF Inv
  <1>1. PICK p \in Desk!Waiting \cup Desk!Answers : Moved(r, p)
    BY HandlerMoves DEF Handle, Moves
  <1>2. /\ pc \in [Requests -> Places] /\ pc'[r] = p /\ \A q \in Requests \ {r} : pc'[q] = pc[q]
        /\ Typed' \/ StartsTask(r)
    BY <1>1 DEF Typed, Moved, Handle, Places, StartsTask
  <1>3. r \notin scheduled /\ stage[r] = "idle"
    <2>1. pc[r] # "ok"
      BY <1>1 DEF Moved, Desk!Waiting
    <2> QED
      BY <2>1 DEF HandedOver
  <1>4. /\ Answered(r) = "none" /\ NoticeOf(r) = "none"
        /\ \A q \in Requests \ {r} : Answered(q)' = Answered(q)
        /\ Answered(r)' = IF p = "ok" THEN "ok" ELSE IF p \in Desk!Answers THEN "failed" ELSE "none"
    BY <1>1, <1>2, <1>3, Views DEF Answered, Moved
  <1>5. \A q \in scheduled : q # r /\ job'[q] = job[q] /\ q \in Requests
    BY <1>1, <1>3 DEF Moved, Typed
  <1>6. CASE ~StartsTask(r)
    <2>1. scheduled' = scheduled /\ UNCHANGED <<hooks, entitled>>
      BY <1>1, <1>6 DEF Moved, Handle, StartsTask
    <2>2. Proved!Inv'
      BY <2>1, ProvedStep
    <2>3. Typed' /\ EntitledReached'
      BY <1>2, <1>6, <2>1 DEF EntitledReached, hooks
    <2>4. HandedOver'
      BY <1>2, <1>5, <2>1 DEF HandedOver, EventType, hooks
    <2>5. \A q \in Requests : NoticeOf(q)' = NoticeOf(q)
      BY <2>1 DEF NoticeOf, hooks
    <2>6. PromiseStep
      <3>1. CASE p = "ok"
        <4>0. [q \in Requests |-> NoticeOf(q)]'
                 = [[q \in Requests |-> NoticeOf(q)] EXCEPT ![r] = "none"]
          BY <1>4, <2>5
        <4>1. Promise!Acknowledge(r)
          BY <1>4, <3>1, <4>0 DEF Promise!Acknowledge
        <4> QED
          BY <4>1 DEF PromiseStep, Promise!Next
      <3>2. CASE p \in Desk!Answers \ {"ok"}
        <4>1. Promise!Fail(r)
          BY <1>4, <2>5, <3>2 DEF Promise!Fail
        <4> QED
          BY <4>1 DEF PromiseStep, Promise!Next
      <3>3. CASE p \notin Desk!Answers
        <4>1. Answered(r)' = "none"
          BY <1>4, <3>3 DEF Desk!Answers
        <4> QED
          BY <1>4, <2>5, <4>1 DEF PromiseStep, Promise!vars
      <3> QED
        BY <3>1, <3>2, <3>3
    <2> QED
      BY <2>2, <2>3, <2>4, <2>6
  <1>7. CASE StartsTask(r)
    <2>1. /\ scheduled' = scheduled \cup {r} /\ p = "ok"
          /\ job[r].op \in {"create", "status"} /\ job'[r] = job[r]
      BY <1>1, <1>7 DEF Moved, StartsTask
    <2>2. Hooks!Start(r, EventType(r)) /\ EventType(r) \in ALLOWED_EVENT_TYPES
      BY <1>7 DEF Handle, EventType, ALLOWED_EVENT_TYPES
    <2>3. Proved!Inv'
      BY <2>2, SameStart, ProvedStep
    <2>4. /\ stage'[r] = "select" /\ type'[r] = EventType(r)
          /\ \A q \in Requests \ {r} : stage'[q] = stage[q] /\ type'[q] = type[q]
          /\ UNCHANGED <<regs, used, selected>>
      BY <2>2 DEF Hooks!Start, Hooks!Goto, Hooks!tables, Proved!Inv, Proved!TypeOK
    <2>5. entitled' = [entitled EXCEPT ![r] = Subscribed(r)] /\ Subscribed(r) \subseteq Regs
      BY <1>7 DEF Handle, Subscribed
    <2>6. Typed'
      BY <1>1, <1>2, <2>1, <2>5 DEF Typed, Moved, Places
    <2>7. HandedOver'
      <3>1. EventType(r)' = EventType(r)
        BY <2>1 DEF EventType
      <3> QED
        BY <1>2, <1>5, <2>1, <2>4, <3>1 DEF HandedOver, EventType
    <2>8. EntitledReached'
      <3>1. Subscribed(r) \subseteq used
        BY DEF Subscribed, Proved!Inv, Proved!IdsKnown
      <3>2. \A g \in Subscribed(r) : EventType(r) \in regs[g]
        BY DEF Subscribed
      <3>3. entitled'[r] = Subscribed(r) /\ \A q \in Requests \ {r} : entitled'[q] = entitled[q]
        BY <2>5 DEF Typed
      <3> QED
        BY <2>4, <3>1, <3>2, <3>3 DEF EntitledReached
    <2>9. PromiseStep
      <3>1. NoticeOf(r)' = "due" /\ \A q \in Requests \ {r} : NoticeOf(q)' = NoticeOf(q)
        BY <2>4 DEF NoticeOf, Hooks!Active
      <3>2. Promise!Acknowledge(r)
        BY <1>4, <2>1, <3>1 DEF Promise!Acknowledge
      <3> QED
        BY <3>2 DEF PromiseStep, Promise!Next
    <2> QED
      BY <2>3, <2>6, <2>7, <2>8, <2>9
  <1> QED
    BY <1>6, <1>7

\* A task's step keeps the invariant; to the promise it settles its notice or is nothing.
LEMMA TaskStep ==
    ASSUME Inv, NEW r \in Requests, Deliver(r) \/ TaskFails(r)
    PROVE  Inv' /\ PromiseStep
  <1> USE DEF Inv
  <1>1. (Hooks!Deliver(r) \/ Hooks!TaskRaises(r)) /\ UNCHANGED <<desk, entitled>>
    BY DEF Deliver, TaskFails
  <1>2. Proved!Inv'
    <2>1. Proved!Deliver(r) \/ Proved!TaskRaises(r)
      BY <1>1, SameDeliver, SameFailure
    <2> QED
      BY <2>1, ProvedStep DEF Proved!Next, Proved!Work
  <1>3. PICK s \in (Hooks!Active \cup {"done", "failed"}) \ {"select"} :
             /\ stage' = [stage EXCEPT ![r] = s]
             /\ stage[r] = "select" => s \in {"next", "failed"}
             /\ stage[r] = "post" => s \in {"log", "failed"}
    BY <1>1, TaskMoves
  <1>4. /\ UNCHANGED <<regs, used, type>> /\ stage[r] \in Hooks!Active
        /\ selected' = [selected EXCEPT ![r] = IF stage[r] = "select" /\ stage'[r] = "next"
                                               THEN Subscribers(r) ELSE @]
    BY <1>1, TaskMoves
  <1>5. /\ stage'[r] = s /\ stage[r] # "idle" /\ s # "idle"
        /\ \A q \in Requests \ {r} : stage'[q] = stage[q] /\ selected'[q] = selected[q]
        /\ selected'[r] = IF stage[r] = "select" /\ s = "next" THEN Subscribers(r)
                                                               ELSE selected[r]
    BY <1>3, <1>4 DEF Proved!Inv, Proved!TypeOK, Hooks!Active
  <1>6. Typed' /\ HandedOver'
    BY <1>1, <1>4, <1>5 DEF desk, Typed, HandedOver, EventType
  <1>7. EntitledReached'
    <2>1. ASSUME NEW g \in entitled[r], s \in Hooks!Active \cup {"done"}, regs[g] # None
          PROVE  g \in selected'[r]
      <3>1. CASE stage[r] = "select"
        BY <1>3, <1>4, <1>5, <2>1, <3>1 DEF EntitledReached, Typed, Subscribers, Hooks!Active
      <3>2. CASE stage[r] # "select"
        BY <1>4, <1>5, <2>1, <3>2 DEF EntitledReached
      <3> QED
        BY <3>1, <3>2
    <2> QED
      BY <1>1, <1>3, <1>4, <1>5, <2>1 DEF EntitledReached
  <1>8. PromiseStep
    <2>1. /\ \A q \in Requests : Answered(q)' = Answered(q)
          /\ \A q \in Requests \ {r} : NoticeOf(q)' = NoticeOf(q)
      BY <1>1, <1>5 DEF desk, Answered, NoticeOf
    <2>2. /\ stage[r] = "post" => NoticeOf(r) = "out" /\ s \in {"log", "failed"}
          /\ stage[r] # "post" => NoticeOf(r) = "due"
      BY <1>3, <1>4, Views
    <2>3. /\ s = "post" => NoticeOf(r)' = "out"
          /\ s \in Hooks!Active \ {"post"} => NoticeOf(r)' = "due"
          /\ s = "done" => NoticeOf(r)' = "told"
          /\ s = "failed" => NoticeOf(r)' = "lost"
      BY <1>5 DEF NoticeOf, Hooks!Active
    <2>4. CASE stage[r] = "post"
      <3>1. NoticeOf(r)' \in {"due", "lost"}
        BY <2>2, <2>3, <2>4 DEF Hooks!Active
      <3>2. Promise!Return(r)
        BY <2>1, <2>2, <2>4, <3>1 DEF Promise!Return
      <3> QED
        BY <3>2 DEF PromiseStep, Promise!Next
    <2>5. CASE stage[r] # "post" /\ s = "post"
      <3>1. Promise!Send(r)
        BY <2>1, <2>2, <2>3, <2>5 DEF Promise!Send
      <3> QED
        BY <3>1 DEF PromiseStep, Promise!Next
    <2>6. CASE stage[r] # "post" /\ s \in Hooks!Active \ {"post"}
      BY <2>1, <2>2, <2>3, <2>6 DEF PromiseStep, Promise!vars
    <2>7. CASE stage[r] # "post" /\ s \in {"done", "failed"}
      <3>1. Promise!Settle(r)
        BY <2>1, <2>2, <2>3, <2>7 DEF Promise!Settle
      <3> QED
        BY <3>1 DEF PromiseStep, Promise!Next
    <2> QED
      BY <1>3, <2>4, <2>5, <2>6, <2>7
  <1> QED
    BY <1>2, <1>6, <1>7, <1>8

\* Registering and deleting webhooks keeps the invariant and is nothing to the promise.
LEMMA ManageStep ==
    ASSUME Inv, Manage
    PROVE  Inv' /\ PromiseStep
  <1> USE DEF Inv
  <1>1. Hooks!Manage /\ UNCHANGED <<desk, entitled>>
    BY DEF Manage
  <1>2. Proved!Inv'
    BY <1>1, SameManage, ProvedStep DEF Proved!Next, Proved!Work
  <1>3. /\ UNCHANGED <<stage, type, selected>> /\ used \subseteq used'
        /\ \A h \in used : regs'[h] = regs[h] \/ regs'[h] = None
    BY <1>1, ManageMoves
  <1>4. Typed' /\ HandedOver' /\ EntitledReached'
    BY <1>1, <1>3 DEF desk, Typed, HandedOver, EventType, EntitledReached
  <1>5. PromiseStep
    BY <1>1, <1>3 DEF desk, PromiseStep, Promise!vars, Answered, NoticeOf
  <1> QED
    BY <1>2, <1>4, <1>5

\* A crash of the process keeps the invariant; to the promise it loses what is due.
LEMMA CrashStep ==
    ASSUME Inv, Crash
    PROVE  Inv' /\ PromiseStep
  <1> USE DEF Inv
  <1>1. Proved!Inv'
    BY SameCrash, ProvedStep DEF Crash, Proved!Next
  <1>2. /\ stage' = [r \in Requests |-> IF stage[r] \in Hooks!Active THEN "lost" ELSE stage[r]]
        /\ UNCHANGED <<regs, used, type, selected, job, scheduled, entitled>>
    BY DEF Crash, Hooks!Crash, Hooks!task, Desk!Crash, desk, Desk!local, Desk!events
  <1>3. pc' = [r \in Requests |-> IF pc[r] \in Desk!Waiting THEN "lost" ELSE pc[r]]
    <2>1. CASE \E r \in Requests : pc[r] \in Desk!Waiting
      BY <2>1 DEF Crash, Desk!Crash
    <2>2. CASE ~ \E r \in Requests : pc[r] \in Desk!Waiting
      BY <2>2 DEF Crash, desk, Typed
    <2> QED
      BY <2>1, <2>2
  <1>4. Typed' /\ HandedOver' /\ EntitledReached'
    BY <1>2, <1>3
    DEF Typed, Places, HandedOver, EventType, EntitledReached, Desk!Waiting, Desk!Answers,
        Hooks!Active
  <1>5. PromiseStep
    <2> DEFINE S == {r \in Requests : pc[r] \in Desk!Waiting}
    <2>1. \A r \in S : Answered(r) = "none" /\ Answered(r)' = "failed"
      BY <1>3, Views DEF Answered, Desk!Answers
    <2>2. \A r \in Requests \ S : Answered(r)' = Answered(r)
      BY <1>3 DEF Answered
    <2>3. \A r \in Requests :
             NoticeOf(r)' = IF NoticeOf(r) \in {"due", "out"} THEN "lost" ELSE NoticeOf(r)
      <3> SUFFICES ASSUME NEW r \in Requests
                   PROVE  NoticeOf(r)' = IF NoticeOf(r) \in {"due", "out"}
                                         THEN "lost" ELSE NoticeOf(r)
        OBVIOUS
      <3>1. CASE stage[r] \in Hooks!Active
        BY <1>2, <3>1 DEF NoticeOf, Hooks!Active
      <3>2. CASE stage[r] \notin Hooks!Active
        <4>1. stage'[r] = stage[r] /\ stage[r] \in {"idle", "done", "failed", "lost"}
          BY <1>2, <3>2 DEF Proved!Inv, Proved!TypeOK, Proved!Active, Proved!Ended, Hooks!Active
        <4> QED
          BY <4>1 DEF NoticeOf, Hooks!Active
      <3> QED
        BY <3>1, <3>2
    <2>4. S \in SUBSET {r \in Requests : Answered(r) = "none"}
      BY <2>1
    <2>5. Promise!Crash
      BY <2>1, <2>2, <2>3, <2>4 DEF Promise!Crash
    <2> QED
      BY <2>5 DEF PromiseStep, Promise!Next
  <1> QED
    BY <1>1, <1>4, <1>5

-------------------------------------------------------------------------------
(* Every behaviour. *)

\* The invariant and the promise begin as they should.
LEMMA Initially == Init => Inv /\ Promise!Init
  <1> SUFFICES ASSUME Init
               PROVE  Inv /\ Promise!Init
    OBVIOUS
  <1>1. Proved!Inv
    BY SameInit, ProvedInit DEF Init
  <1>2. Typed /\ HandedOver /\ EntitledReached
    BY DEF Init, Desk!Init, Hooks!Init, Typed, Places, HandedOver, EntitledReached, Hooks!Active
  <1>3. Promise!Init
    BY DEF Init, Desk!Init, Hooks!Init, Promise!Init, Answered, NoticeOf, Desk!Answers,
           Hooks!Active
  <1> QED
    BY <1>1, <1>2, <1>3 DEF Inv

\* Every step keeps the invariant and is a step of the promise or none.
LEMMA Inductive == Inv /\ [Next]_vars => Inv' /\ PromiseStep
  <1> SUFFICES ASSUME Inv, [Next]_vars
               PROVE  Inv' /\ PromiseStep
    OBVIOUS
  <1>1. CASE Next
    BY <1>1, HandleStep, TaskStep, ManageStep, CrashStep DEF Next
  <1>2. CASE UNCHANGED vars
    <2> USE <1>2 DEF vars, desk, Inv
    <2>1. UNCHANGED hooks
      OBVIOUS
    <2>2. Proved!Inv'
      BY <2>1, ProvedStep
    <2>3. Typed' /\ HandedOver' /\ EntitledReached'
      BY DEF hooks, Typed, HandedOver, EventType, EntitledReached
    <2>4. PromiseStep
      BY DEF hooks, PromiseStep, Promise!vars, Answered, NoticeOf
    <2> QED
      BY <2>2, <2>3, <2>4
  <1> QED
    BY <1>1, <1>2

\* The invariant holds in every behaviour of requests and their tasks together.
THEOREM Invariance == Spec => []Inv
  <1>1. Init => Inv
    BY Initially
  <1>2. Inv /\ [Next]_vars => Inv'
    BY Inductive
  <1> QED
    BY <1>1, <1>2, PTL DEF Spec

\* A receiver hears of nothing but creations and status changes whose requests were
\* answered with success, each under its name, whatever crashes and failures do.
THEOREM OnlyTheAcknowledged == Spec => []OnlyAcknowledgedIsPosted
  <1>1. Inv => OnlyAcknowledgedIsPosted
    <2> SUFFICES ASSUME Inv, NEW p \in posts
                 PROVE  /\ pc[p.event] = "ok" /\ job[p.event].op \in {"create", "status"}
                        /\ type[p.event] = EventType(p.event)
      BY DEF OnlyAcknowledgedIsPosted
    <2>1. p.event \in Requests /\ p.reg \in selected[p.event]
      BY DEF Inv, Proved!Inv, Proved!TypeOK, Proved!PostMade, Proved!RecordsReached
    <2>2. stage[p.event] # "idle"
      BY <2>1 DEF Inv, Proved!Inv, Proved!TasksConsistent
    <2> QED
      BY <2>1, <2>2 DEF Inv, HandedOver
  <1> QED
    BY <1>1, Invariance, PTL

\* Whoever had subscribed when the request was answered has its event settled when the
\* task ends, unless the registration was deleted.
THEOREM EverySubscriberHears == Spec => []SubscribersHear
  <1>1. Inv => SubscribersHear
    <2> SUFFICES ASSUME Inv, NEW r \in Requests, stage[r] = "done",
                        NEW g \in entitled[r], regs[g] # None
                 PROVE  \E d \in log : d.reg = g /\ d.event = r /\ Hooks!Settles(d)
      BY DEF SubscribersHear
    <2>1. g \in selected[r] \ pending[r]
      BY DEF Inv, EntitledReached, Hooks!Active, Proved!Inv, Proved!TasksConsistent
    <2>2. \E d \in log : d.reg = g /\ d.event = r /\ Proved!Settles(d)
      BY <2>1 DEF Inv, Proved!Inv, Proved!LeftBehind, Proved!Delivering
    <2> QED
      BY <2>2 DEF Hooks!Settles, Proved!Settles
  <1> QED
    BY <1>1, Invariance, PTL

\* The promise without its liveness: a notice falls due with the acknowledgement of its
\* request and never otherwise, is settled at most once, and a crash loses it for good.
THEOREM ThePromiseIsKept == Spec => Promise!Init /\ [][Promise!Next]_(Promise!vars)
  <1>1. Init => Promise!Init
    BY Initially
  <1>2. Inv /\ [Next]_vars => [Promise!Next]_(Promise!vars)
    BY Inductive DEF PromiseStep
  <1> QED
    BY <1>1, <1>2, Invariance, PTL DEF Spec

\* Every step of the composition is to the handlers one of theirs, or none.
LEMMA DeskStep == [Next]_vars => [Desk!Next]_(Desk!vars)
  BY DEF Next, Handle, Deliver, TaskFails, Manage, Crash, vars, desk, Desk!vars, Desk!Next

\* Running side by side, handlers and tasks each keep to the behaviour they have alone:
\* what is proved of Tickets and of Webhooks holds of the whole.
THEOREM EachAsAlone == Spec => Desk!Spec /\ Hooks!Spec
  <1>1. Init => Desk!Init /\ Hooks!Init
    BY DEF Init
  <1>2. [Next]_vars => [Hooks!Next]_(Hooks!vars)
    <2>1. ASSUME NEW r \in Requests, Handle(r)
          PROVE  [Hooks!Next]_(Hooks!vars)
      <3>1. EventType(r) \in ALLOWED_EVENT_TYPES
        BY DEF EventType, ALLOWED_EVENT_TYPES
      <3> QED
        BY <2>1, <3>1 DEF Handle, hooks, Hooks!vars, Hooks!Next, Hooks!Work
    <2> QED
      BY <2>1 DEF Next, Deliver, TaskFails, Manage, Crash, vars, hooks, Hooks!vars, Hooks!Next,
                  Hooks!Work
  <1> QED
    BY <1>1, <1>2, DeskStep, PTL DEF Spec, Desk!Spec, Hooks!Spec

-------------------------------------------------------------------------------
(* The handlers step as they do alone, and what is proved of them lasts. *)

\* The handlers of this module begin as TicketsProofs has it.
LEMMA SameBeginning == Desk!Init => Handlers!Init
  BY DEF Desk!Init, Handlers!Init, Desk!TicketIds, Handlers!TicketIds, Desk!Ticket,
         Handlers!Ticket, Desk!Statuses, Handlers!Statuses

\* The marker None is none of the data TicketsProofs tells it from.
LEMMA SameMarkers ==
    None \notin Contents /\ None \notin Handlers!Ticket /\ None \notin Handlers!Job
  BY NoneIsNoValue, NoneIsNoJob
  DEF Desk!Ticket, Handlers!Ticket, Desk!Statuses, Handlers!Statuses, Desk!Job, Handlers!Job,
      Desk!Users, Handlers!Users, Desk!TicketIds, Handlers!TicketIds

\* A request arrives in the composition as it does in TicketsProofs.
LEMMA SameReceive ==
    ASSUME NEW r \in Requests, Desk!Receive(r)
    PROVE  Handlers!Receive(r)
  <1> USE DEF Desk!Goto, Handlers!Goto, Desk!Refuse, Handlers!Refuse, Desk!db, Handlers!db,
              Desk!local, Handlers!local, Desk!events, Handlers!events, Desk!Visible,
              Handlers!Visible, Desk!Accept, Handlers!Accept
  <1>1. \A u, c : Desk!CreateTicket(r, u, c) => Handlers!CreateTicket(r, u, c)
    BY DEF Desk!CreateTicket, Handlers!CreateTicket
  <1>2. \A u, t, s : Desk!ChangeStatus(r, u, t, s) => Handlers!ChangeStatus(r, u, t, s)
    BY DEF Desk!ChangeStatus, Handlers!ChangeStatus, Desk!Transition, Handlers!Transition,
           Desk!CanMove, Handlers!CanMove, Desk!ALLOWED_STATUS_TRANSITIONS,
           Handlers!ALLOWED_STATUS_TRANSITIONS
  <1>3. \A u, t, c : Desk!UpdateTicket(r, u, t, c) => Handlers!UpdateTicket(r, u, t, c)
    BY DEF Desk!UpdateTicket, Handlers!UpdateTicket, Desk!OwnerOnlyWhileOpen,
           Handlers!OwnerOnlyWhileOpen, Desk!MayEdit, Handlers!MayEdit
  <1>4. \A u, t : Desk!DeleteTicket(r, u, t) => Handlers!DeleteTicket(r, u, t)
    BY DEF Desk!DeleteTicket, Handlers!DeleteTicket, Desk!OwnerOnlyWhileOpen,
           Handlers!OwnerOnlyWhileOpen, Desk!MayEdit, Handlers!MayEdit
  <1>5. \A u, t : Desk!CreateComment(r, u, t) => Handlers!CreateComment(r, u, t)
    BY DEF Desk!CreateComment, Handlers!CreateComment
  <1>6. /\ Desk!Users = Handlers!Users /\ Desk!TicketIds = Handlers!TicketIds
        /\ Desk!Statuses = Handlers!Statuses
    BY DEF Desk!Users, Handlers!Users, Desk!TicketIds, Handlers!TicketIds, Desk!Statuses,
           Handlers!Statuses
  <1> QED
    BY <1>1, <1>2, <1>3, <1>4, <1>5, <1>6 DEF Desk!Receive, Handlers!Receive

\* So does it go on.
LEMMA SameResume ==
    ASSUME NEW r \in Requests, Desk!Resume(r)
    PROVE  Handlers!Resume(r)
  <1> USE DEF Desk!Goto, Handlers!Goto, Desk!Raises, Handlers!Raises, Desk!At, Handlers!At,
              Desk!db, Handlers!db, Desk!local, Handlers!local, Desk!events, Handlers!events
  <1>1. Desk!LoadCascade(r) => Handlers!LoadCascade(r)
    BY DEF Desk!LoadCascade, Handlers!LoadCascade, Desk!CommentsOf, Handlers!CommentsOf
  <1>2. Desk!CommitCreate(r) => Handlers!CommitCreate(r)
    BY DEF Desk!CommitCreate, Handlers!CommitCreate
  <1>3. Desk!CommitUpdate(r) => Handlers!CommitUpdate(r)
    BY DEF Desk!CommitUpdate, Handlers!CommitUpdate, Desk!Changed, Handlers!Changed,
           Desk!RejectedUpdate, Handlers!RejectedUpdate, Desk!Flush, Handlers!Flush
  <1>4. Desk!CommitDelete(r) => Handlers!CommitDelete(r)
    BY DEF Desk!CommitDelete, Handlers!CommitDelete, Desk!RejectedDelete,
           Handlers!RejectedDelete, Desk!CommentsOf, Handlers!CommentsOf
  <1>5. Desk!CommitComment(r) => Handlers!CommitComment(r)
    BY DEF Desk!CommitComment, Handlers!CommitComment
  <1>6. Desk!RefreshTicket(r) => Handlers!RefreshTicket(r)
    BY DEF Desk!RefreshTicket, Handlers!RefreshTicket
  <1>7. Desk!RefreshComment(r) => Handlers!RefreshComment(r)
    BY DEF Desk!RefreshComment, Handlers!RefreshComment
  <1>8. Desk!Invalidated(r) => Handlers!Invalidated(r)
    BY DEF Desk!Invalidated, Handlers!Invalidated
  <1>9. Desk!Announce(r) => Handlers!Announce(r)
    BY DEF Desk!Announce, Handlers!Announce
  <1> QED
    BY <1>1, <1>2, <1>3, <1>4, <1>5, <1>6, <1>7, <1>8, <1>9
    DEF Desk!Resume, Handlers!Resume

\* A step of the handlers in the composition is one of those TicketsProofs speaks of.
LEMMA SameHandlers ==
    ASSUME [Next]_vars
    PROVE  [Handlers!Next]_(Handlers!vars)
  <1>1. ASSUME NEW r \in Requests, Desk!StoreFails(r)
        PROVE  Handlers!StoreFails(r)
    BY <1>1
    DEF Desk!StoreFails, Handlers!StoreFails, Desk!Waiting, Handlers!Waiting, Desk!Goto,
        Handlers!Goto, Desk!db, Handlers!db, Desk!local, Handlers!local, Desk!events,
        Handlers!events
  <1>2. Desk!Crash => Handlers!Crash
    BY DEF Desk!Crash, Handlers!Crash, Desk!Waiting, Handlers!Waiting, Desk!db, Handlers!db,
           Desk!local, Handlers!local, Desk!events, Handlers!events
  <1>3. Desk!vars = Handlers!vars /\ (Desk!vars)' = (Handlers!vars)'
    BY DEF Desk!vars, Handlers!vars
  <1>4. Desk!Next => Handlers!Next
    BY <1>1, <1>2, SameReceive, SameResume
    DEF Desk!Next, Handlers!Next, Desk!Handle, Handlers!Handle
  <1> QED
    BY <1>3, <1>4, DeskStep

\* What TicketsProofs shows to last lasts in the composition.
LEMMA HandlersLast == Spec => []Handlers!AInv
  <1>1. Init => Handlers!AInv
    <2>1. Handlers!Init => Handlers!AInv
      BY Handlers!InitAInv, RequestsAreFresh, RolesAreExclusive, SameMarkers
    <2> QED
      BY <2>1, SameBeginning DEF Init
  <1>2. Handlers!AInv /\ [Next]_vars => Handlers!AInv'
    <2>1. Handlers!AInv /\ [Handlers!Next]_(Handlers!vars) => Handlers!AInv'
      BY Handlers!StepAInv, RequestsAreFresh, RolesAreExclusive, SameMarkers
    <2> QED
      BY <2>1, SameHandlers
  <1> QED
    BY <1>1, <1>2, PTL DEF Spec

\* Somebody deleted the ticket: the commit took place, whatever the answer.
Deleted(t) ==
    \E d \in Requests : /\ job[d] # None /\ job[d].op = "delete" /\ job[d].ticket = t
                        /\ pc[d] \in {"invalidate", "ok", "error", "lost"}

\* What a receiver was told of stands: the ticket is there, and no longer open when its
\* status was reported changed, unless somebody deleted it.
ToldStands ==
    \A p \in posts :
       LET r == p.event
           t == job[r].ticket
       IN  IF tickets[t] = None THEN Deleted(t)
           ELSE job[r].op = "status" => tickets[t].status # "open"

\* No race of handlers, no failure and no crash of handlers or tasks, and no retry takes
\* back what a receiver has been told.
THEOREM WhatWasToldStands == Spec => []ToldStands
  <1>1. Handlers!AInv => Handlers!AcknowledgedWritesLast
    BY Handlers!LastsOnceAnswered, RequestsAreFresh, RolesAreExclusive, SameMarkers
  <1>2. Handlers!AcknowledgedWritesLast /\ OnlyAcknowledgedIsPosted /\ Inv => ToldStands
    <2> SUFFICES ASSUME Handlers!AcknowledgedWritesLast, OnlyAcknowledgedIsPosted, Inv,
                        NEW p \in posts, NEW r, r = p.event, NEW t, t = job[r].ticket
                 PROVE  IF tickets[t] = None THEN Deleted(t)
                        ELSE job[r].op = "status" => tickets[t].status # "open"
      BY DEF ToldStands
    <2>1. r \in Requests
      BY DEF Inv, Proved!Inv, Proved!TypeOK, Proved!PostMade
    <2>2. pc[r] = "ok"
      BY DEF OnlyAcknowledgedIsPosted
    <2>3. /\ tickets[t] = None => Deleted(t)
          /\ job[r].op = "status" => tickets[t] = None \/ tickets[t].status # "open"
      BY <2>1, <2>2 DEF Handlers!AcknowledgedWritesLast, Deleted
    <2> QED
      BY <2>3
  <1> QED
    BY <1>1, <1>2, HandlersLast, OnlyTheAcknowledged, Invariance, PTL
===============================================================================
