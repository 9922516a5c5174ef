---------------------------- MODULE WebhooksProofs ----------------------------
(***************************************************************************)
(* Proofs about Webhooks, for any events, registrations and event types and *)
(* any number of attempts.                                                  *)
(***************************************************************************)
EXTENDS Webhooks, FiniteSetTheorems, TLAPS

-------------------------------------------------------------------------------
(* The inductive invariant. *)

Delivering == {"post", "log", "sleep"}

\* The last POST of a task may be missing from the log at these.
Pausing == {"log", "failed", "lost"}

\* An id in use was registered; what a task selected, or a request is about to
\* delete, had been registered. No id is registered twice.
IdsKnown ==
    /\ \A g \in Regs : regs[g] # None => g \in used
    /\ \A e \in Events : selected[e] \subseteq used

\* A delete request holds rows of its own registration only.
CascadesOwn == \A d \in Deleters : \A row \in cascade[d] : row.reg = removing[d]

\* A task goes through what it selected; it has a current registration while it
\* delivers, and an outcome when it logs.
TasksConsistent ==
    \A e \in Events :
       /\ pending[e] \subseteq selected[e]
       /\ stage[e] \in {"idle", "select"} => selected[e] = {}
       /\ stage[e] \in Delivering => current[e] \in selected[e] \ pending[e]
       /\ stage[e] = "log" => outcome[e] \in Outcomes
       /\ stage[e] = "sleep" => attempt[e] < MAX_ATTEMPTS
       /\ stage[e] = "done" => pending[e] = {}

\* The attempts of a delivery under way that are over.
Over(e) == IF stage[e] = "sleep" THEN attempt[e] ELSE attempt[e] - 1

\* The log and the posts are of registrations a task has come to.
RecordsReached ==
    /\ \A d \in log : d.reg \in selected[d.event] \ pending[d.event]
    /\ \A p \in posts : p.reg \in selected[p.event] \ pending[p.event]

\* A delivery under way has logged its earlier attempts, all failed, and nothing else.
UnderWay ==
    \A e \in Events : stage[e] \in Delivering =>
       /\ regs[current[e]] # None =>
             \A n \in 1..Over(e) :
                [reg |-> current[e], event |-> e, attempt |-> n, outcome |-> "failed"] \in log
       /\ \A d \in log : d.event = e /\ d.reg = current[e] => d.attempt <= Over(e)

\* What a task has come to and left is settled, or deleted.
LeftBehind ==
    \A e \in Events : stage[e] \in {"next", "done"} \cup Delivering =>
       \A g \in selected[e] \ pending[e] :
          \/ stage[e] \in Delivering /\ g = current[e]
          \/ regs[g] = None
          \/ \E d \in log : d.reg = g /\ d.event = e /\ Settles(d)

LastPost(e, alive) ==
    [reg |-> current[e], event |-> e, attempt |-> attempt[e], outcome |-> outcome[e],
     live |-> alive]

\* A post to a registration that was gone, or one not in the log, is the task's last.
PostsExplained ==
    \A p \in posts :
       /\ ~p.live => /\ regs[p.reg] = None
                     /\ stage[p.event] \in Pausing
                     /\ p = LastPost(p.event, FALSE)
       /\ p.live /\ regs[p.reg] # None =>
             \/ \E d \in log : d.reg = p.reg /\ d.event = p.event /\ d.attempt = p.attempt
             \/ stage[p.event] \in Pausing /\ p = LastPost(p.event, TRUE)

Inv ==
    /\ TypeOK /\ NoOrphanDeliveries /\ AttemptsInOrder
    /\ IdsKnown /\ CascadesOwn /\ TasksConsistent /\ RecordsReached
    /\ UnderWay /\ LeftBehind /\ PostsExplained

\* Without registrations, tasks and log the invariant holds.
LEMMA InitialInv == Init => Inv
  <1> SUFFICES ASSUME Init PROVE Inv
    OBVIOUS
  <1> QED
    BY AttemptsAssumption
    DEF Init, Inv, TypeOK, NoOrphanDeliveries, AttemptsInOrder, IdsKnown, CascadesOwn,
        TasksConsistent, RecordsReached, UnderWay, LeftBehind, PostsExplained, Delivering,
        Active, Ended, Pausing

\* A registration comes under a new id, so nothing is known of it yet.
LEMMA RegisterStep ==
    ASSUME Inv, NEW g \in Regs, NEW types \in SUBSET EventTypes \ {{}},
           RegisterWebhook(g, types)
    PROVE  Inv'
  <1> USE DEF Inv, RegisterWebhook, task
  <1>1. TypeOK' /\ IdsKnown' /\ CascadesOwn'
    BY DEF TypeOK, IdsKnown, CascadesOwn
  <1>2. TasksConsistent' /\ RecordsReached' /\ AttemptsInOrder'
    BY DEF TasksConsistent, RecordsReached, AttemptsInOrder, Delivering
  <1>3. \A e \in Events : selected[e] \subseteq Regs \ {g}
    BY DEF TypeOK, IdsKnown
  <1>4. \A h \in Regs \ {g} : regs'[h] = regs[h]
    BY DEF TypeOK
  <1>5. NoOrphanDeliveries'
    BY <1>3, <1>4 DEF TypeOK, NoOrphanDeliveries, RecordsReached, Delivery
  <1>6. UnderWay' /\ LeftBehind'
    BY <1>3, <1>4 DEF UnderWay, LeftBehind, Over, Delivering, TasksConsistent
  <1>7. PostsExplained'
    BY <1>3, <1>4 DEF TypeOK, PostsExplained, RecordsReached, PostMade, LastPost
  <1> QED
    BY <1>1, <1>2, <1>5, <1>6, <1>7

\* A deletion loads log entries of its own registration only.
LEMMA LoadStep ==
    ASSUME Inv, NEW d \in Deleters, NEW g \in Regs, LoadDeliveries(d, g)
    PROVE  Inv'
  <1> USE DEF Inv, LoadDeliveries, task
  <1>1. TypeOK' /\ CascadesOwn'
    BY DEF TypeOK, CascadesOwn, Deliveries
  <1>2. IdsKnown' /\ TasksConsistent' /\ RecordsReached' /\ AttemptsInOrder'
    BY DEF IdsKnown, TasksConsistent, RecordsReached, AttemptsInOrder
  <1>3. NoOrphanDeliveries' /\ UnderWay' /\ LeftBehind' /\ PostsExplained'
    BY DEF NoOrphanDeliveries, UnderWay, LeftBehind, PostsExplained, Over, LastPost
  <1> QED
    BY <1>1, <1>2, <1>3

\* A registration is deleted with its whole log or not at all.
LEMMA DeleteStep ==
    ASSUME Inv, NEW r \in Deleters, DeleteWebhook(r)
    PROVE  Inv'
  <1> USE DEF Inv, DeleteWebhook, task
  <1> PICK g \in Regs : g = removing[r]
    BY DEF TypeOK
  <1>1. TypeOK' /\ CascadesOwn' /\ IdsKnown' /\ TasksConsistent'
    <2>1. regs' \in [Regs -> (SUBSET EventTypes) \cup {None}] /\ log' \subseteq Delivery
      BY DEF TypeOK
    <2>2. \A h \in Regs : regs'[h] # None => regs[h] # None
      BY DEF TypeOK
    <2> QED
      BY <2>1, <2>2 DEF TypeOK, CascadesOwn, IdsKnown, TasksConsistent
  <1>2. CASE UNCHANGED <<regs, log>>
    <2>1. UNCHANGED <<regs, log, used, task, stage, posts>>
      BY <1>2
    <2> QED
      BY <1>1, <2>1
      DEF RecordsReached, AttemptsInOrder, NoOrphanDeliveries, UnderWay, LeftBehind,
          PostsExplained, Over, LastPost
  <1>3. CASE /\ Covered(r) /\ regs' = [regs EXCEPT ![removing[r]] = None]
             /\ log' = log \ cascade[r]
    <2>1. /\ regs'[g] = None
          /\ \A h \in Regs \ {g} : regs'[h] = regs[h]
      BY <1>3 DEF TypeOK
    <2>2. \A d \in Delivery : d \in log' <=> d \in log /\ d.reg # g
      BY <1>3 DEF TypeOK, Covered, Deliveries, CascadesOwn
    <2>3. log' \subseteq log /\ log \subseteq Delivery
      BY <1>3 DEF TypeOK
    <2>4. NoOrphanDeliveries' /\ RecordsReached'
      BY <2>1, <2>2, <2>3 DEF NoOrphanDeliveries, RecordsReached, Delivery
    <2>5. AttemptsInOrder'
      <3>1. SUFFICES ASSUME NEW d \in log'
            PROVE  /\ \A c \in log' : c.reg = d.reg /\ c.event = d.event
                                         /\ c.attempt = d.attempt => c = d
                   /\ \A n \in 1..(d.attempt - 1) :
                         [reg |-> d.reg, event |-> d.event, attempt |-> n,
                          outcome |-> "failed"] \in log'
        BY DEF AttemptsInOrder
      <3>2. \A n \in 1..(d.attempt - 1) :
               [reg |-> d.reg, event |-> d.event, attempt |-> n, outcome |-> "failed"]
                  \in Delivery
        BY <2>3, AttemptsAssumption DEF Delivery, Outcomes
      <3> QED
        BY <2>2, <2>3, <3>2 DEF AttemptsInOrder
    <2>6. UnderWay'
      <3>1. SUFFICES ASSUME NEW e \in Events, stage[e] \in Delivering
            PROVE  /\ regs'[current[e]] # None =>
                        \A n \in 1..Over(e) :
                           [reg |-> current[e], event |-> e, attempt |-> n,
                            outcome |-> "failed"] \in log'
                   /\ \A d \in log' : d.event = e /\ d.reg = current[e]
                                         => d.attempt <= Over(e)
        BY DEF UnderWay, Over
      <3>2. current[e] \in Regs /\ Over(e) \in Nat /\ Over(e) <= MAX_ATTEMPTS
        BY <3>1, AttemptsAssumption DEF TypeOK, TasksConsistent, Over
      <3>3. \A n \in 1..Over(e) :
               [reg |-> current[e], event |-> e, attempt |-> n, outcome |-> "failed"]
                  \in Delivery
        BY <3>2, AttemptsAssumption DEF Delivery, Outcomes
      <3> QED
        BY <2>1, <2>2, <2>3, <3>1, <3>2, <3>3 DEF UnderWay
    <2>7. LeftBehind'
      BY <2>1, <2>2, <2>3 DEF LeftBehind, Settles, TypeOK
    <2>8. PostsExplained'
      BY <2>1, <2>2, <2>3 DEF PostsExplained, TypeOK, PostMade, LastPost
    <2> QED
      BY <1>1, <2>4, <2>5, <2>6, <2>7, <2>8
  <1> QED
    BY <1>2, <1>3

\* A task begins with nothing posted.
LEMMA StartStep ==
    ASSUME Inv, NEW e \in Events, NEW ty \in EventTypes, Start(e, ty)
    PROVE  Inv'
  <1> USE DEF Inv, Start, Goto, tables
  <1>1. TypeOK' /\ IdsKnown' /\ CascadesOwn' /\ NoOrphanDeliveries' /\ AttemptsInOrder'
    BY DEF TypeOK, Active, IdsKnown, CascadesOwn, NoOrphanDeliveries, AttemptsInOrder
  <1>2. TasksConsistent' /\ RecordsReached'
    BY DEF TypeOK, TasksConsistent, RecordsReached, Delivering
  <1>3. UnderWay' /\ LeftBehind'
    BY DEF TypeOK, UnderWay, LeftBehind, Over, Delivering
  <1>4. PostsExplained'
    BY DEF TypeOK, PostsExplained, LastPost, Pausing, PostMade
  <1> QED
    BY <1>1, <1>2, <1>3, <1>4

\* The registrations a task holds were stored when it queried them.
LEMMA SelectStep ==
    ASSUME Inv, NEW e \in Events, SelectRegistrations(e)
    PROVE  Inv'
  <1> USE DEF Inv, SelectRegistrations, Goto, tables
  <1>1. TypeOK' /\ IdsKnown' /\ CascadesOwn' /\ NoOrphanDeliveries' /\ AttemptsInOrder'
    BY DEF TypeOK, Active, IdsKnown, CascadesOwn, NoOrphanDeliveries, AttemptsInOrder
  <1>2. TasksConsistent' /\ RecordsReached'
    BY DEF TypeOK, TasksConsistent, RecordsReached, Delivering, Delivery, PostMade
  <1>3. UnderWay' /\ LeftBehind'
    BY DEF TypeOK, UnderWay, LeftBehind, Over, Delivering
  <1>4. PostsExplained'
    BY DEF TypeOK, PostsExplained, LastPost, Pausing, PostMade
  <1> QED
    BY <1>1, <1>2, <1>3, <1>4

\* The next registration of a task has had no attempt of this event.
LEMMA NextRegistrationStep ==
    ASSUME Inv, NEW e \in Events, NEW g \in Regs, NextRegistration(e, g)
    PROVE  Inv'
  <1> USE AttemptsAssumption DEF Inv, NextRegistration, Goto, tables
  <1>1. TypeOK' /\ IdsKnown' /\ CascadesOwn' /\ NoOrphanDeliveries' /\ AttemptsInOrder'
    BY DEF TypeOK, Active, IdsKnown, CascadesOwn, NoOrphanDeliveries, AttemptsInOrder
  <1>2. TasksConsistent' /\ RecordsReached'
    BY DEF TypeOK, TasksConsistent, RecordsReached, Delivering, Delivery, PostMade
  <1>3. \A d \in log : ~(d.event = e /\ d.reg = g)
    BY DEF RecordsReached, TypeOK, Delivery
  <1>4. UnderWay'
    BY <1>3 DEF TypeOK, UnderWay, Over, Delivering
  <1>5. LeftBehind'
    BY DEF TypeOK, LeftBehind, Delivering, Settles
  <1>6. PostsExplained'
    BY DEF TypeOK, PostsExplained, LastPost, Pausing, PostMade
  <1> QED
    BY <1>1, <1>2, <1>4, <1>5, <1>6

\* A task ends when no registration is left.
LEMMA FinishStep ==
    ASSUME Inv, NEW e \in Events, Finish(e)
    PROVE  Inv'
  <1> USE DEF Inv, Finish, Goto, tables, task
  <1>1. TypeOK' /\ IdsKnown' /\ CascadesOwn' /\ NoOrphanDeliveries' /\ AttemptsInOrder'
    BY DEF TypeOK, Ended, IdsKnown, CascadesOwn, NoOrphanDeliveries, AttemptsInOrder
  <1>2. TasksConsistent' /\ RecordsReached'
    BY DEF TypeOK, TasksConsistent, RecordsReached, Delivering
  <1>3. UnderWay' /\ LeftBehind'
    BY DEF TypeOK, UnderWay, LeftBehind, Over, Delivering
  <1>4. PostsExplained'
    BY DEF TypeOK, PostsExplained, LastPost, Pausing, PostMade
  <1> QED
    BY <1>1, <1>2, <1>3, <1>4

\* A POST is the attempt after the last one logged.
LEMMA PostStep ==
    ASSUME Inv, NEW e \in Events, NEW o \in Outcomes, Post(e, o)
    PROVE  Inv'
  <1> USE AttemptsAssumption DEF Inv, Post, Goto, tables
  <1>0. current[e] \in Regs
    BY DEF TypeOK, TasksConsistent, Delivering
  <1> DEFINE new == [reg |-> current[e], event |-> e, attempt |-> attempt[e],
                     outcome |-> o, live |-> regs[current[e]] # None]
  <1>1. new \in PostMade /\ posts' = posts \cup {new}
    BY <1>0 DEF TypeOK, PostMade
  <1>2. TypeOK' /\ IdsKnown' /\ CascadesOwn' /\ NoOrphanDeliveries' /\ AttemptsInOrder'
    BY <1>1 DEF TypeOK, Active, IdsKnown, CascadesOwn, NoOrphanDeliveries, AttemptsInOrder
  <1>3. TasksConsistent' /\ RecordsReached'
    BY <1>0, <1>1 DEF TypeOK, TasksConsistent, RecordsReached, Delivering
  <1>4. UnderWay' /\ LeftBehind'
    BY DEF TypeOK, UnderWay, LeftBehind, Over, Delivering
  <1>5. PostsExplained'
    <2>1. SUFFICES ASSUME NEW p \in posts'
          PROVE  /\ ~p.live => /\ regs[p.reg] = None
                               /\ stage'[p.event] \in Pausing
                               /\ p = LastPost(p.event, FALSE)'
                 /\ p.live /\ regs[p.reg] # None =>
                       \/ \E d \in log : /\ d.reg = p.reg /\ d.event = p.event
                                         /\ d.attempt = p.attempt
                       \/ stage'[p.event] \in Pausing /\ p = LastPost(p.event, TRUE)'
      BY DEF PostsExplained
    <2>2. CASE p = new
      BY <2>2 DEF TypeOK, LastPost, Pausing
    <2>3. CASE p \in posts
      BY <2>3 DEF TypeOK, PostsExplained, LastPost, Pausing, PostMade
    <2> QED
      BY <1>1, <2>2, <2>3
  <1> QED
    BY <1>2, <1>3, <1>4, <1>5

\* A log entry is the next of its event at its registration, and what was posted is
\* logged unless the foreign key rejects it.
LEMMA LogStep ==
    ASSUME Inv, NEW e \in Events, LogAttempt(e)
    PROVE  Inv'
  <1> USE AttemptsAssumption DEF Inv, LogAttempt, Goto, tables, task
  <1>0. Row(e) \in Delivery /\ current[e] \in selected[e] \ pending[e]
    BY DEF TypeOK, TasksConsistent, Delivering, Row, Delivery
  <1>1. CASE regs[current[e]] = None
    <2>1. UNCHANGED log /\ stage' = [stage EXCEPT ![e] = "failed"]
      BY <1>1 DEF AfterRejection
    <2>2. TypeOK' /\ IdsKnown' /\ CascadesOwn' /\ NoOrphanDeliveries' /\ AttemptsInOrder'
      BY <2>1
      DEF TypeOK, Ended, IdsKnown, CascadesOwn, NoOrphanDeliveries, AttemptsInOrder
    <2>3. TasksConsistent' /\ RecordsReached' /\ UnderWay' /\ LeftBehind'
      BY <2>1 DEF TypeOK, TasksConsistent, RecordsReached, UnderWay, LeftBehind, Over,
                  Delivering
    <2>4. PostsExplained'
      BY <2>1 DEF TypeOK, PostsExplained, LastPost, Pausing, PostMade
    <2> QED
      BY <2>2, <2>3, <2>4
  <1>2. CASE regs[current[e]] # None
    <2>1. log' = log \cup {Row(e)} /\ stage' = [stage EXCEPT ![e] = AfterAttempt(e)]
      BY <1>2 DEF Logged
    <2>2. /\ AfterAttempt(e) \in {"next", "sleep"}
          /\ AfterAttempt(e) = "sleep" <=> outcome[e] = "failed" /\ attempt[e] < MAX_ATTEMPTS
      BY DEF AfterAttempt, Retries
    <2>3. TypeOK' /\ IdsKnown' /\ CascadesOwn' /\ TasksConsistent'
      BY <1>0, <2>1, <2>2
      DEF TypeOK, Active, IdsKnown, CascadesOwn, TasksConsistent, Delivering
    <2>4. NoOrphanDeliveries' /\ RecordsReached'
      BY <1>0, <1>2, <2>1 DEF NoOrphanDeliveries, RecordsReached, Row
    <2>5. /\ \A n \in 1..(attempt[e] - 1) :
                [reg |-> current[e], event |-> e, attempt |-> n, outcome |-> "failed"] \in log
          /\ \A d \in log : d.event = e /\ d.reg = current[e] => d.attempt <= attempt[e] - 1
      BY <1>2 DEF UnderWay, Over, Delivering
    <2>6. AttemptsInOrder'
      <3>1. SUFFICES ASSUME NEW d \in log'
            PROVE  /\ \A c \in log' : c.reg = d.reg /\ c.event = d.event
                                         /\ c.attempt = d.attempt => c = d
                   /\ \A n \in 1..(d.attempt - 1) :
                         [reg |-> d.reg, event |-> d.event, attempt |-> n,
                          outcome |-> "failed"] \in log'
        BY DEF AttemptsInOrder
      <3>2. \A c \in log : c.reg = current[e] /\ c.event = e => c.attempt # attempt[e]
        BY <2>5 DEF TypeOK, Delivery
      <3>3. CASE d = Row(e)
        BY <2>1, <2>5, <3>2, <3>3 DEF Row
      <3>4. CASE d \in log
        BY <2>1, <3>2, <3>4 DEF AttemptsInOrder, Row
      <3> QED
        BY <2>1, <3>3, <3>4
    <2>7. UnderWay'
      <3>1. SUFFICES ASSUME NEW f \in Events, stage'[f] \in Delivering
            PROVE  /\ regs[current[f]] # None =>
                        \A n \in 1..Over(f)' :
                           [reg |-> current[f], event |-> f, attempt |-> n,
                            outcome |-> "failed"] \in log'
                   /\ \A d \in log' : d.event = f /\ d.reg = current[f]
                                         => d.attempt <= Over(f)'
        BY DEF UnderWay
      <3>2. CASE f = e
        <4>1. /\ outcome[e] = "failed" /\ Over(e)' = attempt[e]
              /\ attempt[e] \in 1..MAX_ATTEMPTS
          BY <2>1, <2>2, <3>1, <3>2 DEF TypeOK, Over, Delivering
        <4> QED
          BY <2>1, <2>5, <3>2, <4>1 DEF Row, TypeOK, Delivery
      <3>3. CASE f # e
        <4>1. stage'[f] = stage[f] /\ Over(f)' = Over(f)
          BY <2>1, <3>3 DEF TypeOK, Over
        <4> QED
          BY <2>1, <3>1, <3>3, <4>1 DEF UnderWay, Row
      <3> QED
        BY <3>2, <3>3
    <2>8. LeftBehind'
      <3>1. SUFFICES ASSUME NEW f \in Events, stage'[f] \in {"next", "done"} \cup Delivering,
                            NEW g \in selected[f] \ pending[f]
            PROVE  \/ stage'[f] \in Delivering /\ g = current[f]
                   \/ regs[g] = None
                   \/ \E d \in log' : d.reg = g /\ d.event = f /\ Settles(d)
        BY DEF LeftBehind, Settles
      <3>2. CASE f = e /\ g = current[e] /\ stage'[e] = "next"
        <4>1. outcome[e] # "failed" \/ attempt[e] = MAX_ATTEMPTS
          BY <2>1, <2>2, <3>2 DEF TypeOK
        <4>2. /\ Row(e) \in log' /\ Settles(Row(e))
              /\ Row(e).reg = g /\ Row(e).event = f
          BY <2>1, <3>2, <4>1 DEF Row, Settles
        <4> QED
          BY <4>2
      <3>3. CASE f = e /\ g = current[e] /\ stage'[e] # "next"
        BY <2>1, <2>2, <3>3 DEF TypeOK, Delivering
      <3>4. CASE f # e \/ g # current[e]
        BY <2>1, <3>1, <3>4 DEF TypeOK, LeftBehind, Delivering
      <3> QED
        BY <3>2, <3>3, <3>4
    <2>9. PostsExplained'
      <3>1. SUFFICES ASSUME NEW p \in posts
            PROVE  /\ ~p.live => /\ regs[p.reg] = None
                                 /\ stage'[p.event] \in Pausing
                                 /\ p = LastPost(p.event, FALSE)'
                   /\ p.live /\ regs[p.reg] # None =>
                         \/ \E d \in log' : /\ d.reg = p.reg /\ d.event = p.event
                                            /\ d.attempt = p.attempt
                         \/ stage'[p.event] \in Pausing /\ p = LastPost(p.event, TRUE)'
        BY DEF PostsExplained
      <3>2. CASE p.event = e
        <4>1. p = LastPost(e, TRUE) => Row(e).reg = p.reg /\ Row(e).attempt = p.attempt
          BY DEF LastPost, Row
        <4>2. p.live
          BY <1>2, <3>2 DEF PostsExplained, LastPost
        <4>3. Row(e) \in log' /\ Row(e).event = e /\ log \subseteq log'
          BY <2>1 DEF Row
        <4> QED
          BY <3>2, <4>1, <4>2, <4>3 DEF PostsExplained
      <3>3. CASE p.event # e
        <4>1. p.event \in Events /\ stage'[p.event] = stage[p.event]
          BY <2>1, <3>3 DEF TypeOK, PostMade
        <4> QED
          BY <2>1, <4>1 DEF PostsExplained, LastPost
      <3> QED
        BY <3>2, <3>3
    <2> QED
      BY <2>3, <2>4, <2>6, <2>7, <2>8, <2>9
  <1> QED
    BY <1>1, <1>2

\* A retry follows a logged failure.
LEMMA WakeStep ==
    ASSUME Inv, NEW e \in Events, Wake(e)
    PROVE  Inv'
  <1> USE AttemptsAssumption DEF Inv, Wake, Goto, tables, NextAttempt
  <1>1. TypeOK' /\ IdsKnown' /\ CascadesOwn' /\ NoOrphanDeliveries' /\ AttemptsInOrder'
    BY DEF TypeOK, Active, IdsKnown, CascadesOwn, NoOrphanDeliveries, AttemptsInOrder,
           TasksConsistent
  <1>2. TasksConsistent' /\ RecordsReached'
    BY DEF TypeOK, TasksConsistent, RecordsReached, Delivering
  <1>3. UnderWay' /\ LeftBehind'
    BY DEF TypeOK, UnderWay, LeftBehind, Over, Delivering
  <1>4. PostsExplained'
    BY DEF TypeOK, PostsExplained, LastPost, Pausing, PostMade
  <1> QED
    BY <1>1, <1>2, <1>3, <1>4

\* A task that raises has at most its current attempt unlogged.
LEMMA FailStep ==
    ASSUME Inv, NEW e \in Events, TaskRaises(e)
    PROVE  Inv'
  <1> USE DEF Inv, TaskRaises, Goto, tables, task
  <1>1. TypeOK' /\ IdsKnown' /\ CascadesOwn' /\ NoOrphanDeliveries' /\ AttemptsInOrder'
    BY DEF TypeOK, Ended, IdsKnown, CascadesOwn, NoOrphanDeliveries, AttemptsInOrder
  <1>2. TasksConsistent' /\ RecordsReached' /\ UnderWay' /\ LeftBehind'
    BY DEF TypeOK, TasksConsistent, RecordsReached, UnderWay, LeftBehind, Over, Delivering
  <1>3. PostsExplained'
    BY DEF TypeOK, PostsExplained, LastPost, Pausing, PostMade
  <1> QED
    BY <1>1, <1>2, <1>3

\* A crash leaves every task with at most its current attempt unlogged.
LEMMA CrashStep ==
    ASSUME Inv, Crash
    PROVE  Inv'
  <1> USE DEF Inv, Crash, task
  <1>1. TypeOK' /\ IdsKnown' /\ CascadesOwn' /\ NoOrphanDeliveries' /\ AttemptsInOrder'
    BY DEF TypeOK, Ended, IdsKnown, CascadesOwn, NoOrphanDeliveries, AttemptsInOrder
  <1>2. \A e \in Events : \/ stage[e] \in Active /\ stage'[e] = "lost"
                          \/ stage[e] \notin Active /\ stage'[e] = stage[e]
    OBVIOUS
  <1>3. TasksConsistent' /\ RecordsReached' /\ UnderWay' /\ LeftBehind'
    BY <1>2 DEF TasksConsistent, RecordsReached, UnderWay, LeftBehind, Over, Delivering, Active
  <1>4. PostsExplained'
    BY <1>2 DEF TypeOK, PostsExplained, LastPost, Pausing, PostMade, Active
  <1> QED
    BY <1>1, <1>3, <1>4

\* Every step of the routes, the tasks and the faults keeps the invariant.
LEMMA Inductive == Inv /\ [Next]_vars => Inv'
  <1> SUFFICES ASSUME Inv, [Next]_vars PROVE Inv'
    OBVIOUS
  <1>1. CASE Manage
    BY <1>1, RegisterStep, LoadStep, DeleteStep DEF Manage
  <1>2. ASSUME NEW e \in Events, NEW ty \in EventTypes, Start(e, ty) PROVE Inv'
    BY <1>2, StartStep
  <1>3. ASSUME NEW e \in Events, Deliver(e) PROVE Inv'
    BY <1>3, SelectStep, NextRegistrationStep, FinishStep, PostStep, LogStep, WakeStep
    DEF Deliver, Proceed
  <1>4. ASSUME NEW e \in Events, TaskRaises(e) PROVE Inv'
    BY <1>4, FailStep
  <1>5. CASE Crash
    BY <1>5, CrashStep
  <1>6. CASE UNCHANGED vars
    BY <1>6
    DEF vars, Inv, TypeOK, IdsKnown, CascadesOwn, NoOrphanDeliveries, AttemptsInOrder,
        TasksConsistent, RecordsReached, UnderWay, LeftBehind, Over, PostsExplained, LastPost
  <1> QED
    BY <1>1, <1>2, <1>3, <1>4, <1>5, <1>6 DEF Next, Work

\* The invariant holds in every behaviour of registrations and tasks.
THEOREM Invariance == Spec => []Inv
  BY InitialInv, Inductive, PTL DEF Spec

-------------------------------------------------------------------------------
(* The properties. *)

\* The tables and the tasks' state keep their types.
THEOREM TypeCorrect == Spec => []TypeOK
  <1>1. Inv => TypeOK
    BY DEF Inv
  <1> QED
    BY <1>1, Invariance, PTL

\* A deletion that races with deliveries takes every logged row with it or is refused.
THEOREM NoOrphans == Spec => []NoOrphanDeliveries
  <1>1. Inv => NoOrphanDeliveries
    BY DEF Inv
  <1> QED
    BY <1>1, Invariance, PTL

\* The log of one event at one registration has no gap, no duplicate and nothing after
\* the attempt that settled it.
THEOREM LogInOrder == Spec => []AttemptsInOrder
  <1>1. Inv => AttemptsInOrder
    BY DEF Inv
  <1> QED
    BY <1>1, Invariance, PTL

\* A task that ran to its end left nothing unsettled at a stored registration.
THEOREM DoneIsSettled == Spec => []DoneMeansSettled
  <1>1. Inv => DoneMeansSettled
    BY DEF Inv, DoneMeansSettled, LeftBehind, TasksConsistent, Delivering
  <1> QED
    BY <1>1, Invariance, PTL

\* A set within a singleton has at most one element.
LEMMA AtMostOne ==
    ASSUME NEW S, NEW x, S \subseteq {x}
    PROVE  Cardinality(S) <= 1
  <1>1. CASE S = {}
    BY <1>1, FS_EmptySet
  <1>2. CASE S = {x}
    BY <1>2, FS_Singleton
  <1> QED
    BY <1>1, <1>2

\* A task logs what it posts before it goes on.
THEOREM PostsAreLogged == Spec => []AtMostOneUnlogged
  <1>1. Inv => AtMostOneUnlogged
    <2>1. SUFFICES ASSUME Inv, NEW e \in Events
          PROVE  /\ Cardinality(Unlogged(e)) <= 1
                 /\ Unlogged(e) # {} => stage[e] \in {"log", "failed", "lost"}
      BY DEF AtMostOneUnlogged
    <2>2. \A p \in Unlogged(e) : stage[e] \in Pausing /\ p = LastPost(e, TRUE)
      BY <2>1 DEF Inv, TypeOK, PostMade, Unlogged, PostsExplained
    <2>3. Unlogged(e) \subseteq {LastPost(e, TRUE)}
      BY <2>2
    <2>4. Cardinality(Unlogged(e)) <= 1
      BY <2>3, AtMostOne
    <2> QED
      BY <2>2, <2>4 DEF Pausing
  <1> QED
    BY <1>1, Invariance, PTL

\* A deleted registration is posted to at most once more per event.
THEOREM StalePostsBounded == Spec => []AtMostOneStalePost
  <1>1. Inv => AtMostOneStalePost
    <2>1. SUFFICES ASSUME Inv, NEW e \in Events
          PROVE  Cardinality({p \in posts : p.event = e /\ ~p.live}) <= 1
      BY DEF AtMostOneStalePost
    <2>2. {p \in posts : p.event = e /\ ~p.live} \subseteq {LastPost(e, FALSE)}
      BY <2>1 DEF Inv, PostsExplained
    <2> QED
      BY <2>2, AtMostOne
  <1> QED
    BY <1>1, Invariance, PTL

===============================================================================
