------------------------- MODULE ConnectionPoolProofs -------------------------
(***************************************************************************)
(* Proofs about ConnectionPool, for any requests and sockets and a pool of  *)
(* any size.                                                                *)
(***************************************************************************)
EXTENDS ConnectionPool, TLAPS

-------------------------------------------------------------------------------
(* The inductive invariant. *)

Places == {"idle", "load", "reload", "handling", "finishing", "listening"} \cup InTask \cup Ended

Types ==
    /\ pc \in [Users -> Places]
    /\ posts \in [Users -> Nat]
    /\ own \subseteq Users /\ tasks \subseteq Users

\* A request session holds a connection only between a statement and the next commit
\* or close; a task's session only from its query on.
Holders ==
    /\ \A u \in own : pc[u] \in {"handling", "finishing"} \cup InTask
    /\ \A u \in tasks : pc[u] \in {"selected", "post", "log"}

Inv == Types /\ Holders

\* A session that is closed gives back whatever it held.
LEMMA CloseStep ==
    ASSUME Inv, NEW u \in Users, NEW end \in Ended, Close(u, end)
    PROVE  Inv'
  BY DEF Inv, Close, Goto, Types, Holders, Places, Ended, InTask

\* A handler's own session holds a connection only where Holders says.
LEMMA OwnSessionStep ==
    ASSUME Inv, NEW u \in Users,
           Arrive(u) \/ CheckOut(u) \/ Commit(u) \/ Answer(u) \/ AnswerThenDispatch(u)
             \/ Listen(u) \/ Disconnect(u)
    PROVE  Inv'
  <1> USE DEF Inv, Types, Holders, Places, InTask, Goto
  <1>1. CASE Arrive(u) \/ AnswerThenDispatch(u)
    BY <1>1 DEF Arrive, AnswerThenDispatch
  <1>2. CASE CheckOut(u)
    BY <1>2 DEF CheckOut
  <1>3. CASE Commit(u) \/ Listen(u)
    BY <1>3 DEF Ended, Commit, Listen
  <1>4. CASE Answer(u) \/ Disconnect(u)
    BY <1>4, CloseStep DEF Answer, Disconnect, Ended
  <1> QED
    BY <1>1, <1>2, <1>3, <1>4

\* A background task's session holds one from its query to its first commit, and again
\* for each log entry.
LEMMA TaskStep ==
    ASSUME Inv, NEW u \in Users, Deliver(u)
    PROVE  Inv'
  <1>1. CASE TaskCheckOut(u)
    BY <1>1 DEF Inv, Types, Holders, Places, InTask, Goto, TaskCheckOut
  <1>2. CASE Post(u) \/ (Selected(u) /\ ~Close(u, "done"))
    BY <1>2 DEF Inv, Types, Holders, Places, InTask, Goto, Post, Selected
  <1>3. CASE LogCommit(u) /\ ~Close(u, "done")
    BY <1>3 DEF Inv, Types, Holders, Places, InTask, Goto, LogCommit
  <1>4. CASE Close(u, "done")
    BY <1>4, CloseStep DEF Ended
  <1> QED
    BY <1>1, <1>2, <1>3, <1>4 DEF Deliver, Proceed, Selected, LogCommit

\* Whatever fails ends with its sessions closed.
LEMMA FailureStep ==
    ASSUME Inv, NEW u \in Users, GiveUp(u) \/ TaskFails(u) \/ HandlerFails(u)
    PROVE  Inv'
  BY CloseStep DEF GiveUp, TaskFails, HandlerFails, Ended

\* With nobody there nothing is held.
LEMMA InitialInv == Init => Inv
  BY DEF Init, Inv, Types, Holders, Places

\* Every step of requests, sockets and tasks keeps the invariant.
LEMMA Inductive == Inv /\ [Next]_vars => Inv'
  <1> SUFFICES ASSUME Inv, [Next]_vars PROVE Inv'
    OBVIOUS
  <1>1. CASE UNCHANGED vars
    BY <1>1 DEF vars, Inv, Types, Holders
  <1>2. Requests \subseteq Users /\ Sockets \subseteq Users
    BY DEF Users
  <1> QED
    BY <1>1, <1>2, OwnSessionStep, TaskStep, FailureStep DEF Next, Handle, HandShake

\* The invariant holds in every behaviour of the pool.
THEOREM Invariance == Spec => []Inv
  BY InitialInv, Inductive, PTL DEF Spec

-------------------------------------------------------------------------------
(* The properties. *)

\* Whoever has ended, is idle or only listens holds no connection.
THEOREM EverythingGivenBack == Spec => []NothingLeaks
  <1>1. Inv => NothingLeaks
    BY DEF Inv, Types, Holders, NothingLeaks, InTask, Ended
  <1> QED
    BY <1>1, Invariance, PTL

\* Holding one connection while waiting for another is left to background tasks.
THEOREM OnlyTasksHoldAndWait == Spec => []HoldAndWaitOnlyInTasks
  <1>1. Inv => HoldAndWaitOnlyInTasks
    BY DEF Inv, Types, Holders, HoldAndWaitOnlyInTasks, Waiting, InTask
  <1> QED
    BY <1>1, Invariance, PTL
===============================================================================
