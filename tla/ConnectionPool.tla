---------------------------- MODULE ConnectionPool ----------------------------
(***************************************************************************)
(* Who holds which database connection.  A session takes one from the       *)
(* engine's pool for its first statement, gives it back when it commits or  *)
(* closes, and takes another for the statement after a commit.  The session *)
(* of a request is closed after the response and its background task: the   *)
(* task, with a session of its own, needs a second connection.              *)
(***************************************************************************)
EXTENDS FiniteSets, Naturals

CONSTANTS
    Requests,   \* HTTP requests
    Sockets,    \* WebSocket connections
    Capacity,   \* pool_size + max_overflow
    MaxPosts    \* bound on the POSTs of one task

ASSUME CapacityAssumption == Capacity \in Nat \ {0}
ASSUME PostsAssumption == MaxPosts \in Nat \ {0}
ASSUME RequestsAreNoSockets == Requests \cap Sockets = {}

VARIABLES
    pc,     \* where each request or handshake is
    own,    \* those whose request session holds a connection
    tasks,  \* those whose background task's session holds one
    posts   \* the POSTs a task has made

vars == <<pc, own, tasks, posts>>
Users == Requests \cup Sockets

InTask == {"select", "selected", "post", "log"}
Ended == {"done", "failed"}

Init ==
    /\ pc = [u \in Users |-> "idle"]
    /\ own = {}
    /\ tasks = {}
    /\ posts = [u \in Users |-> 0]

Goto(u, place) == pc' = [pc EXCEPT ![u] = place]

\* A connection is there as long as not all of them are handed out.
Free == Cardinality(own) + Cardinality(tasks) < Capacity

\* `async with` gives back whatever the two sessions hold.
Close(u, end) ==
    /\ Goto(u, end)
    /\ own' = own \ {u}
    /\ tasks' = tasks \ {u}
    /\ UNCHANGED posts

-------------------------------------------------------------------------------
(* The session of the request, or of the WebSocket handshake. *)

Arrive(u) == pc[u] = "idle" /\ Goto(u, "load") /\ UNCHANGED <<own, tasks, posts>>

\* get_current_user's statement, or the refresh after a commit.
CheckOut(u) ==
    /\ pc[u] \in {"load", "reload"} /\ Free
    /\ own' = own \cup {u}
    /\ Goto(u, IF pc[u] = "load" THEN "handling" ELSE "finishing")
    /\ UNCHANGED <<tasks, posts>>

\* Faulty variant: the refresh uses a session of its own, the first one staying open.
RefreshElsewhere(r) ==
    pc[r] = "handling" /\ Goto(r, "reload") /\ UNCHANGED <<own, tasks, posts>>

\* A commit gives the connection back; a refresh follows unless the row is gone.
Commit(r) ==
    /\ pc[r] = "handling"
    /\ own' = own \ {r}
    /\ \E place \in {"reload", "done"} : Goto(r, place)
    /\ UNCHANGED <<tasks, posts>>

\* The answer is sent and nothing is left to do.
Answer(r) == pc[r] \in {"handling", "finishing"} /\ Close(r, "done")

\* The answer of a creation or status change is sent; its session stays open.
AnswerThenDispatch(r) ==
    pc[r] = "finishing" /\ Goto(r, "select") /\ UNCHANGED <<own, tasks, posts>>

\* Faulty variant: the handler listens inside the session's `async with`.
ListenInside(s) == pc[s] = "handling" /\ Goto(s, "listening") /\ UNCHANGED <<own, tasks, posts>>

\* The handshake's session is closed before the socket is listened to.
Listen(s) ==
    /\ pc[s] = "handling"
    /\ own' = own \ {s}
    /\ Goto(s, "listening")
    /\ UNCHANGED <<tasks, posts>>

Disconnect(s) == pc[s] = "listening" /\ Close(s, "done")

-------------------------------------------------------------------------------
(* The session of the background task. *)

TaskCheckOut(r) ==
    /\ pc[r] \in {"select", "log"} /\ r \notin tasks /\ Free
    /\ tasks' = tasks \cup {r}
    /\ Goto(r, IF pc[r] = "select" THEN "selected" ELSE "log")
    /\ UNCHANGED <<own, posts>>

\* The query's transaction stays open during the task's very first POST.
Selected(r) ==
    /\ pc[r] = "selected"
    /\ \/ Goto(r, "post") /\ UNCHANGED <<own, tasks, posts>>
       \/ Close(r, "done")

\* The POST ends.  The client's timeout is for each connect, read and write, so that a
\* receiver which drips its answer may put this off for ever.
Post(r) ==
    /\ pc[r] = "post"
    /\ posts' = [posts EXCEPT ![r] = @ + 1]
    /\ Goto(r, "log")
    /\ UNCHANGED <<own, tasks>>

\* The commit of the log entry gives the task's connection back; then a backoff or the
\* next registration, whose POST holds none, or the end.
LogCommit(r) ==
    /\ pc[r] = "log" /\ r \in tasks
    /\ \/ /\ posts[r] < MaxPosts
          /\ tasks' = tasks \ {r}
          /\ Goto(r, "post")
          /\ UNCHANGED <<own, posts>>
       \/ Close(r, "done")

-------------------------------------------------------------------------------
(* Failures. *)

Waiting(u) == pc[u] \in {"load", "reload", "select"} \/ (pc[u] = "log" /\ u \notin tasks)

\* Faulty variant: the pool waits without a timeout.
WaitForEver(u) == FALSE

\* pool_timeout passed with nothing given back.
TimedOut(u) == Waiting(u) /\ ~Free

GiveUp(u) == TimedOut(u) /\ Close(u, "failed")

\* Faulty variant: the task's session is closed by its last line, not by `async with`.
LeaksTheTask(r) ==
    /\ pc[r] \in InTask
    /\ Goto(r, "failed")
    /\ own' = own \ {r}
    /\ UNCHANGED <<tasks, posts>>

\* An exception leaves the background task.
TaskFails(r) == pc[r] \in InTask /\ Close(r, "failed")

\* An exception leaves the handler.
HandlerFails(u) == pc[u] \in {"handling", "finishing"} /\ Close(u, "failed")

Handle(r) == CheckOut(r) \/ Commit(r) \/ Answer(r) \/ AnswerThenDispatch(r)

\* What the task does without waiting for a receiver.
Proceed(r) == TaskCheckOut(r) \/ Selected(r) \/ LogCommit(r)

Deliver(r) == Proceed(r) \/ Post(r)

HandShake(s) == CheckOut(s) \/ Listen(s) \/ Answer(s)

Next ==
    \/ \E r \in Requests : Arrive(r) \/ Handle(r) \/ Deliver(r) \/ TaskFails(r)
    \/ \E s \in Sockets : Arrive(s) \/ HandShake(s) \/ Disconnect(s)
    \/ \E u \in Users : GiveUp(u) \/ HandlerFails(u)

Spec == Init /\ [][Next]_vars

\* Statements complete, and whoever waits for a connection gets one or gives up.
\* Nothing makes a receiver end its answer.
FairSpec ==
    /\ Spec
    /\ \A r \in Requests : WF_vars(Handle(r) \/ Proceed(r) \/ GiveUp(r))
    /\ \A s \in Sockets : WF_vars(HandShake(s) \/ GiveUp(s))

-------------------------------------------------------------------------------
(* Properties. *)

\* Whoever has ended, by whatever failure, has given everything back, and an idle
\* subscriber holds nothing for the length of its connection.
NothingLeaks ==
    \A u \in Users : pc[u] \in Ended \cup {"idle", "listening"} => u \notin own \cup tasks

\* Only a request that has been answered, in its background task, holds a connection
\* while it waits for another.
HoldAndWaitOnlyInTasks ==
    \A u \in Users : Waiting(u) /\ u \in own \cup tasks => pc[u] \in {"select", "log"}

\* Even when every connection is held by an answered request whose task waits for a
\* second one, whoever needs a connection gets it or is told so: the timeout of the
\* pool breaks the circle.  Only who is held in a POST by a receiver may never end; it
\* keeps nobody else from it.
EverybodyEnds ==
    \A u \in Users :
       pc[u] = "load" ~> (pc[u] \in Ended \cup {"listening"} \/ [](pc[u] = "post"))

-------------------------------------------------------------------------------
(* What the repository's texts say, and the pool does not keep. *)

\* "Delivery runs as a FastAPI background task (after the triggering response has
\* already been sent, so a slow/dead subscriber never adds latency to the API
\* itself)": a request never waits while all connections are held for POSTs.
SubscribersAddNoLatency ==
    \A r \in Requests :
       pc[r] \in {"load", "reload"} /\ ~Free => \E s \in own : pc[s] # "post"
===============================================================================
