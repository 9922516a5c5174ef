# TicketFlow: formal models

TLA+ models of the TicketFlow backend (FastAPI, PostgreSQL, Redis), TLC runs that
check them on small instances, and TLAPS proofs for every size of the instance.
Everything is translated from `src/app`; the texts of the repository are used only
where a property states what one of them says.

## 1. The system

One uvicorn process runs one asyncio event loop. A request handler is a coroutine; other
coroutines run at each of its awaits and nowhere else. Three stores are shared:

- PostgreSQL at READ COMMITTED. Each request has its own session. No query locks a
  row and no table has a version column, so what a handler checked is a copy.
- Redis: the response cache and the rate-limit counters. It outlives the process.
- Memory of the process: the WebSocket rooms and the background tasks. A crash loses
  both (`docker-compose.yml` restarts the container).

| Component | State | Operations | What is hard | What makes it correct |
|---|---|---|---|---|
| Ticket and comment writes (`api/routes/tickets.py`, `comments.py`, `services/ticket_service.py`, `api/deps.py`) | tables `tickets`, `comments`; the session of each request | create, change status, edit, delete, comment | checks on a loaded copy and a commit after several awaits; a delete that loads its cascade first; failures after the commit | the workflow open → in_progress → resolved → closed; edits and deletions only by the owner and only while open; no comment without its ticket; what was acknowledged stays |
| Lists, statistics and their cache (`cache_service.py`, `dashboard.py`, `list_tickets`) | Redis keys with a time to live | fill after two or three queries, delete by key and by SCAN, page by offset | a fill overlapping a write; SCAN's weak guarantee; keys that expire; a crash between commit and invalidation; a list that changes while it is paged through | a stale entry has an explanation, and goes away; a walk misses or repeats no more tickets than the list lost or gained |
| Webhooks (`webhook_service.py`, `api/routes/webhooks.py`) | tables `webhook_registrations`, `webhook_deliveries`; one background task per event | register, delete, dispatch with up to four attempts per receiver | deletion during a delivery; crash between POST and log entry; retries | the log shows what was attempted, in order; a dispatch ends unless a receiver never ends its answer |
| Rate limiting (`_check_rate_limit`) | one Redis counter per account or address | INCR, EXPIRE, compare | three calls that interleave and fail; the boundary of two windows | a bound on what gets through; a refusal ends |
| WebSocket rooms (`websocket_manager.py`, `ws.py`) | rooms in memory | connect, disconnect, broadcast | broadcasts over a snapshot while members come and go | who is connected hears the event |
| Events from a request to its receivers (`background_tasks`, `dispatch_event`) | the tasks in memory | hand over, deliver, lose | a request that fails after its commit; a crash between answer and delivery | receivers hear only of acknowledged writes, at most one task each |
| Accounts and tokens (`auth.py`, `security.py`, `seed.py`, `deps.py`) | table `users`; signed tokens | register, login, refresh, authenticate, seed | two registrations of one address; a start cut short; two token kinds and their expiry | one account per address; only the seeded account is an agent; a login ends |
| Sessions and pool (`db/session.py`) | pooled connections | check out, give back, time out | a request keeps its connection until its background task ends, which needs another | nothing leaks; everybody gets on or is told |
| Start (`entrypoint.sh`, `alembic/`, `main.py`, `docker-compose.yml`) | the schema's revision | migrate, seed, serve, restart | a start that fails half-way and begins again | it comes up whatever was left behind |
| Settings, API texts, the n8n workflow | none of their own | | | |

The interactions: the five ticket handlers commit to PostgreSQL, then clear the
cache (all but comments), then broadcast to the rooms (status, comment) and hand an
event to the webhook task (create, status). List and statistics requests fill the
cache. The rate limiter runs before the handler's body.

`PROJECT.json` lists the hazards of this code, each at the line where it bites, with
the properties that would catch it.

## 2. The modules

| Module | Models | Uses |
|---|---|---|
| `TicketData` | statuses, roles, rows, the transition table (`CanMove`) | |
| `TicketWorkflow` | abstract: what may happen to a ticket as one atomic step (`Open`, `Advance`, `Edit`, `Remove`) | `TicketData` |
| `StaleWorkflow` | abstract: the same steps, each decided on a copy loaded before and applied to what is stored by then | `TicketData` |
| `Tickets` | the write handlers step by step | `TicketData`, instances of `TicketWorkflow` and `StaleWorkflow` |
| `TicketCache` | fills, invalidation, SCAN, expiry | |
| `Paging` | a walk through the pages of a list that changes | |
| `Webhooks` | registrations, delivery tasks, the delivery log | |
| `Notices` | abstract: what is promised about an event of a request | |
| `Notifications` | requests together with the webhook tasks they start | instances of `Tickets`, `Webhooks` and `Notices` |
| `RateLimit` | one counter and its callers | |
| `Rooms` | WebSocket connections, rooms, broadcasts send by send | |
| `Accounts` | the container's start, registrations, tokens | |
| `ConnectionPool` | who holds which pooled connection | |
| `TicketsProofs`, `WebhooksProofs`, `RateLimitProofs`, `RoomsProofs`, `AccountsProofs`, `ConnectionPoolProofs` | theorems about the module of the same name | that module, `TLAPS`, library theorems |
| `ListProofs` | theorems about the lists of tickets | `TicketCache`, `Paging`, `TLAPS`, library theorems |
| `NotificationsProofs` | theorems about the composition | `Notifications`, instances of `WebhooksProofs` and `TicketsProofs` |
| `MCTickets`, `MCRooms`, `MCAccounts`, `MCNotifications` | symmetry sets, constants and initial conditions for TLC | the module named |

A definition preceded by "Faulty variant" is a plausible bug in the definition after it.
No specification uses it; putting it in the other's place makes the property that
guards against that bug fail, which shows that the property looks at the code.

### `Tickets`

A request goes through `pc`:

    new -> [cascade ->] commit -> refresh -> invalidate -> announce -> ok

and leaves it to `forbidden` (403), `not_found` (404), `conflict` (409), `error` (500)
or `lost` (the process died). Which places it visits depends on the operation: only a
delete has `cascade` (`session.delete` loads the comments its cascade will delete), a
delete has no refresh, only status changes and comments announce, and comments do not
invalidate.

- `Receive` runs from the arrival to the end of the checks: `get_visible_ticket`'s row
  and everything decided on it. One database read, so one step.
  The order is that of the code: visibility (404), role (403), status (409).
- `CommitCreate`, `CommitUpdate`, `CommitDelete` and `CommitComment` are the flush and
  commit. `Flush` writes only columns that differ from what was loaded, as SQLAlchemy
  does. An UPDATE of a vanished row raises, a null column violates NOT NULL, a comment of
  a vanished ticket or a delete that leaves comments behind violates the foreign key:
  500, nothing written. A DELETE of a vanished row succeeds.
- `RefreshTicket` and `RefreshComment` are `session.refresh`, which reads what is stored
  by then and raises if nothing is.
- `Invalidated` is the return of `invalidate_ticket_caches` (its inside is `TicketCache`);
  `Announce` is the two broadcasts and `add_task`.
- `StoreFails` is an exception of PostgreSQL or Redis at any await; `Crash` ends every
  open request.

The data is reduced to what the properties distinguish: `content` stands for title,
description, category and priority together, a comment is its author and its
ticket, timestamps are left out. An explicit null in the body of an edit is kept, because
`TicketUpdate` accepts it.

Two abstract specifications are stated about the table. `TicketWorkflow` is what one request
at a time may do; the code keeps it except for commits that were overtaken
(`OnlyRacesBreakTheWorkflow`). `StaleWorkflow` is what it does keep under every race: `Load` a
copy, decide on it, and apply the decision to what is stored by then. The refinement maps
`copies` to the rows held by the requests between their load and their commit. Its `Open` needs
an id of which nobody holds a copy, and its `Advance`, `Edit` and `Remove` change nothing but
what the operation is about.

### `TicketCache`

`Lookup` is a miss (a hit changes nothing). `Count`, `SelectPage`, `CountByStatus` and
`CountByPriority` are the statements, each with its own snapshot; `SetCached` stores the
result. `Commit` is any ticket write (its guards are in `Tickets`), `Refresh` the step
that may still fail, then `DeleteStats`, `Scan`, `DeleteKey`, `ScanEnds` follow
`invalidate_ticket_caches`. SCAN promises only the keys present from its start to its
end, so `todo` is what it must return, and `DeleteKey` may take a key stored
meanwhile as well. `Expire` is a time to live. The variables `missed`, `late` and
`abandoned` are history: they record why an entry may be stale.
A list key is a caller and a status filter; pages, search, category and priority
filters make more keys of the same kind and are left out.

### `Paging`

A ticket is its place in the order of `created_at`. Two tickets of the same microsecond have
no order in the source (`tickets.py:129` has no tie-breaker), and PostgreSQL may swap them
from page to page; the model leaves that out. `PageAt` is ORDER BY, OFFSET and LIMIT stated
through the number of newer tickets. `Write` is any commit after which a ticket is on the
list or no longer on it: creation, deletion, an edit or status change under a filter. A
created ticket need not be the newest: `created_at` is set by the handler before its commit.
`ReadPage` takes the next page from the table or from any earlier state of it, which is what
the cache can hold. The client stops at a page that is not full (`Over`, external).

The properties count pairs of a ticket and a page: `Departures` and `Arrivals` are the tickets
that went from the list, or came, between one page and the next, `Repeats` those shown
on a page after an earlier one. The initial condition and the specification are called
`WalkInit` and `WalkSpec`, so that `ListProofs` can extend this module and `TicketCache`.

### `Webhooks`

`Start` is the background task, `SelectRegistrations` its query, `NextRegistration` the loop
of `dispatch_event`, and `Post`, `LogAttempt`, `Wake` the loop of `_deliver_with_retries`:
2xx is `success`, other answers below 500 `rejected` (not retried), 5xx, network failures
and timeouts `failed` (retried while `attempt < MAX_ATTEMPTS`). A log entry of a deleted
registration violates the foreign key and the exception ends the whole task.
`LoadDeliveries` and `DeleteWebhook` are the deletion with its cascade; two of them may
overlap on one registration. A receiver need not end its answer: `Post` has no fairness.
`TaskRaises` is any exception nobody catches, of the database or of the client (what is no
`httpx.HTTPError`). `Crash` loses tasks and open deletions. Signatures and payloads are left
out. No code sets `is_active` to false, so a stored registration is an active one.
`README.md:112` says that failures are retried "up to 4 times"; the code makes four attempts
in all, and so does the model.

### `Notices` and `Notifications`

`Notifications` has the variables of `Tickets` and of `Webhooks` and runs both: its `Events`
are the requests. A step of a handler that adds to `scheduled` (the
answer of a creation or status change) also takes `Start` of the webhook module, with the
event type of the request; every other step leaves the other half alone. `Crash`
is the crash of both, because they are one process. `entitled` remembers which webhooks
subscribed before the answer.

`Notices` is the promise: a notice falls due when its request is acknowledged and not
otherwise, is out while a receiver is asked, is told or lost once, and a crash loses what is
due. The refinement mapping reads `answer` off `pc` and `notice` off the task's `stage`.

### `RateLimit`

`Incr`, `Expire`, `Check` are the Redis calls of `_check_rate_limit`; what `INCR` returned
decides the answer. `Tick` passes time and drops the key. `Fails` is a failure between the
calls. `recent` counts what was let through during the last `WINDOW` ticks, `lost` whether a
failure came between INCR and EXPIRE. Both are history, on which no action depends;
`AtMostTwiceTheLimit` is about the one, `WindowsEnd` and `LimitLifts` need the other.

### `Rooms`

A connection is `new`, passes `Authorise` (`get_current_user_ws` and the checks in `ws.py`),
`Join`s its room when `accept()` has returned, is `gone` when its transport breaks or its
client sends what `receive_text` does not take, and `Leave`s in the `finally`.
`rooms` is the dictionary `_ticket_rooms` with its keys, so that a room created by
looking it up, or left behind empty, is visible. A broadcast takes a snapshot of the
ticket's room (`Start`), makes one `Send` after the other, and does the same with the
dashboard. A send to a broken connection is swallowed; one to a client that does
not read (`stalled`) is written and holds the handler until the client catches up or fails
the keepalive. Those buffers belong to uvicorn and are marked external. In `Tickets`
the two broadcasts are the one step `Announce`; ownership is the constant `Owner` here,
because no step of `Tickets` changes it (`OpenIsLeftForGood`).

### `Accounts`

The container's start is `Migrate`, `SeedCheck`, `SeedCommit`, `Serve`, one after the other
because `entrypoint.sh` runs its commands with `set -e`; `Fail` is a failed command or a
dead process, and begins again. `Register` is everything up to the commit, with the
address as `EmailStr` leaves it (`Validated`); `CommitUser` meets the unique index;
`RefreshUser` reads the row back. `Login` compares the address as it was given. A token is its
user, its type, its expiry and, as history, the time of the login it descends from. Tokens
belong to the clients: they survive crashes, and nothing revokes them. `Authenticate` is
`get_current_user`. Login, refresh and authentication read one row each, so each is one
step.

### `ConnectionPool`

A session checks a connection out for its first statement and gives it back at commit or
close. `own` is the session of the request or handshake, `tasks` that of the background
task. FastAPI closes a request's session after the response and its background tasks, and
the refresh before the answer has opened a new transaction: so a request in its task holds
one connection and waits for a second (`TaskCheckOut`). The query of `dispatch_event` keeps
its transaction open during the task's very first POST; the commit of its log entry gives
the connection back, and all later POSTs, to whichever receiver, hold nothing in `tasks`. A
POST may last for ever. A handshake's session is closed before the socket listens
(`Listen`). `GiveUp` is the pool's timeout, which may come as soon as no connection is free.

## 3. The runs

| Run | Asks | Shows |
|---|---|---|
| `tickets_races` | what survives every interleaving of three requests, with failures and crashes | no orphaned or foreign comment (`CommentsBelong`); acknowledged writes last and reach the webhooks (`AcknowledgedWritesLast`); only a commit overtaken since its load can leave the workflow (`OnlyRacesBreakTheWorkflow`); no ticket returns to open or changes its owner (`NeverReopened`); the handlers implement `StaleWorkflow` (`ImplementsWorkflow`); the status that stays is announced unless its writer failed (`StoredStatusAnnounced`) |
| `tickets_forward` | "forward-only ... no reopening" (`tickets.py:154`) | violated: see below |
| `cache_faults` | two writers, one reader: why can an entry be stale, and does it pass | `StalenessExplained`: a writer has still to clear it, failed before it could, or the entry was stored by a reader that had begun before; `EventuallyFresh`: the time to live is the backstop |
| `paging_walk` | what a client misses while the list changes | tickets that stay on the list are skipped no more often than others leave between two pages (`SkipsExplained`), and shown again no more often than others come in (`RepeatsExplained`) |
| `webhooks_faults` | four attempts at two registrations that come and go | no orphaned log entry; the log is attempts 1 to n with failures before the last (`AttemptsInOrder`); a deleted registration is posted to at most once more per event; a task that ran to its end settled every stored receiver; at most one POST per event is unlogged; every dispatch ends that is not held in a POST for ever |
| `webhooks_every` | "every active registration" (`webhook_service.py:83`) | violated, though nothing fails: see below |
| `notifications_faults` | requests and their webhook tasks together | only acknowledged creations and status changes reach receivers (`OnlyAcknowledgedIsPosted`); who had subscribed before the answer hears of it (`SubscribersHear`); the promise is kept (`ImplementsNotices`) |
| `rate_faults` | three callers around the limit | at most twice the limit within one window's length; a counter has an end unless a failure took it; the limit lifts again |
| `rooms_races` | three clients that come, stall and go around a broadcast | the rooms are exactly the listening connections (`RoomsAreListeners`); nobody hears of a foreign ticket (`OnlyEntitledHear`); who was there from the start of a broadcast and stayed has heard it (`PresentHear`); nobody can hold a broadcast for good (`BroadcastEnds`) |
| `accounts_races` | two registrations around a start that fails twice | one account per address; only the seed is an agent, and it is there once the server answers (`OnlySeedIsAgent`); 201 and 409 stay true (`AnswersTrue`); a login ends with its two lifetimes (`AccessEndsAfterLogin`); the service comes back (`ServesAgain`) |
| `pool_races` | three requests with tasks, one socket, three connections | nothing leaks on any path (`NothingLeaks`); only answered requests hold one connection and wait for another (`HoldAndWaitOnlyInTasks`); even when all of them do, everybody ends whom no receiver holds for ever (`EverybodyEnds`) |
| `pool_latency` | "never adds latency to the API itself" (`README.md:112`) | violated: see below |

What the three violations show:

- `tickets_forward`: two agents load a ticket as open; one moves it on twice; the
  other's commit puts it back to in_progress. The same missing lock lets an edit or a
  deletion that was checked while the ticket was open commit after an agent has taken
  the ticket up (`OnlyRacesBreakTheWorkflow` names exactly these commits).
- `pool_latency`: an answered request holds its own connection through all of its task's
  POSTs, and the task's very first POST, inside the transaction of the query, a second
  one; the commit of its log entry gives that one back. With enough slow receivers a
  request that has nothing to do with webhooks waits at its first statement until one of
  their POSTs is over, or the pool's timeout answers it with 500.
- `webhooks_every`: an agent deletes a registration between the query and its log entry;
  the foreign key rejects the entry, the exception leaves `dispatch_event`, and the
  registrations after it never hear of the event. Hence `DoneMeansSettled` and
  `SubscribersHear` speak of tasks that ran to their end.

Two further disagreements between text and code are the exceptions which passing
properties spell out:

- "Trivially correct" invalidation (`README.md:104`): a reader queries, a write commits,
  invalidates and returns, the reader stores its old answer. It stays until the next
  write or its time to live. The same overlap stores statistics whose three statements
  saw different tables (`late` in `StalenessExplained`).
- "Please try again later" (`deps.py:116`): the caller that saw 1 fails before EXPIRE; the
  counter has no time to live, nobody else sees 1, and once it is over the limit every
  request is refused (`lost` in `WindowsEnd` and `LimitLifts`).

Three more statements of the texts hold only in the weaker form the passing runs check.
"Every attempt is logged" (`README.md:112`): a crash between POST and commit loses
one entry (`AtMostOneUnlogged`). "30/min" (`tickets.py:43`): a minute across two windows
lets through up to twice that (`AtMostTwiceTheLimit`). A status event is about the
status stored when the handler refreshed, whichever request wrote it: two changes may
both announce the later one, and under the race of `tickets_forward` a request announces
an older status than it wrote. What does hold is that the status that stays is announced
(`StoredStatusAnnounced`).

### Bounds

- `tickets_*`: one ticket stored before (in any state) and one id per request, one or
  two customers, one agent, one or two contents. Three requests are enough for each pair
  of operations to overlap with a third that finishes in between, which is the shape of
  every race here: load, somebody else's commit, own commit.
- `cache_faults`: one ticket, two statuses, one customer, one filter; `MaxWrites` is 2, so
  that two writers overlap in every way, or one follows the other while a fill is under way.
- `paging_walk`: five tickets, pages of two, four commits: three pages, with an insertion
  or a removal before, between and after them. The theorems hold for any list, page size
  and number of commits.
- `webhooks_faults`: one event with its four attempts, two registrations, each registered at
  most once, two event types. Two overlapping delete requests (`Deleters`). Tasks of
  different events share only the registrations, and `notifications_faults` has two of them.
- `webhooks_every`: two registrations, one of which is deleted, are all it takes.
- `notifications_faults`: two requests, one registration, one delete request, two attempts;
  the stored ticket starts out open (`MCInit`), which two requests cannot use up.
- `rooms_races`: three clients, so that one can stall and one break off while the third must
  still hear; a ticket of each of two customers and an id without a ticket; one
  broadcast, because two share nothing but the clients they wait for.
- `accounts_races`: two registrations, so that each race on the index has its two sides;
  the seeded address and another one with two spellings; lifetimes of 2 and 3 ticks,
  a clock up to `MaxTime` 5, so that a login, its refresh token and an access token made
  at the last moment expire one after the other; `MaxTokens` 3 unexpired tokens;
  `MaxFaults` 2 failed starts or crashes.
- `pool_*`: a pool of three for three requests and a socket: tasks can hold everything
  with one request left waiting; `MaxPosts` 2 has a first POST, inside the transaction
  of the query, and a later one.
- `rate_faults`: limit 2, window of 3 ticks, three callers. `MaxCount` (limit + 2) saturates the
  counter, since beyond the limit all its values behave alike.

`CHECK_DEADLOCK FALSE` is set where every request may have been answered and nothing is
left to do. `RateLimit` never stops, and its deadlock check is on.

### Fairness

The event loop resumes a coroutine whose await has completed, and an await of
PostgreSQL or Redis completes or raises. So weak fairness of a handler's own steps is
justified: `Read`, `Invalidate`, `Proceed`, `Handle` and `Announce` of `Rooms`, `Handle`,
`Proceed` and `HandShake` of `ConnectionPool` (whoever waits for a connection gets one or
gives up). A backoff ends, so `Wake` is part of `Proceed`. The commands of the start end,
and `restart: unless-stopped` runs them again: `Start` of `Accounts`. Time passes:
`Expire` and `Tick`, and the keepalive ends a connection whose client never reads again.

No fairness is assumed of clients, of faults or crashes, nor of `Post`: the timeout of
httpx (`webhook_service.py:101`) is for each connect, read and write, so that a receiver
which sends its answer a few bytes at a time holds the POST for ever. `DispatchEnds` and
`EverybodyEnds` therefore except the task that is in one POST for good, and `Notices` the
notice that is out at such a receiver.

## 4. The proofs

Each `*Proofs` module proves what the runs check about its module for all values of the
constants: any sets of requests, accounts, tickets, connections and so on, any limit,
lifetime, capacity or number of attempts. Every one has the same shape: an inductive
invariant `Inv` (`IInv`, `AInv` in `TicketsProofs`, `WalkInv` for `Paging`) that was
model-checked on the run first; a lemma that `Init` implies it; one lemma per action (or per
group of actions that touch the same state) that the step keeps it; `Inductive`, which joins
them; `Invariance`; and then each property as a theorem read off the invariant.

| Module | Theorems (property of a run) |
|---|---|
| `TicketsProofs` | `TypeCorrect` (`TypeOK`), `NoOrphanComments` (`CommentsBelong`), `OpenIsLeftForGood` (`NeverReopened`), `RacesOnly` (`OnlyRacesBreakTheWorkflow`), `AcknowledgedLasts` (`AcknowledgedWritesLast`), `HandlersImplementWorkflow` (`ImplementsWorkflow`), `TheLastStatusIsTold` (`StoredStatusAnnounced`) |
| `ListProofs` | of `TicketCache`: `TypeCorrect` (`TypeOK`), `StalenessIsExplained` (`StalenessExplained`); of `Paging`: `SkipsAreExplained` (`SkipsExplained`), `RepeatsAreExplained` (`RepeatsExplained`), `QuietWalkShowsEachOnce` |
| `WebhooksProofs` | `TypeCorrect` (`TypeOK`), `NoOrphans` (`NoOrphanDeliveries`), `LogInOrder` (`AttemptsInOrder`), `DoneIsSettled` (`DoneMeansSettled`), `PostsAreLogged` (`AtMostOneUnlogged`), `StalePostsBounded` (`AtMostOneStalePost`) |
| `NotificationsProofs` | `OnlyTheAcknowledged` (`OnlyAcknowledgedIsPosted`), `EverySubscriberHears` (`SubscribersHear`), `ThePromiseIsKept` (the safety part of `ImplementsNotices`), `EachAsAlone` (the composition implements `Tickets` and `Webhooks`), `WhatWasToldStands` |
| `RateLimitProofs` | `TypeCorrect` (`TypeOK`), `TwiceTheLimitAtMost` (`AtMostTwiceTheLimit`), `EveryWindowEnds` (`WindowsEnd`) |
| `RoomsProofs` | `TypeCorrect` (`TypeOK`), `RoomsHoldListeners` (`RoomsAreListeners`), `NobodyElseHears` (`OnlyEntitledHear`), `EveryonePresentHears` (`PresentHear`) |
| `AccountsProofs` | `TypeCorrect` (`TypeOK`), `AddressesAreUnique` (`OneAccountPerAddress`), `SeedIsTheAgent` (`OnlySeedIsAgent`), `AnswersStayTrue` (`AnswersTrue`), `LoginsExpire` (`AccessEndsAfterLogin`) |
| `ConnectionPoolProofs` | `EverythingGivenBack` (`NothingLeaks`), `OnlyTasksHoldAndWait` (`HoldAndWaitOnlyInTasks`) |

### Assumptions

They are the ones the modules declare. Those about the system: ids of new rows are fresh
(random UUIDs), an account is a customer or an agent, the seeded address is stored as it is
configured and a normalised address stays as it is, limits, lifetimes and capacities are
positive, a request is no socket, the dashboard is no ticket, the ticket table and a list of
tickets are finite (`TableIsFinite`, `TimesAssumption`: they are counted). The rest is about
the marker `None`, which must not be a value of the data it stands beside (`NoneIsNoValue`,
`NoneIsNoJob`, `NoneIsNoAnswer`, `NoneIsNoWebhook`), and about the bounds of the model,
which are numbers. TLC evaluates every assumption on the runs. `Notifications` repeats the
assumptions of `Tickets` and `Webhooks`, because an instance brings its theorems with their
assumptions as hypotheses.

### The arguments

`Tickets`. The base is

    IInv == Held /\ IdsUnused /\ SameTicket /\ CommentsBelong,   Held == TypeOK /\ ChecksDone

`CommentsBelong` is not inductive: to see that a commit of a comment keeps it one must know
that its author was entitled to the *loaded* ticket (`ChecksDone`) and that the stored
ticket of that id has the same owner (`SameTicket`), which in turn needs that no request
inserts a row under an id somebody has loaded (`IdsUnused`). The types alone need
`ChecksDone` too: an edit stores its draft, and only NOT NULL keeps the null out.
`ReceiveSteps` sums up the handlers' checks, `WriteSteps` and `TicketWrites` what a step
may do to the tables, `Progress`, `Moves` and `Copies` what it may do to one request, so
that the later lemmas treat three kinds of write and not every action.

- `RacesOnly` has one argument per kind of write: a commit whose request was not overtaken
  writes what the workflow allows for the row it loaded (`FreshWrite`).
- `AcknowledgedLasts` adds to the invariant that a ticket some request is about vanishes only
  by a deletion that took place (`TicketsKnown`) and, because ids are not given twice, never
  returns (`StaysGone`); that a cascade holds comments of its own ticket only (`KidsOwn`), so
  that a comment goes only with its ticket; and the property itself from the commit on and
  not from the answer on (`WritesLast`).
- `HandlersImplementWorkflow` maps the rows held by requests between load and commit to
  `copies`: a request that passes its checks loads one (`HandleOnCopies`), a commit acts on
  the one it holds (`DecidedOnCopy`), and what one request does to the copies of a ticket
  leaves those of the others alone (`OthersStay`, `CopiesOf`).
- `TheLastStatusIsTold` needs no more than the invariant of `AcknowledgedLasts`: only the
  commit of a status change changes the status of a ticket that stays (`StatusWrites`), and
  makes its request the one who is accountable; until the next such commit its refresh
  reads what it wrote (`AfterStatusCommit`).

`TicketCache`. Staleness is explained only if the answers being *computed* are:
`ReadersExplained` says of a reader that no commit has passed by (`missed`) that its pieces
are what the queries would return now, or its key is still owed a clearing.
`ScansCached` ties what SCAN has returned to what is stored, so that an expired key is
owed by nobody.

`Paging`. A bound on what is counted at the end says nothing of a walk half way, so the
invariant counts what is already lost and what is already due:

    WalkInv == /\ WalkTypes
               /\ Cardinality(Skipped) <= Cardinality(Departures)
               /\ Cardinality(Repeats) + Cardinality(Again) <= Cardinality(Arrivals)

`Skipped` are the tickets never shown whose place the walk has passed, `Again` those shown
whose place it has not reached yet. Both change from one page to the next only by tickets that
moved beyond the place where the new page begins, up or down. The central lemma is
`FewMoveUp`: of a list `S` that has become `T`, no more tickets move from the places from k on to
the first k places than went from `S`. The newest of those that moved had at least k
tickets before it, all of which are before the oldest in `T` unless they went, and so are the
others that moved; but the oldest has fewer than k before it. The same lemma with `S` and `T`
exchanged is about those that moved down. `FirstPlaces` (by the least-element form
of induction, `LeastNumber`) says that every place holds one ticket, hence that a page with a
ticket after it is full (`FullPage`): when the walk is over, `Skipped` is all that was missed.
`QuietWalkShowsEachOnce` combines the two bounds.

`Webhooks`. `UnderWay` says what the log holds of the delivery that runs, `LeftBehind` what
of those that are over, `PostsExplained` which POST can be missing from it, `IdsKnown` that a
deleted registration does not come back. Together they make `AttemptsInOrder` inductive.

`Notifications`. The proof does not repeat the one of `Webhooks`: `NotificationsProofs` takes
an instance of `WebhooksProofs` (the substitution of `Hooks`), shows that each of its own steps
is one of that module's steps or leaves its variables alone (`SameDeliver` to `SameInit`), and
then uses its invariant and its step lemmas. To this it adds `HandedOver`, which ties
`scheduled` and the answer to the task and its event, and `EntitledReached`, which follows
an entitled webhook from the answer through the query to the task. `ThePromiseIsKept` shows
for each step which step of `Notices` it is.
In the same way it takes an instance of `TicketsProofs`: `SameHandlers` identifies the steps,
`HandlersLast` carries the invariant of `AcknowledgedLasts` over to the composition, and with
`OnlyTheAcknowledged` this gives `WhatWasToldStands`: a receiver is told of acknowledged writes
only, and these last, so what it was told stands until somebody deletes the ticket.

`RateLimit`. `WindowCounted` bounds two sums at once: with a time to live of `ttl`, the
youngest `WINDOW - ttl` ticks lie in this window and are counted by the counter, and all
`WINDOW` of them hold at most one limit more. The sum over ages is a recursive function,
and what it does when everything ages by a tick (`OlderAdds`) or a caller is let through needs
an induction. It is done with the least-element form of the library (`LeastNumber`): there is
no first age at which two tables of partial sums differ.

`Rooms`. Nothing in the broadcast looks at who may hear: `Authorised` keeps what the
handshake decided about everybody in a room, and `MeantFor` ties the snapshots to the
rooms they were taken from. `Reached` follows everybody who was present: sent to, pending, or
in the dashboard whose turn is still to come.

`Accounts`. `StartInOrder`: nobody is served before the seed is stored, and the seed is
committed only where its address is free, although the start can fail anywhere and begin
again. `AccountsTraced` and `RequestsTraced` tie the rows to the registrations; `TokensDated`
bounds the expiry of every token by the login it descends from, through refreshes.

`ConnectionPool`. `Holders` says at which places of its handler or task a session holds a
connection; the two properties are read off it. That the pool hands out no more than it
has is the guard `Free`, an assumption about SQLAlchemy, and no theorem.

### Only model-checked

- Liveness (`EventuallyFresh`, `DispatchEnds`, `LimitLifts`, `BroadcastEnds`, `ServesAgain`,
  `EverybodyEnds`, the fairness of `ImplementsNotices`): TLAPS does not prove it.
- The three documented statements that do not hold (`ForwardOnly`, `EveryRegistrationPosted`,
  `SubscribersAddNoLatency`).

## 5. Not modelled

- Reads without effect (`get_ticket`, `list_comments`, `list_webhooks`, deliveries).
- Schemas, settings, routing, API texts, columns and indexes, the downgrade: declarations.
  Constraints (unique, NOT NULL, foreign keys, lengths that answer 422) appear as guards
  where a handler depends on them.
- The n8n workflow: an external receiver.
- The order of two events of one ticket at its receivers and subscribers: no text promises
  one, and each event carries the whole ticket. For the same reason `Rooms` is not composed
  with `Tickets`: its broadcasts share nothing with the tables but the owner of a ticket.
- Signatures, payload formats, password hashing: pure functions of libraries.

## 6. Plan

Done, in this order: ticket writes with their abstract workflows and proofs; the cache;
webhooks; rate limiting; rooms; accounts; the connection pool; paging; the composition of
requests and webhook tasks with its abstract promise; the proofs of the safety properties
of all of these. Nothing of the plan is left open; what stays model-checked is liveness.
