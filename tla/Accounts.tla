------------------------------ MODULE Accounts ------------------------------
(***************************************************************************)
(* Accounts and tokens: the container's start (migrations, the seeding of   *)
(* the agent account, then the server), registrations racing on one e-mail  *)
(* address, and the access and refresh tokens that logins hand out.         *)
(***************************************************************************)
EXTENDS FiniteSets, Naturals

CONSTANTS
    Registrations,  \* calls of register; an account has its registration as id
    Typed,          \* e-mail addresses as people type them
    Normalised,     \* what EmailStr makes of an address
    SeedEmail,      \* SEED_AGENT_EMAIL
    Seed,           \* the id of the seeded account
    ACCESS,         \* lifetime of an access token, in ticks
    REFRESH,        \* lifetime of a refresh token
    MaxTime,        \* bound on the clock
    MaxTokens,      \* bound on the unexpired tokens
    MaxFaults,      \* bound on crashes and failed starts
    None

ASSUME NormalisedIsFinal ==
    /\ Normalised \in [Typed -> Typed]
    /\ \A a \in Typed : Normalised[Normalised[a]] = Normalised[a]
ASSUME SeedIsNormalised == SeedEmail \in Typed /\ Normalised[SeedEmail] = SeedEmail
ASSUME SeedIsNoRegistration == Seed \notin Registrations
ASSUME Lifetimes == ACCESS \in Nat \ {0} /\ REFRESH \in Nat \ {0}
ASSUME Bounds == MaxTime \in Nat /\ MaxTokens \in Nat /\ MaxFaults \in Nat

VARIABLES
    stage,     \* how far the container's start has come
    migrated,  \* whether the schema is at the head revision
    users,     \* the `users` table
    pc,        \* where each registration is, or how it was answered
    email,     \* the address it asks for, as validated
    now,       \* the clock
    tokens,    \* the tokens handed out; clients keep them across restarts
    seen,      \* the last request get_current_user let through
    faults     \* crashes and failed starts so far

vars == <<stage, migrated, users, pc, email, now, tokens, seen, faults>>
boot == <<stage, migrated, faults>>
clients == <<now, tokens, seen>>

Ids == Registrations \cup {Seed}
Addresses == {Normalised[a] : a \in Typed}
User == [id : Ids, email : Addresses, role : {"customer", "agent"}]

\* `login` is the time of the login a token descends from.
Token == [user : Ids, type : {"access", "refresh"}, login : Nat, expires : Nat]
Seen == [user : Ids, login : Nat, at : Nat]

Starting == {"migrate", "seed_check", "seed_commit", "lifespan"}
InFlight == {"commit", "refresh"}
Answers == {"created", "taken", "error", "lost"}

Init ==
    /\ stage = "migrate"
    /\ migrated = FALSE
    /\ users = {}
    /\ pc = [r \in Registrations |-> "new"]
    /\ email = [r \in Registrations |-> None]
    /\ now = 0
    /\ tokens = {}
    /\ seen = None
    /\ faults = 0

-------------------------------------------------------------------------------
(* The container's start: entrypoint.sh runs one command after the other. *)

Stored(a) == \E u \in users : u.email = a

Enter(place) == stage' = place /\ UNCHANGED <<pc, email, clients, faults>>

\* Faulty variant: the tables are created on every start; the second one fails.
MigrateFromScratch ==
    /\ stage = "migrate"
    /\ migrated' = TRUE
    /\ Enter(IF migrated THEN "migrate" ELSE "seed_check")
    /\ UNCHANGED users

\* All missing revisions in one transaction; nothing when there are none.
Migrate ==
    /\ stage = "migrate"
    /\ migrated' = TRUE
    /\ Enter("seed_check")
    /\ UNCHANGED users

\* Faulty variant: the server does not wait for the seed to be committed.
SeedInBackground ==
    /\ stage = "seed_check"
    /\ Enter("lifespan")
    /\ UNCHANGED <<migrated, users>>

SeedCheck ==
    /\ stage = "seed_check"
    /\ Enter(IF Stored(SeedEmail) THEN "lifespan" ELSE "seed_commit")
    /\ UNCHANGED <<migrated, users>>

SeedCommit ==
    /\ stage = "seed_commit"
    /\ users' = users \cup {[id |-> Seed, email |-> SeedEmail, role |-> "agent"]}
    /\ Enter("lifespan")
    /\ UNCHANGED migrated

\* The lifespan's ping of Redis was answered.
Serve ==
    /\ stage = "lifespan"
    /\ Enter("serving")
    /\ UNCHANGED <<migrated, users>>

\* A command of the start fails (`set -e`), or the process dies: the container is
\* started again, and what was being answered stays unanswered.
Fail ==
    /\ faults < MaxFaults
    /\ faults' = faults + 1
    /\ stage' = "migrate"
    /\ pc' = [r \in Registrations |-> IF pc[r] \in InFlight THEN "lost" ELSE pc[r]]
    /\ UNCHANGED <<migrated, users, email, clients>>

-------------------------------------------------------------------------------
(* register. *)

Goto(r, place) == pc' = [pc EXCEPT ![r] = place] /\ UNCHANGED <<boot, clients>>

\* Faulty variant: the address is kept as it was typed.
AsTyped(a) == a

Validated(a) == Normalised[a]

\* Faulty variant: an address counts as taken once any registration asked for it.
ReservedOrStored(a) == Stored(a) \/ \E s \in Registrations : email[s] = a

Taken(a) == Stored(a)

Register(r, a) ==
    /\ stage = "serving" /\ pc[r] = "new"
    /\ email' = [email EXCEPT ![r] = Validated(a)]
    /\ Goto(r, IF Taken(Validated(a)) THEN "taken" ELSE "commit")
    /\ UNCHANGED users

\* Faulty variant: no unique index.
NotIndexed(r) == FALSE

\* The unique index on users.email rejects the INSERT: 500.
RejectedInsert(r) == Stored(email[r])

CommitUser(r) ==
    /\ pc[r] = "commit"
    /\ \/ RejectedInsert(r) /\ Goto(r, "error") /\ UNCHANGED users
       \/ /\ ~RejectedInsert(r)
          /\ users' = users \cup {[id |-> r, email |-> email[r], role |-> "customer"]}
          /\ Goto(r, "refresh")
    /\ UNCHANGED email

\* No code deletes an account, so the refresh finds its row.
RefreshUser(r) ==
    /\ pc[r] = "refresh"
    /\ Goto(r, "created")
    /\ UNCHANGED <<users, email>>

DatabaseFails(r) ==
    /\ pc[r] \in InFlight
    /\ Goto(r, "error")
    /\ UNCHANGED <<users, email>>

-------------------------------------------------------------------------------
(* login, refresh and get_current_user; each is answered within a tick. *)

\* jwt.decode raises once the clock has reached `exp`.
Decodes(t) == now < t.expires

HandOut(new) ==
    /\ Cardinality({t \in tokens \cup new : Decodes(t)}) <= MaxTokens
    /\ tokens' = tokens \cup new
    /\ UNCHANGED <<boot, users, pc, email, now, seen>>

Create(u, t, start, lifetime) ==
    [user |-> u, type |-> t, login |-> start, expires |-> now + lifetime]

\* The right password of the account with exactly the address given.
Login(a, id) ==
    /\ stage = "serving"
    /\ \E u \in users : u.email = a /\ u.id = id
    /\ HandOut({Create(id, "access", now, ACCESS), Create(id, "refresh", now, REFRESH)})

\* Faulty variant: refresh does not look at the type of the token.
AnyType(t) == TRUE

MayRefresh(t) == t.type = "refresh"

\* Faulty variant: refresh renews the refresh token as well.
RenewBoth(t) ==
    {Create(t.user, "access", t.login, ACCESS), Create(t.user, "refresh", t.login, REFRESH)}

Renewed(t) == {Create(t.user, "access", t.login, ACCESS)}

Refresh(t) ==
    /\ stage = "serving"
    /\ Decodes(t) /\ MayRefresh(t)
    /\ \E u \in users : u.id = t.user
    /\ HandOut(Renewed(t))

\* get_current_user lets the request through, with the account as it is stored.
Authenticate(t) ==
    /\ stage = "serving"
    /\ Decodes(t) /\ t.type = "access"
    /\ \E u \in users : u.id = t.user
    /\ seen' = [user |-> t.user, login |-> t.login, at |-> now]
    /\ UNCHANGED <<boot, users, pc, email, now, tokens>>

Tick ==
    /\ now < MaxTime
    /\ now' = now + 1
    /\ UNCHANGED <<boot, users, pc, email, tokens, seen>>

Start == Migrate \/ SeedCheck \/ SeedCommit \/ Serve

Answer(r) == (\E a \in Typed : Register(r, a)) \/ CommitUser(r) \/ RefreshUser(r)

Next ==
    \/ Start \/ Fail \/ Tick
    \/ \E r \in Registrations : Answer(r) \/ DatabaseFails(r)
    \/ \E a \in Addresses, id \in Ids : Login(a, id)
    \/ \E t \in tokens : Refresh(t) \/ Authenticate(t)

Spec == Init /\ [][Next]_vars

\* The commands of the start end, and the restart policy starts them again.
FairSpec == Spec /\ WF_vars(Start)

-------------------------------------------------------------------------------
(* Properties. *)

\* Types of the table, the requests and the tokens; stored addresses are the ones
\* EmailStr leaves as they are.
TypeOK ==
    /\ stage \in Starting \cup {"serving"}
    /\ migrated \in BOOLEAN
    /\ users \subseteq User
    /\ pc \in [Registrations -> {"new"} \cup InFlight \cup Answers]
    /\ email \in [Registrations -> Addresses \cup {None}]
    /\ now \in Nat
    /\ tokens \subseteq Token
    /\ seen \in Seen \cup {None}
    /\ faults \in 0..MaxFaults

\* Registrations that passed the check for the same address at the same time, and a
\* seed that was cut short and run again, leave one account per address.
OneAccountPerAddress == \A u, v \in users : u.email = v.email => u = v

\* Whoever registers first and however often the container dies while it starts,
\* once it serves the agent is the seeded account and nobody else is one.
OnlySeedIsAgent ==
    /\ \A u \in users : u.role = "agent" <=> u.email = SeedEmail
    /\ stage = "serving" => Stored(SeedEmail)

\* A registration is answered 201 only for the account it stored and 409 only for an
\* address that somebody else has, and stays true across crashes.
AnswersTrue ==
    \A r \in Registrations :
       /\ pc[r] = "created" =>
             [id |-> r, email |-> email[r], role |-> "customer"] \in users
       /\ pc[r] = "taken" => \E u \in users : u.email = email[r] /\ u.id # r

\* No chain of refreshes keeps a login alive: a request is let through only before
\* both lifetimes, one after the other, have passed since a login of its user.
AccessEndsAfterLogin == seen # None => seen.at < seen.login + REFRESH + ACCESS

\* The start never gets stuck on what an earlier start left behind: once the faults
\* are over the service comes back for good.
ServesAgain == <>[](stage = "serving")
===============================================================================
