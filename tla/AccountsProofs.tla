---------------------------- MODULE AccountsProofs ----------------------------
(***************************************************************************)
(* Proofs about Accounts, for any registrations, addresses and lifetimes.   *)
(***************************************************************************)
EXTENDS Accounts, TLAPS

-------------------------------------------------------------------------------
(* The inductive invariant. *)

\* Requests are answered only while the server runs, and it runs, or is about to, only
\* once the seeded account is stored; the seed is committed only if it was missing.
StartInOrder ==
    /\ \A r \in Registrations : pc[r] \in InFlight => stage = "serving"
    /\ stage \in {"lifespan", "serving"} => Stored(SeedEmail)
    /\ stage = "seed_commit" => ~Stored(SeedEmail)

\* An account that is not the seed is that of a registration which committed it.
AccountsTraced ==
    \A u \in users :
       \/ u = [id |-> Seed, email |-> SeedEmail, role |-> "agent"]
       \/ /\ u.id \in Registrations /\ u.role = "customer" /\ u.email # SeedEmail
          /\ pc[u.id] \in {"refresh", "created", "error", "lost"}
          /\ u.email = email[u.id]

\* What a registration under way or answered asked for, and what it has stored.
RequestsTraced ==
    \A r \in Registrations :
       /\ pc[r] \in {"commit", "refresh"} => email[r] \in Addresses
       /\ pc[r] \in {"refresh", "created"} =>
             [id |-> r, email |-> email[r], role |-> "customer"] \in users
       /\ pc[r] = "taken" => Stored(email[r])

\* A refresh token lives for REFRESH after the login, an access token for ACCESS after
\* a refresh token that was still alive.
TokensDated ==
    \A t \in tokens :
       t.expires <= t.login + REFRESH + (IF t.type = "access" THEN ACCESS ELSE 0)

Inv ==
    /\ TypeOK /\ OneAccountPerAddress /\ AccessEndsAfterLogin
    /\ StartInOrder /\ AccountsTraced /\ RequestsTraced /\ TokensDated

\* seed.py's account is a row the table may hold.
LEMMA SeedIsStorable ==
    /\ SeedEmail \in Addresses
    /\ [id |-> Seed, email |-> SeedEmail, role |-> "agent"] \in User
  BY SeedIsNormalised DEF Addresses, User, Ids

\* An empty table, a container about to start and no token satisfy the invariant.
LEMMA InitialInv == Init => Inv
  <1> SUFFICES ASSUME Init PROVE Inv
    OBVIOUS
  <1>1. TypeOK
    <2>1. migrated \in BOOLEAN
      BY DEF Init
    <2>2. seen \in Seen \cup {None} /\ 0 \in 0..MaxFaults
      BY Bounds DEF Init
    <2> QED
      BY <2>1, <2>2 DEF Init, TypeOK, Starting
  <1>2. StartInOrder
    BY DEF Init, StartInOrder, InFlight
  <1>3. RequestsTraced
    BY DEF Init, RequestsTraced
  <1> QED
    BY <1>1, <1>2, <1>3
    DEF Init, Inv, OneAccountPerAddress, AccessEndsAfterLogin, AccountsTraced, TokensDated

\* entrypoint.sh's commands keep the invariant: the seed is inserted only where its
\* address is not taken, and nobody is served before.
LEMMA StartStep ==
    ASSUME Inv, Start
    PROVE  Inv'
  <1> USE DEF Inv, Enter, clients
  <1>1. CASE Migrate \/ SeedCheck \/ Serve
    <2>1. UNCHANGED <<users, pc, email, now, tokens, seen, faults>>
      BY <1>1 DEF Migrate, SeedCheck, Serve
    <2>2. TypeOK' /\ StartInOrder'
      BY <1>1 DEF TypeOK, StartInOrder, Migrate, SeedCheck, Serve, Starting, Stored
    <2> QED
      BY <2>1, <2>2
      DEF OneAccountPerAddress, AccessEndsAfterLogin, AccountsTraced, RequestsTraced,
          TokensDated, Stored
  <1>2. CASE SeedCommit
    <2> USE <1>2 DEF SeedCommit
    <2>1. TypeOK'
      BY SeedIsStorable DEF TypeOK, Starting
    <2>2. OneAccountPerAddress' /\ AccountsTraced'
      BY DEF OneAccountPerAddress, AccountsTraced, StartInOrder, Stored
    <2> DEFINE agent == [id |-> Seed, email |-> SeedEmail, role |-> "agent"]
    <2>3. StartInOrder'
      <3>1. agent \in users' /\ agent.email = SeedEmail
        OBVIOUS
      <3>2. stage = "seed_commit" /\ stage' = "lifespan" /\ pc' = pc
        OBVIOUS
      <3> QED
        BY <3>1, <3>2 DEF StartInOrder, Stored
    <2>4. AccessEndsAfterLogin' /\ RequestsTraced' /\ TokensDated'
      BY DEF AccessEndsAfterLogin, RequestsTraced, TokensDated, Stored
    <2> QED
      BY <2>1, <2>2, <2>3, <2>4
  <1> QED
    BY <1>1, <1>2 DEF Start

\* A start or process that ends loses the requests and neither the table nor the tokens.
LEMMA FailStep ==
    ASSUME Inv, Fail
    PROVE  Inv'
  <1> USE DEF Inv, Fail, clients
  <1>1. TypeOK'
    BY Bounds DEF TypeOK, Starting, InFlight, Answers
  <1>2. StartInOrder' /\ AccountsTraced' /\ RequestsTraced'
    BY DEF TypeOK, StartInOrder, AccountsTraced, RequestsTraced, InFlight, Stored
  <1>3. OneAccountPerAddress' /\ AccessEndsAfterLogin' /\ TokensDated'
    BY DEF OneAccountPerAddress, AccessEndsAfterLogin, TokensDated
  <1> QED
    BY <1>1, <1>2, <1>3

\* register up to its commit writes nothing; 409 is about a row that exists.
LEMMA RegisterStep ==
    ASSUME Inv, NEW r \in Registrations, NEW a \in Typed, Register(r, a)
    PROVE  Inv'
  <1> USE DEF Inv, Register, Goto, boot, clients
  <1>1. Validated(a) \in Addresses
    BY DEF Validated, Addresses
  <1>2. TypeOK'
    BY <1>1 DEF TypeOK, InFlight, Answers
  <1>3. StartInOrder' /\ AccountsTraced' /\ RequestsTraced'
    BY <1>1 DEF TypeOK, StartInOrder, AccountsTraced, RequestsTraced, InFlight, Stored, Taken
  <1>4. OneAccountPerAddress' /\ AccessEndsAfterLogin' /\ TokensDated'
    BY DEF OneAccountPerAddress, AccessEndsAfterLogin, TokensDated
  <1> QED
    BY <1>2, <1>3, <1>4

\* The unique index decides between two registrations of one address.
LEMMA CommitStep ==
    ASSUME Inv, NEW r \in Registrations, CommitUser(r)
    PROVE  Inv'
  <1> USE DEF Inv, CommitUser, Goto, boot, clients
  <1>1. AccessEndsAfterLogin' /\ TokensDated'
    BY DEF AccessEndsAfterLogin, TokensDated
  <1>2. CASE RejectedInsert(r)
    <2>1. UNCHANGED users /\ pc' = [pc EXCEPT ![r] = "error"]
      BY <1>2
    <2>2. TypeOK' /\ StartInOrder' /\ OneAccountPerAddress'
      BY <2>1 DEF TypeOK, StartInOrder, OneAccountPerAddress, InFlight, Answers, Stored
    <2>3. AccountsTraced' /\ RequestsTraced'
      BY <2>1 DEF TypeOK, AccountsTraced, RequestsTraced, Stored
    <2> QED
      BY <1>1, <2>2, <2>3
  <1>3. CASE ~RejectedInsert(r)
    <2> DEFINE new == [id |-> r, email |-> email[r], role |-> "customer"]
    <2>1. users' = users \cup {new} /\ pc' = [pc EXCEPT ![r] = "refresh"]
      BY <1>3
    <2>2. new \in User /\ ~Stored(email[r]) /\ email[r] # SeedEmail
      BY <1>3 DEF User, Ids, RequestsTraced, StartInOrder, InFlight, RejectedInsert
    <2>3. TypeOK' /\ StartInOrder' /\ OneAccountPerAddress'
      BY <2>1, <2>2
      DEF TypeOK, StartInOrder, OneAccountPerAddress, InFlight, Answers, Stored
    <2>4. AccountsTraced' /\ RequestsTraced'
      BY <2>1, <2>2 DEF TypeOK, AccountsTraced, RequestsTraced, Stored
    <2> QED
      BY <1>1, <2>3, <2>4
  <1> QED
    BY <1>2, <1>3

\* An answer 201 follows the request's own row.
LEMMA AnswerStep ==
    ASSUME Inv, NEW r \in Registrations, RefreshUser(r) \/ DatabaseFails(r)
    PROVE  Inv'
  <1> USE DEF Inv, RefreshUser, DatabaseFails, Goto, boot, clients, InFlight
  <1>1. TypeOK' /\ StartInOrder' /\ OneAccountPerAddress'
    BY DEF TypeOK, StartInOrder, OneAccountPerAddress, Answers, Stored
  <1>2. AccountsTraced' /\ RequestsTraced'
    BY DEF TypeOK, AccountsTraced, RequestsTraced, Stored
  <1>3. AccessEndsAfterLogin' /\ TokensDated'
    BY DEF AccessEndsAfterLogin, TokensDated
  <1> QED
    BY <1>1, <1>2, <1>3

\* What only tokens, the clock and `seen` decide.
LEMMA ClientStep ==
    ASSUME Inv, UNCHANGED <<boot, users, pc, email>>,
           TypeOK', AccessEndsAfterLogin', TokensDated'
    PROVE  Inv'
  BY DEF Inv, OneAccountPerAddress, StartInOrder, AccountsTraced, RequestsTraced, Stored, boot

\* New tokens that expire early enough after their login keep the invariant.
LEMMA HandOutStep ==
    ASSUME Inv, NEW new \in SUBSET Token, HandOut(new),
           \A t \in new :
              t.expires <= t.login + REFRESH + (IF t.type = "access" THEN ACCESS ELSE 0)
    PROVE  Inv'
  <1>1. TypeOK' /\ AccessEndsAfterLogin' /\ TokensDated'
    BY DEF Inv, HandOut, boot, TypeOK, AccessEndsAfterLogin, TokensDated
  <1> QED
    BY <1>1, ClientStep DEF HandOut

\* A login dates its two tokens from now.
LEMMA LoginStep ==
    ASSUME Inv, NEW a \in Addresses, NEW id \in Ids, Login(a, id)
    PROVE  Inv'
  <1> DEFINE access == Create(id, "access", now, ACCESS)
             refresh == Create(id, "refresh", now, REFRESH)
  <1>1. {access, refresh} \in SUBSET Token
    BY Lifetimes DEF Inv, TypeOK, Token, Create
  <1>2. \A t \in {access, refresh} :
           t.expires <= t.login + REFRESH + (IF t.type = "access" THEN ACCESS ELSE 0)
    BY Lifetimes DEF Inv, TypeOK, Create
  <1>3. HandOut({access, refresh})
    BY DEF Login
  <1> QED
    BY <1>1, <1>2, <1>3, HandOutStep

\* Tokens got by a refresh are dated from the login of the token they were got with.
LEMMA RefreshStep ==
    ASSUME Inv, NEW t \in tokens, Refresh(t)
    PROVE  Inv'
  <1> DEFINE access == Create(t.user, "access", t.login, ACCESS)
  <1>1. t \in Token /\ now < t.expires /\ t.expires <= t.login + REFRESH
    BY Lifetimes DEF Inv, TypeOK, TokensDated, Token, Refresh, Decodes, MayRefresh
  <1>2. access \in Token
    BY <1>1, Lifetimes DEF Inv, TypeOK, Token, Create
  <1>3. access.expires <= access.login + REFRESH + ACCESS /\ access.type = "access"
    BY <1>1, Lifetimes DEF Inv, TypeOK, Token, Create
  <1>4. HandOut({access})
    BY DEF Refresh, Renewed
  <1> QED
    BY <1>2, <1>3, <1>4, HandOutStep

\* Whoever is authenticated now logged in less than two lifetimes ago.
LEMMA AuthenticateStep ==
    ASSUME Inv, NEW t \in tokens, Authenticate(t)
    PROVE  Inv'
  <1>1. t \in Token /\ now < t.expires /\ t.expires <= t.login + REFRESH + ACCESS
    BY Lifetimes DEF Inv, TypeOK, TokensDated, Token, Authenticate, Decodes
  <1>2. TypeOK' /\ TokensDated'
    BY <1>1 DEF Inv, TypeOK, TokensDated, Authenticate, boot, Seen, Token
  <1>3. AccessEndsAfterLogin'
    BY <1>1, Lifetimes DEF Inv, TypeOK, AccessEndsAfterLogin, Authenticate, Token
  <1> QED
    BY <1>2, <1>3, ClientStep DEF Authenticate

\* As time passes the record of the longest access stays what it is.
LEMMA TickStep ==
    ASSUME Inv, Tick
    PROVE  Inv'
  <1>1. TypeOK' /\ AccessEndsAfterLogin' /\ TokensDated'
    BY DEF Inv, TypeOK, AccessEndsAfterLogin, TokensDated, Tick, boot
  <1> QED
    BY <1>1, ClientStep DEF Tick

\* Every step of the system keeps the invariant.
LEMMA Inductive == Inv /\ [Next]_vars => Inv'
  <1> SUFFICES ASSUME Inv, [Next]_vars PROVE Inv'
    OBVIOUS
  <1>1. ASSUME NEW r \in Registrations, Answer(r) \/ DatabaseFails(r) PROVE Inv'
    BY <1>1, RegisterStep, CommitStep, AnswerStep DEF Answer
  <1>2. CASE UNCHANGED vars
    BY <1>2, ClientStep
    DEF vars, boot, Inv, TypeOK, AccessEndsAfterLogin, TokensDated
  <1> QED
    BY <1>1, <1>2, StartStep, FailStep, LoginStep, RefreshStep, AuthenticateStep, TickStep
    DEF Next

\* The invariant holds in every behaviour of the start, the requests and the tokens.
THEOREM Invariance == Spec => []Inv
  BY InitialInv, Inductive, PTL DEF Spec

-------------------------------------------------------------------------------
(* The properties. *)

\* The table, the requests and the tokens keep their types.
THEOREM TypeCorrect == Spec => []TypeOK
  <1>1. Inv => TypeOK
    BY DEF Inv
  <1> QED
    BY <1>1, Invariance, PTL

\* Racing registrations and repeated seeds leave one account per address.
THEOREM AddressesAreUnique == Spec => []OneAccountPerAddress
  <1>1. Inv => OneAccountPerAddress
    BY DEF Inv
  <1> QED
    BY <1>1, Invariance, PTL

\* Whoever serves, the agent is the seeded account and nobody else is one.
THEOREM SeedIsTheAgent == Spec => []OnlySeedIsAgent
  <1>1. Inv => OnlySeedIsAgent
    BY DEF Inv, OnlySeedIsAgent, AccountsTraced, StartInOrder
  <1> QED
    BY <1>1, Invariance, PTL

\* 201 and 409 tell what the table holds, and stay true.
THEOREM AnswersStayTrue == Spec => []AnswersTrue
  <1>1. Inv => AnswersTrue
    <2> SUFFICES ASSUME Inv, NEW r \in Registrations, pc[r] = "taken"
                 PROVE  \E u \in users : u.email = email[r] /\ u.id # r
      BY DEF Inv, AnswersTrue, RequestsTraced
    <2>1. PICK u \in users : u.email = email[r]
      BY DEF Inv, RequestsTraced, Stored
    <2>2. u.id = Seed \/ pc[u.id] # "taken"
      BY DEF Inv, AccountsTraced
    <2>3. u.id # r
      BY <2>2, SeedIsNoRegistration
    <2> QED
      BY <2>1, <2>3
  <1> QED
    BY <1>1, Invariance, PTL

\* However often it is refreshed, a login lets requests through only for as long as
\* both lifetimes together.
THEOREM LoginsExpire == Spec => []AccessEndsAfterLogin
  <1>1. Inv => AccessEndsAfterLogin
    BY DEF Inv
  <1> QED
    BY <1>1, Invariance, PTL

===============================================================================
