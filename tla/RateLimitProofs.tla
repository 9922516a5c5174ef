---------------------------- MODULE RateLimitProofs ----------------------------
(***************************************************************************)
(* Proofs about RateLimit, for any callers, limit, length of a window and   *)
(* saturation of the counter.                                               *)
(***************************************************************************)
EXTENDS RateLimit, WellFoundedInduction, TLAPS

-------------------------------------------------------------------------------
(* The inductive invariant. *)

Lesser(m, n) == IF m <= n THEN m ELSE n

\* One caller at a time is to set the time to live, of a counter that has none; a
\* counter without one has such a caller, or had one that failed.
OneExpiring ==
    /\ \A c, d \in Callers : pc[c] = "expire" /\ pc[d] = "expire" => c = d
    /\ \A c \in Callers : pc[c] = "expire" => count > 0 /\ ttl = 0
    /\ count > 0 /\ ttl = 0 => lost \/ \E c \in Callers : pc[c] = "expire"
    /\ ttl > 0 => count > 0

\* What this window has let through is in the counter; since its time to live was
\* set, nothing else is young enough to be counted when it ends.
WindowCounted ==
    /\ Youngest(recent)[WINDOW] <= LIMIT + Lesser(count, LIMIT)
    /\ ttl > 0 => Youngest(recent)[WINDOW - ttl] <= Lesser(count, LIMIT)

Inv == TypeOK /\ OneExpiring /\ WindowCounted

-------------------------------------------------------------------------------
(* Sums over the youngest ticks. *)

Ages == 0..(WINDOW - 1)

\* A set of numbers that is not empty has a least one: the form of induction used here.
LEMMA LeastNumber ==
    ASSUME NEW T \in SUBSET Nat, T # {}
    PROVE  \E m \in T : \A n \in T : m <= n
  <1> DEFINE R == {ss \in Nat \X Nat : ss[1] < ss[2]}
  <1>1. IsWellFoundedOn(R, Nat)
    BY NatLessThanWellFounded DEF OpToRel
  <1>2. \A m, n \in Nat : n < m => <<n, m>> \in R
    OBVIOUS
  <1>3. PICK m \in T : \A n \in T : <<n, m>> \notin R
    <2> HIDE DEF R
    <2> QED
      BY <1>1, WFMin
  <1> HIDE DEF R
  <1>4. \A n \in T : ~(n < m)
    BY <1>2, <1>3
  <1> QED
    BY <1>4

\* s adds up f, age by age.
Adds(s, f, n) == s[0] = 0 /\ \A i \in 1..n : s[i] = s[i - 1] + f[i - 1]

\* The partial sums of a table of counts exist: there is no first one missing.
LEMMA SumsExist ==
    ASSUME NEW f \in [Ages -> Nat]
    PROVE  \E s \in [0..WINDOW -> Nat] : Adds(s, f, WINDOW)
  <1> DEFINE Missing == {n \in 0..WINDOW : ~\E s \in [0..n -> Nat] : Adds(s, f, n)}
  <1>1. SUFFICES ASSUME Missing # {}
        PROVE  FALSE
    BY LimitAssumption
  <1>2. PICK m \in Missing : \A n \in Missing : m <= n
    <2>1. Missing \in SUBSET Nat
      BY LimitAssumption
    <2> HIDE DEF Missing
    <2> QED
      BY <1>1, <2>1, LeastNumber
  <1>3. CASE m = 0
    <2>1. [i \in 0..0 |-> 0] \in [0..0 -> Nat] /\ Adds([i \in 0..0 |-> 0], f, 0)
      BY DEF Adds
    <2> QED
      BY <1>2, <1>3, <2>1
  <1>4. CASE m > 0
    <2>1. m - 1 \in 0..WINDOW /\ m - 1 \notin Missing
      BY <1>2, <1>4, LimitAssumption
    <2>2. PICK s \in [0..(m - 1) -> Nat] : Adds(s, f, m - 1)
      BY <2>1
    <2> DEFINE new == [i \in 0..m |-> IF i = m THEN s[m - 1] + f[m - 1] ELSE s[i]]
    <2>3. f[m - 1] \in Nat /\ s[m - 1] \in Nat
      BY <1>2, <1>4, LimitAssumption DEF Ages
    <2>4. new \in [0..m -> Nat]
      BY <1>2, <1>4, <2>3
    <2>5. Adds(new, f, m)
      BY <1>2, <1>4, <2>2 DEF Adds
    <2> QED
      BY <1>2, <2>4, <2>5
  <1> QED
    BY <1>2, <1>3, <1>4

\* Two tables of partial sums agree: there is no first difference.
LEMMA SumsUnique ==
    ASSUME NEW f \in [Ages -> Nat], NEW s \in [0..WINDOW -> Nat], NEW t,
           Adds(s, f, WINDOW), Adds(t, f, WINDOW)
    PROVE  \A n \in 0..WINDOW : s[n] = t[n]
  <1> DEFINE Different == {n \in 0..WINDOW : s[n] # t[n]}
  <1>1. SUFFICES ASSUME Different # {}
        PROVE  FALSE
    OBVIOUS
  <1>2. PICK m \in Different : \A n \in Different : m <= n
    <2>1. Different \in SUBSET Nat
      BY LimitAssumption
    <2> HIDE DEF Different
    <2> QED
      BY <1>1, <2>1, LeastNumber
  <1>3. m > 0 /\ m - 1 \in 0..WINDOW /\ m - 1 \notin Different
    BY <1>2, LimitAssumption DEF Adds
  <1> QED
    BY <1>2, <1>3 DEF Adds

\* What Youngest(f) is.
LEMMA YoungestAdds ==
    ASSUME NEW f \in [Ages -> Nat]
    PROVE  Youngest(f) \in [0..WINDOW -> Nat] /\ Adds(Youngest(f), f, WINDOW)
  <1>1. PICK s \in [0..WINDOW -> Nat] : Adds(s, f, WINDOW)
    BY SumsExist
  <1>2. s = [n \in 0..WINDOW |-> IF n = 0 THEN 0 ELSE s[n - 1] + f[n - 1]]
    BY <1>1 DEF Adds
  <1>3. Youngest(f)
           = [n \in 0..WINDOW |-> IF n = 0 THEN 0 ELSE Youngest(f)[n - 1] + f[n - 1]]
    BY <1>2 DEF Youngest
  <1>4. Adds(Youngest(f), f, WINDOW)
    BY <1>3, LimitAssumption DEF Adds
  <1>5. \A n \in 0..WINDOW : s[n] = Youngest(f)[n]
    BY <1>1, <1>4, SumsUnique
  <1> QED
    BY <1>3, <1>4, <1>5

\* Whatever adds up f is Youngest(f).
LEMMA YoungestIs ==
    ASSUME NEW f \in [Ages -> Nat], NEW t, Adds(t, f, WINDOW)
    PROVE  \A n \in 0..WINDOW : Youngest(f)[n] = t[n]
  <1> DEFINE s == Youngest(f)
  <1>1. s \in [0..WINDOW -> Nat] /\ Adds(s, f, WINDOW)
    BY YoungestAdds
  <1> HIDE DEF s
  <1>2. \A n \in 0..WINDOW : s[n] = t[n]
    BY <1>1, SumsUnique
  <1> QED
    BY <1>2 DEF s

\* The sums of `recent` itself.
LEMMA RecentAdds ==
    ASSUME TypeOK
    PROVE  /\ Youngest(recent) \in [0..WINDOW -> Nat]
           /\ Adds(Youngest(recent), recent, WINDOW)
  BY YoungestAdds DEF TypeOK, Ages

\* One more request in the youngest tick counts in every sum but the empty one.
LEMMA OneMoreAdds ==
    ASSUME TypeOK, NEW g, g = [recent EXCEPT ![0] = @ + 1]
    PROVE  \A n \in 0..WINDOW :
              Youngest(g)[n] = Youngest(recent)[n] + (IF n = 0 THEN 0 ELSE 1)
  <1>1. g \in [Ages -> Nat] /\ \A i \in Ages : g[i] = recent[i] + (IF i = 0 THEN 1 ELSE 0)
    BY LimitAssumption DEF TypeOK, Ages
  <1> DEFINE s == Youngest(recent)
             t == [n \in 0..WINDOW |-> s[n] + (IF n = 0 THEN 0 ELSE 1)]
  <1>2. s \in [0..WINDOW -> Nat] /\ Adds(s, recent, WINDOW)
    BY RecentAdds
  <1>3. recent \in [Ages -> Nat]
    BY DEF TypeOK, Ages
  <1>4. Adds(t, g, WINDOW)
    <2> HIDE DEF s
    <2>1. t[0] = 0
      BY <1>2, LimitAssumption DEF Adds
    <2>2. \A i \in 1..WINDOW : t[i] = t[i - 1] + g[i - 1]
      <3> TAKE i \in 1..WINDOW
      <3>1. i - 1 \in Ages /\ i \in 0..WINDOW /\ i - 1 \in 0..WINDOW /\ i # 0
        BY LimitAssumption DEF Ages
      <3>2. /\ s[i] = s[i - 1] + recent[i - 1]
            /\ g[i - 1] = recent[i - 1] + (IF i - 1 = 0 THEN 1 ELSE 0)
            /\ s[i - 1] \in Nat /\ recent[i - 1] \in Nat
        BY <1>1, <1>2, <1>3, <3>1 DEF Adds
      <3>3. t[i] = s[i] + 1 /\ t[i - 1] = s[i - 1] + (IF i - 1 = 0 THEN 0 ELSE 1)
        BY <3>1
      <3> HIDE DEF t
      <3> QED
        BY <3>2, <3>3
    <2> QED
      BY <2>1, <2>2 DEF Adds
  <1>5. \A n \in 0..WINDOW : Youngest(g)[n] = t[n]
    <2> HIDE DEF t
    <2> QED
      BY <1>1, <1>4, YoungestIs
  <1> QED
    BY <1>5

\* A tick makes every request a tick older.
LEMMA OlderAdds ==
    ASSUME TypeOK
    PROVE  \A n \in 0..WINDOW :
              Youngest(Older)[n] = IF n = 0 THEN 0 ELSE Youngest(recent)[n - 1]
  <1>1. Older \in [Ages -> Nat]
    BY LimitAssumption DEF TypeOK, Ages, Older
  <1> DEFINE s == Youngest(recent)
             t == [n \in 0..WINDOW |-> IF n = 0 THEN 0 ELSE s[n - 1]]
  <1>2. s \in [0..WINDOW -> Nat] /\ Adds(s, recent, WINDOW)
    BY RecentAdds
  <1>3. Adds(t, Older, WINDOW)
    <2> HIDE DEF s
    <2> QED
      BY <1>2, LimitAssumption DEF Adds, TypeOK, Older
  <1>4. \A n \in 0..WINDOW : Youngest(Older)[n] = t[n]
    <2> HIDE DEF t
    <2> QED
      BY <1>1, <1>3, YoungestIs
  <1> QED
    BY <1>4

-------------------------------------------------------------------------------
(* The invariant holds. *)

\* Without a counter and without callers the invariant holds.
LEMMA InitialInv == Init => Inv
  <1> SUFFICES ASSUME Init PROVE Inv
    OBVIOUS
  <1>1. TypeOK
    <2>1. lost \in BOOLEAN
      BY DEF Init
    <2> QED
      BY <2>1, LimitAssumption, SaturationAssumption DEF Init, TypeOK
  <1>2. OneExpiring
    BY DEF Init, OneExpiring
  <1> DEFINE zero == [n \in 0..WINDOW |-> 0]
  <1>3. recent \in [Ages -> Nat] /\ Adds(zero, recent, WINDOW)
    BY LimitAssumption DEF Init, Ages, Adds
  <1>4. Youngest(recent)[WINDOW] = zero[WINDOW]
    <2> HIDE DEF zero
    <2> QED
      BY <1>3, YoungestIs, LimitAssumption
  <1>5. WindowCounted
    BY <1>4, LimitAssumption DEF Init, WindowCounted, Lesser
  <1> QED
    BY <1>1, <1>2, <1>5 DEF Inv

\* An admitted request is counted where it is added.
LEMMA AdmittedIsCounted ==
    ASSUME TypeOK, WindowCounted, count + 1 <= LIMIT,
           NEW g, g = [recent EXCEPT ![0] = @ + 1]
    PROVE  /\ Youngest(g)[WINDOW] <= LIMIT + Lesser(count + 1, LIMIT)
           /\ ttl > 0 => Youngest(g)[WINDOW - ttl] <= Lesser(count + 1, LIMIT)
  <1> USE LimitAssumption
  <1> DEFINE s == Youngest(recent)
  <1>1. s \in [0..WINDOW -> Nat]
    BY RecentAdds
  <1>2. \A n \in 0..WINDOW : Youngest(g)[n] \in Nat /\ Youngest(g)[n] <= s[n] + 1
    <2> TAKE n \in 0..WINDOW
    <2>1. Youngest(g)[n] = s[n] + (IF n = 0 THEN 0 ELSE 1)
      BY OneMoreAdds
    <2>2. s[n] \in Nat
      BY <1>1
    <2> HIDE DEF s
    <2>3. CASE n = 0
      BY <2>1, <2>2, <2>3
    <2>4. CASE n # 0
      BY <2>1, <2>2, <2>4
    <2> QED
      BY <2>3, <2>4
  <1>3. count \in Nat /\ ttl \in 0..WINDOW
    BY DEF TypeOK
  <1>4. Lesser(count, LIMIT) = count /\ Lesser(count + 1, LIMIT) = count + 1
    BY <1>3 DEF Lesser
  <1>5. s[WINDOW] <= LIMIT + count /\ (ttl > 0 => s[WINDOW - ttl] <= count)
    BY <1>4 DEF WindowCounted
  <1> HIDE DEF s
  <1>6. Youngest(g)[WINDOW] <= LIMIT + count + 1
    <2>0. WINDOW \in 0..WINDOW
      OBVIOUS
    <2>1. Youngest(g)[WINDOW] \in Nat /\ Youngest(g)[WINDOW] <= s[WINDOW] + 1
      BY <1>2, <2>0
    <2>2. s[WINDOW] \in Nat
      BY <1>1
    <2> QED
      BY <1>3, <1>5, <2>1, <2>2
  <1>7. ASSUME ttl > 0 PROVE Youngest(g)[WINDOW - ttl] <= count + 1
    <2>1. WINDOW - ttl \in 0..WINDOW
      BY <1>3, <1>7
    <2>2. s[WINDOW - ttl] \in Nat
      BY <1>1, <2>1
    <2>3. /\ Youngest(g)[WINDOW - ttl] \in Nat
          /\ Youngest(g)[WINDOW - ttl] <= s[WINDOW - ttl] + 1
      BY <1>2, <2>1
    <2> QED
      BY <1>3, <1>5, <1>7, <2>2, <2>3
  <1> QED
    BY <1>3, <1>4, <1>6, <1>7

\* INCR counts the caller in the window, and the first one becomes its owner.
LEMMA IncrStep ==
    ASSUME Inv, NEW c \in Callers, Incr(c)
    PROVE  Inv'
  <1> USE LimitAssumption, SaturationAssumption DEF Inv
  <1> DEFINE n == IF count < MaxCount THEN count + 1 ELSE count
  <1>0. n \in 1..MaxCount /\ count \in Nat /\ n >= count /\ (n = 1 <=> count = 0)
    BY DEF TypeOK
  <1>1. TypeOK'
    BY <1>0 DEF TypeOK, Admits, Incr, Goto
  <1>2. OneExpiring'
    BY <1>0 DEF TypeOK, OneExpiring, Incr, Goto, SetsExpiry
  <1>3. WindowCounted'
    <2>1. CASE Admits(n)
      <3>1. /\ count + 1 <= LIMIT /\ count' = count + 1 /\ ttl' = ttl
            /\ recent' = [recent EXCEPT ![0] = @ + 1]
        BY <1>0, <2>1 DEF Admits, Incr, TypeOK
      <3>2. /\ Youngest(recent')[WINDOW] <= LIMIT + Lesser(count + 1, LIMIT)
            /\ ttl > 0 => Youngest(recent')[WINDOW - ttl] <= Lesser(count + 1, LIMIT)
        BY <3>1, AdmittedIsCounted
      <3> QED
        BY <3>1, <3>2 DEF WindowCounted
    <2>2. CASE ~Admits(n)
      <3>1. recent' = recent /\ count' = n /\ ttl' = ttl
        BY <2>2, LimitAssumption DEF Incr, TypeOK
      <3>2. Lesser(count, LIMIT) <= Lesser(n, LIMIT)
        BY <1>0 DEF Lesser
      <3>3. /\ Lesser(count, LIMIT) \in Nat /\ Lesser(n, LIMIT) \in Nat
            /\ Youngest(recent) \in [0..WINDOW -> Nat] /\ ttl \in 0..WINDOW
        BY <1>0, RecentAdds DEF Lesser, TypeOK
      <3> QED
        BY <3>1, <3>2, <3>3 DEF WindowCounted
    <2> QED
      BY <2>1, <2>2
  <1> QED
    BY <1>1, <1>2, <1>3

\* EXPIRE by the caller that saw 1 ends the window, and it was the only one to do so.
LEMMA ExpireStep ==
    ASSUME Inv, NEW c \in Callers, Expire(c)
    PROVE  Inv'
  <1> USE LimitAssumption DEF Inv, Expire, Goto
  <1>1. TypeOK' /\ OneExpiring'
    BY DEF TypeOK, OneExpiring
  <1>2. Youngest(recent)[0] = 0
    BY RecentAdds DEF Adds
  <1>3. WindowCounted'
    BY <1>2 DEF TypeOK, OneExpiring, WindowCounted, Lesser
  <1> QED
    BY <1>1, <1>3

\* Steps after EXPIRE, and failures, leave the counter alone.
LEMMA QuietStep ==
    ASSUME Inv, NEW c \in Callers, Check(c) \/ Return(c) \/ Fails(c)
    PROVE  Inv'
  <1>1. UNCHANGED <<count, ttl, got, recent>>
    BY DEF Check, Return, Fails
  <1>2. lost' \in BOOLEAN
    BY DEF Inv, TypeOK, Check, Return, Fails
  <1>3. TypeOK'
    BY <1>1, <1>2 DEF Inv, TypeOK, Check, Return, Fails, Goto
  <1>4. OneExpiring'
    BY <1>1 DEF Inv, TypeOK, OneExpiring, Check, Return, Fails, Goto
  <1>5. WindowCounted'
    BY <1>1 DEF Inv, WindowCounted
  <1> QED
    BY <1>3, <1>4, <1>5 DEF Inv

\* A tick ages what was let through by one, and a window that ends has let through at
\* most the limit.
LEMMA TickStep ==
    ASSUME Inv, Tick
    PROVE  Inv'
  <1> USE LimitAssumption, SaturationAssumption DEF Inv, Tick
  <1>1. TypeOK'
    BY DEF TypeOK, Older
  <1>2. OneExpiring'
    BY DEF TypeOK, OneExpiring
  <1>3. WindowCounted'
    <2> DEFINE s == Youngest(recent)
    <2>1. /\ s \in [0..WINDOW -> Nat] /\ s[WINDOW - 1] <= s[WINDOW]
          /\ count \in Nat /\ ttl \in 0..WINDOW
      BY RecentAdds DEF Adds, TypeOK
    <2>2. \A n \in 1..WINDOW : Youngest(recent')[n] = s[n - 1]
      BY OlderAdds
    <2> HIDE DEF s
    <2>3. CASE ttl = 1
      BY <2>1, <2>2, <2>3 DEF WindowCounted, Lesser, s
    <2>4. CASE ttl # 1
      BY <2>1, <2>2, <2>4 DEF WindowCounted, Lesser, s
    <2> QED
      BY <2>3, <2>4
  <1> QED
    BY <1>1, <1>2, <1>3

\* Every step of the callers and of time keeps the invariant.
LEMMA Inductive == Inv /\ [Next]_vars => Inv'
  <1> SUFFICES ASSUME Inv, [Next]_vars PROVE Inv'
    OBVIOUS
  <1>1. CASE UNCHANGED vars
    BY <1>1 DEF vars, Inv, TypeOK, OneExpiring, WindowCounted
  <1> QED
    BY <1>1, IncrStep, ExpireStep, QuietStep, TickStep DEF Next, Proceed

\* The invariant holds in every behaviour of one counter.
THEOREM Invariance == Spec => []Inv
  BY InitialInv, Inductive, PTL DEF Spec

-------------------------------------------------------------------------------
(* The properties. *)

\* The counter, its time to live and the callers keep their types.
THEOREM TypeCorrect == Spec => []TypeOK
  <1>1. Inv => TypeOK
    BY DEF Inv
  <1> QED
    BY <1>1, Invariance, PTL

\* Around the change of windows at most two limits' worth of requests gets through,
\* and that in any stretch of a window's length.
THEOREM TwiceTheLimitAtMost == Spec => []AtMostTwiceTheLimit
  <1>1. Inv => AtMostTwiceTheLimit
    <2>1. SUFFICES ASSUME Inv PROVE AtMostTwiceTheLimit
      OBVIOUS
    <2>2. Youngest(recent) \in [0..WINDOW -> Nat]
      BY <2>1, RecentAdds DEF Inv
    <2> QED
      BY <2>1, <2>2, LimitAssumption
      DEF Inv, WindowCounted, Lesser, AtMostTwiceTheLimit, TypeOK
  <1> QED
    BY <1>1, Invariance, PTL

\* A window without an end belongs to one caller that is about to end it, or that failed.
THEOREM EveryWindowEnds == Spec => []WindowsEnd
  <1>1. Inv => WindowsEnd
    BY DEF Inv, OneExpiring, WindowsEnd
  <1> QED
    BY <1>1, Invariance, PTL

===============================================================================
