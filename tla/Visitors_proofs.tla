--------------------------- MODULE Visitors_proofs ---------------------------
(* Theorems about what a browser does: the login limiter, for every number  *)
(* of overlapping requests, the sessions of a browser, for every number of  *)
(* tabs and tokens, the reports, for every set of captures, and the figures *)
(* of the traffic, for every number of accounts, days and events.           *)
EXTENDS MCVisitors, WizardPage_proofs, Sums_proofs, SequenceTheorems

-----------------------------------------------------------------------------
(* The login limiter.                                                       *)

RequestStates ==
  [key : Keys, count : Nat,
   step : {"idle", "count", "expire", "lock", "delete", "clear", "unlock", "refuse", "grant"}]

(* A request is idle with nothing on it, and each step belongs to a key.    *)
KeyFits(q) ==
  /\ q.step = "idle" => q = Idle
  /\ q.step \in {"lock", "delete", "clear", "unlock"} => q.key = "login"
  /\ q.step = "grant" => q.key = "demo"

LimiterShape ==
  /\ counter \in [Keys -> [count : Nat, ttl : BOOLEAN]]
  /\ locked \in BOOLEAN /\ died \in BOOLEAN /\ granted \in Nat
  /\ request \in [Requests -> RequestStates]
  /\ \A r \in Requests : KeyFits(request[r])

(* The demo logins on their way to being granted count like granted ones.   *)
Granter(q) == q.key = "demo" /\ (q.step = "grant" \/ (q.step = "expire" /\ q.count <= DemoLimit))
Granting == {r \in Requests : Granter(request[r])}
GrantsCounted ==
  /\ granted + Cardinality(Granting) <= counter["demo"].count
  /\ granted + Cardinality(Granting) <= DemoLimit

(* The request that opened a window dates it.                               *)
Dated ==
  ~died => \A k \in Keys :
    counter[k].count > 0 /\ ~counter[k].ttl => \E r \in Requests : request[r].key = k /\ request[r].step = "expire"

(* The request that reached the limit locks the client out and starts over. *)
Locker(q) ==
  q.key = "login" /\ (q.step \in {"lock", "delete"} \/ (q.step = "expire" /\ q.count >= LoginLimit))
Locking == ~died => (counter["login"].count >= LoginLimit => \E r \in Requests : Locker(request[r]))

LimiterInv == LimiterShape /\ GrantsCounted /\ Dated /\ Locking

(* How a request that moves changes the number of those being granted.      *)
LEMMA GrantingMoves ==
  ASSUME LimiterShape, NEW r \in Requests, NEW q \in RequestStates,
         request' = [request EXCEPT ![r] = q]
  PROVE  /\ Cardinality(Granting) \in Nat /\ Cardinality(Granting') \in Nat
         /\ (Granter(q) <=> Granter(request[r])) => Cardinality(Granting') = Cardinality(Granting)
         /\ Granter(q) /\ ~Granter(request[r]) => Cardinality(Granting') = Cardinality(Granting) + 1
         /\ ~Granter(q) /\ Granter(request[r]) => Cardinality(Granting') = Cardinality(Granting) - 1
<1>1. /\ r \in Granting <=> Granter(request[r])
      /\ Granting' = IF Granter(q) THEN Granting \cup {r} ELSE Granting \ {r}
  BY DEF LimiterShape, Granting
<1>2. IsFiniteSet(Granting)
  BY FS_Subset, LimitAssumption DEF Granting
<1>3. /\ Cardinality(Granting) \in Nat
      /\ Cardinality(Granting \cup {r}) = IF r \in Granting THEN Cardinality(Granting) ELSE Cardinality(Granting) + 1
      /\ Cardinality(Granting \ {r}) = IF r \in Granting THEN Cardinality(Granting) - 1 ELSE Cardinality(Granting)
      /\ IsFiniteSet(Granting \cup {r}) /\ IsFiniteSet(Granting \ {r})
  BY <1>2, FS_CardinalityType, FS_AddElement, FS_RemoveElement
<1>4. Cardinality(Granting') \in Nat
  BY <1>1, <1>3, FS_CardinalityType
<1>5. QED
  BY <1>1, <1>3, <1>4

(* A step of one request that counts nothing, grants nothing and is not the *)
(* one that has to date or to lock.                                         *)
LEMMA RequestMoves ==
  ASSUME LimiterInv, NEW r \in Requests, NEW q \in RequestStates,
         request' = [request EXCEPT ![r] = q], KeyFits(q),
         Granter(q) => Granter(request[r]),
         died' \/ (request[r].step # "expire" /\ (Locker(request[r]) => Locker(q))),
         UNCHANGED <<counter, granted>>, locked' \in BOOLEAN, died' \in BOOLEAN, died => died'
  PROVE  LimiterInv'
<1> USE DEF LimiterInv
<1>1. LimiterShape'
  BY DEF LimiterShape
<1>2. \A u \in Requests : request'[u] = IF u = r THEN q ELSE request[u]
  BY DEF LimiterShape
<1>3. GrantsCounted'
  <2>1. /\ Cardinality(Granting) \in Nat /\ Cardinality(Granting') \in Nat
        /\ \/ Cardinality(Granting') = Cardinality(Granting)
           \/ Cardinality(Granting') = Cardinality(Granting) - 1
    BY GrantingMoves
  <2>2. granted \in Nat /\ counter["demo"].count \in Nat /\ DemoLimit \in Nat
    BY LimitAssumption DEF LimiterShape, Keys
  <2>3. QED
    BY <2>1, <2>2 DEF GrantsCounted
<1>4. Dated'
  BY <1>2 DEF Dated
<1>5. Locking'
  BY <1>2 DEF Locking
<1>6. QED
  BY <1>1, <1>3, <1>4, <1>5

(* A counter that is gone, with the window it counted.  The requests of its *)
(* key have ended, or one of them (r) goes on without being the one that    *)
(* dates or locks.                                                          *)
LEMMA CounterGoes ==
  ASSUME LimiterInv, NEW k \in Keys, Deleted(k),
         LimiterShape', UNCHANGED died,
         k = "demo" => Granting' = {},
         \A u \in Requests : Granter(request'[u]) => Granter(request[u]),
         \A u \in Requests : request[u].key # k => request'[u] = request[u]
  PROVE  LimiterInv'
<1> USE DEF LimiterInv
<1>1. /\ counter' = [counter EXCEPT ![k] = Gone]
      /\ granted' = IF k = "demo" THEN 0 ELSE granted
  BY DEF Deleted
<1>2. GrantsCounted'
  <2>1. CASE k = "demo"
    <3>1. Cardinality(Granting') = 0 /\ granted' = 0
      BY <1>1, <2>1, FS_EmptySet
    <3>2. counter'["demo"].count = 0 /\ DemoLimit \in Nat
      BY <1>1, <2>1, LimitAssumption DEF LimiterShape, Gone
    <3>3. QED
      BY <3>1, <3>2 DEF GrantsCounted
  <2>2. CASE k = "login"
    <3>1. Granting' \subseteq Granting /\ IsFiniteSet(Granting)
      BY FS_Subset, LimitAssumption DEF Granting
    <3>2. /\ Cardinality(Granting) \in Nat /\ Cardinality(Granting') \in Nat
          /\ Cardinality(Granting') <= Cardinality(Granting)
      BY <3>1, FS_Subset, FS_CardinalityType
    <3>3. granted \in Nat /\ counter["demo"].count \in Nat /\ DemoLimit \in Nat
      BY LimitAssumption DEF LimiterShape, Keys
    <3>4. granted' = granted /\ counter'["demo"] = counter["demo"]
      BY <1>1, <2>2 DEF LimiterShape
    <3>5. QED
      BY <3>2, <3>3, <3>4 DEF GrantsCounted
  <2>3. QED
    BY <2>1, <2>2 DEF Keys
<1>3. \A j \in Keys : counter'[j] = IF j = k THEN Gone ELSE counter[j]
  BY <1>1 DEF LimiterShape
<1>4. Dated'
  BY <1>3 DEF Dated, Gone
<1>5. Locking'
  BY <1>3, LimitAssumption DEF Locking, Locker, Gone, Keys
<1>6. QED
  BY <1>2, <1>4, <1>5

LEMMA RequestCounts ==
  ASSUME LimiterInv, NEW r \in Requests, Count(r)
  PROVE  LimiterInv'
<1> USE DEF LimiterInv
<1> DEFINE key == request[r].key
           count == counter[key].count + 1
           q == [key |-> key, count |-> count,
                 step |-> IF count = 1 THEN "expire" ELSE AttemptVerdict(key, count)]
<1>1. /\ request[r].step = "count" /\ key \in Keys /\ count \in Nat \ {0}
      /\ request' = [request EXCEPT ![r] = q]
      /\ counter' = [counter EXCEPT ![key].count = count]
      /\ UNCHANGED <<locked, granted, died>>
  BY DEF Count, LimiterShape, RequestStates
<1>2. q \in RequestStates /\ KeyFits(q)
  BY <1>1 DEF RequestStates, KeyFits, AttemptVerdict, Keys
<1>3. \A j \in Keys :
        counter'[j] = IF j = key THEN [count |-> count, ttl |-> counter[j].ttl] ELSE counter[j]
  BY <1>1 DEF LimiterShape
<1>4. \A u \in Requests : request'[u] = IF u = r THEN q ELSE request[u]
  <2>1. request \in [Requests -> RequestStates]
    BY DEF LimiterShape
  <2>2. QED
    BY <1>1, <2>1 DEF RequestStates
<1>5. LimiterShape'
  <2>1. counter' \in [Keys -> [count : Nat, ttl : BOOLEAN]]
    BY <1>1, <1>3 DEF LimiterShape
  <2>2. request' \in [Requests -> RequestStates]
    BY <1>1, <1>2 DEF LimiterShape
  <2>3. QED
    BY <1>1, <1>2, <1>4, <2>1, <2>2 DEF LimiterShape
<1>6. GrantsCounted'
  <2>1. ~Granter(request[r])
    BY <1>1 DEF Granter
  <2>2. Granter(q) <=> key = "demo" /\ count <= DemoLimit
    BY <1>1, LimitAssumption DEF Granter, AttemptVerdict, Keys
  <2>3. /\ Cardinality(Granting) \in Nat
        /\ Cardinality(Granting') = IF Granter(q) THEN Cardinality(Granting) + 1 ELSE Cardinality(Granting)
    BY <1>1, <1>2, <2>1, GrantingMoves
  <2>4. granted \in Nat /\ counter["demo"].count \in Nat /\ DemoLimit \in Nat
    BY LimitAssumption DEF LimiterShape, Keys
  <2>5. counter'["demo"].count = IF key = "demo" THEN count ELSE counter["demo"].count
    BY <1>3 DEF Keys
  <2>6. QED
    BY <1>1, <2>2, <2>3, <2>4, <2>5 DEF GrantsCounted
<1>7. Dated'
  BY <1>1, <1>3, <1>4 DEF Dated, LimiterShape
<1>8. Locking'
  <2>1. ASSUME ~died, counter'["login"].count >= LoginLimit
        PROVE  \E u \in Requests : Locker(request'[u])
    <3>1. CASE key = "login"
      <4>1. count >= LoginLimit
        BY <1>3, <2>1, <3>1 DEF Keys
      <4>2. Locker(q)
        BY <3>1, <4>1 DEF Locker, AttemptVerdict
      <4>3. QED
        BY <1>4, <4>2
    <3>2. CASE key # "login"
      BY <1>1, <1>3, <1>4, <2>1, <3>2 DEF Locking, Locker, Keys
    <3>3. QED
      BY <3>1, <3>2
  <2>2. QED
    BY <1>1, <2>1 DEF Locking
<1>9. QED
  BY <1>5, <1>6, <1>7, <1>8

LEMMA RequestDates ==
  ASSUME LimiterInv, NEW r \in Requests, SetExpiry(r)
  PROVE  LimiterInv'
<1> USE DEF LimiterInv
<1> DEFINE key == request[r].key
           q == [key |-> key, count |-> request[r].count, step |-> AttemptVerdict(key, request[r].count)]
<1>1. /\ request[r].step = "expire" /\ key \in Keys /\ request[r].count \in Nat
      /\ request' = [request EXCEPT ![r].step = AttemptVerdict(key, request[r].count)]
      /\ counter' = [counter EXCEPT ![key].ttl = counter[key].count > 0]
      /\ UNCHANGED <<locked, granted, died>>
  BY DEF SetExpiry, Goes, LimiterShape, RequestStates
<1>2. q \in RequestStates /\ KeyFits(q)
  BY <1>1 DEF RequestStates, KeyFits, AttemptVerdict, Keys
<1>3. request' = [request EXCEPT ![r] = q]
  <2>1. request[r] \in RequestStates
    BY DEF LimiterShape
  <2>2. [request[r] EXCEPT !.step = AttemptVerdict(key, request[r].count)] = q
    BY <2>1 DEF RequestStates
  <2>3. QED
    BY <1>1, <2>2
<1>4. \A j \in Keys :
        counter'[j] = IF j = key THEN [count |-> counter[j].count, ttl |-> counter[j].count > 0] ELSE counter[j]
  BY <1>1 DEF LimiterShape
<1>5. \A u \in Requests : request'[u] = IF u = r THEN q ELSE request[u]
  BY <1>3 DEF LimiterShape
<1>6. LimiterShape'
  <2>1. counter' \in [Keys -> [count : Nat, ttl : BOOLEAN]]
    <3>1. DOMAIN counter' = Keys /\ counter' = [j \in Keys |-> counter'[j]]
      BY <1>1 DEF LimiterShape
    <3>2. \A j \in Keys : counter[j].count \in Nat /\ (counter[j].count > 0) \in BOOLEAN
      BY DEF LimiterShape
    <3>3. \A j \in Keys : counter'[j] \in [count : Nat, ttl : BOOLEAN]
      <4> SUFFICES ASSUME NEW j \in Keys
                   PROVE  counter'[j] \in [count : Nat, ttl : BOOLEAN]
        OBVIOUS
      <4>1. CASE j = key
        <5> DEFINE dated == counter[j].count > 0
        <5>1. counter'[j] = [count |-> counter[j].count, ttl |-> dated]
          BY <1>4, <4>1
        <5>2. counter[j].count \in Nat /\ dated \in BOOLEAN
          BY <3>2
        <5> HIDE DEF dated
        <5>3. QED
          BY <5>1, <5>2
      <4>2. CASE j # key
        BY <1>4, <4>2 DEF LimiterShape
      <4>3. QED
        BY <4>1, <4>2
    <3>4. QED
      BY <3>1, <3>3
  <2>2. request' \in [Requests -> RequestStates]
    BY <1>2, <1>3 DEF LimiterShape
  <2>3. QED
    BY <1>1, <1>2, <1>5, <2>1, <2>2 DEF LimiterShape
<1>7. GrantsCounted'
  <2>1. Granter(q) <=> Granter(request[r])
    BY <1>1, LimitAssumption DEF Granter, AttemptVerdict, Keys
  <2>2. Cardinality(Granting') = Cardinality(Granting)
    BY <1>2, <1>3, <2>1, GrantingMoves
  <2>3. counter'["demo"].count = counter["demo"].count
    BY <1>4 DEF Keys
  <2>4. QED
    BY <1>1, <2>2, <2>3 DEF GrantsCounted
<1>8. Dated'
  <2>1. counter'[key].count > 0 => counter'[key].ttl
    BY <1>1, <1>4 DEF LimiterShape
  <2>2. \A j \in Keys : j # key => counter'[j] = counter[j]
    BY <1>4
  <2>3. QED
    BY <1>1, <1>5, <2>1, <2>2 DEF Dated
<1>9. Locking'
  <2>1. Locker(request[r]) => Locker(q)
    BY <1>1 DEF Locker, AttemptVerdict, Keys
  <2>2. counter'["login"].count = counter["login"].count
    BY <1>4 DEF Keys
  <2>3. QED
    BY <1>1, <1>5, <2>1, <2>2 DEF Locking
<1>10. QED
  BY <1>6, <1>7, <1>8, <1>9

LEMMA RequestAnswered ==
  ASSUME LimiterInv, NEW r \in Requests, Answer(r)
  PROVE  LimiterInv'
<1> USE DEF LimiterInv
<1>1. /\ request[r].step \in {"refuse", "grant"}
      /\ request' = [request EXCEPT ![r] = Idle]
      /\ granted' = IF request[r].step = "grant" THEN granted + 1 ELSE granted
      /\ UNCHANGED <<counter, locked, died>>
  BY DEF Answer, Ends
<1>2. Idle \in RequestStates /\ KeyFits(Idle) /\ ~Granter(Idle)
  BY DEF RequestStates, KeyFits, Granter, Idle, Keys
<1>3. \A u \in Requests : request'[u] = IF u = r THEN Idle ELSE request[u]
  BY <1>1 DEF LimiterShape
<1>4. LimiterShape'
  BY <1>1, <1>2, <1>3 DEF LimiterShape
<1>5. GrantsCounted'
  <2>1. /\ Cardinality(Granting) \in Nat /\ Cardinality(Granting') \in Nat
        /\ ~Granter(request[r]) => Cardinality(Granting') = Cardinality(Granting)
        /\ Granter(request[r]) => Cardinality(Granting') = Cardinality(Granting) - 1
    BY <1>1, <1>2, GrantingMoves
  <2>2. Granter(request[r]) <=> request[r].step = "grant"
    BY <1>1 DEF Granter, KeyFits, LimiterShape
  <2>3. granted \in Nat /\ counter["demo"].count \in Nat /\ DemoLimit \in Nat
    BY LimitAssumption DEF LimiterShape, Keys
  <2>4. QED
    BY <1>1, <2>1, <2>2, <2>3 DEF GrantsCounted
<1>6. Dated'
  BY <1>1, <1>3 DEF Dated
<1>7. Locking'
  BY <1>1, <1>3 DEF Locking, Locker
<1>8. QED
  BY <1>4, <1>5, <1>6, <1>7

LEMMA LimiterStep ==
  ASSUME LimiterInv, [LimiterNext]_limiterVars
  PROVE  LimiterInv'
<1> USE DEF LimiterInv
<1>1. Idle \in RequestStates /\ KeyFits(Idle) /\ ~Granter(Idle) /\ ~Locker(Idle)
  BY DEF RequestStates, KeyFits, Granter, Locker, Idle, Keys
<1>2. \A r \in Requests : request[r] \in RequestStates /\ KeyFits(request[r])
  BY DEF LimiterShape
<1>3. ASSUME NEW r \in Requests,
             NEW step \in {"count", "lock", "delete", "clear", "unlock"}, Goes(r, step)
      PROVE  request' = [request EXCEPT ![r] = [key |-> request[r].key, step |-> step, count |-> request[r].count]]
  <2>1. [request[r] EXCEPT !.step = step] = [key |-> request[r].key, step |-> step, count |-> request[r].count]
    BY <1>2 DEF RequestStates
  <2>2. QED
    BY <1>3, <2>1 DEF Goes
<1>4. ASSUME NEW r \in Requests, LoginArrives(r)
      PROVE  LimiterInv'
  <2>1. PICK right \in BOOLEAN : Goes(r, IF right THEN "clear" ELSE "count")
    BY <1>4 DEF LoginArrives
  <2> DEFINE step == IF right THEN "clear" ELSE "count"
             q == [key |-> request[r].key, step |-> step, count |-> request[r].count]
  <2>2. request' = [request EXCEPT ![r] = q]
    BY <1>3, <2>1
  <2>3. request[r] = Idle
    BY <1>2, <1>4 DEF LoginArrives, KeyFits
  <2>4. q \in RequestStates /\ KeyFits(q) /\ ~Granter(q)
    BY <2>3 DEF RequestStates, KeyFits, Granter, Idle, Keys
  <2>5. request[r].step # "expire" /\ ~Locker(request[r])
    BY <1>1, <2>3 DEF Idle
  <2>6. UNCHANGED <<counter, locked, granted, died>> /\ locked' \in BOOLEAN /\ died' \in BOOLEAN
    BY <1>4 DEF LoginArrives, LimiterShape
  <2>7. QED
    BY <2>2, <2>4, <2>5, <2>6, RequestMoves
<1>5. ASSUME NEW r \in Requests, DemoLoginArrives(r)
      PROVE  LimiterInv'
  <2> DEFINE q == [key |-> "demo", step |-> "count", count |-> 0]
  <2>1. q \in RequestStates /\ KeyFits(q) /\ ~Granter(q)
    BY DEF RequestStates, KeyFits, Granter, Keys
  <2>2. request[r].step # "expire" /\ ~Locker(request[r])
    BY <1>5 DEF DemoLoginArrives, Locker
  <2>3. /\ request' = [request EXCEPT ![r] = q]
        /\ UNCHANGED <<counter, locked, granted, died>> /\ locked' \in BOOLEAN /\ died' \in BOOLEAN
    BY <1>5 DEF DemoLoginArrives, LimiterShape
  <2>4. QED
    BY <2>1, <2>2, <2>3, RequestMoves
<1>6. ASSUME NEW r \in Requests, LockOut(r)
      PROVE  LimiterInv'
  <2> DEFINE q == [key |-> request[r].key, step |-> "delete", count |-> request[r].count]
  <2>1. /\ request[r].step = "lock" /\ request' = [request EXCEPT ![r] = q]
        /\ UNCHANGED <<counter, granted, died>> /\ locked' \in BOOLEAN /\ died' \in BOOLEAN
    BY <1>3, <1>6 DEF LockOut, LimiterShape
  <2>2. q \in RequestStates /\ KeyFits(q) /\ ~Granter(q) /\ Locker(q)
    BY <1>2, <2>1 DEF RequestStates, KeyFits, Granter, Locker
  <2>3. QED
    BY <2>1, <2>2, RequestMoves
<1>7. ASSUME NEW r \in Requests, ClearLockout(r)
      PROVE  LimiterInv'
  <2>1. /\ request[r].step = "unlock" /\ request' = [request EXCEPT ![r] = Idle]
        /\ UNCHANGED <<counter, granted, died>> /\ locked' \in BOOLEAN /\ died' \in BOOLEAN
    BY <1>7 DEF ClearLockout, Ends, LimiterShape
  <2>2. request[r].step # "expire" /\ ~Locker(request[r])
    BY <2>1 DEF Locker
  <2>3. QED
    BY <1>1, <2>1, <2>2, RequestMoves
<1>8. ASSUME NEW r \in Requests, Die(r)
      PROVE  LimiterInv'
  <2>1. /\ request' = [request EXCEPT ![r] = Idle]
        /\ UNCHANGED <<counter, locked, granted>> /\ died' /\ locked' \in BOOLEAN /\ died' \in BOOLEAN
    BY <1>8 DEF Die, Ends, LimiterShape
  <2>2. QED
    BY <1>1, <2>1, RequestMoves
<1>9. ASSUME NEW r \in Requests, DeleteCounter(r) \/ ClearAttempts(r)
      PROVE  LimiterInv'
  <2>1. Deleted("login") /\ UNCHANGED <<locked, died>> /\ request[r].step \in {"delete", "clear"}
    BY <1>9 DEF DeleteCounter, ClearAttempts
  <2>2. PICK q \in RequestStates :
          request' = [request EXCEPT ![r] = q] /\ KeyFits(q) /\ ~Granter(q)
    <3>1. CASE DeleteCounter(r)
      BY <1>1, <3>1 DEF DeleteCounter, Ends
    <3>2. CASE ClearAttempts(r)
      <4> DEFINE q == [key |-> request[r].key, step |-> "unlock", count |-> request[r].count]
      <4>1. request[r].step = "clear" /\ request' = [request EXCEPT ![r] = q]
        BY <1>3, <3>2 DEF ClearAttempts
      <4>2. q \in RequestStates /\ KeyFits(q) /\ ~Granter(q)
        BY <1>2, <4>1 DEF RequestStates, KeyFits, Granter
      <4>3. QED
        BY <4>1, <4>2
    <3>3. QED
      BY <1>9, <3>1, <3>2
  <2>3. \A u \in Requests : request'[u] = IF u = r THEN q ELSE request[u]
    BY <2>2 DEF LimiterShape
  <2>4. LimiterShape'
    BY <2>1, <2>2, <2>3 DEF LimiterShape, Deleted, Gone
  <2>5. request[r].key = "login"
    BY <1>2, <2>1 DEF KeyFits
  <2>6. QED
    BY <2>1, <2>2, <2>3, <2>4, <2>5, CounterGoes DEF Keys
<1>10. ASSUME NEW k \in Keys, WindowPasses(k)
       PROVE  LimiterInv'
  <2>1. Deleted(k) /\ UNCHANGED <<locked, request, died>>
    BY <1>10 DEF WindowPasses
  <2>2. k = "demo" => Granting' = {}
    BY <1>10, <2>1 DEF WindowPasses, Granting, Granter
  <2>3. LimiterShape'
    BY <2>1 DEF LimiterShape, Deleted, Gone
  <2>4. QED
    BY <2>1, <2>2, <2>3, CounterGoes
<1>11. ASSUME UNCHANGED <<counter, request, granted, died>>, locked' \in BOOLEAN
       PROVE  LimiterInv'
  BY <1>11 DEF LimiterShape, GrantsCounted, Granting, Dated, Locking
<1>12. CASE LockoutPasses
  BY <1>11, <1>12 DEF LockoutPasses
<1>13. CASE UNCHANGED limiterVars
  BY <1>11, <1>13 DEF limiterVars, LimiterShape
<1>14. QED
  BY <1>4, <1>5, <1>6, <1>7, <1>8, <1>9, <1>10, <1>12, <1>13,
     RequestCounts, RequestDates, RequestAnswered
     DEF LimiterNext

LEMMA LimiterInitial == LimiterInit => LimiterInv
<1> SUFFICES ASSUME LimiterInit
             PROVE  LimiterInv
  OBVIOUS
<1>1. LimiterShape
  BY DEF LimiterInit, LimiterShape, RequestStates, KeyFits, Gone, Idle, Keys
<1>2. Granting = {}
  BY DEF LimiterInit, Granting, Granter, Idle
<1>3. QED
  BY <1>1, <1>2, FS_EmptySet, LimitAssumption
     DEF LimiterInit, LimiterInv, GrantsCounted, Dated, Locking, Gone, Keys

(* WindowsHold: for any limits and any number of overlapping requests, no   *)
(* window grants more demo logins than its limit; and while no request dies *)
(* half-way, a counter without a TTL is about to get one and a counter at   *)
(* the login limit is about to lock the client out.                         *)
THEOREM LimitsHold == LimiterSpec => []WindowsHold
<1>1. LimiterInit => LimiterInv
  BY LimiterInitial
<1>2. LimiterInv => WindowsHold
  <2> SUFFICES ASSUME LimiterInv
               PROVE  WindowsHold
    OBVIOUS
  <2>1. Cardinality(Granting) \in Nat
    BY FS_Subset, FS_CardinalityType, LimitAssumption DEF Granting
  <2>2. granted <= DemoLimit
    BY <2>1, LimitAssumption DEF LimiterInv, LimiterShape, GrantsCounted
  <2>3. QED
    BY <2>2 DEF LimiterInv, Dated, Locking, Locker, WindowsHold, Doing
<1>3. LimiterInv /\ [LimiterNext]_limiterVars => LimiterInv'
  BY LimiterStep
<1>4. QED
  BY <1>1, <1>2, <1>3, PTL DEF LimiterSpec

(* The attempts on their way to being counted are within the bound too.     *)
Pending(k) == {r \in Requests : request[r].key = k /\ request[r].step = "count"}
CountsBounded ==
  \A k \in Keys : counter[k].count + Cardinality(Pending(k)) <= MaxCount + Cardinality(Requests)

LimiterTyped == LimiterInv /\ CountsBounded

LEMMA PendingCounted ==
  \A k : /\ IsFiniteSet(Pending(k)) /\ Cardinality(Pending(k)) \in Nat
         /\ Cardinality(Pending(k)) <= Cardinality(Requests)
         /\ Cardinality(Requests) \in Nat
  BY FS_Subset, FS_CardinalityType, LimitAssumption DEF Pending

(* No attempt arrives and no counter goes up.                               *)
LEMMA CountsStay ==
  ASSUME LimiterTyped, LimiterShape',
         \A k \in Keys : counter'[k].count \in {0, counter[k].count},
         \A r \in Requests : request'[r].step = "count" => request'[r] = request[r]
  PROVE  CountsBounded'
<1> SUFFICES ASSUME NEW k \in Keys
             PROVE  counter'[k].count + Cardinality(Pending(k)') <= MaxCount + Cardinality(Requests)
  BY DEF CountsBounded, Keys
<1>1. Pending(k)' \subseteq Pending(k)
  BY DEF Pending
<1>2. Cardinality(Pending(k)') \in Nat /\ Cardinality(Pending(k)') <= Cardinality(Pending(k))
  BY <1>1, PendingCounted, FS_Subset, FS_CardinalityType
<1>3. counter[k].count \in Nat /\ counter'[k].count \in Nat /\ counter'[k].count <= counter[k].count
  BY DEF LimiterTyped, LimiterInv, LimiterShape
<1>4. counter[k].count + Cardinality(Pending(k)) <= MaxCount + Cardinality(Requests)
  BY DEF LimiterTyped, CountsBounded
<1>5. QED
  BY <1>2, <1>3, <1>4, PendingCounted, LimitAssumption

(* An attempt arrives at a counter below the bound.                         *)
LEMMA AttemptArrives ==
  ASSUME LimiterTyped, NEW r \in Requests, LoginArrives(r) \/ DemoLoginArrives(r)
  PROVE  CountsBounded'
<1>1. /\ counter' = counter
      /\ \E key \in Keys : /\ counter[key].count < MaxCount
                            /\ \E q : request' = [request EXCEPT ![r] = q] /\ q.key = key
  <2>1. CASE LoginArrives(r)
    <3>1. PICK right \in BOOLEAN : Goes(r, IF right THEN "clear" ELSE "count")
      BY <2>1 DEF LoginArrives
    <3> DEFINE q == [request[r] EXCEPT !.step = IF right THEN "clear" ELSE "count"]
    <3>2. request[r] = Idle
      BY <2>1 DEF LoginArrives, LimiterTyped, LimiterInv, LimiterShape, KeyFits
    <3>3. q.key = "login" /\ request' = [request EXCEPT ![r] = q]
      BY <3>1, <3>2 DEF Goes, Idle
    <3>4. QED
      BY <2>1, <3>3 DEF LoginArrives, Keys
  <2>2. CASE DemoLoginArrives(r)
    <3> DEFINE q == [key |-> "demo", step |-> "count", count |-> 0]
    <3>1. q.key = "demo" /\ request' = [request EXCEPT ![r] = q]
      BY <2>2 DEF DemoLoginArrives
    <3>2. QED
      BY <2>2, <3>1 DEF DemoLoginArrives, Keys
  <2>3. QED
    BY <2>1, <2>2
<1>2. PICK key \in Keys : /\ counter[key].count < MaxCount
                          /\ \E q : request' = [request EXCEPT ![r] = q] /\ q.key = key
  BY <1>1
<1>3. PICK q : request' = [request EXCEPT ![r] = q] /\ q.key = key
  BY <1>2
<1>4. \A u \in Requests : request'[u] = IF u = r THEN q ELSE request[u]
  BY <1>3 DEF LimiterTyped, LimiterInv, LimiterShape
<1>5. ASSUME NEW k \in Keys
      PROVE  counter[k].count + Cardinality(Pending(k)') <= MaxCount + Cardinality(Requests)
  <2>1. Cardinality(Pending(k)') \in Nat /\ Cardinality(Pending(k)') <= Cardinality(Requests)
    BY FS_Subset, FS_CardinalityType, LimitAssumption DEF Pending
  <2>2. counter[k].count \in Nat
    BY DEF LimiterTyped, LimiterInv, LimiterShape
  <2>3. CASE k = key
    <3>1. counter[k].count < MaxCount
      BY <1>2, <2>3
    <3>2. MaxCount \in Nat /\ Cardinality(Requests) \in Nat
      BY PendingCounted, LimitAssumption
    <3>3. QED
      BY ONLY <2>1, <2>2, <3>1, <3>2
  <2>4. CASE k # key
    <3>1. Pending(k)' \subseteq Pending(k)
      BY <1>3, <1>4, <2>4 DEF Pending
    <3>2. Cardinality(Pending(k)') <= Cardinality(Pending(k))
      BY <3>1, PendingCounted, FS_Subset
    <3>3. counter[k].count + Cardinality(Pending(k)) <= MaxCount + Cardinality(Requests)
      BY DEF LimiterTyped, CountsBounded
    <3>4. QED
      BY <2>1, <2>2, <3>2, <3>3, PendingCounted, LimitAssumption
  <2>5. QED
    BY <2>3, <2>4
<1>6. QED
  BY <1>1, <1>5 DEF CountsBounded, Keys

LEMMA AttemptCounted ==
  ASSUME LimiterTyped, NEW r \in Requests, Count(r)
  PROVE  CountsBounded'
<1> DEFINE key == request[r].key
           count == counter[key].count + 1
           q == [key |-> key, count |-> count,
                 step |-> IF count = 1 THEN "expire" ELSE AttemptVerdict(key, count)]
<1>1. /\ request[r].step = "count" /\ key \in Keys
      /\ counter' = [counter EXCEPT ![key].count = count]
      /\ request' = [request EXCEPT ![r] = q]
  BY DEF Count, LimiterTyped, LimiterInv, LimiterShape, RequestStates
<1>2. q.step # "count"
  BY DEF AttemptVerdict
<1> HIDE DEF q
<1>3. \A u \in Requests : request'[u] = IF u = r THEN q ELSE request[u]
  BY <1>1 DEF LimiterTyped, LimiterInv, LimiterShape
<1>4. \A k \in Keys : /\ counter[k].count \in Nat
                      /\ counter'[k].count = counter[k].count + (IF k = key THEN 1 ELSE 0)
  BY <1>1 DEF LimiterTyped, LimiterInv, LimiterShape
<1>5. ASSUME NEW k \in Keys
      PROVE  counter'[k].count + Cardinality(Pending(k)') <= MaxCount + Cardinality(Requests)
  <2>1. counter[k].count + Cardinality(Pending(k)) <= MaxCount + Cardinality(Requests)
    BY DEF LimiterTyped, CountsBounded
  <2>2. Pending(k)' = Pending(k) \ {r}
    BY <1>2, <1>3 DEF Pending
  <2>3. k = key => r \in Pending(k)
    BY <1>1 DEF Pending
  <2>4. /\ k = key => Cardinality(Pending(k)') = Cardinality(Pending(k)) - 1
        /\ Cardinality(Pending(k)') \in Nat /\ Cardinality(Pending(k)') <= Cardinality(Pending(k))
    BY <2>2, <2>3, PendingCounted, FS_RemoveElement, FS_Subset, FS_CardinalityType
  <2>5. QED
    BY <1>4, <2>1, <2>4, PendingCounted, LimitAssumption
<1>6. QED
  BY <1>5 DEF CountsBounded, Keys

LEMMA LimiterTypedStep ==
  ASSUME LimiterTyped, [LimiterNext]_limiterVars
  PROVE  LimiterTyped'
<1>1. LimiterInv /\ LimiterInv' /\ LimiterShape'
  BY LimiterStep DEF LimiterTyped, LimiterInv
<1>2. ASSUME NEW r \in Requests, NEW step, step # "count", Goes(r, step)
      PROVE  \A u \in Requests : request'[u].step = "count" => request'[u] = request[u]
  BY <1>1, <1>2 DEF Goes, LimiterInv, LimiterShape, RequestStates
<1>3. ASSUME NEW r \in Requests, Ends(r)
      PROVE  \A u \in Requests : request'[u].step = "count" => request'[u] = request[u]
  BY <1>1, <1>3 DEF Ends, Idle, LimiterInv, LimiterShape
<1>4. ASSUME NEW k, Deleted(k)
      PROVE  \A j \in Keys : counter'[j].count \in {0, counter[j].count}
  BY <1>1, <1>4 DEF Deleted, Gone, LimiterInv, LimiterShape
<1>5. ASSUME NEW r \in Requests, SetExpiry(r)
      PROVE  CountsBounded'
  <2>1. \A k \in Keys : counter'[k].count = counter[k].count
    BY <1>1, <1>5 DEF SetExpiry, LimiterInv, LimiterShape
  <2>2. AttemptVerdict(request[r].key, request[r].count) # "count"
    BY DEF AttemptVerdict
  <2>3. QED
    BY <1>1, <1>2, <1>5, <2>1, <2>2, CountsStay DEF SetExpiry
<1>6. ASSUME NEW r \in Requests, LockOut(r)
      PROVE  CountsBounded'
  BY <1>1, <1>2, <1>6, CountsStay DEF LockOut
<1>7. ASSUME NEW r \in Requests, DeleteCounter(r)
      PROVE  CountsBounded'
  BY <1>1, <1>3, <1>4, <1>7, CountsStay DEF DeleteCounter
<1>8. ASSUME NEW r \in Requests, ClearAttempts(r)
      PROVE  CountsBounded'
  BY <1>1, <1>2, <1>4, <1>8, CountsStay DEF ClearAttempts
<1>9. ASSUME NEW r \in Requests, ClearLockout(r) \/ Answer(r) \/ Die(r)
      PROVE  CountsBounded'
  BY <1>1, <1>3, <1>9, CountsStay DEF ClearLockout, Answer, Die
<1>10. ASSUME NEW k \in Keys, WindowPasses(k)
       PROVE  CountsBounded'
  BY <1>1, <1>4, <1>10, CountsStay DEF WindowPasses
<1>11. ASSUME LockoutPasses \/ UNCHANGED limiterVars
       PROVE  CountsBounded'
  <2>1. UNCHANGED <<counter, request>>
    BY <1>11 DEF LockoutPasses, limiterVars
  <2>2. QED
    BY <1>1, <2>1, CountsStay
<1>12. QED
  BY <1>1, <1>5, <1>6, <1>7, <1>8, <1>9, <1>10, <1>11, AttemptArrives, AttemptCounted
     DEF LimiterNext, LimiterTyped

LEMMA LimiterTypedInitial == LimiterInit => LimiterTyped
<1> SUFFICES ASSUME LimiterInit
             PROVE  LimiterTyped
  OBVIOUS
<1>1. LimiterInv
  BY LimiterInitial
<1>2. ASSUME NEW k \in Keys
      PROVE  counter[k].count = 0
  BY <1>2 DEF LimiterInit, Gone
<1>3. CountsBounded
  BY <1>2, PendingCounted, LimitAssumption DEF CountsBounded
<1>4. QED
  BY <1>1, <1>3 DEF LimiterTyped

LEMMA LimiterIsTyped == LimiterTyped => LimiterTypeOK
<1> SUFFICES ASSUME LimiterTyped
             PROVE  LimiterTypeOK
  OBVIOUS
<1>1. LimiterShape /\ MaxCount + Cardinality(Requests) \in Nat
  BY PendingCounted, LimitAssumption DEF LimiterTyped, LimiterInv
<1>2. \A k \in Keys : counter[k].count \in 0..MaxCount + Cardinality(Requests)
  BY <1>1, PendingCounted DEF LimiterTyped, CountsBounded, LimiterShape
<1>3. counter \in [Keys -> [count : 0..MaxCount + Cardinality(Requests), ttl : BOOLEAN]]
  BY <1>1, <1>2 DEF LimiterShape
<1>4. QED
  BY <1>1, <1>3 DEF LimiterShape, LimiterTypeOK, RequestStates

-----------------------------------------------------------------------------
(* The sessions.                                                            *)

TokenRows == [chain : Nat, revoked : BOOLEAN, expired : BOOLEAN]
Calls ==
  [kind : {"none", "refresh", "login", "logout", "reset"},
   step : {"idle", "sent", "read", "answered", "retry"},
   token : Nat, verdict : {"none", "refuse", "end", "rotate", "issue", "grant"},
   rows : SUBSET Nat, issued : Nat]

(* A chain is named after its first token.                                  *)
ChainsBegin == tokens \in Seq(TokenRows) /\ \A i \in 1..Len(tokens) : tokens[i].chain \in 1..i

(* Requests and the cookie name tokens that were issued.                    *)
Rotates(c) == c.step = "read" /\ c.verdict = "rotate"
CallFits(c) ==
  /\ c.token <= Len(tokens) /\ c.issued <= Len(tokens)
  /\ c.step = "sent" => c.kind # "none"
  /\ Rotates(c) => c.token # 0
JarFits == jar \in [refresh : Nat, access : {"valid", "none"}] /\ jar.refresh <= Len(tokens)
TokensNamed ==
  /\ JarFits
  /\ call \in [Slots -> Calls]
  /\ \A s \in Slots : CallFits(call[s])

SessionsInv == ChainsBegin /\ TokensNamed

(* What a step does to the chains.  A token stays in its chain, revoked or  *)
(* expired if it was.  A new one starts a chain, or a rotation under way    *)
(* issues it.  A rotation gets under way only with a token that lives.      *)
TokensKept ==
  /\ Len(tokens) <= Len(tokens')
  /\ \A i \in 1..Len(tokens) :
       /\ tokens'[i].chain = tokens[i].chain
       /\ tokens[i].revoked => tokens'[i].revoked
       /\ tokens[i].expired => tokens'[i].expired
ChainsGoOn ==
  \A i \in Len(tokens) + 1..Len(tokens') :
    \/ tokens'[i].chain = i
    \/ \E s \in Slots : Rotates(call[s]) /\ tokens'[i].chain = tokens[call[s].token].chain
RotationsBegin ==
  \A s \in Slots : Rotates(call'[s]) =>
    \/ Rotates(call[s]) /\ call'[s].token = call[s].token
    \/ /\ call'[s].token \in 1..Len(tokens)
       /\ ~tokens[call'[s].token].revoked /\ ~tokens[call'[s].token].expired
ChainsMove == TokensKept /\ ChainsGoOn /\ RotationsBegin

(* A request moves, and no token row changes.                               *)
LEMMA CallMoves ==
  ASSUME SessionsInv, NEW s \in Slots, NEW c \in Calls, CallFits(c),
         call' = [call EXCEPT ![s] = c], UNCHANGED tokens, JarFits',
         Rotates(c) => ~tokens[c.token].revoked /\ ~tokens[c.token].expired
  PROVE  SessionsInv' /\ ChainsMove
<1>1. \A u \in Slots : call'[u] = IF u = s THEN c ELSE call[u]
  BY DEF SessionsInv, TokensNamed
<1>2. SessionsInv'
  BY <1>1 DEF SessionsInv, ChainsBegin, TokensNamed, CallFits
<1>3. TokensKept /\ ChainsGoOn
  BY DEF TokensKept, ChainsGoOn, SessionsInv, ChainsBegin
<1>4. c.token \in Nat /\ Len(tokens) \in Nat
  BY DEF Calls, SessionsInv, ChainsBegin
<1>5. RotationsBegin
  BY <1>1, <1>4 DEF RotationsBegin, CallFits
<1>6. QED
  BY <1>2, <1>3, <1>5 DEF ChainsMove

LEMMA CallsMade ==
  ASSUME SessionsInv, NEW step \in {"idle", "sent", "retry"},
         NEW kind \in {"none", "refresh", "login", "logout", "reset"}, step = "sent" => kind # "none",
         NEW token \in Nat, token <= Len(tokens)
  PROVE  /\ Call(kind, step, token) \in Calls
         /\ CallFits(Call(kind, step, token))
         /\ ~Rotates(Call(kind, step, token))
BY DEF Call, Calls, CallFits, Rotates, SessionsInv, ChainsBegin

LEMMA RowsRevoked ==
  ASSUME ChainsBegin, NEW rows
  PROVE  /\ Revoked(rows) \in Seq(TokenRows)
         /\ Len(Revoked(rows)) = Len(tokens)
         /\ \A i \in 1..Len(tokens) :
              /\ Revoked(rows)[i].chain = tokens[i].chain
              /\ tokens[i].revoked => Revoked(rows)[i].revoked
              /\ tokens[i].expired => Revoked(rows)[i].expired
<1> DEFINE marked(i) == tokens[i].revoked \/ i \in rows
           row(i) == [chain |-> tokens[i].chain, revoked |-> marked(i), expired |-> tokens[i].expired]
<1>1. /\ tokens \in Seq(TokenRows) /\ DOMAIN tokens = 1..Len(tokens)
      /\ \A i \in 1..Len(tokens) : tokens[i] \in TokenRows
  BY DEF ChainsBegin
<1>2. ASSUME NEW i \in 1..Len(tokens)
      PROVE  marked(i) \in BOOLEAN /\ (tokens[i].revoked => marked(i))
  OBVIOUS
<1>3. Revoked(rows) = [i \in 1..Len(tokens) |-> row(i)]
  BY <1>1, Zenon DEF Revoked
<1> HIDE DEF marked
<1>4. Revoked(rows) \in [1..Len(tokens) -> TokenRows]
  BY <1>1, <1>2, <1>3 DEF TokenRows
<1>5. QED
  BY <1>1, <1>2, <1>3, <1>4

LEMMA ServerReadsMoves ==
  ASSUME SessionsInv, NEW s \in Slots, ServerReads(s)
  PROVE  SessionsInv' /\ ChainsMove
<1> DEFINE verdict == Verdict(call[s])
           rows == IF verdict = "end" THEN RowsToRevoke(call[s]) ELSE {}
           c == [kind |-> call[s].kind, token |-> call[s].token, issued |-> call[s].issued,
                 verdict |-> verdict, step |-> IF verdict = "refuse" THEN "answered" ELSE "read",
                 rows |-> rows]
<1>1. /\ call[s].step = "sent" /\ call[s] \in Calls /\ CallFits(call[s])
      /\ call' = [call EXCEPT ![s] = c] /\ UNCHANGED <<tokens, jar>>
  BY DEF ServerReads, SessionsInv, TokensNamed
<1>2. call[s].kind \in {"refresh", "login", "logout", "reset"}
  BY <1>1 DEF Calls, CallFits
<1>3. verdict \in {"refuse", "end", "rotate", "issue"}
  BY <1>2 DEF Verdict, RefreshVerdict
<1>4. verdict = "rotate" =>
        call[s].token # 0 /\ ~tokens[call[s].token].revoked /\ ~tokens[call[s].token].expired
  BY <1>2 DEF Verdict, RefreshVerdict
<1>5. rows \in SUBSET Nat
  BY DEF RowsToRevoke, Unrevoked, SessionsInv, ChainsBegin
<1>6. c \in Calls /\ CallFits(c)
  BY <1>1, <1>3, <1>4, <1>5 DEF Calls, CallFits, Rotates
<1>7. QED
  BY <1>1, <1>4, <1>6, CallMoves DEF Rotates, SessionsInv, TokensNamed, JarFits

LEMMA ServerCommitsMoves ==
  ASSUME SessionsInv, NEW s \in Slots, ServerCommits(s)
  PROVE  SessionsInv' /\ ChainsMove
<1> DEFINE issues == call[s].verdict \in {"rotate", "issue"}
           issued == IF issues THEN Len(tokens) + 1 ELSE 0
           c == [kind |-> call[s].kind, step |-> "answered", token |-> 0, verdict |-> "grant", rows |-> {},
                 issued |-> issued]
           new == NewToken(call[s])
<1>1. /\ call[s].step = "read" /\ call[s] \in Calls /\ CallFits(call[s])
      /\ call' = [call EXCEPT ![s] = c] /\ UNCHANGED jar
  BY DEF ServerCommits, SessionsInv, TokensNamed
<1>2. PICK rows : tokens' = IF issues THEN Append(Revoked(rows), new) ELSE Revoked(rows)
  BY DEF ServerCommits
<1>3. /\ ChainsBegin /\ Len(tokens) \in Nat
      /\ Revoked(rows) \in Seq(TokenRows) /\ Len(Revoked(rows)) = Len(tokens)
  BY RowsRevoked DEF SessionsInv, ChainsBegin
<1>4. ASSUME issues
      PROVE  /\ new \in TokenRows /\ new.chain \in 1..Len(tokens) + 1
             /\ \/ new.chain = Len(tokens) + 1
                \/ Rotates(call[s]) /\ new.chain = tokens[call[s].token].chain
  <2>1. CASE call[s].verdict = "rotate"
    <3>1. call[s].token \in 1..Len(tokens)
      BY <1>1, <1>3, <2>1 DEF CallFits, Rotates, Calls
    <3>2. tokens[call[s].token].chain \in 1..call[s].token
      BY <1>3, <3>1 DEF ChainsBegin
    <3>3. new = [chain |-> tokens[call[s].token].chain, revoked |-> FALSE, expired |-> FALSE]
      BY <2>1 DEF NewToken
    <3>4. tokens[call[s].token].chain \in 1..Len(tokens) + 1
      BY <1>3, <3>1, <3>2
    <3>5. QED
      BY <1>1, <2>1, <3>3, <3>4 DEF TokenRows, Rotates
  <2>2. CASE call[s].verdict # "rotate"
    <3>1. new = [chain |-> Len(tokens) + 1, revoked |-> FALSE, expired |-> FALSE]
      BY <2>2 DEF NewToken
    <3>2. QED
      BY <1>3, <3>1 DEF TokenRows
  <2>3. QED
    BY <2>1, <2>2
<1>5. /\ tokens' \in Seq(TokenRows)
      /\ Len(tokens') = IF issues THEN Len(tokens) + 1 ELSE Len(tokens)
      /\ \A i \in 1..Len(tokens) : tokens'[i] = Revoked(rows)[i]
      /\ issues => tokens'[Len(tokens) + 1] = new
  BY <1>2, <1>3, <1>4
<1>6. TokensKept
  BY <1>3, <1>5, RowsRevoked DEF TokensKept
<1>7. ChainsGoOn
  BY <1>3, <1>4, <1>5 DEF ChainsGoOn
<1>8. \A u \in Slots : call'[u] = IF u = s THEN c ELSE call[u]
  BY <1>1 DEF SessionsInv, TokensNamed
<1>9. RotationsBegin
  BY <1>8 DEF RotationsBegin, Rotates
<1>10. ChainsBegin'
  <2>1. \A i \in 1..Len(tokens) : tokens'[i].chain \in 1..i
    BY <1>3, <1>6 DEF ChainsBegin, TokensKept
  <2>2. issues => tokens'[Len(tokens) + 1].chain \in 1..Len(tokens) + 1
    BY <1>4, <1>5
  <2>3. QED
    BY <1>3, <1>5, <2>1, <2>2 DEF ChainsBegin
<1>11. TokensNamed'
  <2>1. Len(tokens) <= Len(tokens') /\ Len(tokens') \in Nat /\ issued \in Nat /\ issued <= Len(tokens')
    BY <1>3, <1>5
  <2>2. c \in Calls /\ c.token = 0 /\ c.issued <= Len(tokens') /\ c.step = "answered"
    BY <1>1, <2>1 DEF Calls
  <2>3. ASSUME NEW u \in Slots
        PROVE  CallFits(call[u])'
    <3>1. CASE u = s
      <4>1. call'[u] = c
        BY <1>8, <3>1
      <4>2. QED
        BY <1>3, <2>1, <2>2, <4>1 DEF CallFits, Rotates
    <3>2. CASE u # s
      <4>1. call'[u] = call[u] /\ call[u] \in Calls /\ CallFits(call[u])
        BY <1>8, <3>2 DEF SessionsInv, TokensNamed
      <4>2. QED
        BY <1>3, <2>1, <4>1 DEF CallFits, Rotates, Calls
    <3>3. QED
      BY <3>1, <3>2
  <2>4. call' \in [Slots -> Calls]
    BY <1>1, <2>2 DEF SessionsInv, TokensNamed
  <2>5. JarFits'
    BY <1>1, <1>3, <2>1 DEF SessionsInv, TokensNamed, JarFits
  <2>6. QED
    BY <2>3, <2>4, <2>5 DEF TokensNamed, Slots
<1>12. QED
  BY <1>6, <1>7, <1>9, <1>10, <1>11 DEF SessionsInv, ChainsMove

LEMMA AnswerMoves ==
  ASSUME SessionsInv, NEW s \in Slots, NEW answer, Delivered(s, answer), JarFits'
  PROVE  SessionsInv' /\ ChainsMove
<1>1. PICK c \in {Call("none", "retry", 0), NoCall} :
        call' = [call EXCEPT ![s] = c] /\ UNCHANGED tokens
  BY DEF Delivered
<1>2. c \in Calls /\ CallFits(c) /\ ~Rotates(c)
  BY CallsMade DEF NoCall, SessionsInv, ChainsBegin
<1>3. QED
  BY <1>1, <1>2, CallMoves

LEMMA RequestSent ==
  ASSUME SessionsInv, NEW s \in Slots, NEW kind \in {"refresh", "login", "logout", "reset"},
         Send(s, kind), UNCHANGED <<tokens, jar>>
  PROVE  SessionsInv' /\ ChainsMove
<1> DEFINE token == IF kind \in {"refresh", "logout"} THEN jar.refresh ELSE 0
           c == Call(kind, "sent", token)
<1>1. call' = [call EXCEPT ![s] = c]
  BY DEF Send
<1>2. token \in Nat /\ token <= Len(tokens) /\ JarFits'
  BY DEF SessionsInv, ChainsBegin, TokensNamed, JarFits
<1>3. c \in Calls /\ CallFits(c) /\ ~Rotates(c)
  BY <1>2, CallsMade
<1>4. QED
  BY <1>1, <1>2, <1>3, CallMoves

LEMMA SessionsStep ==
  ASSUME SessionsInv, [SessionsNext]_sessionVars
  PROVE  SessionsInv' /\ ChainsMove
<1>1. \A t \in Tabs : <<t, "refresh">> \in Slots /\ <<t, "user">> \in Slots
  BY DEF Slots
<1>2. ASSUME UNCHANGED <<tokens, call>>, JarFits'
      PROVE  SessionsInv' /\ ChainsMove
  BY <1>2 DEF SessionsInv, ChainsBegin, TokensNamed, CallFits, ChainsMove, TokensKept, ChainsGoOn, RotationsBegin
<1>3. ASSUME NEW t \in Tabs, OpenPage(t)
      PROVE  SessionsInv' /\ ChainsMove
  BY <1>2, <1>3 DEF OpenPage, SessionsInv, TokensNamed, JarFits
<1>4. ASSUME NEW t \in Tabs, RefreshAccessToken(t)
      PROVE  SessionsInv' /\ ChainsMove
  BY <1>1, <1>4, RequestSent DEF RefreshAccessToken
<1>5. ASSUME NEW t \in Tabs,
             Login(t) \/ Logout(t) \/ ConfirmPasswordReset(t)
      PROVE  SessionsInv' /\ ChainsMove
  BY <1>1, <1>5, RequestSent
     DEF Login, Logout, ConfirmPasswordReset, UserSends
<1>6. ASSUME NEW t \in Tabs, RepeatRequest(t)
      PROVE  SessionsInv' /\ ChainsMove
  <2>1. /\ call' = [call EXCEPT ![<<t, "refresh">>] = NoCall]
        /\ UNCHANGED <<tokens, jar>>
    BY <1>6 DEF RepeatRequest
  <2>2. NoCall \in Calls /\ CallFits(NoCall) /\ ~Rotates(NoCall)
    BY CallsMade DEF NoCall, SessionsInv, ChainsBegin
  <2>3. JarFits'
    BY <2>1 DEF SessionsInv, TokensNamed, JarFits
  <2>4. QED
    BY <1>1, <2>1, <2>2, <2>3, CallMoves
<1>7. CASE AccessExpires
  BY <1>2, <1>7 DEF AccessExpires, SessionsInv, TokensNamed, JarFits
<1>8. CASE ResetTokenExpires \/ UNCHANGED sessionVars
  BY <1>2, <1>8 DEF ResetTokenExpires, sessionVars, SessionsInv, TokensNamed, JarFits
<1>9. ASSUME NEW s \in Slots, AnswerArrives(s)
      PROVE  SessionsInv' /\ ChainsMove
  <2>1. jar' = JarAfter(call[s]) /\ Delivered(s, call[s]) /\ UNCHANGED tokens
    BY <1>9 DEF AnswerArrives, Delivered
  <2>2. call[s] \in Calls /\ CallFits(call[s])
    BY DEF SessionsInv, TokensNamed
  <2>3. JarAfter(call[s]) \in {[refresh |-> call[s].issued, access |-> "valid"], NoCookies, jar}
    BY DEF JarAfter
  <2>4. JarFits'
    <3>1. call[s].issued \in Nat /\ call[s].issued <= Len(tokens) /\ 0 <= Len(tokens) /\ JarFits
      BY <2>2 DEF CallFits, Calls, SessionsInv, TokensNamed, ChainsBegin
    <3>2. CASE jar' = [refresh |-> call[s].issued, access |-> "valid"]
      BY <2>1, <3>1, <3>2 DEF JarFits
    <3>3. CASE jar' = NoCookies
      BY <2>1, <3>1, <3>3 DEF JarFits, NoCookies
    <3>4. CASE jar' = jar
      BY <2>1, <3>1, <3>4 DEF JarFits
    <3>5. QED
      BY <2>1, <2>3, <3>2, <3>3, <3>4
  <2>5. QED
    BY <2>1, <2>4, AnswerMoves
<1>10. ASSUME NEW s \in Slots, AnswerIsLost(s)
       PROVE  SessionsInv' /\ ChainsMove
  <2>1. Delivered(s, [call[s] EXCEPT !.issued = 0, !.verdict = "refuse"]) /\ UNCHANGED <<tokens, jar>>
    BY <1>10 DEF AnswerIsLost, Delivered
  <2>2. JarFits'
    BY <2>1 DEF SessionsInv, TokensNamed, JarFits
  <2>3. QED
    BY <2>1, <2>2, AnswerMoves
<1>11. ASSUME NEW i \in DOMAIN tokens, TokenExpires(i)
       PROVE  SessionsInv' /\ ChainsMove
  <2> DEFINE row == [tokens[i] EXCEPT !.expired = TRUE]
  <2>1. i \in 1..Len(tokens) /\ tokens[i] \in TokenRows
    BY DEF SessionsInv, ChainsBegin
  <2>2. /\ row \in TokenRows /\ row.chain = tokens[i].chain
        /\ tokens[i].revoked => row.revoked
        /\ row.expired
    BY <2>1 DEF TokenRows
  <2>3. tokens' = [tokens EXCEPT ![i] = row] /\ UNCHANGED <<jar, call>>
    BY <1>11 DEF TokenExpires
  <2> HIDE DEF row
  <2>4. /\ tokens' \in Seq(TokenRows) /\ Len(tokens') = Len(tokens)
        /\ \A j \in 1..Len(tokens) : tokens'[j] = IF j = i THEN row ELSE tokens[j]
    BY <2>1, <2>2, <2>3, ExceptSeq DEF SessionsInv, ChainsBegin
  <2>5. TokensKept /\ ChainsGoOn
    BY <2>2, <2>4 DEF TokensKept, ChainsGoOn, SessionsInv, ChainsBegin
  <2>6. RotationsBegin
    BY <2>3 DEF RotationsBegin
  <2>7. ChainsBegin'
    BY <2>2, <2>4 DEF SessionsInv, ChainsBegin
  <2>8. TokensNamed'
    BY <2>3, <2>4 DEF SessionsInv, TokensNamed, JarFits, CallFits
  <2>9. QED
    BY <2>5, <2>6, <2>7, <2>8 DEF SessionsInv, ChainsMove
<1>12. QED
  BY <1>3, <1>4, <1>5, <1>6, <1>7, <1>8, <1>9, <1>10, <1>11, ServerReadsMoves, ServerCommitsMoves
     DEF SessionsNext

(* What can go on after such a step could go on before it.                  *)
LEMMA OnlyAliveGoOn ==
  ASSUME SessionsInv, ChainsMove, SessionsInv', NEW i \in DOMAIN tokens, Alive(tokens[i].chain)'
  PROVE  Alive(tokens[i].chain)
<1> DEFINE chain == tokens[i].chain
<1>1. /\ DOMAIN tokens = 1..Len(tokens) /\ DOMAIN tokens' = 1..Len(tokens')
      /\ Len(tokens) \in Nat /\ Len(tokens') \in Nat
      /\ chain \in 1..Len(tokens) /\ tokens'[i].chain = chain
  BY DEF SessionsInv, ChainsBegin, ChainsMove, TokensKept
<1>2. ASSUME NEW s \in Slots, Rotates(call[s]), tokens[call[s].token].chain = chain
      PROVE  Alive(chain)
  BY <1>2 DEF Alive, Rotates
<1>3. ASSUME NEW j \in 1..Len(tokens), tokens[j].chain = chain, ~tokens[j].revoked, ~tokens[j].expired
      PROVE  Alive(chain)
  BY <1>1, <1>3 DEF Alive, Unrevoked
<1>4. ASSUME NEW j \in DOMAIN tokens', tokens'[j].chain = chain, ~tokens'[j].revoked, ~tokens'[j].expired
      PROVE  Alive(chain)
  <2>1. CASE j \in 1..Len(tokens)
    BY <1>3, <1>4, <2>1 DEF ChainsMove, TokensKept
  <2>2. CASE j \in Len(tokens) + 1..Len(tokens')
    BY <1>1, <1>2, <1>4, <2>2 DEF ChainsMove, ChainsGoOn
  <2>3. QED
    BY <1>1, <2>1, <2>2
<1>5. ASSUME NEW s \in Slots, Rotates(call'[s]), tokens'[call'[s].token].chain = chain
      PROVE  Alive(chain)
  <2>1. CASE Rotates(call[s]) /\ call'[s].token = call[s].token
    <3>1. call[s].token \in 1..Len(tokens)
      BY <1>1, <2>1 DEF SessionsInv, TokensNamed, CallFits, Calls
    <3>2. QED
      BY <1>2, <1>5, <2>1, <3>1 DEF ChainsMove, TokensKept
  <2>2. CASE /\ call'[s].token \in 1..Len(tokens)
             /\ ~tokens[call'[s].token].revoked /\ ~tokens[call'[s].token].expired
    BY <1>3, <1>5, <2>2 DEF ChainsMove, TokensKept
  <2>3. QED
    BY <1>5, <2>1, <2>2 DEF ChainsMove, RotationsBegin
<1>6. \/ \E j \in DOMAIN tokens' : tokens'[j].chain = chain /\ ~tokens'[j].revoked /\ ~tokens'[j].expired
      \/ \E s \in Slots : Rotates(call'[s]) /\ tokens'[call'[s].token].chain = chain
  BY <1>1 DEF Alive, Unrevoked, Rotates, Slots
<1>7. QED
  BY <1>4, <1>5, <1>6

(* EndedStaysEnded: for any number of tabs, requests and tokens, and        *)
(* however answers are lost or overtake each other, nothing brings back a   *)
(* chain that logout, reuse of a token, a password reset or time has ended. *)
THEOREM SessionsStayEnded == SessionsSpec => EndedStaysEnded
<1>1. SessionsInit => SessionsInv
  <2> SUFFICES ASSUME SessionsInit
               PROVE  SessionsInv
    OBVIOUS
  <2>1. ChainsBegin /\ Len(tokens) = 0
    BY DEF SessionsInit, ChainsBegin
  <2>2. NoCall \in Calls /\ CallFits(NoCall)
    BY <2>1 DEF NoCall, Call, Calls, CallFits, Rotates
  <2>3. TokensNamed
    BY <2>1, <2>2 DEF SessionsInit, TokensNamed, JarFits, NoCookies
  <2>4. QED
    BY <2>1, <2>3 DEF SessionsInv
<1>2. SessionsInv /\ [SessionsNext]_sessionVars => SessionsInv'
  BY SessionsStep
<1>3. SessionsInv /\ [SessionsNext]_sessionVars
        => [\A i \in DOMAIN tokens : ~Alive(tokens[i].chain)
              => ~Alive(tokens[i].chain)']_sessionVars
  BY SessionsStep, OnlyAliveGoOn
<1>4. QED
  BY <1>1, <1>2, <1>3, PTL DEF SessionsSpec, EndedStaysEnded

(* What a tab shows, and the rows that a request has read, are what they    *)
(* can be; tokens stay within the bound.                                    *)
SessionsTyped ==
  /\ SessionsInv
  /\ Len(tokens) <= MaxTokens
  /\ shows \in [Tabs -> {"in", "out", "expired"}]
  /\ resetToken \in {"fresh", "spent"}
  /\ \A s \in Slots : call[s].rows \subseteq 1..Len(tokens)

(* A request moves; it has read rows of tokens there are.                   *)
LEMMA RowsStay ==
  ASSUME SessionsTyped, SessionsInv', TokensKept, NEW s \in Slots, NEW c,
         call' = [call EXCEPT ![s] = c], c.rows \subseteq 1..Len(tokens)
  PROVE  \A u \in Slots : call'[u].rows \subseteq 1..Len(tokens')
<1>1. \A u \in Slots : call'[u] = IF u = s THEN c ELSE call[u]
  BY DEF SessionsTyped, SessionsInv, TokensNamed
<1>2. Len(tokens) \in Nat /\ Len(tokens') \in Nat /\ Len(tokens) <= Len(tokens')
  BY DEF SessionsTyped, SessionsInv, ChainsBegin, TokensKept
<1>3. 1..Len(tokens) \subseteq 1..Len(tokens')
  BY <1>2
<1>4. QED
  BY <1>1, <1>3 DEF SessionsTyped

LEMMA AnswerShown ==
  ASSUME SessionsTyped, SessionsInv', TokensKept, NEW s \in Slots, NEW answer, Delivered(s, answer)
  PROVE  SessionsTyped'
<1>1. PICK c \in {Call("none", "retry", 0), NoCall} : call' = [call EXCEPT ![s] = c]
  BY DEF Delivered
<1>2. c.rows = {}
  BY DEF Call, NoCall
<1>3. \A u \in Slots : call'[u].rows \subseteq 1..Len(tokens')
  BY <1>1, <1>2, RowsStay
<1>4. UNCHANGED <<tokens, resetToken>>
  BY DEF Delivered
<1>5. shows' \in [Tabs -> {"in", "out", "expired"}]
  <2>1. s[1] \in Tabs
    BY DEF Slots
  <2>2. shows' = [shows EXCEPT ![s[1]] = ShownAfter(answer, shows[s[1]])]
    BY DEF Delivered
  <2>3. ShownAfter(answer, shows[s[1]]) \in {"in", "out", "expired"}
    BY <2>1 DEF ShownAfter, SessionsTyped
  <2>4. QED
    BY <2>2, <2>3 DEF SessionsTyped
<1>6. QED
  BY <1>3, <1>4, <1>5 DEF SessionsTyped, Slots

LEMMA SessionsTypedStep ==
  ASSUME SessionsTyped, [SessionsNext]_sessionVars
  PROVE  SessionsTyped'
<1>1. SessionsInv /\ SessionsInv' /\ TokensKept
  BY SessionsStep DEF SessionsTyped, ChainsMove
<1>2. \A t \in Tabs : <<t, "refresh">> \in Slots /\ <<t, "user">> \in Slots
  BY DEF Slots
<1>3. ASSUME NEW t \in Tabs, RefreshAccessToken(t) \/ Login(t) \/ Logout(t) \/ ConfirmPasswordReset(t)
      PROVE  SessionsTyped'
  <2>1. PICK s \in Slots : \E kind, token : call' = [call EXCEPT ![s] = Call(kind, "sent", token)]
    BY <1>2, <1>3 DEF RefreshAccessToken, Login, Logout, ConfirmPasswordReset, UserSends, Send
  <2>2. PICK kind, token : call' = [call EXCEPT ![s] = Call(kind, "sent", token)]
    BY <2>1
  <2>3. UNCHANGED <<tokens, shows, resetToken>>
    BY <1>3 DEF RefreshAccessToken, Login, Logout, ConfirmPasswordReset
  <2>4. Call(kind, "sent", token).rows = {}
    BY DEF Call
  <2>5. \A u \in Slots : call'[u].rows \subseteq 1..Len(tokens')
    BY <1>1, <2>2, <2>4, RowsStay
  <2>6. QED
    BY <1>1, <2>3, <2>5 DEF SessionsTyped, Slots
<1>4. ASSUME NEW t \in Tabs, RepeatRequest(t)
      PROVE  SessionsTyped'
  <2>1. /\ call' = [call EXCEPT ![<<t, "refresh">>] = NoCall] /\ UNCHANGED <<tokens, resetToken>>
        /\ shows' = [shows EXCEPT ![t] = IF jar.access = "valid" THEN @ ELSE "expired"]
    BY <1>4 DEF RepeatRequest
  <2>2. NoCall.rows = {}
    BY DEF Call, NoCall
  <2>3. \A u \in Slots : call'[u].rows \subseteq 1..Len(tokens')
    BY <1>1, <1>2, <2>1, <2>2, RowsStay
  <2>4. QED
    BY <1>1, <2>1, <2>3 DEF SessionsTyped, Slots
<1>5. ASSUME UNCHANGED <<tokens, call>>, shows' \in [Tabs -> {"in", "out", "expired"}],
             resetToken' \in {"fresh", "spent"}
      PROVE  SessionsTyped'
  BY <1>1, <1>5 DEF SessionsTyped, Slots
<1>6. ASSUME NEW t \in Tabs, OpenPage(t)
      PROVE  SessionsTyped'
  BY <1>5, <1>6 DEF OpenPage, SessionsTyped
<1>7. CASE AccessExpires \/ ResetTokenExpires \/ UNCHANGED sessionVars
  BY <1>5, <1>7 DEF AccessExpires, ResetTokenExpires, sessionVars, SessionsTyped
<1>8. ASSUME NEW s \in Slots, ServerReads(s)
      PROVE  SessionsTyped'
  <2>1. UNCHANGED <<tokens, shows, resetToken>>
    BY <1>8 DEF ServerReads
  <2>2. RowsToRevoke(call[s]) \subseteq 1..Len(tokens)
    BY <1>1 DEF RowsToRevoke, Unrevoked, SessionsInv, ChainsBegin
  <2> DEFINE verdict == Verdict(call[s])
             c == [kind |-> call[s].kind, token |-> call[s].token, issued |-> call[s].issued,
                   verdict |-> verdict, step |-> IF verdict = "refuse" THEN "answered" ELSE "read",
                   rows |-> IF verdict = "end" THEN RowsToRevoke(call[s]) ELSE {}]
  <2>3. call' = [call EXCEPT ![s] = c] /\ c.rows \in {{}, RowsToRevoke(call[s])}
    BY <1>8 DEF ServerReads
  <2> HIDE DEF c
  <2>4. \A u \in Slots : call'[u].rows \subseteq 1..Len(tokens')
    BY <1>1, <2>2, <2>3, RowsStay
  <2>5. QED
    BY <1>1, <2>1, <2>4 DEF SessionsTyped, Slots
<1>9. ASSUME NEW s \in Slots, ServerCommits(s)
      PROVE  SessionsTyped'
  <2> DEFINE issues == call[s].verdict \in {"rotate", "issue"}
  <2> DEFINE c == [kind |-> call[s].kind, step |-> "answered", token |-> 0, verdict |-> "grant", rows |-> {},
                   issued |-> IF issues THEN Len(tokens) + 1 ELSE 0]
  <2>1. call' = [call EXCEPT ![s] = c] /\ c.rows = {}
    BY <1>9 DEF ServerCommits
  <2> HIDE DEF c
  <2>2. PICK rows, new : tokens' = IF issues THEN Append(Revoked(rows), new) ELSE Revoked(rows)
    BY <1>9 DEF ServerCommits
  <2>3. issues => Len(tokens) < MaxTokens
    BY <1>9 DEF ServerCommits
  <2>4. /\ resetToken' \in {"spent", resetToken} /\ UNCHANGED shows
    BY <1>9 DEF ServerCommits
  <2>5. Revoked(rows) \in Seq(TokenRows) /\ Len(Revoked(rows)) = Len(tokens) /\ Len(tokens) \in Nat
    BY <1>1, RowsRevoked DEF SessionsInv, ChainsBegin
  <2>6. Len(Append(Revoked(rows), new)) = Len(tokens) + 1
    BY <2>5
  <2>7. Len(tokens') <= MaxTokens
    BY <2>2, <2>3, <2>5, <2>6, TokensAssumption DEF SessionsTyped
  <2>8. \A u \in Slots : call'[u].rows \subseteq 1..Len(tokens')
    BY <1>1, <2>1, RowsStay
  <2>9. QED
    BY <1>1, <2>4, <2>7, <2>8 DEF SessionsTyped, Slots
<1>10. ASSUME NEW s \in Slots, AnswerArrives(s) \/ AnswerIsLost(s)
       PROVE  SessionsTyped'
  BY <1>1, <1>10, AnswerShown DEF AnswerArrives, AnswerIsLost
<1>11. ASSUME NEW i \in DOMAIN tokens, TokenExpires(i)
       PROVE  SessionsTyped'
  <2>1. UNCHANGED <<shows, call, resetToken>>
    BY <1>11 DEF TokenExpires
  <2>2. PICK row : tokens' = [tokens EXCEPT ![i] = row]
    BY <1>11 DEF TokenExpires
  <2>3. Len(tokens') = Len(tokens)
    <3>1. DOMAIN tokens' = DOMAIN tokens
      BY <2>2
    <3>2. QED
      BY <1>1, <3>1 DEF SessionsInv, ChainsBegin
  <2>4. QED
    BY <1>1, <2>1, <2>3 DEF SessionsTyped, Slots
<1>12. QED
  BY <1>3, <1>4, <1>6, <1>7, <1>8, <1>9, <1>10, <1>11 DEF SessionsNext

LEMMA SessionsInitial == SessionsInit => SessionsTyped
<1> SUFFICES ASSUME SessionsInit
             PROVE  SessionsTyped
  OBVIOUS
<1>1. ChainsBegin /\ Len(tokens) = 0
  BY DEF SessionsInit, ChainsBegin
<1>2. NoCall \in Calls /\ CallFits(NoCall) /\ NoCall.rows = {}
  BY <1>1 DEF NoCall, Call, Calls, CallFits, Rotates
<1>3. TokensNamed
  BY <1>1, <1>2 DEF SessionsInit, TokensNamed, JarFits, NoCookies
<1>4. QED
  BY <1>1, <1>2, <1>3, TokensAssumption DEF SessionsInit, SessionsTyped, SessionsInv

LEMMA SessionsAreTyped == SessionsTyped => SessionsTypeOK
<1> SUFFICES ASSUME SessionsTyped
             PROVE  SessionsTypeOK
  OBVIOUS
<1>1. /\ DOMAIN tokens = 1..Len(tokens) /\ Len(tokens) \in Nat
      /\ \A i \in 1..Len(tokens) : tokens[i] \in TokenRows /\ tokens[i].chain \in 1..i
  BY DEF SessionsTyped, SessionsInv, ChainsBegin
<1>2. \A i \in DOMAIN tokens : tokens[i] \in [chain : 1..i, revoked : BOOLEAN, expired : BOOLEAN]
  BY <1>1 DEF TokenRows
<1>3. jar \in [refresh : 0..Len(tokens), access : {"valid", "none"}]
  BY <1>1 DEF SessionsTyped, SessionsInv, TokensNamed, JarFits
<1>4. ASSUME NEW s \in Slots
      PROVE  /\ call[s].step \in {"idle", "sent", "read", "answered", "retry"}
             /\ call[s].token \in 0..Len(tokens)
             /\ call[s].rows \subseteq DOMAIN tokens
  BY <1>1 DEF SessionsTyped, SessionsInv, TokensNamed, CallFits, Calls
<1>5. QED
  BY <1>2, <1>3, <1>4 DEF SessionsTyped, SessionsTypeOK

-----------------------------------------------------------------------------
(* The report of a run and its page.                                        *)

(* A purge that has looked for reports protects what they showed then, and  *)
(* only such a purge protects anything.                                     *)
RetentionInv ==
  /\ ReportPage!RetentionTypeOK
  /\ purge # "reports" => protected = {}
  /\ purge = "reports" => \A a \in candidates : report[a] = "inside" => a \in protected

LEMMA RetentionStep ==
  ASSUME RetentionInv, [ReportPage!RetentionNext]_ReportPage!retentionVars
  PROVE  /\ RetentionInv'
         /\ \A a \in Captures : report[a] = "inside" => (screenshot'[a] = "purged" <=> screenshot[a] = "purged")
<1> USE DEF RetentionInv, ReportPage!RetentionTypeOK
<1> DEFINE Kept == \A a \in Captures :
                     report[a] = "inside" => (screenshot'[a] = "purged" <=> screenshot[a] = "purged")
<1>1. ASSUME NEW a \in Captures, ReportPage!Capture(a) \/ ReportPage!TtlPasses(a)
      PROVE  RetentionInv' /\ Kept
  BY <1>1 DEF ReportPage!Capture, ReportPage!TtlPasses
<1>2. ASSUME NEW a \in Captures, ReportPage!CommitReport(a) \/ ReportPage!WindowPasses(a)
      PROVE  RetentionInv' /\ Kept
  BY <1>2 DEF ReportPage!CommitReport, ReportPage!WindowPasses
<1>3. CASE ReportPage!PurgeReadCandidates
  BY <1>3 DEF ReportPage!PurgeReadCandidates
<1>4. CASE ReportPage!PurgeReadReports
  BY <1>4 DEF ReportPage!PurgeReadReports, ReportPage!Protected, ReportPage!InWindow
<1>5. CASE ReportPage!PurgeCommit
  BY <1>5 DEF ReportPage!PurgeCommit
<1>6. CASE UNCHANGED ReportPage!retentionVars
  BY <1>6 DEF ReportPage!retentionVars
<1>7. QED
  BY <1>1, <1>2, <1>3, <1>4, <1>5, <1>6 DEF ReportPage!RetentionNext

(* What a response says of its runs: they have reports, its two sides are   *)
(* the two of one test, and it links nothing that it has not read.  Without *)
(* the last part a section that is read later could have a link that an     *)
(* earlier one had, but lost.                                               *)
ResponseFits(response) ==
  /\ \A a \in response.of \cup response.with : report[a] # "none"
  /\ \A a, b \in response.of : a = b
  /\ \A a \in response.of : \A b \in response.with : a # b /\ Captures = {a, b}
  /\ \A l \in response.links : ReportPage!HasRead(response, l[1], l[2])
  /\ ReportPage!KeptIsLinked(response)
  /\ ReportPage!LaterLinksLess(response)

(* A report comes after the capture of its run.                             *)
CapturedFirst == \A a \in Captures : report[a] # "none" => screenshot[a] # "none"

ComparedFits ==
  compared = <<>> \/ \E a, b \in Captures :
    a # b /\ Captures = {a, b} /\ a \notin NewSides /\ compared = <<a, b>>

ReportInv ==
  /\ RetentionInv
  /\ ReportPage!ReportsTypeOK
  /\ CapturedFirst
  /\ ResponseFits(reading)
  /\ ResponseFits(opened)
  /\ ComparedFits
  /\ ReportPage!BrokenIsPurged

(* The purge takes a screenshot once, and a report is never taken back.     *)
LEMMA PurgedForGood ==
  ASSUME RetentionInv, CapturedFirst, ReportPage!RetentionNext
  PROVE  /\ RetentionInv'
         /\ CapturedFirst'
         /\ \A a \in Captures : /\ screenshot[a] = "purged" => screenshot'[a] = "purged"
                                /\ report[a] # "none" => report'[a] # "none"
<1>1. RetentionInv'
  BY RetentionStep
<1> DEFINE Good == CapturedFirst' /\ \A a \in Captures :
                     /\ screenshot[a] = "purged" => screenshot'[a] = "purged"
                     /\ report[a] # "none" => report'[a] # "none"
<1> SUFFICES Good
  BY <1>1
<1>2. ASSUME NEW a \in Captures, ReportPage!Capture(a) \/ ReportPage!TtlPasses(a)
      PROVE  Good
  BY <1>2 DEF ReportPage!Capture, ReportPage!TtlPasses,
              RetentionInv, ReportPage!RetentionTypeOK, CapturedFirst
<1>3. ASSUME NEW a \in Captures, ReportPage!CommitReport(a) \/ ReportPage!WindowPasses(a)
      PROVE  Good
  BY <1>3 DEF ReportPage!CommitReport, ReportPage!WindowPasses, ReportPage!InWindow,
              RetentionInv, ReportPage!RetentionTypeOK, CapturedFirst
<1>4. CASE ReportPage!PurgeReadCandidates \/ ReportPage!PurgeReadReports
  BY <1>4 DEF ReportPage!PurgeReadCandidates, ReportPage!PurgeReadReports, CapturedFirst
<1>5. CASE ReportPage!PurgeCommit
  BY <1>5 DEF ReportPage!PurgeCommit, RetentionInv, ReportPage!RetentionTypeOK, CapturedFirst
<1>6. QED
  BY <1>2, <1>3, <1>4, <1>5 DEF ReportPage!RetentionNext

(* A section that is read now links what is kept now.  What was read before *)
(* of a capture that is kept now was linked.                                *)
LEMMA SectionsFit ==
  ASSUME ReportInv, NEW s \in ReportPage!Sections, reading.at = s, NEW response,
         response.of = reading.of, response.with = reading.with,
         response.links = ReportPage!SectionRead(s),
         \A a \in Captures : \A t \in ReportPage!Sections :
           ReportPage!HasRead(response, a, t)
             <=> ReportPage!HasRead(reading, a, t) \/ (a \in ReportPage!Subject(reading) /\ t = s)
  PROVE  ResponseFits(response)
<1> USE DEF ReportInv, ReportPage!ReportsTypeOK, ReportPage!Response
<1> DEFINE Sub == ReportPage!Subject(reading)
<1>1. Sub \subseteq Captures /\ Sub \subseteq reading.of \cup reading.with
  BY DEF ReportPage!Subject
<1>2. \A a \in Captures : \A t \in ReportPage!Sections :
        <<a, t>> \in response.links
          <=> <<a, t>> \in reading.links \/ (a \in Sub /\ t = s /\ ReportPage!Links(a, s))
  BY <1>1 DEF ReportPage!SectionRead
<1>3. response.links \subseteq Captures \X ReportPage!Sections
  BY <1>1 DEF ReportPage!SectionRead
<1>4. \A l \in response.links : ReportPage!HasRead(response, l[1], l[2])
  BY <1>2, <1>3 DEF ResponseFits
<1>5. \A a \in Sub : screenshot[a] # "purged" => ReportPage!Kept(a)
  BY <1>1 DEF ResponseFits, CapturedFirst, ReportPage!Kept
<1>6. ReportPage!KeptIsLinked(response)
  BY <1>2, <1>5 DEF ResponseFits, ReportPage!KeptIsLinked, ReportPage!Links
<1>7. ASSUME NEW a \in Captures, NEW t \in ReportPage!Sections, NEW u \in ReportPage!Sections,
             <<a, t>> \in response.links, ReportPage!Linkable(a, u),
             <<a, t>> \in reading.links => <<a, u>> \in reading.links,
             t = s /\ a \in Sub => ReportPage!HasRead(reading, a, u) /\ t # "heat"
      PROVE  <<a, u>> \in response.links
  <2>1. CASE <<a, t>> \in reading.links
    BY <2>1, <1>2, <1>7
  <2>2. CASE t = s /\ a \in Sub /\ ReportPage!Links(a, s)
    <3>1. screenshot[a] # "purged"
      BY <2>2, <1>7 DEF ReportPage!Links, ReportPage!Kept
    <3>2. <<a, u>> \in reading.links
      BY <3>1, <2>2, <1>7 DEF ResponseFits, ReportPage!KeptIsLinked
    <3>3. QED
      BY <3>2, <1>2
  <2>3. QED
    BY <1>7, <1>2, <2>1, <2>2
<1>8. ReportPage!LaterLinksLess(response)
  <2> SUFFICES ASSUME NEW a \in response.of \cup response.with
               PROVE  /\ <<a, "map">> \in response.links => <<a, "cta">> \in response.links
                      /\ <<a, "cta">> \in response.links /\ a \in Dom \cup Visual
                           => <<a, "heat">> \in response.links
    BY DEF ReportPage!LaterLinksLess
  <2> USE DEF ResponseFits, ReportPage!LaterLinksLess, ReportPage!Linkable, ReportPage!Sections,
              ReportPage!HasRead
  <2>1. <<a, "map">> \in response.links => <<a, "cta">> \in response.links
    BY <1>7
  <2>2. <<a, "cta">> \in response.links /\ a \in Dom \cup Visual => <<a, "heat">> \in response.links
    BY <1>7
  <2>3. QED
    BY <2>1, <2>2
<1>9. QED
  BY <1>4, <1>6, <1>8 DEF ResponseFits

(* A page that shows the links of a request, once that has read everything. *)
LEMMA AnswersFit ==
  ASSUME ReportInv, NEW links \in SUBSET (Captures \X ReportPage!Sections),
         ReportPage!Answer(links),
         ResponseFits([at |-> "shown", of |-> reading.of, with |-> reading.with, links |-> links])
  PROVE  /\ reading' \in ReportPage!Response({"idle", "sibling", "own"} \cup ReportPage!Sections)
         /\ opened' \in ReportPage!Response({"closed", "loading", "error", "shown"})
         /\ ResponseFits(reading')
         /\ ResponseFits(opened')
<1> USE DEF ReportInv, ReportPage!ReportsTypeOK, ReportPage!Response, ReportPage!Answer, ReportPage!Idle
<1>1. ResponseFits(ReportPage!Idle)
  BY DEF ResponseFits, ReportPage!KeptIsLinked, ReportPage!LaterLinksLess, ReportPage!HasRead
<1>2. reading' \in ReportPage!Response({"idle", "sibling", "own"} \cup ReportPage!Sections)
  OBVIOUS
<1>3. opened' \in ReportPage!Response({"closed", "loading", "error", "shown"})
  OBVIOUS
<1>4. QED
  BY <1>1, <1>2, <1>3

(* A request that begins, or has found out about the other side, and a page *)
(* without an answer have read nothing.                                     *)
LEMMA NothingReadFits ==
  ASSUME NEW response, response.at \in {"idle", "sibling", "heat", "closed", "loading", "error"},
         response.links = {},
         \A a \in response.of \cup response.with : report[a] # "none",
         \A a, b \in response.of : a = b,
         \A a \in response.of : \A b \in response.with : a # b /\ Captures = {a, b}
  PROVE  ResponseFits(response)
BY DEF ResponseFits, ReportPage!KeptIsLinked, ReportPage!LaterLinksLess, ReportPage!HasRead

LEMMA ReportStep == ReportInv /\ [ReportPage!ReportsNext]_ReportPage!reportsVars => ReportInv'
<1> SUFFICES ASSUME ReportInv, [ReportPage!ReportsNext]_ReportPage!reportsVars
             PROVE  ReportInv'
  OBVIOUS
<1> USE DEF ReportInv, ReportPage!ReportsTypeOK, ReportPage!Response
<1>1. CASE ReportPage!RetentionNext /\ UNCHANGED ReportPage!readerVars
  <2> USE <1>1 DEF ReportPage!readerVars
  <2>1. ResponseFits(reading)' /\ ResponseFits(opened)'
    BY PurgedForGood
    DEF ResponseFits, ReportPage!KeptIsLinked, ReportPage!LaterLinksLess, ReportPage!HasRead,
        ReportPage!Subject
  <2>2. RetentionInv' /\ CapturedFirst'
    BY PurgedForGood
  <2>3. ReportPage!BrokenIsPurged'
    BY PurgedForGood DEF ReportPage!BrokenIsPurged
  <2>4. ReportPage!ReportsTypeOK' /\ ComparedFits'
    BY ReportsAssumption DEF ReportPage!OneOfEach, ComparedFits
  <2>5. QED
    BY <2>1, <2>2, <2>3, <2>4
<1>2. ASSUME UNCHANGED ReportPage!retentionVars,
             reading' \in ReportPage!Response({"idle", "sibling", "own"} \cup ReportPage!Sections),
             opened' \in ReportPage!Response({"closed", "loading", "error", "shown"}),
             image' \in [Captures -> {"none", "shown", "broken"}],
             \A a \in Captures : image'[a] = "broken" => image[a] = "broken" \/ screenshot[a] = "purged",
             ResponseFits(reading'), ResponseFits(opened'), ComparedFits'
      PROVE  ReportInv'
  <2> USE <1>2 DEF ReportPage!retentionVars
  <2>1. RetentionInv'
    BY RetentionStep DEF ReportPage!retentionVars
  <2>2. CapturedFirst' /\ ReportPage!BrokenIsPurged'
    BY DEF CapturedFirst, ReportPage!BrokenIsPurged
  <2>3. ResponseFits(reading)' /\ ResponseFits(opened)'
    BY DEF ResponseFits, ReportPage!KeptIsLinked, ReportPage!LaterLinksLess, ReportPage!HasRead,
           ReportPage!Subject
  <2>4. ReportPage!ReportsTypeOK'
    BY ReportsAssumption DEF ReportPage!OneOfEach, ComparedFits
  <2>5. QED
    BY <2>1, <2>2, <2>3, <2>4
<1>3. CASE UNCHANGED ReportPage!reportsVars
  <2>1. UNCHANGED ReportPage!retentionVars /\ UNCHANGED ReportPage!readerVars
    BY ONLY <1>3 DEF ReportPage!reportsVars
  <2>2. QED
    BY <1>2, <2>1 DEF ReportPage!readerVars, ComparedFits
<1>4. ASSUME UNCHANGED ReportPage!retentionVars, NEW a \in Captures, ReportPage!OpenReport(a)
      PROVE  ReportInv'
  <2> USE <1>4 DEF ReportPage!OpenReport, ReportPage!Asks, ReportPage!Closed, ReportPage!Listed
  <2>1. ResponseFits(reading')
    BY NothingReadFits
  <2>2. ResponseFits(opened')
    <3>1. /\ opened'.at = "loading" /\ opened'.of = {a} /\ opened'.with = {} /\ opened'.links = {}
          /\ report[a] # "none"
      OBVIOUS
    <3>2. QED
      BY ONLY <3>1, NothingReadFits
  <2>3. QED
    BY <1>2, <2>1, <2>2 DEF ComparedFits
<1>5. ASSUME UNCHANGED ReportPage!retentionVars, NEW a \in Captures, ReportPage!ShowImage(a)
      PROVE  ReportInv'
  <2> USE <1>5 DEF ReportPage!ShowImage, ReportPage!VisualPanel, ReportPage!AIPanel
  <2>1. ReportPage!Kept(a) \/ screenshot[a] = "purged"
    BY DEF ResponseFits, ReportPage!HasRead, CapturedFirst, ReportPage!Kept
  <2>2. QED
    BY <1>2, <2>1 DEF ComparedFits
<1>6. ASSUME UNCHANGED ReportPage!retentionVars, ReportPage!TryAgain \/ ReportPage!Export
      PROVE  ReportInv'
  <2> USE <1>6 DEF ReportPage!TryAgain, ReportPage!Export, ReportPage!Asks
  <2>1. ResponseFits(reading')
    BY NothingReadFits DEF ResponseFits
  <2>2. ResponseFits(opened')
    <3>1. CASE ReportPage!TryAgain
      <4>1. opened.links = {}
        BY <3>1 DEF ResponseFits, ReportPage!HasRead
      <4>2. QED
        BY <3>1, <4>1, NothingReadFits DEF ResponseFits
    <3>2. CASE ReportPage!Export
      BY <3>2
    <3>3. QED
      BY <3>1, <3>2
  <2>3. QED
    BY <1>2, <2>1, <2>2 DEF ComparedFits
<1>7. ASSUME UNCHANGED ReportPage!retentionVars, ReportPage!LeaveReport
      PROVE  ReportInv'
  <2> USE <1>7 DEF ReportPage!LeaveReport, ReportPage!Idle, ReportPage!Closed
  <2>1. ResponseFits(reading') /\ ResponseFits(opened')
    BY NothingReadFits
  <2>2. QED
    BY <1>2, <2>1 DEF ComparedFits
<1>8. ASSUME UNCHANGED ReportPage!retentionVars, NEW a \in Captures, NEW b \in Captures,
             ReportPage!Compare(a, b)
      PROVE  ReportInv'
  BY <1>2, <1>8 DEF ReportPage!Compare, ComparedFits
<1>9. ASSUME UNCHANGED ReportPage!retentionVars, ReportPage!FindSibling
      PROVE  ReportInv'
  <2> USE <1>9 DEF ReportPage!FindSibling
  <2> DEFINE With == UNION {ReportPage!Sibling(a) : a \in reading.of}
  <2>1. /\ With \subseteq Captures
        /\ \A b \in With : report[b] # "none"
    BY DEF ReportPage!Sibling, ReportPage!Listed
  <2>2. \A a \in reading.of : \A b \in With : a # b /\ Captures = {a, b}
    BY DEF ResponseFits, ReportPage!Sibling
  <2>3. reading.links = {}
    BY DEF ResponseFits, ReportPage!HasRead
  <2>4. ResponseFits(reading')
    <3>1. /\ reading'.at = "heat" /\ reading'.of = reading.of
          /\ reading'.with = With /\ reading'.links = {}
      BY <2>3
    <3>2. /\ \A a \in reading.of : report[a] # "none"
          /\ \A a, b \in reading.of : a = b
      BY DEF ResponseFits
    <3>3. QED
      BY ONLY <2>1, <2>2, <3>1, <3>2, NothingReadFits
  <2>5. reading' \in ReportPage!Response({"idle", "sibling", "own"} \cup ReportPage!Sections)
    BY <2>1 DEF ReportPage!Sections
  <2>6. QED
    BY <1>2, <2>4, <2>5 DEF ComparedFits
<1>10. ASSUME UNCHANGED ReportPage!retentionVars,
              ReportPage!ReadSection("heat", "cta") \/ ReportPage!ReadSection("cta", "map")
       PROVE  ReportInv'
  <2>1. PICK s \in {"heat", "cta"} :
               ReportPage!ReadSection(s, IF s = "heat" THEN "cta" ELSE "map")
    BY <1>10
  <2> USE <2>1 DEF ReportPage!ReadSection
  <2>2. ReportPage!SectionRead(s) \subseteq Captures \X ReportPage!Sections
    BY DEF ReportPage!SectionRead, ReportPage!Subject, ReportPage!Sections
  <2>3. ResponseFits(reading')
    <3>1. \A a \in Captures : \A t \in ReportPage!Sections :
            ReportPage!HasRead(reading', a, t)
              <=> ReportPage!HasRead(reading, a, t) \/ (a \in ReportPage!Subject(reading) /\ t = s)
      BY DEF ReportPage!HasRead, ReportPage!Subject
    <3>2. /\ reading'.of = reading.of /\ reading'.with = reading.with
          /\ reading'.links = ReportPage!SectionRead(s) /\ reading.at = s
          /\ s \in ReportPage!Sections
      BY DEF ReportPage!Sections
    <3>3. QED
      BY ONLY ReportInv, <3>1, <3>2, SectionsFit
  <2>4. reading' \in ReportPage!Response({"idle", "sibling", "own"} \cup ReportPage!Sections)
    BY <2>2 DEF ReportPage!Sections
  <2>5. QED
    BY <1>2, <1>10, <2>3, <2>4 DEF ComparedFits
<1>11. ASSUME UNCHANGED ReportPage!retentionVars, ReportPage!ReadMap
       PROVE  ReportInv'
  <2> DEFINE Links == ReportPage!SectionRead("map")
  <2>1. Links \subseteq Captures \X ReportPage!Sections
    BY DEF ReportPage!SectionRead, ReportPage!Subject, ReportPage!Sections
  <2>2. CASE reading.with # {}
    <3>1. reading.at = "map" /\ reading' = [reading EXCEPT !.at = "own", !.links = Links]
          /\ UNCHANGED <<opened, image, compared>>
      BY <1>11, <2>2 DEF ReportPage!ReadMap, ReportPage!ReadSection
    <3>2. \A a \in Captures : \A t \in ReportPage!Sections :
            ReportPage!HasRead(reading', a, t)
              <=> ReportPage!HasRead(reading, a, t) \/ (a \in ReportPage!Subject(reading) /\ t = "map")
      BY <2>2, <3>1 DEF ReportPage!HasRead, ReportPage!Subject, ReportPage!Sections
    <3>3. /\ reading'.of = reading.of /\ reading'.with = reading.with
          /\ reading'.links = Links /\ "map" \in ReportPage!Sections
      BY <3>1 DEF ReportPage!Sections
    <3>4. ResponseFits(reading')
      BY ONLY ReportInv, <3>1, <3>2, <3>3, SectionsFit
    <3>5. QED
      BY <1>2, <1>11, <2>1, <3>1, <3>4 DEF ComparedFits
  <2>3. CASE reading.with = {}
    <3> DEFINE page == [at |-> "shown", of |-> reading.of, with |-> reading.with, links |-> Links]
    <3>1. reading.at = "map" /\ ReportPage!Answer(Links)
      BY <1>11, <2>3 DEF ReportPage!ReadMap
    <3>2. \A a \in Captures : \A t \in ReportPage!Sections :
            ReportPage!HasRead(page, a, t)
              <=> ReportPage!HasRead(reading, a, t) \/ (a \in ReportPage!Subject(reading) /\ t = "map")
      BY <2>3, <3>1 DEF ReportPage!HasRead, ReportPage!Subject, ReportPage!Sections
    <3>3. ResponseFits(page)
      <4>1. page.of = reading.of /\ page.with = reading.with /\ page.links = Links
        OBVIOUS
      <4>2. "map" \in ReportPage!Sections
        BY DEF ReportPage!Sections
      <4> HIDE DEF page
      <4>3. QED
        BY ONLY ReportInv, <3>1, <3>2, <4>1, <4>2, SectionsFit
    <3>4. QED
      BY <1>2, <1>11, <2>1, <3>1, <3>3, AnswersFit DEF ReportPage!Answer, ComparedFits
  <2>4. QED
    BY <2>2, <2>3
<1>12. ASSUME UNCHANGED ReportPage!retentionVars, ReportPage!ReadOwn
       PROVE  ReportInv'
  <2> DEFINE own == {l \in reading.of \X ReportPage!Sections : ReportPage!Links(l[1], l[2])}
             links == reading.links \cup own
             page == [at |-> "shown", of |-> reading.of, with |-> reading.with, links |-> links]
  <2>1. reading.at = "own" /\ ReportPage!Answer(links)
    BY <1>12 DEF ReportPage!ReadOwn
  <2>2. links \subseteq Captures \X ReportPage!Sections
    OBVIOUS
  <2>3. \A a \in Captures : \A s \in ReportPage!Sections :
          <<a, s>> \in links
            <=> \/ a \in reading.with /\ <<a, s>> \in reading.links
                \/ a \in reading.of /\ ReportPage!Links(a, s)
    BY <2>1 DEF ResponseFits, ReportPage!HasRead
  <2>4. \A a \in reading.of : a \notin reading.with
    BY DEF ResponseFits
  <2>5. ReportPage!KeptIsLinked(page)
    <3> SUFFICES ASSUME NEW a \in Captures, NEW s \in ReportPage!Sections,
                        a \in reading.of \cup reading.with,
                        screenshot[a] # "purged", ReportPage!Linkable(a, s)
                 PROVE  <<a, s>> \in links
      BY DEF ReportPage!KeptIsLinked, ReportPage!HasRead
    <3>1. CASE a \in reading.with
      BY <2>1, <2>3, <3>1 DEF ResponseFits, ReportPage!KeptIsLinked, ReportPage!HasRead
    <3>2. CASE a \in reading.of
      BY <2>3, <3>2 DEF ResponseFits, CapturedFirst, ReportPage!Links, ReportPage!Kept
    <3>3. QED
      BY <3>1, <3>2
  <2>6. ReportPage!LaterLinksLess(page)
    <3> SUFFICES ASSUME NEW a \in reading.of \cup reading.with
                 PROVE  /\ <<a, "map">> \in links => <<a, "cta">> \in links
                        /\ <<a, "cta">> \in links /\ a \in Dom \cup Visual => <<a, "heat">> \in links
      BY DEF ReportPage!LaterLinksLess
    <3>1. CASE a \in reading.with
      BY <2>3, <2>4, <3>1 DEF ResponseFits, ReportPage!LaterLinksLess, ReportPage!Sections
    <3>2. CASE a \in reading.of
      BY <2>3, <2>4, <3>2 DEF ReportPage!Links, ReportPage!Linkable, ReportPage!Sections
    <3>3. QED
      BY <3>1, <3>2
  <2>7. ResponseFits(page)
    <3>1. /\ \A a \in page.of \cup page.with : report[a] # "none"
          /\ \A a, b \in page.of : a = b
          /\ \A a \in page.of : \A b \in page.with : a # b /\ Captures = {a, b}
      BY DEF ResponseFits
    <3>2. \A l \in page.links : ReportPage!HasRead(page, l[1], l[2])
      BY <2>2, <2>3 DEF ReportPage!HasRead
    <3>3. QED
      BY <2>5, <2>6, <3>1, <3>2 DEF ResponseFits
  <2>8. QED
    BY <1>2, <1>12, <2>1, <2>2, <2>7, AnswersFit DEF ReportPage!Answer, ComparedFits
<1>13. ASSUME UNCHANGED ReportPage!retentionVars, ReportPage!RequestFails
       PROVE  ReportInv'
  <2>1. reading' = ReportPage!Idle /\ UNCHANGED <<image, compared>>
    BY <1>13 DEF ReportPage!RequestFails
  <2>2. ResponseFits(reading')
    BY <2>1, NothingReadFits DEF ReportPage!Idle
  <2>3. CASE opened.at = "loading"
    <3>1. /\ opened' = [opened EXCEPT !.at = "error"]
          /\ opened.links = {}
      BY <1>13, <2>3 DEF ReportPage!RequestFails, ResponseFits, ReportPage!HasRead
    <3>2. ResponseFits(opened')
      BY <3>1, NothingReadFits DEF ResponseFits
    <3>3. QED
      BY <1>2, <1>13, <2>1, <2>2, <3>1, <3>2 DEF ReportPage!Idle, ComparedFits
  <2>4. CASE opened.at # "loading"
    BY <1>2, <1>13, <2>1, <2>2, <2>4 DEF ReportPage!RequestFails, ReportPage!Idle, ComparedFits
  <2>5. QED
    BY <2>3, <2>4
<1>14. CASE ReportPage!Visitor /\ UNCHANGED ReportPage!retentionVars
  BY <1>14, <1>4, <1>5, <1>6, <1>7, <1>8, <1>9, <1>10, <1>11, <1>12, <1>13 DEF ReportPage!Visitor
<1>16. CASE ReportPage!ReportsNext
  <2>1. \/ ReportPage!RetentionNext /\ UNCHANGED ReportPage!readerVars
        \/ ReportPage!Visitor /\ UNCHANGED ReportPage!retentionVars
    BY ONLY <1>16 DEF ReportPage!ReportsNext
  <2>2. QED
    BY <1>1, <1>14, <2>1
<1>17. QED
  BY <1>3, <1>16

LEMMA ReportInitial == ReportPage!ReportsInit => ReportInv
<1> SUFFICES ASSUME ReportPage!ReportsInit
             PROVE  ReportInv
  OBVIOUS
<1> USE DEF ReportPage!ReportsInit, ReportPage!RetentionInit, ReportPage!Idle, ReportPage!Closed
<1>1. RetentionInv /\ CapturedFirst
  BY DEF RetentionInv, ReportPage!RetentionTypeOK, CapturedFirst
<1>2. ResponseFits(reading) /\ ResponseFits(opened)
  BY NothingReadFits
<1>3. ReportPage!ReportsTypeOK
  BY ReportsAssumption DEF ReportPage!ReportsTypeOK, ReportPage!Response
<1>4. QED
  BY <1>1, <1>2, <1>3 DEF ReportInv, ComparedFits, ReportPage!BrokenIsPurged

(* ReportsAreSound: for any captures of a test with one side of each kind,  *)
(* whatever runs, purges, lost answers and downloads do between the         *)
(* statements of a request, no report lacks a picture that is there, none   *)
(* mixes an older with a newer look at a capture in the wrong order, and    *)
(* every page has the sides of get_comparison.                              *)
THEOREM ReportsShowWhatIsKept == ReportPage!ReportsSpec => []ReportPage!ReportsAreSound
<1>1. ReportPage!ReportsInit => ReportInv
  BY ReportInitial
<1>2. ReportInv => ReportPage!ReportsAreSound
  <2> SUFFICES ASSUME ReportInv
               PROVE  ReportPage!ReportsAreSound
    OBVIOUS
  <2>1. ReportPage!SidesAgree
    <3> SUFFICES ASSUME NEW a \in opened.of, NEW b \in opened.with, compared # <<>>
                 PROVE  compared = IF ReportPage!ThisIsA(a) THEN <<a, b>> ELSE <<b, a>>
      BY DEF ReportPage!SidesAgree
    <3>1. a # b /\ Captures = {a, b}
      BY DEF ReportInv, ResponseFits
    <3>2. PICK x, y \in Captures :
            x # y /\ Captures = {x, y} /\ x \notin NewSides /\ compared = <<x, y>>
      BY DEF ReportInv, ComparedFits
    <3>3. y \in NewSides
      BY <3>2, ReportsAssumption DEF ReportPage!OneOfEach
    <3>4. CASE a = x /\ b = y
      BY <3>2, <3>4 DEF ReportPage!ThisIsA
    <3>5. CASE a = y /\ b = x
      BY <3>2, <3>3, <3>5 DEF ReportPage!ThisIsA
    <3>6. QED
      BY <3>1, <3>2, <3>4, <3>5
  <2>2. QED
    BY <2>1 DEF ReportInv, ResponseFits, ReportPage!ReportsAreSound
<1>3. QED
  BY <1>1, <1>2, ReportStep, PTL DEF ReportPage!ReportsSpec

-----------------------------------------------------------------------------
(* The traffic: rows, and the events that name them.                        *)
VisitorRows ==
  {Traffic!NoRow} \cup
  [gone : {FALSE}, first : Traffic!Touches, lastSeen : Nat, user : Users \cup {Traffic!NoUser}]
VisitRows ==
  {Traffic!NoRow} \cup
  [gone : {FALSE}, visitor : Nat, touch : Traffic!Touches, last : Nat, user : Users \cup {Traffic!NoUser}]
AttributionRows ==
  {Traffic!NoRow} \cup
  [gone : {FALSE}, visitor : Nat, day : Nat, first : Traffic!Touches, last : Traffic!Touches]

TablesTypeOK ==
  /\ day \in 0..LastDay /\ accounts \subseteq Users
  /\ visitors \in Seq(VisitorRows) /\ visits \in Seq(VisitRows) /\ firstSource \in Seq(Traffic!Touches)
  /\ attribution \in [Users -> AttributionRows]
  /\ cameBy \in [Users -> Nat]
  /\ cookies \in [visitor : 0..Len(visitors), visit : 0..Len(visits)]
  /\ link \in [active : BOOLEAN, campaign : Campaigns \cup {"none"}]

(* A visitor that is kept has the touch it first came with, a visit that is *)
(* kept has its visitor, and an account has the first touch of the visitor  *)
(* it came by.                                                              *)
RowsFit ==
  /\ Len(firstSource) = Len(visitors)
  /\ \A v \in Traffic!Alive(visitors) : /\ visitors[v].lastSeen \in 0..day
                                        /\ visitors[v].first = firstSource[v]
  /\ \A s \in Traffic!Alive(visits) : /\ visits[s].visitor \in Traffic!Alive(visitors)
                                      /\ visits[s].last \in 0..day
  /\ \A u \in Users : /\ cameBy[u] \in 0..Len(visitors)
                      /\ ~attribution[u].gone => attribution[u].visitor \in 0..Len(visitors)
                      /\ u \notin accounts => attribution[u].gone
                      /\ u \in accounts /\ cameBy[u] # 0 =>
                           /\ ~attribution[u].gone
                           /\ attribution[u].first = firstSource[cameBy[u]]

(* The visitor and the visit of a page view were seen no earlier than it.   *)
Attributed(e) ==
  /\ e.visitor \in Traffic!Alive(visitors) /\ visitors[e.visitor].lastSeen >= e.day
  /\ e.visit \in Traffic!Alive(visits) /\ visits[e.visit].last >= e.day
  /\ visits[e.visit].visitor = e.visitor

EventShaped(e) ==
  e = [id |-> e.id, type |-> e.type, day |-> e.day, visitor |-> e.visitor, visit |-> e.visit,
       touch |-> e.touch, user |-> e.user, key |-> e.key]

EventFits(e) ==
  /\ EventShaped(e)
  /\ e.day \in 0..day /\ e.touch \in Traffic!Touches /\ e.user \in accounts \cup {Traffic!NoUser}
  /\ e.visitor \in 0..Len(visitors) /\ e.visit \in 0..Len(visits)
  /\ e.type = "login_succeeded" => e.user \in accounts
  /\ e.type = "page_view" => e.key # Traffic!NoKey /\ (e.day >= Traffic!Cutoff => Attributed(e))

EventsFit ==
  /\ IsFiniteSet(events)
  /\ \A e \in events : EventFits(e)
  /\ \A e, f \in events : e.type = "page_view" /\ f.key = e.key => f = e

TrafficInv == TablesTypeOK /\ RowsFit /\ EventsFit

-----------------------------------------------------------------------------
LEMMA AppendedAt ==
  ASSUME NEW S, NEW s \in Seq(S), NEW x \in S
  PROVE  /\ Append(s, x) \in Seq(S) /\ Len(Append(s, x)) = Len(s) + 1 /\ Len(s) \in Nat
         /\ DOMAIN s = 1..Len(s) /\ DOMAIN Append(s, x) = 1..Len(s) + 1
         /\ \A i \in 1..Len(s) : Append(s, x)[i] = s[i]
         /\ Append(s, x)[Len(s) + 1] = x
  OBVIOUS

LEMMA MappedRows ==
  ASSUME NEW S, NEW s \in Seq(S), NEW f, f = [i \in DOMAIN s |-> f[i]], \A i \in DOMAIN s : f[i] \in S
  PROVE  f \in Seq(S) /\ Len(f) = Len(s)
<1>1. DOMAIN s = 1..Len(s) /\ Len(s) \in Nat
  OBVIOUS
<1>2. f \in [1..Len(s) -> S]
  BY <1>1
<1>3. QED
  BY <1>1, <1>2

LEMMA RowChanged ==
  ASSUME NEW S, NEW s \in Seq(S), NEW i \in DOMAIN s, NEW x \in S
  PROVE  /\ [s EXCEPT ![i] = x] \in Seq(S) /\ Len([s EXCEPT ![i] = x]) = Len(s)
         /\ DOMAIN [s EXCEPT ![i] = x] = DOMAIN s
         /\ [s EXCEPT ![i] = x][i] = x
         /\ \A j \in DOMAIN s \ {i} : [s EXCEPT ![i] = x][j] = s[j]
  OBVIOUS

LEMMA RowsShaped ==
  /\ \A r \in VisitorRows : r.gone \in BOOLEAN
  /\ \A r \in VisitorRows : ~r.gone =>
       /\ r = [gone |-> FALSE, first |-> r.first, lastSeen |-> r.lastSeen, user |-> r.user]
       /\ r.first \in Traffic!Touches /\ r.lastSeen \in Nat /\ r.user \in Users \cup {Traffic!NoUser}
  /\ \A r \in VisitRows : r.gone \in BOOLEAN
  /\ \A r \in VisitRows : ~r.gone =>
       /\ r = [gone |-> FALSE, visitor |-> r.visitor, touch |-> r.touch, last |-> r.last, user |-> r.user]
       /\ r.visitor \in Nat /\ r.touch \in Traffic!Touches /\ r.last \in Nat
       /\ r.user \in Users \cup {Traffic!NoUser}
  /\ \A r \in AttributionRows : r.gone \in BOOLEAN
  /\ \A r \in AttributionRows : ~r.gone =>
       /\ r = [gone |-> FALSE, visitor |-> r.visitor, day |-> r.day, first |-> r.first, last |-> r.last]
       /\ r.visitor \in Nat /\ r.day \in Nat /\ r.first \in Traffic!Touches /\ r.last \in Traffic!Touches
<1>1. Traffic!NoRow.gone = TRUE
  BY DEF Traffic!NoRow
<1>2. ASSUME NEW A, NEW B, NEW C, NEW r \in [gone : {FALSE}, first : A, lastSeen : B, user : C]
      PROVE  /\ r.gone = FALSE /\ r.first \in A /\ r.lastSeen \in B /\ r.user \in C
             /\ r = [gone |-> FALSE, first |-> r.first, lastSeen |-> r.lastSeen, user |-> r.user]
  OBVIOUS
<1>3. ASSUME NEW A, NEW B, NEW C, NEW D,
             NEW r \in [gone : {FALSE}, visitor : A, touch : B, last : C, user : D]
      PROVE  /\ r.gone = FALSE /\ r.visitor \in A /\ r.touch \in B /\ r.last \in C /\ r.user \in D
             /\ r = [gone |-> FALSE, visitor |-> r.visitor, touch |-> r.touch, last |-> r.last, user |-> r.user]
  OBVIOUS
<1>4. ASSUME NEW A, NEW B, NEW C, NEW D,
             NEW r \in [gone : {FALSE}, visitor : A, day : B, first : C, last : D]
      PROVE  /\ r.gone = FALSE /\ r.visitor \in A /\ r.day \in B /\ r.first \in C /\ r.last \in D
             /\ r = [gone |-> FALSE, visitor |-> r.visitor, day |-> r.day, first |-> r.first, last |-> r.last]
  OBVIOUS
<1>5. ASSUME NEW r \in VisitorRows
      PROVE  r.gone \in BOOLEAN /\ (~r.gone =>
       /\ r = [gone |-> FALSE, first |-> r.first, lastSeen |-> r.lastSeen, user |-> r.user]
       /\ r.first \in Traffic!Touches /\ r.lastSeen \in Nat /\ r.user \in Users \cup {Traffic!NoUser})
  <2>1. CASE r = Traffic!NoRow
    BY <1>1, <2>1
  <2>2. CASE r \in [gone : {FALSE}, first : Traffic!Touches, lastSeen : Nat, user : Users \cup {Traffic!NoUser}]
    BY <1>2, <2>2
  <2>3. QED
    BY <2>1, <2>2 DEF VisitorRows
<1>6. ASSUME NEW r \in VisitRows
      PROVE  r.gone \in BOOLEAN /\ (~r.gone =>
       /\ r = [gone |-> FALSE, visitor |-> r.visitor, touch |-> r.touch, last |-> r.last, user |-> r.user]
       /\ r.visitor \in Nat /\ r.touch \in Traffic!Touches /\ r.last \in Nat
       /\ r.user \in Users \cup {Traffic!NoUser})
  <2>1. CASE r = Traffic!NoRow
    BY <1>1, <2>1
  <2>2. CASE r \in [gone : {FALSE}, visitor : Nat, touch : Traffic!Touches, last : Nat, user : Users \cup {Traffic!NoUser}]
    BY <1>3, <2>2
  <2>3. QED
    BY <2>1, <2>2 DEF VisitRows
<1>7. ASSUME NEW r \in AttributionRows
      PROVE  r.gone \in BOOLEAN /\ (~r.gone =>
       /\ r = [gone |-> FALSE, visitor |-> r.visitor, day |-> r.day, first |-> r.first, last |-> r.last]
       /\ r.visitor \in Nat /\ r.day \in Nat /\ r.first \in Traffic!Touches /\ r.last \in Traffic!Touches)
  <2>1. CASE r = Traffic!NoRow
    BY <1>1, <2>1
  <2>2. CASE r \in [gone : {FALSE}, visitor : Nat, day : Nat, first : Traffic!Touches, last : Traffic!Touches]
    BY <1>4, <2>2
  <2>3. QED
    BY <2>1, <2>2 DEF AttributionRows
<1>8. QED
  BY <1>5, <1>6, <1>7

LEMMA RowsUpdated ==
  /\ \A r \in VisitorRows : \A d, u : ~r.gone =>
       /\ [r EXCEPT !.lastSeen = d] = [gone |-> FALSE, first |-> r.first, lastSeen |-> d, user |-> r.user]
       /\ [r EXCEPT !.user = u] = [gone |-> FALSE, first |-> r.first, lastSeen |-> r.lastSeen, user |-> u]
  /\ \A r \in VisitRows : \A d, u : ~r.gone =>
       [r EXCEPT !.last = d, !.user = u]
         = [gone |-> FALSE, visitor |-> r.visitor, touch |-> r.touch, last |-> d, user |-> u]
<1>1. ASSUME NEW A, NEW B, NEW C, NEW D, NEW d,
             NEW r \in [gone : A, first : B, lastSeen : C, user : D]
      PROVE  [r EXCEPT !.lastSeen = d] = [gone |-> r.gone, first |-> r.first, lastSeen |-> d, user |-> r.user]
  OBVIOUS
<1>2. ASSUME NEW A, NEW B, NEW C, NEW D, NEW u,
             NEW r \in [gone : A, first : B, lastSeen : C, user : D]
      PROVE  [r EXCEPT !.user = u] = [gone |-> r.gone, first |-> r.first, lastSeen |-> r.lastSeen, user |-> u]
  OBVIOUS
<1>4. Traffic!NoRow.gone = TRUE
  BY DEF Traffic!NoRow
<1>5. ASSUME NEW r \in VisitorRows, NEW d, NEW u, ~r.gone
      PROVE  /\ [r EXCEPT !.lastSeen = d] = [gone |-> FALSE, first |-> r.first, lastSeen |-> d, user |-> r.user]
             /\ [r EXCEPT !.user = u] = [gone |-> FALSE, first |-> r.first, lastSeen |-> r.lastSeen, user |-> u]
  <2>1. r \in [gone : {FALSE}, first : Traffic!Touches, lastSeen : Nat, user : Users \cup {Traffic!NoUser}]
    BY <1>4, <1>5 DEF VisitorRows
  <2>2. r.gone = FALSE
    BY <2>1
  <2>3. \A a, b, c : [gone |-> r.gone, first |-> a, lastSeen |-> b, user |-> c]
                       = [gone |-> FALSE, first |-> a, lastSeen |-> b, user |-> c]
    BY <2>2
  <2>4. QED
    BY <1>1, <1>2, <2>1, <2>3
<1>6. ASSUME NEW r \in VisitRows, NEW d, NEW u, ~r.gone
      PROVE  [r EXCEPT !.last = d, !.user = u]
               = [gone |-> FALSE, visitor |-> r.visitor, touch |-> r.touch, last |-> d, user |-> u]
  <2>1. r \in [gone : {FALSE}, visitor : Nat, touch : Traffic!Touches, last : Nat, user : Users \cup {Traffic!NoUser}]
    BY <1>4, <1>6 DEF VisitRows
  <2>2. r.gone = FALSE
    BY <2>1
  <2>3. \A a, b, c, e : [gone |-> r.gone, visitor |-> a, touch |-> b, last |-> c, user |-> e]
                          = [gone |-> FALSE, visitor |-> a, touch |-> b, last |-> c, user |-> e]
    BY <2>2
  <2>4. [r EXCEPT !.last = d, !.user = u]
          = [gone |-> r.gone, visitor |-> r.visitor, touch |-> r.touch, last |-> d, user |-> u]
    <3> DEFINE fields == {"gone", "visitor", "touch", "last", "user"}
    <3>1. DOMAIN r = fields
      BY <2>1
    <3>2. [r EXCEPT !.last = d, !.user = u]
            = [x \in fields |-> IF x = "user" THEN u ELSE IF x = "last" THEN d ELSE r[x]]
      BY <3>1
    <3>3. QED
      BY <3>2
  <2>5. QED
    BY <2>3, <2>4, Zenon
<1>7. QED
  BY <1>5, <1>6

LEMMA RowsMade ==
  /\ Traffic!NoRow \in VisitorRows /\ Traffic!NoRow \in VisitRows /\ Traffic!NoRow \in AttributionRows
  /\ Traffic!NoRow.gone
  /\ \A t \in Traffic!Touches, n \in Nat, u \in Users \cup {Traffic!NoUser} :
       /\ [gone |-> FALSE, first |-> t, lastSeen |-> n, user |-> u] \in VisitorRows
       /\ \A v \in Nat : [gone |-> FALSE, visitor |-> v, touch |-> t, last |-> n, user |-> u] \in VisitRows
  /\ \A t, x \in Traffic!Touches, n \in Nat, v \in Nat :
       [gone |-> FALSE, visitor |-> v, day |-> n, first |-> t, last |-> x] \in AttributionRows
  BY DEF VisitorRows, VisitRows, AttributionRows, Traffic!NoRow

LEMMA EventsInserted ==
  ASSUME IsFiniteSet(events), NEW new, IsFiniteSet(new), Traffic!InsertEvents(new)
  PROVE  /\ IsFiniteSet(events') /\ events \subseteq events' /\ events' \subseteq events \cup new
         /\ \A e \in events' \ events : e.key = Traffic!NoKey \/ \A f \in events : f.key # e.key
<1> DEFINE added == {e \in new : e.key = Traffic!NoKey \/ \A f \in events : f.key # e.key}
<1>1. events' = events \cup added
  BY DEF Traffic!InsertEvents
<1>2. IsFiniteSet(added)
  BY FS_Subset
<1>3. IsFiniteSet(events')
  BY <1>1, <1>2, FS_Union
<1>4. QED
  BY <1>1, <1>3

(* New events that fit leave the events fitting, if the rows they name are  *)
(* still there and no younger than before.                                  *)
LEMMA EventsGrow ==
  ASSUME TablesTypeOK, EventsFit, NEW new, IsFiniteSet(new), Traffic!InsertEvents(new),
         \A e \in events : EventFits(e) => EventFits(e)',
         \A e \in new : EventFits(e)',
         \A e, f \in new : e.type = "page_view" /\ f.key = e.key => f = e
  PROVE  EventsFit'
<1>1. /\ IsFiniteSet(events') /\ events \subseteq events' /\ events' \subseteq events \cup new
      /\ \A e \in events' \ events : e.key = Traffic!NoKey \/ \A f \in events : f.key # e.key
  BY EventsInserted DEF EventsFit
<1>2. \A e \in events' : EventFits(e)'
  BY <1>1 DEF EventsFit
<1>3. ASSUME NEW e \in events', NEW f \in events', e.type = "page_view", f.key = e.key
      PROVE  f = e
  <2>1. e.key # Traffic!NoKey
    BY <1>2, <1>3 DEF EventFits
  <2>2. CASE e \in events /\ f \in events
    BY <1>3, <2>2 DEF EventsFit
  <2>3. CASE e \in events /\ f \notin events
    BY <1>1, <1>3, <2>1, <2>3
  <2>4. CASE e \notin events /\ f \in events
    BY <1>1, <1>3, <2>1, <2>4
  <2>5. CASE e \notin events /\ f \notin events
    BY <1>1, <1>3, <2>5
  <2>6. QED
    BY <2>2, <2>3, <2>4, <2>5
<1>4. QED
  BY <1>1, <1>2, <1>3 DEF EventsFit

-----------------------------------------------------------------------------
(* Events that are inserted while the rows stay as they are.                *)
LEMMA EventsFitOn ==
  ASSUME NEW e, EventFits(e), accounts \subseteq accounts',
         UNCHANGED <<day, visitors, visits>>
  PROVE  EventFits(e)'
  BY DEF EventFits, EventShaped, Attributed, Traffic!Cutoff, Traffic!Alive

LEMMA BusinessFits ==
  ASSUME TrafficInv, NEW u \in Users, NEW n, NEW type, type # "page_view",
         NEW v \in {0, cookies.visitor}, NEW key,
         u \in accounts', UNCHANGED day, Len(visitors') = Len(visitors), Len(visits') = Len(visits)
  PROVE  EventFits([id |-> n, type |-> type, day |-> day, visitor |-> v, visit |-> 0,
                    touch |-> Traffic!Direct, user |-> u, key |-> key])'
<1>1. Traffic!Direct \in Traffic!Touches
  BY DEF Traffic!Direct, Traffic!Touches
<1>2. /\ v \in 0..Len(visitors) /\ 0 \in 0..Len(visits) /\ day \in 0..day
  BY TrafficAssumption DEF TrafficInv, TablesTypeOK
<1>3. QED
  BY <1>1, <1>2 DEF EventFits, EventShaped

LEMMA MaxOfFinite ==
  ASSUME NEW S, IsFiniteSet(S), S \subseteq Int, S # {}
  PROVE  /\ Traffic!Max(S) \in S
         /\ \A y \in S : Traffic!Max(S) >= y
<1> DEFINE G == {T \in SUBSET S : T # {} => \E x \in T : \A y \in T : x >= y}
<1>1. {} \in G
  OBVIOUS
<1>2. ASSUME NEW T \in SUBSET S, NEW x \in S \ T, T \in G
      PROVE  T \cup {x} \in G
  <2>1. CASE T = {}
    BY <2>1
  <2>2. CASE T # {}
    <3>1. PICK z \in T : \A y \in T : z >= y
      BY <1>2, <2>2
    <3>2. CASE z >= x
      BY <3>1, <3>2
    <3>3. CASE ~(z >= x)
      <4>1. \A y \in T : x >= y
        BY <3>1, <3>3
      <4>2. \A y \in T \cup {x} : x >= y
        BY <4>1
      <4>3. QED
        BY <4>2
    <3>4. QED
      BY <3>2, <3>3
  <2>3. QED
    BY <2>1, <2>2
<1>3. S \in G
  <2> HIDE DEF G
  <2> QED BY <1>1, <1>2, SubsetInduction
<1>4. QED
  BY <1>3 DEF Traffic!Max

LEMMA TouchIsKept ==
  ASSUME TrafficInv, NEW v \in Traffic!Alive(visitors)
  PROVE  Traffic!LastTouch(v) \in Traffic!Touches
<1> DEFINE own == {i \in Traffic!Alive(visits) : visits[i].visitor = v}
<1>1. visitors[v] \in VisitorRows /\ ~visitors[v].gone
  BY DEF TrafficInv, TablesTypeOK, Traffic!Alive
<1>2. CASE own = {}
  BY <1>1, <1>2, RowsShaped DEF Traffic!LastTouch
<1>3. CASE own # {}
  <2>1. own \subseteq 1..Len(visits) /\ Len(visits) \in Nat
    BY DEF TrafficInv, TablesTypeOK, Traffic!Alive
  <2>2. IsFiniteSet(own) /\ own \subseteq Int
    <3> HIDE DEF own
    <3>1. IsFiniteSet(1..Len(visits)) /\ 1..Len(visits) \subseteq Int
      BY <2>1, FS_Interval
    <3>2. QED
      BY <2>1, <3>1, FS_Subset
  <2>3. Traffic!LatestVisit(v) \in own
    BY <1>3, <2>2, MaxOfFinite DEF Traffic!LatestVisit
  <2>4. visits[Traffic!LatestVisit(v)] \in VisitRows /\ ~visits[Traffic!LatestVisit(v)].gone
    BY <2>3 DEF TrafficInv, TablesTypeOK, Traffic!Alive
  <2>5. QED
    BY <1>3, <2>4, RowsShaped DEF Traffic!LastTouch
<1>4. QED
  BY <1>2, <1>3

(* A page view: of a visitor and a visit that are there, or that it makes.  *)
LEMMA PageViewFits ==
  ASSUME TrafficInv, NEW touch \in Traffic!Touches, NEW user \in accounts \cup {Traffic!NoUser},
         NEW idle \in BOOLEAN, NEW key, Traffic!PageView(touch, user, idle, key)
  PROVE  TrafficInv'
<1> USE DEF TrafficInv
<1> DEFINE known == Traffic!KnownVisitor # {}
           v == IF known THEN cookies.visitor ELSE Len(visitors) + 1
           reused == Traffic!OpenVisit(v, idle) # {}
           s == IF reused THEN cookies.visit ELSE Len(visits) + 1
           viewed == [id |-> Traffic!NextId + 1, type |-> "page_view", day |-> day, visitor |-> v, visit |-> s,
                      touch |-> touch, user |-> user, key |-> <<"page_view", key>>]
           started == [id |-> Traffic!NextId + 0, type |-> "visitor_session_started", day |-> day, visitor |-> v,
                       visit |-> s, touch |-> touch, user |-> user, key |-> Traffic!NoKey]
           new == {viewed} \cup (IF reused THEN {} ELSE {started})
           visitor == [gone |-> FALSE, first |-> touch, lastSeen |-> day, user |-> Traffic!NoUser]
           entry == [gone |-> FALSE, visitor |-> v, touch |-> touch, last |-> day, user |-> user]
<1>1. /\ visitors' = IF known THEN [visitors EXCEPT ![v].lastSeen = day] ELSE Append(visitors, visitor)
      /\ firstSource' = IF known THEN firstSource ELSE Append(firstSource, touch)
      /\ visits' = IF reused THEN [visits EXCEPT ![s].last = day, ![s].user = IF user = Traffic!NoUser THEN @ ELSE user]
                   ELSE Append(visits, entry)
      /\ cookies' = [visitor |-> v, visit |-> s]
      /\ UNCHANGED <<day, accounts, attribution, link, cameBy>>
  BY DEF Traffic!PageView
<1>2. Traffic!InsertEvents(new)
  <2> DEFINE one == [Traffic!Event("page_view", v, s, touch, user, <<"page_view", key>>) EXCEPT !.id = Traffic!NextId + 1]
             other == [Traffic!Event("visitor_session_started", v, s, touch, user, Traffic!NoKey)
                         EXCEPT !.id = Traffic!NextId + 0]
  <2>1. Traffic!InsertEvents({one} \cup (IF reused THEN {} ELSE {other}))
    BY DEF Traffic!PageView
  <2>2. one = viewed
    <3> HIDE DEF v, s, reused
    <3> QED BY DEF Traffic!Event
  <2>3. other = started
    <3> HIDE DEF v, s, reused
    <3> QED BY DEF Traffic!Event
  <2>4. QED
    BY <2>1, <2>2, <2>3
<1>3. /\ day \in Nat /\ day \in 0..LastDay /\ accounts \subseteq Users
      /\ Len(visitors) \in Nat /\ Len(visits) \in Nat
      /\ DOMAIN visitors = 1..Len(visitors) /\ DOMAIN visits = 1..Len(visits)
      /\ \A i \in DOMAIN visitors : visitors[i] \in VisitorRows
      /\ \A i \in DOMAIN visits : visits[i] \in VisitRows
  BY TrafficAssumption DEF TablesTypeOK
<1>4. visitor \in VisitorRows /\ (v \in Nat => entry \in VisitRows)
  BY <1>3, RowsMade
<1>5. /\ visitors' \in Seq(VisitorRows) /\ firstSource' \in Seq(Traffic!Touches)
      /\ Len(firstSource') = Len(visitors') /\ Len(visitors') \in Nat /\ Len(visitors') >= Len(visitors)
      /\ v \in Traffic!Alive(visitors') /\ visitors'[v].lastSeen = day
      /\ visitors'[v].first = firstSource'[v]
      /\ \A i \in 1..Len(visitors) : firstSource'[i] = firstSource[i]
      /\ Traffic!Alive(visitors) \subseteq Traffic!Alive(visitors')
      /\ Traffic!Alive(visitors') \subseteq Traffic!Alive(visitors) \cup {v}
      /\ \A i \in Traffic!Alive(visitors) \ {v} : visitors'[i] = visitors[i]
  <2>1. CASE known
    <3>1. v = cookies.visitor /\ v \in Traffic!Alive(visitors) /\ v \in 1..Len(visitors)
      BY <1>3, <2>1 DEF Traffic!KnownVisitor, Traffic!Alive
    <3>2. /\ visitors' = [visitors EXCEPT ![v].lastSeen = day] /\ firstSource' = firstSource
          /\ visitors[v] \in VisitorRows /\ ~visitors[v].gone
      BY <1>1, <1>3, <2>1, <3>1 DEF Traffic!Alive
    <3> HIDE DEF v, known
    <3> DEFINE row == [gone |-> FALSE, first |-> visitors[v].first, lastSeen |-> day, user |-> visitors[v].user]
    <3>3. visitors' = [visitors EXCEPT ![v] = row] /\ row \in VisitorRows
      <4>1. /\ visitors[v] = [gone |-> FALSE, first |-> visitors[v].first, lastSeen |-> visitors[v].lastSeen,
                              user |-> visitors[v].user]
            /\ visitors[v].first \in Traffic!Touches /\ visitors[v].user \in Users \cup {Traffic!NoUser}
        BY <3>2, RowsShaped
      <4>2. [visitors[v] EXCEPT !.lastSeen = day] = row
        BY <3>2, RowsUpdated
      <4>3. visitors' = [visitors EXCEPT ![v] = [visitors[v] EXCEPT !.lastSeen = day]]
        BY <3>2
      <4>4. QED
        BY <1>3, <4>1, <4>2, <4>3, RowsMade
    <3>5. row.gone = FALSE /\ row.lastSeen = day /\ row.first = visitors[v].first
      OBVIOUS
    <3> HIDE DEF row
    <3>4. /\ visitors' \in Seq(VisitorRows) /\ Len(visitors') = Len(visitors)
          /\ DOMAIN visitors' = DOMAIN visitors
          /\ visitors'[v] = row
          /\ \A i \in DOMAIN visitors \ {v} : visitors'[i] = visitors[i]
      BY <1>3, <3>1, <3>3, RowChanged DEF TablesTypeOK
    <3>6. Traffic!Alive(visitors') = Traffic!Alive(visitors)
      BY <3>1, <3>4, <3>5 DEF Traffic!Alive
    <3>7. QED
      BY <1>3, <3>1, <3>2, <3>4, <3>5, <3>6 DEF TablesTypeOK, RowsFit, Traffic!Alive
  <2>2. CASE ~known
    <3>1. v = Len(visitors) + 1 /\ visitors' = Append(visitors, visitor) /\ firstSource' = Append(firstSource, touch)
      BY <1>1, <2>2
    <3>2. visitor.gone = FALSE /\ visitor.lastSeen = day /\ visitor.first = touch
      OBVIOUS
    <3> HIDE DEF v, known, visitor
    <3>3. /\ visitors' \in Seq(VisitorRows) /\ Len(visitors') = Len(visitors) + 1
          /\ DOMAIN visitors' = 1..Len(visitors) + 1
          /\ visitors'[v] = visitor
          /\ \A i \in 1..Len(visitors) : visitors'[i] = visitors[i]
      BY <1>4, <3>1, AppendedAt DEF TablesTypeOK
    <3>4. /\ firstSource' \in Seq(Traffic!Touches) /\ Len(firstSource') = Len(firstSource) + 1
          /\ firstSource'[v] = touch
          /\ \A i \in 1..Len(visitors) : firstSource'[i] = firstSource[i]
      BY <3>1, AppendedAt DEF TablesTypeOK, RowsFit
    <3>5. Traffic!Alive(visitors') = Traffic!Alive(visitors) \cup {v} /\ v \notin Traffic!Alive(visitors)
      BY <1>3, <3>1, <3>2, <3>3 DEF Traffic!Alive
    <3>6. QED
      BY <1>3, <3>1, <3>2, <3>3, <3>4, <3>5 DEF RowsFit, Traffic!Alive
  <2>3. QED
    BY <2>1, <2>2
<1>6. /\ visits' \in Seq(VisitRows) /\ Len(visits') \in Nat /\ Len(visits') >= Len(visits)
      /\ s \in Traffic!Alive(visits') /\ visits'[s].last = day /\ visits'[s].visitor = v
      /\ Traffic!Alive(visits) \subseteq Traffic!Alive(visits')
      /\ Traffic!Alive(visits') \subseteq Traffic!Alive(visits) \cup {s}
      /\ \A i \in Traffic!Alive(visits) \ {s} : visits'[i] = visits[i]
      /\ s \in Traffic!Alive(visits) => visits[s].visitor = v
  <2>1. CASE reused
    <3> DEFINE who == IF user = Traffic!NoUser THEN visits[s].user ELSE user
    <3>1. /\ s = cookies.visit /\ s \in Traffic!Alive(visits) /\ visits[s].visitor = v /\ s \in 1..Len(visits)
      BY <1>3, <2>1 DEF Traffic!OpenVisit, Traffic!Alive
    <3>2. /\ visits' = [visits EXCEPT ![s].last = day, ![s].user = IF user = Traffic!NoUser THEN @ ELSE user]
          /\ visits[s] \in VisitRows /\ ~visits[s].gone
      BY <1>1, <1>3, <2>1, <3>1 DEF Traffic!Alive
    <3> DEFINE row == [gone |-> FALSE, visitor |-> v, touch |-> visits[s].touch, last |-> day, user |-> who]
    <3> HIDE DEF s, reused, v
    <3>3. visits[s] = [gone |-> FALSE, visitor |-> v, touch |-> visits[s].touch, last |-> visits[s].last,
                       user |-> visits[s].user]
      BY <3>1, <3>2, RowsShaped
    <3>4. visits' = [visits EXCEPT ![s] = row]
      <4>1. visits' = [visits EXCEPT ![s] = [visits[s] EXCEPT !.last = day, !.user = who]]
        BY <3>1, <3>2, <3>3
      <4>2. [visits[s] EXCEPT !.last = day, !.user = who] = row
        <5> HIDE DEF who
        <5> QED BY <3>1, <3>2, RowsUpdated
      <4>3. QED
        BY <4>1, <4>2
    <3>5. row \in VisitRows
      <4>1. who \in Users \cup {Traffic!NoUser} /\ visits[s].touch \in Traffic!Touches /\ v \in Nat
        BY <1>3, <3>1, <3>2, RowsShaped
      <4> HIDE DEF who
      <4>2. QED
        BY <1>3, <4>1, RowsMade
    <3>6. row.gone = FALSE /\ row.last = day /\ row.visitor = v
      OBVIOUS
    <3> HIDE DEF row
    <3>7. /\ visits' \in Seq(VisitRows) /\ Len(visits') = Len(visits)
          /\ DOMAIN visits' = DOMAIN visits
          /\ visits'[s] = row
          /\ \A i \in DOMAIN visits \ {s} : visits'[i] = visits[i]
      BY <3>1, <3>4, <3>5 DEF TablesTypeOK
    <3>8. Traffic!Alive(visits') = Traffic!Alive(visits)
      BY <3>1, <3>6, <3>7 DEF Traffic!Alive
    <3>9. QED
      BY <1>3, <3>1, <3>6, <3>7, <3>8 DEF Traffic!Alive
  <2>2. CASE ~reused
    <3>1. s = Len(visits) + 1 /\ visits' = Append(visits, entry)
      BY <1>1, <2>2
    <3>2. entry.gone = FALSE /\ entry.last = day /\ entry.visitor = v
      OBVIOUS
    <3>3. entry \in VisitRows
      BY <1>3, <1>4, <1>5 DEF Traffic!Alive
    <3> HIDE DEF s, reused, v, entry
    <3>4. /\ visits' \in Seq(VisitRows) /\ Len(visits') = Len(visits) + 1
          /\ DOMAIN visits' = 1..Len(visits) + 1
          /\ visits'[s] = entry
          /\ \A i \in 1..Len(visits) : visits'[i] = visits[i]
      BY <3>1, <3>3, AppendedAt DEF TablesTypeOK
    <3>5. Traffic!Alive(visits') = Traffic!Alive(visits) \cup {s} /\ s \notin Traffic!Alive(visits)
      BY <1>3, <3>1, <3>2, <3>4 DEF Traffic!Alive
    <3>6. QED
      BY <1>3, <3>1, <3>2, <3>4, <3>5 DEF Traffic!Alive
  <2>3. QED
    BY <2>1, <2>2
<1> HIDE DEF known, v, reused, s, visitor, entry
<1>7. TablesTypeOK'
  <2>1. v \in 0..Len(visitors') /\ s \in 0..Len(visits')
    BY <1>5, <1>6 DEF Traffic!Alive
  <2>2. cookies' \in [visitor : 0..Len(visitors'), visit : 0..Len(visits')]
    BY <1>1, <2>1
  <2>3. QED
    BY <1>1, <1>5, <1>6, <2>2 DEF TablesTypeOK
<1>8. RowsFit'
  <2>1. \A i \in Traffic!Alive(visitors') : visitors'[i].lastSeen \in 0..day /\ visitors'[i].first = firstSource'[i]
    BY <1>3, <1>5 DEF RowsFit, Traffic!Alive
  <2>2. \A i \in Traffic!Alive(visits') : visits'[i].visitor \in Traffic!Alive(visitors') /\ visits'[i].last \in 0..day
    BY <1>3, <1>5, <1>6 DEF RowsFit
  <2>3. ASSUME NEW u \in Users
        PROVE  /\ cameBy[u] \in 0..Len(visitors')
               /\ ~attribution[u].gone => attribution[u].visitor \in 0..Len(visitors')
               /\ u \notin accounts => attribution[u].gone
               /\ u \in accounts /\ cameBy[u] # 0 =>
                    ~attribution[u].gone /\ attribution[u].first = firstSource'[cameBy[u]]
    BY <1>3, <1>5 DEF RowsFit
  <2>4. QED
    BY <1>1, <1>5, <2>1, <2>2, <2>3 DEF RowsFit
<1>9. EventsFit'
  <2>1. ASSUME NEW e \in events, EventFits(e)
        PROVE  EventFits(e)'
    <3>1. ASSUME Attributed(e)
          PROVE  Attributed(e)'
      <4>1. e.visitor \in Traffic!Alive(visitors') /\ visitors'[e.visitor].lastSeen >= e.day
        BY <1>3, <1>5, <2>1, <3>1 DEF Attributed, EventFits
      <4>2. e.visit \in Traffic!Alive(visits') /\ visits'[e.visit].last >= e.day
        BY <1>3, <1>6, <2>1, <3>1 DEF Attributed, EventFits
      <4>3. visits'[e.visit].visitor = e.visitor
        BY <1>6, <3>1 DEF Attributed
      <4>4. QED
        BY <4>1, <4>2, <4>3 DEF Attributed
    <3>2. QED
      BY <1>1, <1>3, <1>5, <1>6, <2>1, <3>1 DEF EventFits, Traffic!Cutoff, EventShaped
  <2>2. PICK w \in Nat, p \in Nat : w = v /\ p = s
    BY <1>5, <1>6 DEF Traffic!Alive
  <2>3. PICK n : n = Traffic!NextId
    OBVIOUS
  <2> DEFINE first == [id |-> n + 1, type |-> "page_view", day |-> day, visitor |-> w, visit |-> p,
                       touch |-> touch, user |-> user, key |-> <<"page_view", key>>]
             second == [id |-> n + 0, type |-> "visitor_session_started", day |-> day, visitor |-> w,
                        visit |-> p, touch |-> touch, user |-> user, key |-> Traffic!NoKey]
  <2>4. first = viewed /\ second = started
    BY <2>2, <2>3
  <2>9. /\ UNCHANGED day
        /\ first' = first /\ second' = second
    BY <1>1
  <2>5. w \in 0..Len(visitors') /\ p \in 0..Len(visits')
    BY <1>5, <1>6, <2>2 DEF Traffic!Alive
  <2>6. EventFits(first)'
    <3>1. first.key # Traffic!NoKey
      BY DEF Traffic!NoKey
    <3>2. Attributed(first)'
      <4>1. /\ w \in Traffic!Alive(visitors') /\ visitors'[w].lastSeen >= day
            /\ p \in Traffic!Alive(visits') /\ visits'[p].last >= day /\ visits'[p].visitor = w
        BY <1>3, <1>5, <1>6, <2>2
      <4>2. QED
        BY <2>9, <4>1 DEF Attributed
    <3>3. QED
      BY <1>1, <1>3, <2>5, <3>1, <3>2 DEF EventFits, EventShaped
  <2>7. EventFits(second)'
    BY <1>1, <1>3, <2>5 DEF EventFits, EventShaped
  <2>8. viewed.key # started.key /\ started.type # "page_view" /\ new \subseteq {viewed, started}
    BY DEF Traffic!NoKey
  <2>10. PICK added : added = new
    OBVIOUS
  <2> HIDE DEF viewed, started, first, second
  <2>11. IsFiniteSet(added)
    BY <2>10, FS_EmptySet, FS_Singleton, FS_Union
  <2> HIDE DEF new
  <2>12. \A e, f \in added : e.type = "page_view" /\ f.key = e.key => f = e
    BY <2>8, <2>10
  <2>13. \A e \in added : EventFits(e)'
    <3> SUFFICES ASSUME NEW e \in added PROVE EventFits(e)'
      OBVIOUS
    <3>1. e = first \/ e = second
      BY <2>4, <2>8, <2>10
    <3>2. QED
      BY <2>6, <2>7, <2>9, <3>1 DEF EventFits, EventShaped, Attributed
  <2>14. QED
    BY <1>2, <2>1, <2>10, <2>11, <2>12, <2>13, EventsGrow
<1>10. QED
  BY <1>7, <1>8, <1>9

(* An account is made; its visitor, if the cookie names one, is the one it  *)
(* came by.                                                                 *)
LEMMA RegisterFits ==
  ASSUME TrafficInv, NEW u \in Users, Traffic!Register(u)
  PROVE  TrafficInv'
<1> USE DEF TrafficInv
<1> DEFINE known == Traffic!KnownVisitor # {}
           v == cookies.visitor
           row == [gone |-> FALSE, first |-> visitors[v].first, lastSeen |-> visitors[v].lastSeen, user |-> u]
           acquired == [gone |-> FALSE, visitor |-> v, day |-> day,
                        first |-> visitors[v].first, last |-> Traffic!LastTouch(v)]
<1>1. /\ u \notin accounts /\ accounts' = accounts \cup {u}
      /\ cameBy' = [cameBy EXCEPT ![u] = IF ~known THEN 0 ELSE v]
      /\ UNCHANGED <<day, visits, cookies, link, firstSource>>
      /\ Traffic!LinkSignupAttribution(u)
      /\ Traffic!BusinessEvents(<<"signup_completed", "organization_created", "login_succeeded">>, u)
  BY DEF Traffic!Register
<1>2. /\ day \in Nat /\ day \in 0..LastDay /\ accounts \subseteq Users
      /\ Len(visitors) \in Nat /\ Len(visits) \in Nat
      /\ DOMAIN visitors = 1..Len(visitors) /\ DOMAIN visits = 1..Len(visits)
      /\ \A i \in DOMAIN visitors : visitors[i] \in VisitorRows
      /\ v \in 0..Len(visitors)
      /\ attribution[u].gone /\ cameBy[u] \in Nat
  BY <1>1, TrafficAssumption DEF TablesTypeOK, RowsFit
<1>3. known => v \in Traffic!Alive(visitors) /\ v \in 1..Len(visitors)
  BY <1>2 DEF Traffic!KnownVisitor, Traffic!Alive
<1>4. /\ visitors' \in Seq(VisitorRows) /\ Len(visitors') = Len(visitors)
      /\ Traffic!Alive(visitors') = Traffic!Alive(visitors)
      /\ \A i \in Traffic!Alive(visitors) : /\ visitors'[i].lastSeen = visitors[i].lastSeen
                                            /\ visitors'[i].first = visitors[i].first
      /\ attribution' \in [Users -> AttributionRows]
      /\ \A x \in Users \ {u} : attribution'[x] = attribution[x]
      /\ known => /\ attribution'[u].gone = FALSE /\ attribution'[u].first = visitors[v].first
                  /\ attribution'[u].visitor = v
      /\ ~known => attribution'[u] = attribution[u]
  <2>1. CASE ~known
    BY <1>1, <2>1 DEF Traffic!LinkSignupAttribution, TablesTypeOK
  <2>2. CASE known
    <3>1. visitors[v] \in VisitorRows /\ ~visitors[v].gone
      BY <1>2, <1>3, <2>2 DEF Traffic!Alive
    <3>2. /\ visitors[v] = [gone |-> FALSE, first |-> visitors[v].first, lastSeen |-> visitors[v].lastSeen,
                            user |-> visitors[v].user]
          /\ visitors[v].first \in Traffic!Touches /\ visitors[v].lastSeen \in Nat
      BY <3>1, RowsShaped
    <3>3. [visitors[v] EXCEPT !.user = u] = row
      BY <3>1, RowsUpdated
    <3>4. visitors' = [visitors EXCEPT ![v] = row]
      <4>1. visitors' = [visitors EXCEPT ![v] = [visitors[v] EXCEPT !.user = u]]
        BY <1>1, <2>2 DEF Traffic!LinkSignupAttribution
      <4>2. QED
        BY <3>3, <4>1
    <3>5. row \in VisitorRows /\ row.gone = FALSE /\ row.lastSeen = visitors[v].lastSeen /\ row.first = visitors[v].first
      BY <3>2, RowsMade
    <3>6. attribution' = [attribution EXCEPT ![u] = acquired]
      BY <1>1, <1>2, <2>2 DEF Traffic!LinkSignupAttribution
    <3>7. acquired \in AttributionRows /\ acquired.gone = FALSE /\ acquired.first = visitors[v].first /\ acquired.visitor = v
      <4>1. Traffic!LastTouch(v) \in Traffic!Touches
        BY <1>3, <2>2, TouchIsKept
      <4>2. v \in Nat
        BY <1>2
      <4>3. acquired \in AttributionRows
        BY <1>2, <3>2, <4>1, <4>2, RowsMade
      <4>4. QED
        BY <4>3
    <3> HIDE DEF row, acquired, v, known
    <3>8. /\ visitors' \in Seq(VisitorRows) /\ Len(visitors') = Len(visitors) /\ DOMAIN visitors' = DOMAIN visitors
          /\ visitors'[v] = row /\ \A i \in DOMAIN visitors \ {v} : visitors'[i] = visitors[i]
      BY <1>2, <1>3, <2>2, <3>4, <3>5, RowChanged DEF TablesTypeOK
    <3>9. /\ Traffic!Alive(visitors') = Traffic!Alive(visitors)
          /\ \A i \in Traffic!Alive(visitors) : /\ visitors'[i].lastSeen = visitors[i].lastSeen
                                                /\ visitors'[i].first = visitors[i].first
      BY <1>3, <2>2, <3>5, <3>8 DEF Traffic!Alive
    <3>10. /\ attribution' \in [Users -> AttributionRows]
           /\ \A x \in Users \ {u} : attribution'[x] = attribution[x]
           /\ attribution'[u] = acquired
      BY <3>6, <3>7 DEF TablesTypeOK
    <3>11. QED
      BY <2>2, <3>7, <3>8, <3>9, <3>10
  <2>3. QED
    BY <2>1, <2>2
<1> HIDE DEF known, v, row, acquired
<1>5. /\ cameBy' \in [Users -> Nat] /\ \A x \in Users \ {u} : cameBy'[x] = cameBy[x]
      /\ cameBy'[u] = IF known THEN v ELSE 0
  BY <1>1, <1>2 DEF TablesTypeOK
<1>6. TablesTypeOK'
  BY <1>1, <1>2, <1>4, <1>5 DEF TablesTypeOK
<1>7. RowsFit'
  <2>1. ASSUME NEW x \in Users
        PROVE  /\ cameBy'[x] \in 0..Len(visitors)
               /\ ~attribution'[x].gone => attribution'[x].visitor \in 0..Len(visitors)
               /\ x \notin accounts' => attribution'[x].gone
               /\ x \in accounts' /\ cameBy'[x] # 0 =>
                    ~attribution'[x].gone /\ attribution'[x].first = firstSource[cameBy'[x]]
    <3>1. CASE x = u
      BY <1>1, <1>2, <1>3, <1>4, <1>5, <3>1 DEF RowsFit
    <3>2. CASE x # u
      BY <1>1, <1>4, <1>5, <3>2 DEF RowsFit
    <3>3. QED
      BY <3>1, <3>2
  <2>2. QED
    BY <1>1, <1>4, <2>1 DEF RowsFit
<1>8. EventsFit'
  <2>1. ASSUME NEW e \in events, EventFits(e)
        PROVE  EventFits(e)'
    <3>1. Attributed(e) => Attributed(e)'
      BY <1>1, <1>4 DEF Attributed
    <3>2. QED
      BY <1>1, <1>4, <2>1, <3>1 DEF EventFits, EventShaped, Traffic!Cutoff
  <2>2. PICK w \in {0, cookies.visitor} : w = IF Traffic!KnownVisitor = {} THEN 0 ELSE cookies.visitor
    OBVIOUS
  <2>3. PICK n : n = Traffic!NextId
    OBVIOUS
  <2> DEFINE signedUp == [id |-> n + 1 - 1, type |-> "signup_completed", day |-> day, visitor |-> w, visit |-> 0,
                          touch |-> Traffic!Direct, user |-> u, key |-> Traffic!NoKey]
             created == [id |-> n + 2 - 1, type |-> "organization_created", day |-> day, visitor |-> w, visit |-> 0,
                         touch |-> Traffic!Direct, user |-> u, key |-> Traffic!NoKey]
             loggedIn == [id |-> n + 3 - 1, type |-> "login_succeeded", day |-> day, visitor |-> w, visit |-> 0,
                          touch |-> Traffic!Direct, user |-> u, key |-> Traffic!NoKey]
  <2>4. EventFits(signedUp)' /\ EventFits(created)' /\ EventFits(loggedIn)'
    BY <1>1, <1>4, BusinessFits
  <2>5. PICK added : added = {signedUp, created, loggedIn}
    OBVIOUS
  <2>6. Traffic!InsertEvents(added)
    <3> DEFINE types == <<"signup_completed", "organization_created", "login_succeeded">>
               event(m) == [Traffic!Event(types[m], w, 0, Traffic!Direct, u, Traffic!NoKey) EXCEPT !.id = n + m - 1]
    <3>1. Traffic!InsertEvents({event(m) : m \in DOMAIN types})
      <4> HIDE DEF signedUp, created, loggedIn
      <4> QED BY <1>1, <2>2, <2>3 DEF Traffic!BusinessEvents
    <3>2. ASSUME NEW m, NEW type
          PROVE  [Traffic!Event(type, w, 0, Traffic!Direct, u, Traffic!NoKey) EXCEPT !.id = n + m - 1]
                   = [id |-> n + m - 1, type |-> type, day |-> day, visitor |-> w, visit |-> 0,
                      touch |-> Traffic!Direct, user |-> u, key |-> Traffic!NoKey]
      BY DEF Traffic!Event
    <3>3. event(1) = signedUp /\ event(2) = created /\ event(3) = loggedIn
      BY <3>2
    <3> HIDE DEF event, signedUp, created, loggedIn
    <3>4. DOMAIN types = {1, 2, 3}
      OBVIOUS
    <3> HIDE DEF types
    <3>5. {event(m) : m \in DOMAIN types} = added
      BY <2>5, <3>3, <3>4
    <3>6. QED
      BY <3>1, <3>5
  <2>7. \A e \in added : e.type # "page_view" /\ EventFits(e)'
    BY <1>1, <2>4, <2>5
  <2>8. IsFiniteSet(added)
    <3> HIDE DEF signedUp, created, loggedIn
    <3>1. IsFiniteSet({signedUp} \cup {created}) /\ IsFiniteSet({loggedIn})
      BY FS_Singleton, FS_Union
    <3>2. added = ({signedUp} \cup {created}) \cup {loggedIn}
      BY <2>5
    <3>3. QED
      BY <3>1, <3>2, FS_Union
  <2>9. QED
    BY <2>1, <2>6, <2>7, <2>8, EventsGrow
<1>9. QED
  BY <1>6, <1>7, <1>8

LEMMA OneEventFits ==
  ASSUME TrafficInv, NEW u \in accounts, NEW n, NEW type, type # "page_view", NEW v \in {0, cookies.visitor}, NEW key,
         Traffic!InsertEvents({[id |-> n, type |-> type, day |-> day, visitor |-> v, visit |-> 0,
                                touch |-> Traffic!Direct, user |-> u, key |-> key]}),
         UNCHANGED <<day, accounts, visitors, visits, attribution, cookies, link, firstSource, cameBy>>
  PROVE  TrafficInv'
<1> USE DEF TrafficInv
<1> DEFINE e == [id |-> n, type |-> type, day |-> day, visitor |-> v, visit |-> 0,
                 touch |-> Traffic!Direct, user |-> u, key |-> key]
<1>1. TablesTypeOK' /\ RowsFit'
  BY DEF TablesTypeOK, RowsFit, Traffic!Alive
<1>2. EventFits(e)'
  BY BusinessFits DEF TablesTypeOK
<1>3. PICK added : added = {e}
  OBVIOUS
<1>4. \A f \in events : EventFits(f) => EventFits(f)'
  BY EventsFitOn
<1>5. IsFiniteSet(added) /\ Traffic!InsertEvents(added)
  BY <1>3, FS_Singleton
<1>6. \A f \in added : f.type # "page_view" /\ EventFits(f)'
  BY <1>2, <1>3
<1>7. EventsFit'
  BY <1>4, <1>5, <1>6, EventsGrow
<1>8. QED
  BY <1>1, <1>7

(* What the retention keeps is what is young enough: a page view that is    *)
(* kept keeps its rows.                                                     *)
LEMMA PurgeFits ==
  ASSUME TrafficInv, Traffic!PurgeExpired
  PROVE  TrafficInv'
<1> USE DEF TrafficInv
<1>1. /\ visitors' = [v \in DOMAIN visitors |-> IF v \in Traffic!KeptVisitors THEN visitors[v] ELSE Traffic!NoRow]
      /\ visits' = [s \in DOMAIN visits |-> IF s \in Traffic!KeptVisits THEN visits[s] ELSE Traffic!NoRow]
      /\ attribution' = [u \in Users |-> Traffic!PurgedAttribution(u)]
      /\ UNCHANGED <<day, accounts, cookies, link, firstSource, cameBy>>
  BY DEF Traffic!PurgeExpired
<1>2. /\ DOMAIN visitors = 1..Len(visitors) /\ DOMAIN visits = 1..Len(visits)
      /\ Len(visitors) \in Nat /\ Len(visits) \in Nat
      /\ \A i \in DOMAIN visitors : visitors[i] \in VisitorRows
      /\ \A i \in DOMAIN visits : visits[i] \in VisitRows
      /\ day \in Nat /\ Traffic!Cutoff \in Int
  BY TrafficAssumption DEF TablesTypeOK, Traffic!Cutoff
<1>3. /\ visitors' \in Seq(VisitorRows) /\ Len(visitors') = Len(visitors)
      /\ Traffic!Alive(visitors') = Traffic!KeptVisitors
      /\ \A v \in Traffic!KeptVisitors : visitors'[v] = visitors[v] /\ v \in Traffic!Alive(visitors)
  <2>1. \A v \in DOMAIN visitors : visitors'[v] \in VisitorRows
    BY <1>1, <1>2, RowsMade
  <2>2. visitors' = [v \in DOMAIN visitors |-> visitors'[v]]
    BY <1>1
  <2>3. visitors' \in Seq(VisitorRows) /\ Len(visitors') = Len(visitors)
    BY <2>1, <2>2, MappedRows DEF TablesTypeOK
  <2>4. QED
    BY <1>1, <1>2, <2>2, <2>3, RowsMade DEF Traffic!Alive, Traffic!KeptVisitors
<1>4. /\ visits' \in Seq(VisitRows) /\ Len(visits') = Len(visits)
      /\ Traffic!Alive(visits') = Traffic!KeptVisits
      /\ \A s \in Traffic!KeptVisits : visits'[s] = visits[s] /\ s \in Traffic!Alive(visits)
  <2>1. \A s \in DOMAIN visits : visits'[s] \in VisitRows
    BY <1>1, <1>2, RowsMade
  <2>2. visits' = [s \in DOMAIN visits |-> visits'[s]]
    BY <1>1
  <2>3. visits' \in Seq(VisitRows) /\ Len(visits') = Len(visits)
    BY <2>1, <2>2, MappedRows DEF TablesTypeOK
  <2>4. QED
    BY <1>1, <1>2, <2>2, <2>3, RowsMade DEF Traffic!Alive, Traffic!KeptVisits
<1>5. ASSUME NEW u \in Users
      PROVE  /\ attribution'[u] \in AttributionRows /\ (attribution'[u].gone <=> attribution[u].gone)
             /\ ~attribution[u].gone => /\ attribution'[u].visitor \in 0..Len(visitors)
                                        /\ attribution'[u].first = attribution[u].first
  <2> DEFINE row == attribution[u]
             w == Traffic!Kept(row.visitor, Traffic!KeptVisitors)
  <2>1. attribution'[u] = IF row.gone THEN row ELSE [row EXCEPT !.visitor = w]
    BY <1>1 DEF Traffic!PurgedAttribution
  <2>2. row \in AttributionRows
    BY DEF TablesTypeOK
  <2>3. CASE row.gone
    BY <2>1, <2>2, <2>3
  <2>4. CASE ~row.gone
    <3>1. row = [gone |-> FALSE, visitor |-> row.visitor, day |-> row.day, first |-> row.first, last |-> row.last]
          /\ row.visitor \in Nat /\ row.day \in Nat /\ row.first \in Traffic!Touches /\ row.last \in Traffic!Touches
      BY <2>2, <2>4, RowsShaped
    <3>2. row.visitor \in 0..Len(visitors) /\ w \in 0..Len(visitors)
      BY <1>2, <2>4 DEF RowsFit, Traffic!Kept
    <3> HIDE DEF w, row
    <3> DEFINE fields == {"gone", "visitor", "day", "first", "last"}
               kept == [row EXCEPT !.visitor = w]
               made == [gone |-> FALSE, visitor |-> w, day |-> row.day, first |-> row.first, last |-> row.last]
    <3>3. DOMAIN row = fields /\ row.gone = FALSE
      BY <3>1
    <3>4. kept = [x \in fields |-> IF x = "visitor" THEN w ELSE row[x]]
      BY <3>3
    <3>5. /\ kept = [x \in fields |-> kept[x]]
          /\ kept.gone = FALSE /\ kept.visitor = w /\ kept.day = row.day
          /\ kept.first = row.first /\ kept.last = row.last
      BY <3>3, <3>4
    <3>6. kept = made
      <4> HIDE DEF kept
      <4>1. /\ DOMAIN made = fields /\ made = [x \in DOMAIN made |-> made[x]]
            /\ made.gone = FALSE /\ made.visitor = w /\ made.day = row.day
            /\ made.first = row.first /\ made.last = row.last
        OBVIOUS
      <4> HIDE DEF made
      <4>2. QED
        BY <3>5, <4>1
    <3>7. made \in AttributionRows
      BY <1>2, <3>1, <3>2, RowsMade
    <3>8. attribution'[u] = kept
      BY <2>1, <2>4
    <3> HIDE DEF kept, made
    <3>9. QED
      BY <2>4, <3>2, <3>5, <3>6, <3>7, <3>8 DEF row
  <2>5. QED
    BY <2>3, <2>4
<1>6. TablesTypeOK'
  <2>1. attribution' \in [Users -> AttributionRows]
    BY <1>1, <1>5
  <2>2. QED
    BY <1>1, <1>3, <1>4, <2>1 DEF TablesTypeOK
<1>7. RowsFit'
  <2>1. \A s \in Traffic!KeptVisits : visits[s].visitor \in Traffic!KeptVisitors
    BY DEF Traffic!KeptVisits
  <2>2. \A v \in Traffic!Alive(visitors') : visitors'[v].lastSeen \in 0..day /\ visitors'[v].first = firstSource[v]
    BY <1>3 DEF RowsFit
  <2>3. \A s \in Traffic!Alive(visits') : visits'[s].visitor \in Traffic!Alive(visitors') /\ visits'[s].last \in 0..day
    BY <1>3, <1>4, <2>1 DEF RowsFit
  <2>4. ASSUME NEW u \in Users
        PROVE  /\ cameBy[u] \in 0..Len(visitors)
               /\ ~attribution'[u].gone => attribution'[u].visitor \in 0..Len(visitors)
               /\ u \notin accounts => attribution'[u].gone
               /\ u \in accounts /\ cameBy[u] # 0 =>
                    ~attribution'[u].gone /\ attribution'[u].first = firstSource[cameBy[u]]
    BY <1>5 DEF RowsFit
  <2>5. QED
    BY <1>1, <1>3, <2>2, <2>3, <2>4 DEF RowsFit
<1>8. EventsFit'
  <2> DEFINE seen == {f \in events : f.day >= Traffic!Cutoff}
             kept(e) == [e EXCEPT !.visitor = Traffic!Kept(@, Traffic!KeptVisitors),
                                  !.visit = Traffic!Kept(@, Traffic!KeptVisits)]
  <2>1. events' = {kept(e) : e \in seen}
    BY DEF Traffic!PurgeExpired
  <2>2. IsFiniteSet(events')
    <3>1. IsFiniteSet(seen)
      BY FS_Subset DEF EventsFit
    <3> HIDE DEF seen, kept
    <3> DEFINE keptAs == [e \in seen |-> kept(e)]
    <3>2. keptAs \in Surjection(seen, events')
      BY <2>1 DEF Surjection
    <3>3. QED
      BY <3>1, <3>2, FS_Surjection
  <2>3. ASSUME NEW e \in seen
        PROVE  \E k : k = kept(e) /\ k.type = e.type /\ k.key = e.key /\ EventFits(k)'
    <3>1. PICK v : v = Traffic!Kept(e.visitor, Traffic!KeptVisitors)
      OBVIOUS
    <3>2. PICK s : s = Traffic!Kept(e.visit, Traffic!KeptVisits)
      OBVIOUS
    <3> DEFINE made == [id |-> e.id, type |-> e.type, day |-> e.day, visitor |-> v, visit |-> s,
                        touch |-> e.touch, user |-> e.user, key |-> e.key]
               fields == {"id", "type", "day", "visitor", "visit", "touch", "user", "key"}
    <3>3. e \in events /\ EventFits(e) /\ e.day >= Traffic!Cutoff
      BY DEF EventsFit
    <3>4. kept(e) = made
      <4>1. DOMAIN e = fields
        BY <3>3 DEF EventFits, EventShaped
      <4>2. kept(e) = [x \in fields |-> IF x = "visit" THEN s ELSE IF x = "visitor" THEN v ELSE e[x]]
        BY <3>1, <3>2, <4>1
      <4>3. QED
        BY <4>2
    <3>5. v \in 0..Len(visitors) /\ s \in 0..Len(visits) /\ v \in Nat /\ s \in Nat
      BY <1>2, <3>1, <3>2, <3>3 DEF EventFits, Traffic!Kept
    <3>6. ASSUME e.type = "page_view"
          PROVE  v = e.visitor /\ s = e.visit /\ v \in Traffic!KeptVisitors /\ s \in Traffic!KeptVisits
                 /\ Attributed(e)
      <4>1. Attributed(e)
        BY <3>3, <3>6 DEF EventFits
      <4>2. visitors[e.visitor].lastSeen \in Int /\ visits[e.visit].last \in Int /\ e.day \in Int
        BY <1>2, <3>3, <4>1 DEF Attributed, RowsFit, EventFits
      <4>3. e.visitor \in Traffic!KeptVisitors
        BY <1>2, <3>3, <4>1, <4>2 DEF Attributed, Traffic!KeptVisitors
      <4>4. e.visit \in Traffic!KeptVisits
        BY <1>2, <3>3, <4>1, <4>2, <4>3 DEF Attributed, Traffic!KeptVisits
      <4>5. QED
        BY <3>1, <3>2, <4>1, <4>3, <4>4 DEF Traffic!Kept
    <3>7. ASSUME e.type = "page_view"
          PROVE  Attributed(made)'
      <4>1. /\ v \in Traffic!Alive(visitors') /\ visitors'[v].lastSeen >= e.day
            /\ s \in Traffic!Alive(visits') /\ visits'[s].last >= e.day /\ visits'[s].visitor = v
        BY <1>3, <1>4, <3>6, <3>7 DEF Attributed
      <4>2. QED
        BY <4>1 DEF Attributed
    <3>8. EventFits(made)'
      BY <1>1, <1>3, <1>4, <3>3, <3>5, <3>7 DEF EventFits, EventShaped, Traffic!Cutoff
    <3>9. made.type = e.type /\ made.key = e.key
      OBVIOUS
    <3>10. PICK k : k = made
      OBVIOUS
    <3>11. EventFits(k)'
      <4>1. made' = made
        BY <3>10
      <4>2. QED
        BY <3>8, <3>10
    <3> HIDE DEF made, kept
    <3>12. QED
      BY <3>4, <3>9, <3>10, <3>11
  <2> HIDE DEF kept
  <2>4. \A k \in events' : EventFits(k)' /\ \E e \in seen : k = kept(e) /\ k.type = e.type /\ k.key = e.key
    BY <2>1, <2>3
  <2>5. ASSUME NEW k \in events', NEW l \in events', k.type = "page_view", l.key = k.key
        PROVE  l = k
    <3>1. PICK e \in seen : k = kept(e) /\ k.type = e.type /\ k.key = e.key
      BY <2>4
    <3>2. PICK f \in seen : l = kept(f) /\ l.key = f.key
      BY <2>4
    <3>3. f = e
      BY <2>5, <3>1, <3>2 DEF EventsFit
    <3>4. QED
      BY <3>1, <3>2, <3>3
  <2>6. QED
    BY <2>2, <2>4, <2>5 DEF EventsFit
<1>9. QED
  BY <1>6, <1>7, <1>8

(* A day passes: what is attributed stays attributed, what is kept shrinks. *)
LEMMA DayFits ==
  ASSUME TrafficInv, Traffic!NextDay
  PROVE  TrafficInv'
<1> USE DEF TrafficInv
<1>1. /\ day < LastDay /\ day' = day + 1 /\ day \in Nat
      /\ UNCHANGED <<accounts, events, visitors, visits, attribution, cookies, link, firstSource, cameBy>>
  BY TrafficAssumption DEF Traffic!NextDay, TablesTypeOK
<1>2. TablesTypeOK'
  BY <1>1, TrafficAssumption DEF TablesTypeOK
<1>3. RowsFit'
  BY <1>1 DEF RowsFit, Traffic!Alive
<1>4. ASSUME NEW e \in events
      PROVE  EventFits(e)'
  <2>1. EventFits(e)
    BY DEF EventsFit
  <2>2. Attributed(e) => Attributed(e)'
    BY <1>1 DEF Attributed, Traffic!Alive
  <2>3. e.day >= Traffic!Cutoff' => e.day >= Traffic!Cutoff
    BY <1>1, <2>1, TrafficAssumption DEF Traffic!Cutoff, EventFits
  <2>4. QED
    BY <1>1, <2>1, <2>2, <2>3 DEF EventFits, EventShaped
<1>5. QED
  BY <1>1, <1>2, <1>3, <1>4 DEF EventsFit

(* What leaves the rows and the events alone.                               *)
LEMMA TrafficStays ==
  ASSUME TrafficInv, UNCHANGED <<day, accounts, events, visitors, visits, attribution, firstSource, cameBy>>,
         cookies' \in [visitor : 0..Len(visitors), visit : 0..Len(visits)],
         link' \in [active : BOOLEAN, campaign : Campaigns \cup {"none"}]
  PROVE  TrafficInv'
  BY DEF TrafficInv, TablesTypeOK, RowsFit, EventsFit, EventFits, EventShaped, Attributed, Traffic!Alive,
         Traffic!Cutoff

LEMMA TrafficStep == TrafficInv /\ [Traffic!TrafficNext]_Traffic!trafficVars => TrafficInv'
<1> SUFFICES ASSUME TrafficInv, [Traffic!TrafficNext]_Traffic!trafficVars
             PROVE  TrafficInv'
  OBVIOUS
<1>1. Traffic!Direct \in Traffic!Touches /\ link.campaign \in Campaigns \cup {"none"}
      /\ [code |-> TRUE, campaign |-> link.campaign] \in Traffic!Touches
  BY DEF Traffic!Direct, Traffic!Touches, TrafficInv, TablesTypeOK
<1>2. CASE Traffic!BrowserSendsPageView
  BY <1>1, <1>2, PageViewFits DEF Traffic!BrowserSendsPageView
<1>3. CASE Traffic!RepeatPageView
  BY <1>1, <1>3, PageViewFits DEF Traffic!RepeatPageView
<1>4. CASE Traffic!TrackLinkRedirect
  BY <1>1, <1>4, PageViewFits DEF Traffic!TrackLinkRedirect
<1>5. CASE Traffic!ForgetCookies
  <2>1. /\ cookies' = [visitor |-> 0, visit |-> 0]
        /\ UNCHANGED <<day, accounts, events, visitors, visits, attribution, link, firstSource, cameBy>>
        /\ Len(visitors) \in Nat /\ Len(visits) \in Nat
    BY <1>5 DEF Traffic!ForgetCookies, TrafficInv, TablesTypeOK
  <2>2. cookies' \in [visitor : 0..Len(visitors), visit : 0..Len(visits)]
    BY <2>1
  <2>3. QED
    BY <2>1, <2>2, TrafficStays DEF TrafficInv, TablesTypeOK
<1>6. ASSUME NEW active \in BOOLEAN, NEW campaign \in Campaigns \cup {"none"},
             Traffic!UpdateTrackingLink(active, campaign)
      PROVE  TrafficInv'
  <2>1. link' \in [active : BOOLEAN, campaign : Campaigns \cup {"none"}]
    BY <1>6 DEF Traffic!UpdateTrackingLink
  <2>2. QED
    BY <1>6, <2>1, TrafficStays DEF Traffic!UpdateTrackingLink, TrafficInv, TablesTypeOK
<1>7. ASSUME NEW u \in Users, Traffic!LoginSucceeds(u)
      PROVE  TrafficInv'
  <2> DEFINE w == IF Traffic!KnownVisitor = {} THEN 0 ELSE cookies.visitor
             types == <<"login_succeeded">>
             event(m) == [Traffic!Event(types[m], w, 0, Traffic!Direct, u, Traffic!NoKey)
                            EXCEPT !.id = Traffic!NextId + m - 1]
  <2>1. Traffic!InsertEvents({event(m) : m \in DOMAIN types})
    BY <1>7 DEF Traffic!LoginSucceeds, Traffic!BusinessEvents
  <2>2. PICK n : n = Traffic!NextId + 1 - 1
    OBVIOUS
  <2>3. PICK v \in {0, cookies.visitor} : v = w
    OBVIOUS
  <2>4. event(1) = [id |-> n, type |-> "login_succeeded", day |-> day, visitor |-> v, visit |-> 0,
                    touch |-> Traffic!Direct, user |-> u, key |-> Traffic!NoKey]
    <3>1. ASSUME NEW type, NEW m, NEW x
          PROVE  [Traffic!Event(type, x, 0, Traffic!Direct, u, Traffic!NoKey) EXCEPT !.id = m]
                   = [id |-> m, type |-> type, day |-> day, visitor |-> x, visit |-> 0,
                      touch |-> Traffic!Direct, user |-> u, key |-> Traffic!NoKey]
      BY DEF Traffic!Event
    <3>2. types[1] = "login_succeeded"
      OBVIOUS
    <3> HIDE DEF types, w
    <3>3. QED
      BY <2>2, <2>3, <3>1, <3>2
  <2> HIDE DEF event
  <2>5. DOMAIN types = {1}
    OBVIOUS
  <2> HIDE DEF types
  <2>6. {event(m) : m \in DOMAIN types} = {event(1)}
    BY <2>5
  <2>7. Traffic!InsertEvents({[id |-> n, type |-> "login_succeeded", day |-> day, visitor |-> v, visit |-> 0,
                               touch |-> Traffic!Direct, user |-> u, key |-> Traffic!NoKey]})
    BY <2>1, <2>4, <2>6
  <2>8. /\ u \in accounts /\ "login_succeeded" # "page_view"
        /\ UNCHANGED <<day, accounts, visitors, visits, attribution, cookies, link, firstSource, cameBy>>
    BY <1>7 DEF Traffic!LoginSucceeds
  <2> HIDE DEF w
  <2>9. QED
    BY <2>7, <2>8, OneEventFits
<1>8. ASSUME NEW u \in Users, Traffic!LaunchTest(u)
      PROVE  TrafficInv'
  <2>1. PICK n : n = Traffic!NextId
    OBVIOUS
  <2>2. Traffic!Event("first_test_started", 0, 0, Traffic!Direct, u, <<"first_test_started", u>>)
          = [id |-> n, type |-> "first_test_started", day |-> day, visitor |-> 0, visit |-> 0,
             touch |-> Traffic!Direct, user |-> u, key |-> <<"first_test_started", u>>]
    BY <2>1 DEF Traffic!Event
  <2>3. QED
    BY <1>8, <2>2, OneEventFits DEF Traffic!LaunchTest
<1>9. CASE UNCHANGED Traffic!trafficVars
  BY <1>9, TrafficStays DEF Traffic!trafficVars, TrafficInv, TablesTypeOK
<1>10. QED
  BY <1>2, <1>3, <1>4, <1>5, <1>6, <1>7, <1>8, <1>9, RegisterFits, DayFits, PurgeFits DEF Traffic!TrafficNext

LEMMA TrafficInitial == Traffic!TrafficInit => TrafficInv
<1> SUFFICES ASSUME Traffic!TrafficInit PROVE TrafficInv
  OBVIOUS
<1>1. /\ day = 0 /\ accounts = {} /\ events = {} /\ visitors = <<>> /\ visits = <<>> /\ firstSource = <<>>
      /\ attribution = [u \in Users |-> Traffic!NoRow] /\ cameBy = [u \in Users |-> 0]
      /\ cookies = [visitor |-> 0, visit |-> 0] /\ link = [active |-> TRUE, campaign |-> "none"]
  BY DEF Traffic!TrafficInit
<1>2. Len(visitors) = 0 /\ Len(visits) = 0 /\ Len(firstSource) = 0
  BY <1>1
<1>3. TablesTypeOK
  BY <1>1, <1>2, RowsMade, TrafficAssumption DEF TablesTypeOK
<1>4. Traffic!Alive(visitors) = {} /\ Traffic!Alive(visits) = {}
  BY <1>1 DEF Traffic!Alive
<1>5. RowsFit
  BY <1>1, <1>2, <1>4, RowsMade DEF RowsFit
<1>6. EventsFit
  BY <1>1, FS_EmptySet DEF EventsFit
<1>7. QED
  BY <1>3, <1>5, <1>6 DEF TrafficInv

LEMMA TrafficTyped == TrafficInv => Traffic!TrafficTypeOK
  BY DEF TrafficInv, TablesTypeOK, RowsFit, EventsFit, EventFits, Traffic!TrafficTypeOK, Traffic!Alive

LEMMA ViewsAttributed == TrafficInv => Traffic!ViewsStayAttributed /\ Traffic!AcquisitionSurvives
  BY DEF TrafficInv, TablesTypeOK, RowsFit, EventsFit, EventFits, Attributed,
         Traffic!ViewsStayAttributed, Traffic!AcquisitionSurvives

-----------------------------------------------------------------------------
(* The figures.                                                             *)
LEMMA SameCardinality == \A S : Traffic!Cardinality(S) = Cardinality(S)
  BY DEF Traffic!Cardinality, Cardinality

(* The sums of the daily series, each the sum of one figure.  *)
LEMMA VisitsAddUp ==
  ASSUME NEW series, IsFiniteSet(DOMAIN series), \A d \in DOMAIN series : series[d].visits \in Int
  PROVE  Traffic!SumOf(series, LAMBDA p : p.visits)
           = Sum([d \in DOMAIN series |-> series[d].visits], DOMAIN series)
<1> DEFINE days == DOMAIN series
           h == [d \in days |-> series[d].visits]
           g == CHOOSE g : g = [s \in SUBSET days |->
                  IF s = {} THEN 0 ELSE g[s \ {Taken(s)}] + series[Taken(s)].visits]
<1>1. Traffic!SumOf(series, LAMBDA p : p.visits) = g[days]
  BY DEF Traffic!SumOf, Traffic!FoldSet, Traffic!MapThenFoldSet, Taken
<1>2. \A s \in SUBSET days : s # {} => h[Taken(s)] = series[Taken(s)].visits
  BY TakenOut
<1>3. \A k : AddsOn(k, h, days) <=>
        k = [s \in SUBSET days |-> IF s = {} THEN 0 ELSE k[s \ {Taken(s)}] + series[Taken(s)].visits]
  <2> HIDE DEF h, days
  <2> QED BY <1>2 DEF AddsOn
<1>4. \A d \in days : h[d] \in Int
  OBVIOUS
<1> HIDE DEF h, days
<1>5. AddsOn(g, h, days)
  <2>1. PICK k : AddsOn(k, h, days)
    BY <1>4, AddsOnExists, IsFiniteSet(days) DEF days
  <2>2. QED
    BY <1>3, <2>1
<1>6. Sum(h, days) = g[days]
  <2> HIDE DEF g
  <2> QED BY <1>4, <1>5, AddsOnIsSum, IsFiniteSet(days) DEF days
<1>7. QED
  BY <1>1, <1>6 DEF h, days

LEMMA LoginsAddUp ==
  ASSUME NEW series, IsFiniteSet(DOMAIN series), \A d \in DOMAIN series : series[d].logins \in Int
  PROVE  Traffic!SumOf(series, LAMBDA p : p.logins)
           = Sum([d \in DOMAIN series |-> series[d].logins], DOMAIN series)
<1> DEFINE days == DOMAIN series
           h == [d \in days |-> series[d].logins]
           g == CHOOSE g : g = [s \in SUBSET days |->
                  IF s = {} THEN 0 ELSE g[s \ {Taken(s)}] + series[Taken(s)].logins]
<1>1. Traffic!SumOf(series, LAMBDA p : p.logins) = g[days]
  BY DEF Traffic!SumOf, Traffic!FoldSet, Traffic!MapThenFoldSet, Taken
<1>2. \A s \in SUBSET days : s # {} => h[Taken(s)] = series[Taken(s)].logins
  BY TakenOut
<1>3. \A k : AddsOn(k, h, days) <=>
        k = [s \in SUBSET days |-> IF s = {} THEN 0 ELSE k[s \ {Taken(s)}] + series[Taken(s)].logins]
  <2> HIDE DEF h, days
  <2> QED BY <1>2 DEF AddsOn
<1>4. \A d \in days : h[d] \in Int
  OBVIOUS
<1> HIDE DEF h, days
<1>5. AddsOn(g, h, days)
  <2>1. PICK k : AddsOn(k, h, days)
    BY <1>4, AddsOnExists, IsFiniteSet(days) DEF days
  <2>2. QED
    BY <1>3, <2>1
<1>6. Sum(h, days) = g[days]
  <2> HIDE DEF g
  <2> QED BY <1>4, <1>5, AddsOnIsSum, IsFiniteSet(days) DEF days
<1>7. QED
  BY <1>1, <1>6 DEF h, days

LEMMA SignupsAddUp ==
  ASSUME NEW series, IsFiniteSet(DOMAIN series), \A d \in DOMAIN series : series[d].signups \in Int
  PROVE  Traffic!SumOf(series, LAMBDA p : p.signups)
           = Sum([d \in DOMAIN series |-> series[d].signups], DOMAIN series)
<1> DEFINE days == DOMAIN series
           h == [d \in days |-> series[d].signups]
           g == CHOOSE g : g = [s \in SUBSET days |->
                  IF s = {} THEN 0 ELSE g[s \ {Taken(s)}] + series[Taken(s)].signups]
<1>1. Traffic!SumOf(series, LAMBDA p : p.signups) = g[days]
  BY DEF Traffic!SumOf, Traffic!FoldSet, Traffic!MapThenFoldSet, Taken
<1>2. \A s \in SUBSET days : s # {} => h[Taken(s)] = series[Taken(s)].signups
  BY TakenOut
<1>3. \A k : AddsOn(k, h, days) <=>
        k = [s \in SUBSET days |-> IF s = {} THEN 0 ELSE k[s \ {Taken(s)}] + series[Taken(s)].signups]
  <2> HIDE DEF h, days
  <2> QED BY <1>2 DEF AddsOn
<1>4. \A d \in days : h[d] \in Int
  OBVIOUS
<1> HIDE DEF h, days
<1>5. AddsOn(g, h, days)
  <2>1. PICK k : AddsOn(k, h, days)
    BY <1>4, AddsOnExists, IsFiniteSet(days) DEF days
  <2>2. QED
    BY <1>3, <2>1
<1>6. Sum(h, days) = g[days]
  <2> HIDE DEF g
  <2> QED BY <1>4, <1>5, AddsOnIsSum, IsFiniteSet(days) DEF days
<1>7. QED
  BY <1>1, <1>6 DEF h, days

LEMMA UserLoginsAddUp ==
  ASSUME NEW U, IsFiniteSet(U), \A u \in U : Traffic!UserLoginStats(u, Retention).total_logins \in Int
  PROVE  Traffic!FoldSet(LAMBDA u, n : n + Traffic!UserLoginStats(u, Retention).total_logins, 0, U)
           = Sum([u \in U |-> Traffic!UserLoginStats(u, Retention).total_logins], U)
<1> DEFINE Logins(u) == Traffic!UserLoginStats(u, Retention).total_logins
           h == [u \in U |-> Logins(u)]
           g == CHOOSE g : g = [s \in SUBSET U |-> IF s = {} THEN 0 ELSE g[s \ {Taken(s)}] + Logins(Taken(s))]
<1>1. Traffic!FoldSet(LAMBDA u, n : n + Traffic!UserLoginStats(u, Retention).total_logins, 0, U) = g[U]
  BY DEF Traffic!FoldSet, Traffic!MapThenFoldSet, Taken
<1> HIDE DEF Logins
<1>2. \A s \in SUBSET U : s # {} => h[Taken(s)] = Logins(Taken(s))
  BY TakenOut
<1>3. \A k : AddsOn(k, h, U) <=>
        k = [s \in SUBSET U |-> IF s = {} THEN 0 ELSE k[s \ {Taken(s)}] + Logins(Taken(s))]
  <2> HIDE DEF h
  <2> QED BY <1>2 DEF AddsOn
<1>4. \A u \in U : h[u] \in Int
  BY DEF Logins
<1>5. AddsOn(g, h, U)
  <2> HIDE DEF h
  <2>1. PICK k : AddsOn(k, h, U)
    BY <1>4, AddsOnExists
  <2>2. QED
    BY <1>3, <2>1
<1>6. Sum(h, U) = g[U]
  <2> HIDE DEF g, h
  <2> QED BY <1>4, <1>5, AddsOnIsSum
<1>7. QED
  BY <1>1, <1>6 DEF Logins

LEMMA SmallerOf ==
  ASSUME NEW a \in Int, NEW b \in Int
  PROVE  Traffic!Min({a, b}) = IF a <= b THEN a ELSE b
<1>1. \E x \in {a, b} : \A y \in {a, b} : x <= y
  <2>1. CASE a <= b
    BY <2>1
  <2>2. CASE ~(a <= b)
    BY <2>2
  <2>3. QED
    BY <2>1, <2>2
<1>2. Traffic!Min({a, b}) \in {a, b} /\ \A y \in {a, b} : Traffic!Min({a, b}) <= y
  BY <1>1 DEF Traffic!Min
<1>3. QED
  BY <1>2

(* The events of some days are those of each of the days.                   *)
LEMMA DaysAddUp ==
  ASSUME NEW E, IsFiniteSet(E), NEW first \in Int, NEW last \in Int,
         \A e \in E : e.day \in first..last,
         NEW h, \A d \in first..last : h[d] = Cardinality({e \in E : e.day = d})
  PROVE  Sum(h, first..last) = Cardinality(E)
<1> DEFINE P == [d \in first..last |-> {e \in E : e.day = d}]
<1>1. \A d \in first..last : P[d] = {e \in E : e.day = d}
  OBVIOUS
<1> HIDE DEF P
<1>2. /\ \A d \in first..last : P[d] \subseteq E /\ h[d] = Cardinality(P[d])
      /\ \A e \in E : \E d \in first..last : e \in P[d]
      /\ \A c, d \in first..last : c # d => P[c] \cap P[d] = {}
  BY <1>1
<1>3. IsFiniteSet(first..last)
  BY FS_Interval
<1> DEFINE days == first..last
<1>4. /\ IsFiniteSet(days) /\ \A d \in days : P[d] \subseteq E /\ h[d] = Cardinality(P[d])
      /\ \A e \in E : \E d \in days : e \in P[d]
      /\ \A c, d \in days : c # d => P[c] \cap P[d] = {}
  BY <1>2, <1>3
<1> HIDE DEF days
<1>5. Sum(h, days) = Cardinality(E)
  BY <1>4, PartsAddUp
<1>6. QED
  BY <1>5 DEF days

LEMMA FiguresAddUp == TrafficInv => Traffic!SeriesAddsUp
<1> SUFFICES ASSUME TrafficInv, NEW first \in 0..day,
                    NEW last \in first..Traffic!Min({day, first + SeriesGuard - 1})
             PROVE  LET series == Traffic!TimeSeries(first, last, "any", "any") IN
    /\ Traffic!SumOf(series, LAMBDA p : p.visits) = Traffic!Overview(first, last, "any", "any").total_page_views
    /\ Traffic!SumOf(series, LAMBDA p : p.logins) = Traffic!Overview(first, last, "any", "any").successful_logins_in_range
    /\ Traffic!SumOf(series, LAMBDA p : p.signups) = Traffic!Funnel(first, last, "any", "any").signups
    /\ first = 0 /\ last = day =>
         /\ Traffic!Overview(0, day, "any", "any").successful_logins_in_range =
              Traffic!FoldSet(LAMBDA u, n : n + Traffic!UserLoginStats(u, Retention).total_logins, 0, accounts)
         /\ \A c \in DOMAIN Traffic!TopCampaigns(0, day) :
              Traffic!TopCampaigns(0, day)[c].visitors = Traffic!Overview(0, day, c, "any").total_unique_visitors
  BY DEF Traffic!SeriesAddsUp
<1> DEFINE series == Traffic!TimeSeries(first, last, "any", "any")
<1>1. /\ day \in Nat /\ first \in Nat /\ last \in Int /\ first <= last /\ last <= day
      /\ last <= first + SeriesGuard - 1
  <2>1. day \in Nat /\ first \in Nat /\ SeriesGuard \in Nat
    BY TrafficAssumption DEF TrafficInv, TablesTypeOK
  <2>2. Traffic!Min({day, first + SeriesGuard - 1})
          = IF day <= first + SeriesGuard - 1 THEN day ELSE first + SeriesGuard - 1
    BY <2>1, SmallerOf
  <2>3. QED
    BY <2>1, <2>2
<1>2. first..Traffic!Min({last, first + SeriesGuard - 1}) = first..last
  <2>1. Traffic!Min({last, first + SeriesGuard - 1}) = last
    BY <1>1, TrafficAssumption, SmallerOf
  <2>2. QED
    BY <2>1
<1>3. /\ DOMAIN series = first..last
      /\ \A d \in first..last :
           /\ series[d].visits = Cardinality(Traffic!PageViews(d, d, "any", "any"))
           /\ series[d].signups = Cardinality(Traffic!OfType("signup_completed", d, d))
           /\ series[d].logins = Cardinality(Traffic!OfType("login_succeeded", d, d))
  BY <1>2, SameCardinality DEF Traffic!TimeSeries
<1>4. IsFiniteSet(DOMAIN series)
  BY <1>1, <1>3, FS_Interval
<1>5. /\ \A d \in first..last : Traffic!PageViews(d, d, "any", "any")
                                  = {e \in Traffic!PageViews(first, last, "any", "any") : e.day = d}
      /\ \A type : \A d \in first..last :
           Traffic!OfType(type, d, d) = {e \in Traffic!OfType(type, first, last) : e.day = d}
  BY <1>1 DEF Traffic!PageViews, Traffic!OfType
<1>6. /\ IsFiniteSet(Traffic!PageViews(first, last, "any", "any"))
      /\ \A type : IsFiniteSet(Traffic!OfType(type, first, last))
      /\ \A E \in SUBSET events : IsFiniteSet(E) /\ Cardinality(E) \in Int
  <2>1. \A E \in SUBSET events : IsFiniteSet(E) /\ Cardinality(E) \in Int
    BY FS_Subset, FS_CardinalityType DEF TrafficInv, EventsFit
  <2>2. QED
    BY <2>1 DEF Traffic!PageViews, Traffic!OfType
<1> HIDE DEF series
<1>7. \A d \in first..last : series[d].visits \in Int /\ series[d].signups \in Int /\ series[d].logins \in Int
  <2>1. \A d : Traffic!PageViews(d, d, "any", "any") \in SUBSET events
               /\ \A type : Traffic!OfType(type, d, d) \in SUBSET events
    BY DEF Traffic!PageViews, Traffic!OfType
  <2>2. QED
    BY <1>3, <1>6, <2>1
<1>8. Traffic!SumOf(series, LAMBDA p : p.visits) = Traffic!Overview(first, last, "any", "any").total_page_views
  <2> DEFINE h == [d \in DOMAIN series |-> series[d].visits]
             E == Traffic!PageViews(first, last, "any", "any")
  <2>1. Traffic!SumOf(series, LAMBDA p : p.visits) = Sum(h, first..last)
    BY <1>3, <1>4, <1>7, VisitsAddUp
  <2>2. \A d \in first..last : h[d] = Cardinality({e \in E : e.day = d})
    BY <1>3, <1>5
  <2>3. \A e \in E : e.day \in first..last
    BY DEF Traffic!PageViews
  <2>4. Traffic!Overview(first, last, "any", "any").total_page_views = Cardinality(E)
    BY SameCardinality DEF Traffic!Overview
  <2> HIDE DEF h, E
  <2>5. IsFiniteSet(E)
    BY <1>6 DEF E
  <2>6. QED
    BY <1>1, <2>1, <2>2, <2>3, <2>4, <2>5, first \in Int, DaysAddUp, Zenon
<1>9. Traffic!SumOf(series, LAMBDA p : p.logins) = Traffic!Overview(first, last, "any", "any").successful_logins_in_range
  <2> DEFINE h == [d \in DOMAIN series |-> series[d].logins]
             E == Traffic!OfType("login_succeeded", first, last)
  <2>1. Traffic!SumOf(series, LAMBDA p : p.logins) = Sum(h, first..last)
    BY <1>3, <1>4, <1>7, LoginsAddUp
  <2>2. \A d \in first..last : h[d] = Cardinality({e \in E : e.day = d})
    BY <1>3, <1>5
  <2>3. \A e \in E : e.day \in first..last
    BY DEF Traffic!OfType
  <2>4. Traffic!Overview(first, last, "any", "any").successful_logins_in_range = Cardinality(E)
    BY SameCardinality DEF Traffic!Overview
  <2> HIDE DEF h, E
  <2>5. IsFiniteSet(E)
    BY <1>6 DEF E
  <2>6. QED
    BY <1>1, <2>1, <2>2, <2>3, <2>4, <2>5, first \in Int, DaysAddUp, Zenon
<1>10. Traffic!SumOf(series, LAMBDA p : p.signups) = Traffic!Funnel(first, last, "any", "any").signups
  <2> DEFINE h == [d \in DOMAIN series |-> series[d].signups]
             E == Traffic!OfType("signup_completed", first, last)
  <2>1. Traffic!SumOf(series, LAMBDA p : p.signups) = Sum(h, first..last)
    BY <1>3, <1>4, <1>7, SignupsAddUp
  <2>2. \A d \in first..last : h[d] = Cardinality({e \in E : e.day = d})
    BY <1>3, <1>5
  <2>3. \A e \in E : e.day \in first..last
    BY DEF Traffic!OfType
  <2>4. Traffic!Funnel(first, last, "any", "any").signups = Cardinality(E)
    BY SameCardinality DEF Traffic!Funnel
  <2> HIDE DEF h, E
  <2>5. IsFiniteSet(E)
    BY <1>6 DEF E
  <2>6. QED
    BY <1>1, <2>1, <2>2, <2>3, <2>4, <2>5, first \in Int, DaysAddUp, Zenon
<1>11. Traffic!Overview(0, day, "any", "any").successful_logins_in_range =
         Traffic!FoldSet(LAMBDA u, n : n + Traffic!UserLoginStats(u, Retention).total_logins, 0, accounts)
  <2> DEFINE h == [u \in accounts |-> Traffic!UserLoginStats(u, Retention).total_logins]
             E == Traffic!OfType("login_succeeded", 0, day)
             P == [u \in accounts |-> {e \in E : e.user = u}]
  <2>1. \A u : Traffic!UserLoginStats(u, Retention).total_logins = Cardinality({e \in E : e.user = u})
    BY SameCardinality DEF Traffic!UserLoginStats
  <2>2. \A u : {e \in E : e.user = u} \in SUBSET events
    BY DEF Traffic!OfType
  <2>3. \A u : Traffic!UserLoginStats(u, Retention).total_logins \in Int
    BY <1>6, <2>1, <2>2
  <2>4. IsFiniteSet(accounts)
    BY FS_Subset, TrafficAssumption DEF TrafficInv, TablesTypeOK
  <2>5. Traffic!FoldSet(LAMBDA u, n : n + Traffic!UserLoginStats(u, Retention).total_logins, 0, accounts)
          = Sum(h, accounts)
    BY <2>3, <2>4, UserLoginsAddUp
  <2>6. \A e \in E : e.user \in accounts
    BY DEF Traffic!OfType, TrafficInv, EventsFit, EventFits
  <2>7. IsFiniteSet(E)
    <3>1. E \in SUBSET events
      BY DEF Traffic!OfType
    <3>2. QED
      BY <1>6, <3>1
  <2>8. Traffic!Overview(0, day, "any", "any").successful_logins_in_range = Cardinality(E)
    BY SameCardinality DEF Traffic!Overview
  <2>9. \A u \in accounts : P[u] = {e \in E : e.user = u} /\ h[u] = Cardinality(P[u])
    BY <2>1
  <2> HIDE DEF h, E, P
  <2>10. /\ \A u \in accounts : P[u] \subseteq E
         /\ \A e \in E : \E u \in accounts : e \in P[u]
         /\ \A u, v \in accounts : u # v => P[u] \cap P[v] = {}
    BY <2>6, <2>9
  <2>11. Sum(h, accounts) = Cardinality(E)
    BY <2>4, <2>7, <2>9, <2>10, PartsAddUp
  <2>12. QED
    BY <2>5, <2>8, <2>11
<1>12. \A c \in DOMAIN Traffic!TopCampaigns(0, day) :
         Traffic!TopCampaigns(0, day)[c].visitors = Traffic!Overview(0, day, c, "any").total_unique_visitors
  BY DEF Traffic!TopCampaigns, Traffic!Overview
<1>13. QED
  BY <1>8, <1>9, <1>10, <1>11, <1>12 DEF series

(* TrafficAddsUp: for any accounts, retention and number of events, purges  *)
(* take no visitor or visit from a page view that is kept and no first      *)
(* touch from an account; no page view is counted twice; and the series of  *)
(* _build_timeseries, the logins of the users and the campaigns add up to   *)
(* the totals that the overview shows.                                      *)
THEOREM FiguresHold == Traffic!TrafficSpec => []Traffic!TrafficAddsUp
<1>1. TrafficInv => Traffic!TrafficAddsUp
  BY ViewsAttributed, FiguresAddUp DEF Traffic!TrafficAddsUp
<1>2. QED
  BY <1>1, TrafficInitial, TrafficStep, PTL DEF Traffic!TrafficSpec

-----------------------------------------------------------------------------
(* One behaviour runs one of the components, and every component runs as    *)
(* its own specification says or does not run.                              *)
LEMMA VisitorsAreTheirParts ==
  VisitorsSpec => SessionsSpec /\ LimiterSpec /\ Traffic!TrafficSpec /\ ReportPage!ReportsSpec /\ PageSpec
<1> USE DEF VisitorsNext, OnlyBrowser, OnlyLimiter, OnlyTraffic, OnlyPage, OnlyReport, visitorsVars
<1>1. [VisitorsNext]_visitorsVars => [SessionsNext]_sessionVars
  OBVIOUS
<1>2. [VisitorsNext]_visitorsVars => [LimiterNext]_limiterVars
  OBVIOUS
<1>3. [VisitorsNext]_visitorsVars => [Traffic!TrafficNext]_Traffic!trafficVars
  BY DEF trafficVars, Traffic!trafficVars
<1>4. [VisitorsNext]_visitorsVars => [ReportPage!ReportsNext]_ReportPage!reportsVars
  BY DEF reportVars, ReportPage!reportsVars, ReportPage!retentionVars, ReportPage!readerVars
<1>5. [VisitorsNext]_visitorsVars => [PageNext]_pageVars
  OBVIOUS
<1>6. VisitorsInit => SessionsInit /\ LimiterInit /\ Traffic!TrafficInit /\ ReportPage!ReportsInit /\ PageInit
  BY DEF VisitorsInit, PageInit
<1>7. QED
  BY <1>1, <1>2, <1>3, <1>4, <1>5, <1>6, PTL
     DEF VisitorsSpec, SessionsSpec, LimiterSpec, Traffic!TrafficSpec, ReportPage!ReportsSpec, PageSpec

(* FiguresAndReportsHold: the figures of the traffic add up, and a report   *)
(* shows what is kept of its captures.                                      *)
THEOREM VisitorsFiguresHold == VisitorsSpec => []FiguresAndReportsHold
<1>1. Traffic!TrafficAddsUp /\ ReportPage!ReportsAreSound => FiguresAndReportsHold
  BY DEF FiguresAndReportsHold
<1>2. QED
  BY <1>1, VisitorsAreTheirParts, FiguresHold, ReportsShowWhatIsKept, PTL

(* VisitorsTypeOK: whichever component runs, its variables have their types *)
(* and its counters, tokens and requests stay within their bounds.          *)
THEOREM VisitorsTypeCorrect == VisitorsSpec => []VisitorsTypeOK
<1>1. SessionsSpec => []SessionsTypeOK
  BY SessionsInitial, SessionsTypedStep, SessionsAreTyped, PTL DEF SessionsSpec
<1>2. LimiterSpec => []LimiterTypeOK
  BY LimiterTypedInitial, LimiterTypedStep, LimiterIsTyped, PTL DEF LimiterSpec
<1>3. Traffic!TrafficSpec => []Traffic!TrafficTypeOK
  BY TrafficInitial, TrafficStep, TrafficTyped, PTL DEF Traffic!TrafficSpec
<1>4. ReportPage!ReportsSpec => [](ReportPage!RetentionTypeOK /\ ReportPage!ReportsTypeOK)
  <2>1. ReportInv => ReportPage!RetentionTypeOK /\ ReportPage!ReportsTypeOK
    BY DEF ReportInv, RetentionInv
  <2>2. QED
    BY <2>1, ReportInitial, ReportStep, PTL DEF ReportPage!ReportsSpec
<1>5. ASSUME SessionsTypeOK, LimiterTypeOK, PageTypeOK, Traffic!TrafficTypeOK,
             ReportPage!RetentionTypeOK /\ ReportPage!ReportsTypeOK
      PROVE  VisitorsTypeOK
  BY <1>5 DEF VisitorsTypeOK
<1>6. QED
  BY <1>1, <1>2, <1>3, <1>4, <1>5, VisitorsAreTheirParts, PageTypeCorrect, PTL
=============================================================================
