--------------------------- MODULE StatusCacheProofs ---------------------------
(* What StatusCache keeps for every number of requests and strategies, every  *)
(* time to live and every duration of a fill.                                 *)
EXTENDS StatusCache, SequenceTheorems, TLAPS

\* Readings were made one after the other between two moments.
Between(s, from, to) ==
  /\ \A k \in DOMAIN s : from <= s[k] /\ s[k] <= to
  /\ \A k \in DOMAIN s : k > 1 => s[k - 1] <= s[k]

\* What a request in progress has in hand: readings since it missed, at most
\* one fill ago.
Filler(r) ==
  /\ began[r] <= now /\ now - began[r] <= MaxFill
  /\ Between(resp[r], began[r], now)

\* What the cache holds: nothing yet, or an answer of one fill.
Filled ==
  /\ lastFetch <= now
  /\ \/ lastFetch = Never
     \/ Len(data) = Strategies /\ Between(data, lastFetch - MaxFill, lastFetch)

\* Nothing newer was sent than what was in hand when the cache was stored.
SentWasStored == \A k \in Names : newest[k] <= lastFetch \/ newest[k] = 0

Idle(r) == resp[r] = <<>>

IInv ==
  /\ TypeOK /\ Filled /\ SentWasStored
  /\ \A r \in filling : Filler(r)
  /\ \A r \in Requests \ filling : Idle(r)

-------------------------------------------------------------------------------
\* The empty cache is stale, and nothing was sent.
LEMMA InitInv == Init => IInv
<1> SUFFICES ASSUME Init PROVE IInv
  OBVIOUS
<1> USE CacheAssumption DEF Init
<1>1. TypeOK
  <2>1. [k \in Names |-> 0] \in Seq(Nat)
    BY DEF Names
  <2>2. <<>> \in Seq(Nat) /\ Len(<<>>) = 0
    BY EmptySeq
  <2> QED BY <2>1, <2>2 DEF TypeOK, Readings, Never
<1>2. Filled
  BY DEF Filled, Never
<1>3. SentWasStored
  BY DEF SentWasStored
<1> QED BY <1>1, <1>2, <1>3 DEF IInv, Idle

\* The kinds of steps.
LEMMA NextKinds ==
  ASSUME [Next]_vars
  PROVE  \/ \E r \in Requests : Hit(r) \/ Miss(r) \/ Read(r) \/ Store(r)
         \/ Tick
         \/ UNCHANGED vars
BY DEF Next

\* One more reading keeps the readings in order.
LEMMA AppendBetween ==
  ASSUME NEW s \in Seq(Nat), NEW from \in Int, NEW to \in Nat,
         Between(s, from, to), from <= to
  PROVE  Between(Append(s, to), from, to)
<1> DEFINE a == Append(s, to)
<1>1. /\ a \in Seq(Nat) /\ Len(a) = Len(s) + 1
      /\ \A k \in 1 .. Len(s) : a[k] = s[k]
      /\ a[Len(s) + 1] = to
  BY AppendProperties
<1>2. DOMAIN a = 1 .. Len(s) + 1 /\ DOMAIN s = 1 .. Len(s) /\ Len(s) \in Nat
  BY <1>1, LenProperties
<1> HIDE DEF a
<1>3. ASSUME NEW k \in DOMAIN a PROVE from <= a[k] /\ a[k] <= to
  BY <1>1, <1>2, <1>3 DEF Between
<1>4. ASSUME NEW k \in DOMAIN a, k > 1 PROVE a[k - 1] <= a[k]
  <2>1. CASE k = Len(s) + 1
    <3>1. k - 1 \in 1 .. Len(s)
      BY <1>2, <1>4, <2>1
    <3> QED BY <1>1, <1>2, <2>1, <3>1 DEF Between
  <2>2. CASE k # Len(s) + 1
    <3>1. k \in 1 .. Len(s) /\ k - 1 \in 1 .. Len(s)
      BY <1>2, <1>4, <2>2
    <3> QED BY <1>1, <1>2, <1>4, <3>1 DEF Between
  <2> QED BY <2>1, <2>2
<1> QED BY <1>3, <1>4 DEF Between, a

\* Later moments only widen the interval.
LEMMA LaterBetween ==
  ASSUME NEW s \in Seq(Nat), NEW from \in Int, NEW to \in Int, NEW later \in Int,
         NEW earlier \in Int, Between(s, from, to), to <= later, earlier <= from
  PROVE  Between(s, earlier, later)
<1>1. ASSUME NEW k \in DOMAIN s PROVE s[k] \in Nat
  BY <1>1, ElementOfSeq, LenProperties
<1> QED BY <1>1 DEF Between

-------------------------------------------------------------------------------
\* Types are kept; the cache is only stored whole.
LEMMA NextType == TypeOK /\ [Next]_vars => TypeOK'
<1> SUFFICES ASSUME TypeOK, [Next]_vars PROVE TypeOK'
  OBVIOUS
<1> USE CacheAssumption DEF TypeOK, Readings
<1>1. ASSUME NEW r \in Requests, Hit(r) PROVE TypeOK'
  <2>1. answer'.parts \in Seq(Nat) /\ answer'.at \in Nat
    BY <1>1 DEF Hit, Send
  <2>2. ASSUME NEW k \in DOMAIN data PROVE data[k] \in Nat
    BY <2>2, ElementOfSeq, LenProperties
  <2>3. newest' \in [Names -> Nat]
    BY <1>1, <2>2 DEF Hit, Send
  <2> QED BY <1>1, <2>1, <2>3 DEF Hit, cache
<1>2. ASSUME NEW r \in Requests, Miss(r) PROVE TypeOK'
  BY <1>2 DEF Miss, cache, history
<1>3. ASSUME NEW r \in Requests, Read(r) PROVE TypeOK'
  <2>1. /\ Append(resp[r], now) \in Seq(Nat)
        /\ Len(Append(resp[r], now)) = Len(resp[r]) + 1
    BY AppendProperties
  <2>2. Len(resp[r]) \in Nat
    BY LenProperties
  <2>3. resp' \in [Requests -> Readings] /\ \A q \in Requests : Len(resp'[q]) <= Strategies
    BY <1>3, <2>1, <2>2 DEF Read
  <2> QED BY <1>3, <2>3 DEF Read, cache, history
<1>4. ASSUME NEW r \in Requests, Store(r) PROVE TypeOK'
  <2>1. <<>> \in Seq(Nat) /\ Len(<<>>) = 0
    BY EmptySeq
  <2>2. /\ resp' \in [Requests -> Readings]
        /\ \A q \in Requests : Len(resp'[q]) <= Strategies
        /\ began' \in [Requests -> Nat]
        /\ filling' \subseteq Requests
    BY <1>4, <2>1 DEF Store, Answered, Never
  <2>3. /\ data' \in Readings /\ Len(data') = Strategies
        /\ lastFetch' = now /\ now' = now
    BY <1>4 DEF Store, Set
  <2>4. answer'.parts \in Readings /\ answer'.at \in Nat /\ newest' \in [Names -> Nat]
    BY <1>4 DEF Store, Send
  <2> QED BY <2>2, <2>3, <2>4
<1>5. CASE Tick
  BY <1>5 DEF Tick, cache, history
<1>6. CASE UNCHANGED vars
  BY <1>6 DEF vars, cache, history
<1> QED BY <1>1, <1>2, <1>3, <1>4, <1>5, <1>6, NextKinds

\* Requests in progress keep to their own beginning; ended ones leave nothing.
LEMMA NextFillers ==
  ASSUME IInv, [Next]_vars, NEW q \in Requests
  PROVE  IF q \in filling' THEN Filler(q)' ELSE Idle(q)'
<1> USE CacheAssumption
<1>t. /\ now \in Nat /\ lastFetch \in Int /\ filling \subseteq Requests
      /\ began \in [Requests -> Nat] /\ resp \in [Requests -> Seq(Nat)]
  BY DEF IInv, TypeOK, Readings
<1>q. /\ q \in filling => Filler(q)
      /\ q \notin filling => Idle(q)
  BY DEF IInv
<1>1. ASSUME /\ UNCHANGED <<now, began, resp>>
             /\ filling' = filling
      PROVE  IF q \in filling' THEN Filler(q)' ELSE Idle(q)'
  BY <1>1, <1>q DEF Filler, Between, Idle
<1>2. ASSUME NEW r \in Requests, Miss(r)
      PROVE  IF q \in filling' THEN Filler(q)' ELSE Idle(q)'
  <2>1. CASE q = r
    <3>1. /\ q \in filling' /\ began'[q] = now /\ now' = now
          /\ resp'[q] = <<>>
      BY <1>t, <1>q, <1>2, <2>1 DEF Miss, Idle
    <3>2. Between(resp'[q], began'[q], now')
      BY <3>1 DEF Between
    <3> QED BY <1>t, <3>1, <3>2 DEF Filler, Between
  <2>2. CASE q # r
    <3>1. /\ q \in filling' <=> q \in filling
          /\ began'[q] = began[q] /\ now' = now
          /\ resp'[q] = resp[q]
      BY <1>t, <1>2, <2>2 DEF Miss
    <3> QED BY <1>q, <3>1 DEF Filler, Between, Idle
  <2> QED BY <2>1, <2>2
<1>3. ASSUME NEW r \in Requests, Read(r)
      PROVE  IF q \in filling' THEN Filler(q)' ELSE Idle(q)'
  <2>1. /\ filling' = filling /\ began' = began /\ now' = now
        /\ r \in filling
    BY <1>3 DEF Read, history
  <2>2. CASE q = r
    <3>1. resp'[q] = Append(resp[q], now)
      BY <1>t, <1>3, <2>2 DEF Read
    <3>2. Filler(q)
      BY <1>q, <2>1, <2>2
    <3>3. Between(Append(resp[q], now), began[q], now)
      BY <1>t, <3>2, AppendBetween DEF Filler
    <3> QED BY <2>1, <2>2, <3>1, <3>2, <3>3 DEF Filler, Between
  <2>3. CASE q # r
    <3>1. resp'[q] = resp[q]
      BY <1>t, <1>3, <2>3 DEF Read
    <3> QED BY <1>q, <2>1, <3>1 DEF Filler, Between, Idle
  <2> QED BY <2>2, <2>3
<1>4. ASSUME NEW r \in Requests, Store(r)
      PROVE  IF q \in filling' THEN Filler(q)' ELSE Idle(q)'
  <2>1. CASE q = r
    BY <1>t, <1>4, <2>1 DEF Store, Answered, Idle
  <2>2. CASE q # r
    <3>1. /\ q \in filling' <=> q \in filling
          /\ began'[q] = began[q] /\ now' = now
          /\ resp'[q] = resp[q]
      BY <1>t, <1>4, <2>2 DEF Store, Answered
    <3> QED BY <1>q, <3>1 DEF Filler, Between, Idle
  <2> QED BY <2>1, <2>2
<1>5. CASE Tick
  <2>1. /\ now' = now + 1 /\ filling' = filling /\ began' = began
        /\ resp' = resp
        /\ \A r \in filling : now - began[r] < MaxFill
    BY <1>5 DEF Tick, history
  <2>2. CASE q \in filling
    <3>1. Filler(q)
      BY <1>q, <2>2
    <3>2. Between(resp[q], began[q], now + 1)
      BY <1>t, <3>1, LaterBetween DEF Filler
    <3> QED BY <1>t, <2>1, <2>2, <3>1, <3>2 DEF Filler, Between
  <2>3. CASE q \notin filling
    BY <1>q, <2>1, <2>3 DEF Idle
  <2> QED BY <2>2, <2>3
<1>6. ASSUME NEW r \in Requests, Hit(r)
      PROVE  IF q \in filling' THEN Filler(q)' ELSE Idle(q)'
  BY <1>1, <1>6 DEF Hit
<1>7. CASE UNCHANGED vars
  BY <1>1, <1>7 DEF vars, history
<1> QED BY <1>2, <1>3, <1>4, <1>5, <1>6, <1>7, NextKinds

\* What is sent has a part for each strategy.
LEMMA SendKeepsNewest ==
  ASSUME NEW what \in Seq(Nat), newest \in [Names -> Nat], Send(what), NEW k \in Names
  PROVE  newest'[k] = newest[k] \/ (k \in DOMAIN what /\ newest'[k] = what[k])
BY DEF Send

\* The cache holds the readings of one fill, and nothing newer was sent.
LEMMA NextFilled == IInv /\ [Next]_vars => Filled' /\ SentWasStored'
<1> SUFFICES ASSUME IInv, [Next]_vars PROVE Filled' /\ SentWasStored'
  OBVIOUS
<1> USE CacheAssumption
<1>t. /\ now \in Nat /\ lastFetch \in Int
      /\ data \in Seq(Nat) /\ newest \in [Names -> Nat]
      /\ began \in [Requests -> Nat] /\ resp \in [Requests -> Seq(Nat)]
      /\ filling \subseteq Requests
  BY DEF IInv, TypeOK, Readings
<1>f. Filled /\ SentWasStored
  BY DEF IInv
<1>1. ASSUME UNCHANGED <<data, lastFetch>>, now' \in Nat, now <= now'
      PROVE  Filled'
  BY <1>1, <1>f, <1>t DEF Filled, Between, Never
<1>2. ASSUME UNCHANGED <<newest, lastFetch>> PROVE SentWasStored'
  BY <1>2, <1>f DEF SentWasStored
<1>3. ASSUME NEW r \in Requests, Hit(r) PROVE Filled' /\ SentWasStored'
  <2>1. UNCHANGED <<data, lastFetch, now>> /\ Send(data)
    BY <1>3 DEF Hit, cache
  <2>2. lastFetch # Never
    BY <1>3, <1>t DEF Hit, Fresh, Never
  <2>3. Between(data, lastFetch - MaxFill, lastFetch)
    BY <1>f, <2>2 DEF Filled
  <2>4. ASSUME NEW k \in Names PROVE newest'[k] <= lastFetch \/ newest'[k] = 0
    <3>1. newest'[k] = newest[k] \/ (k \in DOMAIN data /\ newest'[k] = data[k])
      BY <1>t, <2>1, SendKeepsNewest
    <3> QED BY <1>f, <2>3, <3>1 DEF SentWasStored, Between
  <2> QED BY <1>1, <1>t, <2>1, <2>4 DEF SentWasStored
<1>4. ASSUME NEW r \in Requests, Store(r) PROVE Filled' /\ SentWasStored'
  <2>1. /\ data' = resp[r] /\ lastFetch' = now /\ now' = now
        /\ Send(resp[r]) /\ Len(resp[r]) = Strategies /\ r \in filling
    BY <1>4 DEF Store, Set
  <2>2. Filler(r)
    BY <2>1 DEF IInv
  <2>3. Between(resp[r], now - MaxFill, now)
    BY <1>t, <2>2, LaterBetween DEF Filler
  <2>4. ASSUME NEW k \in Names PROVE newest'[k] <= now \/ newest'[k] = 0
    <3>1. newest'[k] = newest[k] \/ (k \in DOMAIN resp[r] /\ newest'[k] = resp[r][k])
      BY <1>t, <2>1, SendKeepsNewest
    <3>2. newest[k] <= now \/ newest[k] = 0
      BY <1>f, <1>t DEF SentWasStored, Filled
    <3> QED BY <2>3, <3>1, <3>2 DEF Between
  <2>5. Filled'
    BY <1>t, <2>1, <2>3 DEF Filled, Between
  <2> QED BY <2>1, <2>4, <2>5 DEF SentWasStored
<1>5. ASSUME NEW r \in Requests, Miss(r) PROVE Filled' /\ SentWasStored'
  BY <1>1, <1>2, <1>5, <1>t DEF Miss, cache, history
<1>6. ASSUME NEW r \in Requests, Read(r) PROVE Filled' /\ SentWasStored'
  BY <1>1, <1>2, <1>6, <1>t DEF Read, cache, history
<1>7. CASE Tick
  BY <1>1, <1>2, <1>7, <1>t DEF Tick, cache, history
<1>8. CASE UNCHANGED vars
  BY <1>1, <1>2, <1>8, <1>t DEF vars, cache, history
<1> QED BY <1>3, <1>4, <1>5, <1>6, <1>7, <1>8, NextKinds

LEMMA NextInv == IInv /\ [Next]_vars => IInv'
<1> SUFFICES ASSUME IInv, [Next]_vars PROVE IInv'
  OBVIOUS
<1>1. TypeOK'
  BY NextType DEF IInv
<1>2. filling' \subseteq Requests
  BY <1>1 DEF TypeOK
<1> QED BY <1>1, <1>2, NextFillers, NextFilled DEF IInv

-------------------------------------------------------------------------------
\* What is sent is recent, in the order of its reading, and goes back by no more
\* than a fill.
LEMMA NextAnswers ==
  IInv /\ AnswersAreRecent /\ BackAtMostAFill /\ [Next]_vars
    => AnswersAreRecent' /\ BackAtMostAFill'
<1> SUFFICES ASSUME IInv, AnswersAreRecent, BackAtMostAFill, [Next]_vars
             PROVE  AnswersAreRecent' /\ BackAtMostAFill'
  OBVIOUS
<1> USE CacheAssumption
<1>t. /\ now \in Nat /\ lastFetch \in Int
      /\ data \in Seq(Nat) /\ newest \in [Names -> Nat]
      /\ began \in [Requests -> Nat] /\ resp \in [Requests -> Seq(Nat)]
  BY DEF IInv, TypeOK, Readings
<1>1. ASSUME NEW what \in Seq(Nat), NEW made \in Int,
             Send(what), Len(what) = Strategies,
             Between(what, made - MaxFill, made),
             made <= now, now - made < TTL,
             \A k \in Names : newest[k] <= made \/ newest[k] = 0
      PROVE  AnswersAreRecent' /\ BackAtMostAFill'
  <2>1. answer'.parts = what /\ answer'.at = now
    BY <1>1 DEF Send
  <2>2. DOMAIN what = Names
    BY <1>1, LenProperties DEF Names
  <2>3. ASSUME NEW k \in Names
        PROVE  /\ what[k] \in Nat
               /\ now - what[k] < TTL + MaxFill
               /\ k > 1 => what[k - 1] <= what[k]
               /\ what[k] >= newest'[k] - MaxFill
    <3>1. what[k] \in Nat
      BY <2>2, ElementOfSeq, <1>1 DEF Names
    <3>2. made - MaxFill <= what[k] /\ (k > 1 => what[k - 1] <= what[k])
      BY <1>1, <2>2 DEF Between
    <3>3. newest'[k] = newest[k] \/ newest'[k] = what[k]
      BY <1>1, <1>t, SendKeepsNewest
    <3>4. newest[k] \in Nat /\ (newest[k] <= made \/ newest[k] = 0)
      BY <1>1, <1>t
    <3> QED BY <1>1, <1>t, <3>1, <3>2, <3>3, <3>4
  <2> QED BY <1>1, <2>1, <2>3 DEF AnswersAreRecent, BackAtMostAFill
<1>2. ASSUME UNCHANGED <<answer, newest>> PROVE AnswersAreRecent' /\ BackAtMostAFill'
  BY <1>2 DEF AnswersAreRecent, BackAtMostAFill
<1>3. ASSUME NEW r \in Requests, Hit(r) PROVE AnswersAreRecent' /\ BackAtMostAFill'
  <2>1. lastFetch # Never /\ now - lastFetch < TTL /\ Send(data)
    BY <1>3, <1>t DEF Hit, Fresh, Never
  <2>2. /\ Len(data) = Strategies /\ Between(data, lastFetch - MaxFill, lastFetch)
        /\ lastFetch <= now
    BY <2>1 DEF IInv, Filled
  <2>3. \A k \in Names : newest[k] <= lastFetch \/ newest[k] = 0
    BY DEF IInv, SentWasStored
  <2> QED BY <1>1, <1>t, <2>1, <2>2, <2>3
<1>4. ASSUME NEW r \in Requests, Store(r) PROVE AnswersAreRecent' /\ BackAtMostAFill'
  <2>1. Send(resp[r]) /\ Len(resp[r]) = Strategies /\ Filler(r)
    BY <1>4 DEF Store, IInv
  <2>2. Between(resp[r], now - MaxFill, now)
    BY <1>t, <2>1, LaterBetween DEF Filler
  <2>3. \A k \in Names : newest[k] <= now \/ newest[k] = 0
    BY <1>t DEF IInv, SentWasStored, Filled
  <2>4. now <= now /\ now - now < TTL
    BY <1>t
  <2> QED BY <1>1, <1>t, <2>1, <2>2, <2>3, <2>4
<1>5. ASSUME NEW r \in Requests, Miss(r) \/ Read(r)
      PROVE  AnswersAreRecent' /\ BackAtMostAFill'
  BY <1>2, <1>5 DEF Miss, Read, history
<1>6. CASE Tick \/ UNCHANGED vars
  BY <1>2, <1>6 DEF Tick, vars, history
<1> QED BY <1>3, <1>4, <1>5, <1>6, NextKinds

\* At the start the answers are of the moment.
LEMMA InitAnswers == Init => AnswersAreRecent /\ BackAtMostAFill
<1> SUFFICES ASSUME Init PROVE AnswersAreRecent /\ BackAtMostAFill
  OBVIOUS
<1>1. /\ answer.parts = [k \in Names |-> 0] /\ answer.at = 0
      /\ newest = [k \in Names |-> 0]
  BY DEF Init
<1>2. Len(answer.parts) = Strategies
  BY <1>1, CacheAssumption, LenProperties DEF Names
<1> QED BY <1>1, <1>2, CacheAssumption DEF AnswersAreRecent, BackAtMostAFill, Names

LEMMA Invariance == Spec => []IInv
<1> QED BY InitInv, NextInv, PTL DEF Spec

\* The variables keep their shapes, and the cache is empty or whole, for every
\* number of concurrent requests (statusCache).
THEOREM TypeCorrect == Spec => []TypeOK
<1>1. IInv => TypeOK
  BY DEF IInv
<1> QED BY <1>1, Invariance, PTL

\* Answers of /api/status are whole and younger than the time to live and one
\* fill (handleStatus).
THEOREM Recent == Spec => []AnswersAreRecent
<1> QED BY InitAnswers, NextAnswers, Invariance, PTL DEF Spec

\* A poll sees no strategy go back by more than one fill (handleStatus).
THEOREM NearlyMonotone == Spec => []BackAtMostAFill
<1> QED BY InitAnswers, NextAnswers, Invariance, PTL DEF Spec
===============================================================================
