------------------------------ MODULE StatusCache ------------------------------
(***************************************************************************)
(* internal/web/handler.go: the cache of /api/status.                      *)
(*                                                                         *)
(* gin serves every request in a goroutine of its own.  A request that     *)
(* finds the cache stale asks all strategies and the exchange itself,      *)
(* beside any others that do the same, and stores what it got.  What is    *)
(* read is represented by the time of its reading.                         *)
(***************************************************************************)
EXTENDS Integers, Sequences

CONSTANTS Requests,    \* the goroutines that serve requests
          Strategies,  \* how many strategies there are
          TTL,         \* how long an answer is fresh (3 seconds in the code)
          MaxFill,     \* longest time from a miss to its answer
          MaxTime      \* bound: the end of the clock

ASSUME CacheAssumption ==
  /\ Strategies \in Nat
  /\ TTL \in Nat \ {0}
  /\ MaxFill \in Nat
  /\ MaxTime \in Nat

VARIABLES
  now,         \* the clock
  data,        \* statusCache.data: when each strategy in it was read
  lastFetch,   \* statusCache.lastFetch
  filling,     \* the requests that missed and have not answered
  began,       \* began[r]: when r missed
  resp,        \* resp[r]: what r has read so far
  answer,      \* history: the last answer sent, and when
  newest       \* history: the latest reading sent so far, per strategy

cache == <<data, lastFetch>>
history == <<answer, newest>>
vars == <<now, cache, filling, began, resp, history>>

Names == 1 .. Strategies

\* Later than no call of the exchange: Go's zero time is always stale.
Never == -TTL

\* A bug, for comparison: the last moment counts as fresh.
StillFresh == now - lastFetch <= TTL

\* statusCache.Get: time.Since(lastFetch) < 3 s.
Fresh == now - lastFetch < TTL

\* c.JSON: the client gets what r has in hand.
Send(what) ==
  /\ answer' = [parts |-> what, at |-> now]
  /\ newest' = [k \in Names |->
                  IF k \in DOMAIN what /\ what[k] > newest[k] THEN what[k] ELSE newest[k]]

\* The goroutine of r ends, and its variables with it.
Answered(r) ==
  /\ filling' = filling \ {r}
  /\ began' = [began EXCEPT ![r] = 0]
  /\ resp' = [resp EXCEPT ![r] = <<>>]

-------------------------------------------------------------------------------
Init ==
  /\ now = 0
  /\ data = <<>> /\ lastFetch = Never
  /\ filling = {}
  /\ began = [r \in Requests |-> 0]
  /\ resp = [r \in Requests |-> <<>>]
  /\ answer = [parts |-> [k \in Names |-> 0], at |-> 0]
  /\ newest = [k \in Names |-> 0]

\* handleStatus finds the cache fresh.
Hit(r) ==
  /\ r \notin filling /\ Fresh
  /\ Send(data)
  /\ UNCHANGED <<now, cache, filling, began, resp>>

\* handleStatus finds it stale.
Miss(r) ==
  /\ r \notin filling /\ ~Fresh
  /\ filling' = filling \cup {r}
  /\ began' = [began EXCEPT ![r] = now]
  /\ UNCHANGED <<now, cache, resp, history>>

\* One turn of the loop: GetStatus of the next strategy, then its ATRs, open
\* orders and mark price, which are as new; a call that fails counts as an
\* answer without data.  The amount and the entry price are not: GetStatus
\* copies s.position, which only syncState writes (strategy.go 141).
Read(r) ==
  /\ r \in filling /\ Len(resp[r]) < Strategies
  /\ resp' = [resp EXCEPT ![r] = Append(@, now)]
  /\ UNCHANGED <<now, cache, filling, began, history>>

\* A bug, for comparison: a cache that is fresh again is not stored to.
SetUnlessFresh(r) ==
  IF Fresh THEN UNCHANGED cache ELSE data' = resp[r] /\ lastFetch' = now

\* statusCache.Set.
Set(r) ==
  /\ data' = resp[r]
  /\ lastFetch' = now

\* A bug, for comparison: the answer is stored before the last strategy.
StoreEarly(r) ==
  /\ r \in filling /\ Len(resp[r]) + 1 >= Strategies
  /\ Set(r)
  /\ Send(resp[r])
  /\ Answered(r)
  /\ UNCHANGED now

\* The end of handleStatus: all strategies were read.
Store(r) ==
  /\ r \in filling /\ Len(resp[r]) = Strategies
  /\ Set(r)
  /\ Send(resp[r])
  /\ Answered(r)
  /\ UNCHANGED now

\* Time passes; no request takes longer than MaxFill.
Tick ==
  /\ now < MaxTime
  /\ \A r \in filling : now - began[r] < MaxFill
  /\ now' = now + 1
  /\ UNCHANGED <<cache, filling, began, resp, history>>

Next ==
  \/ \E r \in Requests : Hit(r) \/ Miss(r) \/ Read(r) \/ Store(r)
  \/ Tick

Spec == Init /\ [][Next]_vars

-------------------------------------------------------------------------------
(* Properties *)

Readings == Seq(Nat)

\* The variables have their shapes; the cache holds nothing or everything.
TypeOK ==
  /\ now \in Nat
  /\ data \in Readings /\ Len(data) \in {0, Strategies}
  /\ lastFetch \in Int
  /\ filling \subseteq Requests
  /\ began \in [Requests -> Nat]
  /\ resp \in [Requests -> Readings]
  /\ \A r \in Requests : Len(resp[r]) <= Strategies
  /\ answer.parts \in Readings /\ answer.at \in Nat
  /\ newest \in [Names -> Nat]

\* Every answer shows all strategies, each read less than the time to live and
\* one filling ago, and no earlier than the strategies before it: no request sees the work of another one half done (handleStatus,
\* Get and Set under the lock of the cache).
AnswersAreRecent ==
  /\ Len(answer.parts) = Strategies
  /\ \A k \in Names : answer.at - answer.parts[k] < TTL + MaxFill
  /\ \A k \in Names : k > 1 => answer.parts[k - 1] <= answer.parts[k]

\* A slow request may overwrite newer data with its own.  A client that polls
\* then sees a strategy go back in time, but never by more than one filling.
BackAtMostAFill ==
  \A k \in Names : answer.parts[k] >= newest[k] - MaxFill
===============================================================================
