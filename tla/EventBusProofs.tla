---------------------------- MODULE EventBusProofs ----------------------------
(***************************************************************************)
(* For every set of handlers, every filter, every capacity and every       *)
(* number of events: the bus keeps its types, loses nothing it accepted,   *)
(* runs each handler exactly once and implements Delivery.                 *)
(***************************************************************************)
EXTENDS EventBus, SequenceTheorems, TLAPS

-------------------------------------------------------------------------------
(* Sequences of one element and the queue operations. *)

\* Taking the head of the channel leaves the concatenation unchanged.
LEMMA TakeKeepsOrder ==
  ASSUME NEW S, NEW l \in Seq(S), NEW q \in Seq(S), q # <<>>
  PROVE  (l \o <<>>) \o q = (l \o <<Head(q)>>) \o Tail(q)
PROOF
  <1>1. Head(q) \in S /\ Tail(q) \in Seq(S) /\ q = <<Head(q)>> \o Tail(q)
    BY HeadTailProperties
  <1>2. l \o <<>> = l
    BY ConcatEmptySeq
  <1>3. (l \o <<Head(q)>>) \o Tail(q) = l \o (<<Head(q)>> \o Tail(q))
    BY <1>1, ConcatAssociative
  <1> QED BY <1>1, <1>2, <1>3

\* The two sides of a concatenation keep their elements at their positions.
LEMMA PrefixPositions ==
  ASSUME NEW S, NEW l \in Seq(S), NEW r \in Seq(S)
  PROVE  /\ Len(l \o r) = Len(l) + Len(r)
         /\ \A i \in 1 .. Len(l) : (l \o r)[i] = l[i]
  BY ConcatProperties, LenProperties

-------------------------------------------------------------------------------
(* Types *)

LEMMA InitType == Init => TypeOK
PROOF
  <1>1. <<>> \in Seq(Event) /\ Len(<<>>) = 0
    BY EmptySeq
  <1>2. QueueCap \in Nat
    BY BusAssumption
  <1> SUFFICES ASSUME Init PROVE TypeOK
    OBVIOUS
  <1>3. /\ queue \in Seq(Event) /\ Len(queue) <= QueueCap
        /\ current \in Seq(Event)
        /\ Len(current) = (IF dispatcher = "process" THEN 1 ELSE 0)
        /\ log \in Seq(Event)
        /\ accepted \in Seq(Event)
    BY <1>1, <1>2 DEF Init
  <1> QED BY <1>3 DEF Init, TypeOK

LEMMA NextType == TypeOK /\ [Next]_vars => TypeOK'
PROOF
  <1> SUFFICES ASSUME TypeOK, [Next]_vars PROVE TypeOK'
    OBVIOUS
  <1> USE BusAssumption
  <1>1. ASSUME NEW h \in Handlers, Subscribe(h) PROVE TypeOK'
    BY <1>1, LenProperties DEF TypeOK, Subscribe, busVars
  <1>2. ASSUME NEW e \in Event, Publish(e) PROVE TypeOK'
    <2>1. CASE Len(queue) < QueueCap
      <3> queue \in Seq(Event) /\ accepted \in Seq(Event)
        BY DEF TypeOK
      <3>0. queue' = Append(queue, e) /\ accepted' = Append(accepted, e)
        BY <1>2, <2>1 DEF Publish
      <3>1. queue' \in Seq(Event) /\ Len(queue') = Len(queue) + 1
        BY <3>0, AppendProperties
      <3>2. accepted' \in Seq(Event)
        BY <3>0, AppendProperties
      <3>3. Len(queue') <= QueueCap
        BY <2>1, <3>1, LenProperties DEF TypeOK
      <3> QED BY <1>2, <2>1, <3>1, <3>2, <3>3 DEF TypeOK, Publish
    <2>2. CASE ~(Len(queue) < QueueCap)
      BY <1>2, <2>2 DEF TypeOK, Publish
    <2> QED BY <2>1, <2>2
  <1>3. ASSUME Start PROVE TypeOK'
    BY <1>3 DEF TypeOK, Start
  <1>4. ASSUME Stop PROVE TypeOK'
    BY <1>4 DEF TypeOK, Stop
  <1>5. ASSUME Take PROVE TypeOK'
    <2>1. /\ Head(queue) \in Event
          /\ Tail(queue) \in Seq(Event)
          /\ Len(Tail(queue)) = Len(queue) - 1
      BY <1>5, HeadTailProperties DEF TypeOK, Take
    <2>2. current' \in Seq(Event) /\ Len(current') = 1
      BY <1>5, <2>1 DEF Take
    <2> QED BY <1>5, <2>1, <2>2, LenProperties DEF TypeOK, Take
  <1>6. ASSUME Process PROVE TypeOK'
    <2>1. log' \in Seq(Event)
      BY <1>6, ConcatProperties DEF TypeOK, Process
    <2>2. current' \in Seq(Event) /\ Len(current') = 0
      BY <1>6, EmptySeq DEF Process
    <2>3. spawned' \in [Handlers -> SUBSET Nat]
      <3>1. Len(log) + 1 \in Nat
        BY LenProperties DEF TypeOK
      <3> QED BY <1>6, <3>1 DEF TypeOK, Process
    <2> QED BY <1>6, <2>1, <2>2, <2>3 DEF TypeOK, Process
  <1>7. ASSUME Exit PROVE TypeOK'
    BY <1>7 DEF TypeOK, Exit
  <1>8. ASSUME NEW h \in Handlers, RunSome(h) PROVE TypeOK'
    <2>1. PICK i \in 1 .. MaxEvents : Run(h, i)
      BY <1>8 DEF RunSome
    <2>2. called' \in [Handlers -> SUBSET Nat]
      BY <2>1 DEF TypeOK, Run
    <2>3. spawned' \in [Handlers -> SUBSET Nat]
      BY <2>1 DEF TypeOK, Run
    <2> QED BY <2>1, <2>2, <2>3 DEF TypeOK, Run, busVars
  <1>9. CASE Rest \/ UNCHANGED vars
    BY <1>9 DEF TypeOK, Rest, vars, busVars
  <1> QED
    BY <1>1, <1>2, <1>3, <1>4, <1>5, <1>6, <1>7, <1>8, <1>9 DEF Next

\* Every variable keeps its type and the channel its capacity, whatever the
\* handlers, filters, capacity and number of events.
THEOREM TypeCorrect == Spec => []TypeOK
  <1> QED BY InitType, NextType, PTL DEF Spec

-------------------------------------------------------------------------------
(* Conservation *)

LEMMA InitNothingLost == Init => NothingLost
PROOF
  <1>1. <<>> \in Seq(Event)
    BY EmptySeq
  <1>2. (<<>> \o <<>>) \o <<>> = <<>>
    BY <1>1, ConcatEmptySeq
  <1> QED BY <1>2 DEF Init, NothingLost

LEMMA NextNothingLost == TypeOK /\ NothingLost /\ [Next]_vars => NothingLost'
PROOF
  <1> SUFFICES ASSUME TypeOK, NothingLost, [Next]_vars PROVE NothingLost'
    OBVIOUS
  <1> /\ queue \in Seq(Event) /\ log \in Seq(Event) /\ current \in Seq(Event)
      /\ accepted = (log \o current) \o queue
    BY DEF TypeOK, NothingLost
  <1>0. CASE UNCHANGED <<accepted, log, current, queue>>
    BY <1>0 DEF NothingLost
  <1>1. ASSUME NEW e \in Event, Publish(e) PROVE NothingLost'
    <2>1. CASE Len(queue) < QueueCap
      <3>1. /\ queue' = Append(queue, e) /\ accepted' = Append(accepted, e)
            /\ log' = log /\ current' = current
        BY <1>1, <2>1 DEF Publish, busVars
      <3>2. log \o current \in Seq(Event)
        BY ConcatProperties
      <3>3. Append((log \o current) \o queue, e) = (log \o current) \o Append(queue, e)
        <4> DEFINE l == log \o current
        <4>1. l \in Seq(Event)
          BY <3>2
        <4> HIDE DEF l
        <4>2. /\ Append(queue, e) = queue \o <<e>>
              /\ l \o queue \in Seq(Event)
              /\ <<e>> \in Seq(Event)
          BY <4>1, AppendIsConcat, ConcatProperties
        <4>3. Append(l \o queue, e) = (l \o queue) \o <<e>>
          BY <4>2, AppendIsConcat
        <4>4. (l \o queue) \o <<e>> = l \o (queue \o <<e>>)
          <5> DEFINE s == <<e>>
          <5>1. s \in Seq(Event)
            BY <4>2
          <5> HIDE DEF s
          <5>2. (l \o queue) \o s = l \o (queue \o s)
            BY <4>1, <5>1, ConcatAssociative, Z3
          <5> QED BY <5>2 DEF s
        <4> QED BY <4>2, <4>3, <4>4 DEF l
      <3> QED BY <3>1, <3>3 DEF NothingLost
    <2>2. CASE ~(Len(queue) < QueueCap)
      BY <1>0, <1>1, <2>2 DEF Publish
    <2> QED BY <2>1, <2>2
  <1>2. ASSUME Take PROVE NothingLost'
    <2>1. /\ current' = <<Head(queue)>> /\ queue' = Tail(queue) /\ queue # <<>>
          /\ log' = log /\ accepted' = accepted /\ dispatcher = "select"
      BY <1>2 DEF Take
    <2>2. current = <<>>
      BY <2>1, EmptySeq DEF TypeOK
    <2>3. (log \o <<>>) \o queue = (log \o <<Head(queue)>>) \o Tail(queue)
      BY <2>1, TakeKeepsOrder
    <2> QED BY <2>1, <2>2, <2>3 DEF NothingLost
  <1>3. ASSUME Process PROVE NothingLost'
    <2>1. log' = log \o current /\ current' = <<>> /\ queue' = queue
          /\ accepted' = accepted
      BY <1>3 DEF Process
    <2>2. (log \o current) \o <<>> = log \o current
      BY ConcatProperties, ConcatEmptySeq
    <2> QED BY <2>1, <2>2 DEF NothingLost
  <1>4. ASSUME NEW h \in Handlers, Subscribe(h) \/ RunSome(h) PROVE NothingLost'
    BY <1>0, <1>4 DEF Subscribe, RunSome, Run, busVars
  <1>5. CASE Start \/ Stop \/ Exit
    BY <1>0, <1>5 DEF Start, Stop, Exit
  <1>6. CASE Rest \/ UNCHANGED vars
    BY <1>0, <1>6 DEF Rest, vars, busVars
  <1> QED BY <1>1, <1>2, <1>3, <1>4, <1>5, <1>6 DEF Next

\* No accepted event is lost, duplicated or overtaken between Publish and the
\* dispatch of its goroutines.
THEOREM Conservation == Spec => []NothingLost
  <1> QED BY InitType, NextType, InitNothingLost, NextNothingLost, PTL DEF Spec

-------------------------------------------------------------------------------
(* Exactly one goroutine per event and handler *)

\* One more processed event adds its position, and only it, to what is owed.
LEMMA ProcessOwes ==
  ASSUME TypeOK, Process, NEW h \in Handlers
  PROVE  /\ Owed(h)' = Owed(h) \cup
              (IF h \in subscribed /\ TypeOf[h] = current[1].type
                                   /\ since[h] < Len(log) + 1
               THEN {Len(log) + 1} ELSE {})
         /\ \A i \in 1 .. Len(log) : log'[i] = log[i]
         /\ log'[Len(log) + 1] = current[1]
PROOF
  <1>1. /\ log \in Seq(Event) /\ current \in Seq(Event) /\ Len(current) = 1
        /\ log' = log \o current /\ since' = since /\ subscribed' = subscribed
    BY DEF TypeOK, Process
  <1>3. Len(log) \in Nat
    BY <1>1, LenProperties
  <1>2. /\ Len(log') = Len(log) + 1
        /\ \A i \in 1 .. Len(log) + 1 :
             log'[i] = IF i <= Len(log) THEN log[i] ELSE current[i - Len(log)]
    <2>1. /\ Len(log \o current) = Len(log) + Len(current)
          /\ \A i \in 1 .. Len(log) + Len(current) : (log \o current)[i] =
               IF i <= Len(log) THEN log[i] ELSE current[i - Len(log)]
      BY <1>1, ConcatProperties
    <2> QED BY <1>1, <2>1
  <1>4. \A i \in 1 .. Len(log) : log'[i] = log[i]
    BY <1>2, <1>3
  <1>5. log'[Len(log) + 1] = current[1]
    BY <1>2, <1>3
  <1>6. 1 .. Len(log') = (1 .. Len(log)) \cup {Len(log) + 1}
    BY <1>2, <1>3
  <1> QED BY <1>1, <1>3, <1>4, <1>5, <1>6 DEF Owed

\* What the induction needs besides ExactlyOnce: a handler was subscribed at a
\* moment the log has not gone back behind.
SinceInLog == \A h \in subscribed : since[h] <= Len(log)

LEMMA NextSinceInLog == TypeOK /\ SinceInLog /\ [Next]_vars => SinceInLog'
PROOF
  <1> SUFFICES ASSUME TypeOK, SinceInLog, [Next]_vars PROVE SinceInLog'
    OBVIOUS
  <1> log \in Seq(Event) /\ Len(log) \in Nat /\ current \in Seq(Event)
      /\ since \in [Handlers -> Nat] /\ subscribed \subseteq Handlers
    BY LenProperties DEF TypeOK
  <1>0. CASE UNCHANGED <<subscribed, since, log>>
    BY <1>0 DEF SinceInLog
  <1>1. ASSUME NEW h \in Handlers, Subscribe(h) PROVE SinceInLog'
    BY <1>1 DEF SinceInLog, Subscribe
  <1>2. ASSUME Process PROVE SinceInLog'
    <2>1. /\ Len(log') = Len(log) + 1 /\ since' = since
          /\ subscribed' = subscribed
      <3>1. Len(current) = 1 /\ log' = log \o current
        BY <1>2 DEF Process, TypeOK
      <3>2. Len(log \o current) = Len(log) + Len(current)
        BY ConcatProperties
      <3> QED BY <1>2, <3>1, <3>2 DEF Process
    <2> QED BY <2>1 DEF SinceInLog
  <1> QED
    BY <1>0, <1>1, <1>2
    DEF Next, Publish, Start, Stop, Take, Exit, RunSome, Run, Rest, vars, busVars

LEMMA NextExactlyOnce ==
  TypeOK /\ SinceInLog /\ ExactlyOnce /\ [Next]_vars => ExactlyOnce'
PROOF
  <1> SUFFICES ASSUME TypeOK, SinceInLog, ExactlyOnce, [Next]_vars,
                      NEW h \in Handlers
               PROVE  (/\ spawned[h] \cap called[h] = {}
                       /\ spawned[h] \cup called[h] \subseteq Owed(h)
                       /\ {i \in Owed(h) : Passes(h, log[i])}
                            \subseteq spawned[h] \cup called[h]
                       /\ \A i \in called[h] : Wants(h, log[i]))'
    BY DEF ExactlyOnce
  <1> DEFINE Fine ==
        /\ spawned[h] \cap called[h] = {}
        /\ spawned[h] \cup called[h] \subseteq Owed(h)
        /\ {i \in Owed(h) : Passes(h, log[i])} \subseteq spawned[h] \cup called[h]
        /\ \A i \in called[h] : Wants(h, log[i])
  <1> Fine
    BY DEF ExactlyOnce
  <1>0. CASE UNCHANGED <<subscribed, since, log, spawned, called>>
    BY <1>0 DEF Owed, Wants, Passes
  <1>1. ASSUME NEW g \in Handlers, Subscribe(g) PROVE Fine'
    <2>1. UNCHANGED <<log, spawned, called>>
      BY <1>1 DEF Subscribe
    <2>2. Owed(h)' = Owed(h)
      <3>1. CASE g = h
        <4>1. Owed(h) = {}
          BY <1>1, <3>1 DEF Owed, Subscribe
        <4>2. since'[h] = Len(log) /\ Len(log) \in Nat /\ log' = log
          BY <1>1, <3>1, LenProperties DEF Subscribe, TypeOK
        <4>3. Owed(h)' = {}
          BY <4>2 DEF Owed
        <4> QED BY <4>1, <4>3
      <3>2. CASE g # h
        BY <1>1, <3>2 DEF Owed, Subscribe, TypeOK
      <3> QED BY <3>1, <3>2
    <2> QED BY <2>1, <2>2 DEF Wants, Passes
  <1>2. ASSUME Process PROVE Fine'
    <2> DEFINE n == Len(log) + 1
    <2>1. /\ Owed(h)' = Owed(h) \cup
               (IF h \in subscribed /\ TypeOf[h] = current[1].type
                                    /\ since[h] < n
                THEN {n} ELSE {})
          /\ \A i \in 1 .. Len(log) : log'[i] = log[i]
          /\ log'[n] = current[1]
      BY <1>2, ProcessOwes
    <2>2. Len(log) \in Nat
      BY LenProperties DEF TypeOK
    <2>3. Owed(h) \subseteq 1 .. Len(log) /\ n \notin Owed(h)
      BY <2>2 DEF Owed
    <2>4. h \in subscribed => since[h] < n
      BY <2>2 DEF SinceInLog, TypeOK
    <2>5. /\ called' = called
          /\ spawned'[h] = IF h \in subscribed /\ TypeOf[h] = current[1].type
                           THEN spawned[h] \cup {n} ELSE spawned[h]
      BY <1>2 DEF Process
    <2>6. \A i \in Owed(h) : log'[i] = log[i]
      BY <2>1, <2>3
    <2> HIDE DEF n
    <2>7. (spawned[h] \cap called[h] = {})'
      BY <2>3, <2>5
    <2>8. (spawned[h] \cup called[h] \subseteq Owed(h))'
      BY <2>1, <2>4, <2>5
    <2>9. ({i \in Owed(h) : Passes(h, log[i])} \subseteq spawned[h] \cup called[h])'
      BY <2>1, <2>4, <2>5, <2>6 DEF Passes
    <2>10. (\A i \in called[h] : Wants(h, log[i]))'
      BY <2>5, <2>6 DEF Wants, Passes
    <2> QED BY <2>7, <2>8, <2>9, <2>10
  <1>3. ASSUME NEW g \in Handlers, RunSome(g) PROVE Fine'
    <2>1. PICK i \in 1 .. MaxEvents : Run(g, i)
      BY <1>3 DEF RunSome
    <2>2. UNCHANGED <<subscribed, since, log>> /\ Owed(h)' = Owed(h)
      BY <2>1 DEF Run, Owed
    <2>3. CASE g # h
      <3>1. spawned'[h] = spawned[h] /\ called'[h] = called[h]
        BY <2>1, <2>3 DEF Run, TypeOK
      <3> QED BY <2>2, <3>1 DEF Wants, Passes
    <2>4. CASE g = h
      <3>1. /\ i \in spawned[h] /\ i \in Owed(h)
            /\ spawned'[h] = spawned[h] \ {i}
            /\ called'[h] = IF Passes(h, log[i]) THEN called[h] \cup {i} ELSE called[h]
        BY <2>1, <2>4 DEF Run, TypeOK
      <3>2. TypeOf[h] = log[i].type
        BY <3>1 DEF Owed
      <3> QED BY <2>2, <3>1, <3>2 DEF Wants, Passes
    <2> QED BY <2>3, <2>4
  <1>4. CASE (\E e \in Event : Publish(e)) \/ Start \/ Stop \/ Take \/ Exit
    BY <1>0, <1>4 DEF Publish, Start, Stop, Take, Exit
  <1>5. CASE Rest \/ UNCHANGED vars
    BY <1>0, <1>5 DEF Rest, vars, busVars
  <1> QED BY <1>1, <1>2, <1>3, <1>4, <1>5 DEF Next

\* Every handler is called for each event it wants that was processed after it
\* subscribed, or has one goroutine waiting to do so, and is never called twice.
THEOREM OneCallPerEvent == Spec => []ExactlyOnce
PROOF
  <1>1. Init => SinceInLog /\ ExactlyOnce
    BY DEF Init, SinceInLog, ExactlyOnce, Owed
  <1> QED
    BY <1>1, InitType, NextType, NextSinceInLog, NextExactlyOnce, PTL DEF Spec

-------------------------------------------------------------------------------
(* The refinement *)

\* The positions of the log are the positions of the accepted events.
LEMMA LogIsPrefix ==
  ASSUME TypeOK, NothingLost
  PROVE  /\ Len(log) \in Nat
         /\ DOMAIN accepted = 1 .. Len(accepted)
         /\ 1 .. Len(log) \subseteq DOMAIN accepted
         /\ \A i \in 1 .. Len(log) : accepted[i] = log[i]
PROOF
  <1>1. /\ log \in Seq(Event) /\ current \in Seq(Event) /\ queue \in Seq(Event)
        /\ accepted \in Seq(Event) /\ accepted = (log \o current) \o queue
    BY DEF TypeOK, NothingLost
  <1>2. current \o queue \in Seq(Event)
    BY <1>1, ConcatProperties
  <1>3. accepted = log \o (current \o queue)
    BY <1>1, ConcatAssociative
  <1> DEFINE r == current \o queue
  <1>4. r \in Seq(Event) /\ accepted = log \o r
    BY <1>2, <1>3
  <1> HIDE DEF r
  <1>5. /\ Len(log \o r) = Len(log) + Len(r)
        /\ \A i \in 1 .. Len(log) : (log \o r)[i] = log[i]
    BY <1>1, <1>4, PrefixPositions
  <1>6. Len(log) \in Nat /\ Len(r) \in Nat /\ DOMAIN accepted = 1 .. Len(accepted)
    BY <1>1, <1>4, LenProperties
  <1> QED BY <1>4, <1>5, <1>6

LEMMA InitRefines == Init => Promise!Init
  BY DEF Init, Promise!Init

LEMMA NextRefines ==
  TypeOK /\ NothingLost /\ ExactlyOnce /\ [Next]_vars => [Promise!Next]_(Promise!vars)
PROOF
  <1> SUFFICES ASSUME TypeOK, NothingLost, ExactlyOnce, [Next]_vars
               PROVE  [Promise!Next]_(Promise!vars)
    OBVIOUS
  <1>0. CASE UNCHANGED <<accepted, called>>
    BY <1>0 DEF Promise!vars
  <1>1. ASSUME NEW e \in Event, Publish(e) PROVE [Promise!Next]_(Promise!vars)
    <2>1. CASE Len(queue) < QueueCap
      <3>1. Promise!Accept(e)
        BY <1>1, <2>1 DEF Publish, Promise!Accept
      <3> QED BY <3>1 DEF Promise!Next
    <2>2. CASE ~(Len(queue) < QueueCap)
      BY <1>0, <1>1, <2>2 DEF Publish
    <2> QED BY <2>1, <2>2
  <1>2. ASSUME NEW h \in Handlers, RunSome(h) PROVE [Promise!Next]_(Promise!vars)
    <2>1. PICK i \in 1 .. MaxEvents : Run(h, i)
      BY <1>2 DEF RunSome
    <2>2. accepted' = accepted
      BY <2>1 DEF Run
    <2>3. CASE Passes(h, log[i])
      <3>1. /\ i \in 1 .. Len(log) /\ i \notin called[h] /\ TypeOf[h] = log[i].type
        BY <2>1 DEF Run, ExactlyOnce, Owed
      <3>2. i \in DOMAIN accepted /\ accepted[i] = log[i]
        BY <3>1, LogIsPrefix
      <3>3. Promise!Call(h, i)
        BY <2>1, <2>2, <2>3, <3>1, <3>2 DEF Run, Promise!Call, Wants
      <3> QED BY <3>2, <3>3 DEF Promise!Next
    <2>4. CASE ~Passes(h, log[i])
      BY <1>0, <2>1, <2>2, <2>4 DEF Run
    <2> QED BY <2>3, <2>4
  <1>3. CASE Start \/ Stop \/ Take \/ Process \/ Exit
    BY <1>0, <1>3 DEF Start, Stop, Take, Process, Exit
  <1>4. ASSUME NEW h \in Handlers, Subscribe(h) PROVE [Promise!Next]_(Promise!vars)
    BY <1>0, <1>4 DEF Subscribe
  <1>5. CASE Rest \/ UNCHANGED vars
    BY <1>0, <1>5 DEF Rest, vars
  <1> QED BY <1>1, <1>2, <1>3, <1>4, <1>5 DEF Next

\* The bus implements Delivery: handlers are called at most once per event, only
\* for accepted events, and only for those they want.
THEOREM BusImplementsDelivery == Spec => ImplementsDelivery
PROOF
  <1>1. Init => SinceInLog /\ ExactlyOnce
    BY DEF Init, SinceInLog, ExactlyOnce, Owed
  <1> QED
    BY <1>1, InitType, NextType, InitNothingLost, NextNothingLost, NextSinceInLog,
       NextExactlyOnce, InitRefines, NextRefines, PTL
    DEF Spec, ImplementsDelivery
===============================================================================
