-------------------------- MODULE StrategyCycleProofs --------------------------
(***************************************************************************)
(* What a clean cycle guarantees, for every number of goroutines, every    *)
(* ladder and every bound.  Each part names the faults it allows: what is  *)
(* read of the exchange is always true, and an order that is cancelled or  *)
(* placed is what the answer says (Truthful).                              *)
(*                                                                         *)
(* One invariant follows the cycle (Cycle: where its exit order is), and   *)
(* five more rest on it: what is offered fits (FitsInCycle), the first exit*)
(* fill leaves nothing behind (ClosedInCycle), the ladder is placed once   *)
(* (StageInCycle), an exit order rests (GuardInCycle), and it covers the   *)
(* position (CoverInCycle).                                                *)
(***************************************************************************)
EXTENDS StrategyCycles, StrategyProofs, SumProofs

\* The exchange answers, and its answers are true.
Truthful == Env \cap {"GetPosition", "GetOpenOrders", "CancelOrder", "LostResponse"} = {}

-------------------------------------------------------------------------------
(* The open exit orders *)

LEMMA BookIsSeq ==
  ASSUME Sound
  PROVE  /\ orders \in Seq(Order) /\ DOMAIN orders = 1 .. Len(orders)
         /\ Len(orders) \in Nat
         /\ pos \in Int /\ fills \subseteq 1 .. Len(orders)
         /\ pc \in [Threads -> PC] /\ oid \in [Threads -> 0 .. Len(orders)]
         /\ \A o \in DOMAIN orders : orders[o] \in Order
         /\ exits \in Nat
  BY LenProperties, ElementOfSeq
  DEF Sound, TypeOK, BookType, LockType, IdType, CountType

\* Nothing but a new order adds to them.
LEMMA NoNewExit ==
  ASSUME Sound, SameSides,
         \A o \in 1 .. Len(orders) : orders'[o].rem > 0 => orders[o].rem > 0
  PROVE  OpenExits' \subseteq OpenExits
PROOF
  <1>1. DOMAIN orders = 1 .. Len(orders) /\ DOMAIN orders' = 1 .. Len(orders)
    BY BookIsSeq, LenProperties DEF SameSides
  <1> QED BY <1>1 DEF OpenExits, Open, SameSides

LEMMA NewExit ==
  ASSUME Sound, NEW side \in Sides, NEW rem \in Nat, Place(side, rem)
  PROVE  /\ OpenExits' \subseteq OpenExits \cup {NextID}
         /\ (side = "entry" \/ rem = 0) => OpenExits' \subseteq OpenExits
         /\ orders'[NextID] = [side |-> side, rem |-> rem]
         /\ Len(orders') = Len(orders) + 1
         /\ NextID # 0
PROOF
  <1>1. /\ orders' \in Seq(Order)
        /\ Len(orders') = Len(orders) + 1 /\ Len(orders) \in Nat
        /\ \A i \in 1 .. Len(orders) : orders'[i] = orders[i]
        /\ orders'[Len(orders) + 1] = [side |-> side, rem |-> rem]
    BY PlaceAppends, BookIsSeq
  <1>2. DOMAIN orders' = 1 .. Len(orders) + 1 /\ DOMAIN orders = 1 .. Len(orders)
    BY <1>1, BookIsSeq, LenProperties
  <1>3. orders'[NextID] = [side |-> side, rem |-> rem]
    BY <1>1 DEF NextID
  <1>4. \A o \in OpenExits' : o # NextID => o \in OpenExits
    BY <1>1, <1>2 DEF OpenExits, Open, NextID
  <1>5. (side = "entry" \/ rem = 0) => NextID \notin OpenExits'
    BY <1>3 DEF OpenExits, Open
  <1> QED BY <1>1, <1>3, <1>4, <1>5 DEF NextID

LEMMA WithdrawCloses ==
  ASSUME Sound, NEW o \in 1 .. Len(orders), Withdraw(o)
  PROVE  OpenExits' \subseteq OpenExits \ {o}
PROOF
  <1>1. /\ SameSides /\ orders'[o].rem = 0
        /\ \A i \in 1 .. Len(orders) : i # o => orders'[i] = orders[i]
    BY BookIsSeq, WithdrawKeepsSides
  <1>2. OpenExits' \subseteq OpenExits
    BY <1>1, NoNewExit
  <1>3. o \notin OpenExits'
    BY <1>1 DEF OpenExits, Open
  <1> QED BY <1>2, <1>3

-------------------------------------------------------------------------------
(* The base order *)

\* Only enterPosition places one.
LEMMA BaseIsEntered ==
  ASSUME Sound, [Next]_vars, BaseBought
  PROVE  \E t \in Threads :
           EnterPosition(t) /\ Place("entry", 0) /\ pos' = pos + 1 /\ Emit(NextID)
                            /\ (Goto(t, "entered") \/ "LostResponse" \in Env)
PROOF
  <1>1. Len(orders') > Len(orders) /\ orders'[NextID] = [side |-> "entry", rem |-> 0]
    BY DEF BaseBought
  <1>2. orders' # orders /\ ~SameSides
    BY <1>1, BookIsSeq DEF SameSides
  <1>3. ASSUME NEW side \in Sides, NEW rem \in Nat, Place(side, rem)
        PROVE  side = "entry" /\ rem = 0
    <2>1. [side |-> side, rem |-> rem] = [side |-> "entry", rem |-> 0]
      BY <1>1, <1>3, NewExit
    <2>2. /\ [side |-> side, rem |-> rem].side = "entry"
          /\ [side |-> side, rem |-> rem].rem = 0
      BY <2>1
    <2> QED BY <2>2
  <1>4. ~ \E t \in Threads : GridPlace(t)
    <2> SUFFICES ASSUME NEW t \in Threads, GridPlace(t) PROVE FALSE
      OBVIOUS
    <2>1. level[t] \in 1 .. MaxSafetyOrders
      <3>1. level[t] \in 0 .. MaxSafetyOrders + 1 /\ level[t] # 0
        BY DEF Sound, TypeOK, LocalType, InHand, GridPlace, At
      <3> QED BY <3>1, StrategyAssumption DEF GridPlace
    <2>2. SafetyUnits[level[t]] \in Nat \ {0}
      BY <2>1, StrategyAssumption
    <2>3. Place("entry", SafetyUnits[level[t]])
      BY <1>2 DEF GridPlace
    <2> QED BY <1>3, <2>2, <2>3 DEF Sides
  <1>5. ~ \E t \in Threads : TPPlace(t)
    <2> SUFFICES ASSUME NEW t \in Threads, TPPlace(t) PROVE FALSE
      OBVIOUS
    <2>1. Place("exit", amt[t]) /\ amt[t] \in Nat
      BY <1>2 DEF TPPlace, Sound, TypeOK, LocalType
    <2> QED BY <1>3, <2>1 DEF Sides
  <1>6. ~ManualExit
    BY <1>3 DEF ManualExit, Sides
  <1>7. ~ \E o \in DOMAIN orders : Fill(o)
    <2> SUFFICES ASSUME NEW o \in DOMAIN orders, Fill(o) PROVE FALSE
      OBVIOUS
    <2>1. PICK n \in 1 .. orders[o].rem : orders' = [orders EXCEPT ![o].rem = @ - n]
      BY DEF Fill
    <2>2. orders[o].rem \in Nat /\ orders[o].rem - n \in Nat
      BY <2>1, BookIsSeq DEF Order
    <2>3. orders' = [orders EXCEPT ![o].rem = orders[o].rem - n]
      BY <2>1
    <2>4. SameSides
      BY <2>2, <2>3, BookIsSeq, ReplaceKeepsSides
    <2> QED BY <1>2, <2>4
  <1>8. ~ \E t \in Threads : TPCancel(t)
    <2> SUFFICES ASSUME NEW t \in Threads, TPCancel(t) PROVE FALSE
      OBVIOUS
    <2>1. oid[t] \in 1 .. Len(orders)
      BY BookIsSeq DEF TPCancel, Sound, InHand, At
    <2> QED BY <1>2, <2>1, BookIsSeq, WithdrawKeepsSides DEF TPCancel
  <1>9. ~ \E o \in cancelGo : CancelNewTP(o)
    BY <1>2, BookIsSeq, WithdrawKeepsSides DEF CancelNewTP, Sound, TypeOK, IdType
  <1>10. ~ \E t \in Threads : CancelAllOrders(t)
    BY <1>2, BookIsSeq, WipeKeepsSides DEF CancelAllOrders
  <1>11. ~ (Start \/ SyncPosition \/ SyncOrders \/ GridSkip \/ TPSkip \/ CooldownOver
            \/ Crash \/ UNCHANGED vars)
    BY <1>2 DEF Start, SyncPosition, SyncOrders, GridSkip, TPSkip, CooldownOver,
                Crash, LoseMemory, vars, exchange
  <1>12. ~ \E t \in Threads :
            \/ HandleTick(t) \/ EnterReturn(t) \/ EnterFail(t) \/ StampCooldown(t)
            \/ Reprice(t) \/ ExitClose(t) \/ ExitStillOpen(t) \/ GridPrice(t)
            \/ GridDone(t) \/ TPRead(t) \/ TPFlat(t) \/ TPCheck(t) \/ TPStore(t)
            \/ GridStart(t) \/ TPStart(t) \/ PanicReprice(t)
            \/ \E o \in fills : EntryFilled(t, o) \/ ExitFilled(t, o)
    BY <1>2 DEF HandleTick, EnterReturn, EnterFail, StampCooldown, Reprice,
                ExitClose, ExitStillOpen, GridPrice, GridDone, TPRead, TPFlat,
                TPCheck, TPStore, GridStart, TPStart, PanicReprice, LoseMemory,
                EntryFilled, ExitFilled, exchange
  <1>13. PICK t \in Threads : EnterPosition(t)
    BY <1>4, <1>5, <1>6, <1>7, <1>8, <1>9, <1>10, <1>11, <1>12, NextCases
  <1> QED BY <1>2, <1>13 DEF EnterPosition, exchange

LEMMA ExitsCount ==
  ASSUME Sound, [Next]_vars
  PROVE  exits' \in {exits, exits + 1}
PROOF
  <1>1. ASSUME UNCHANGED bounds PROVE exits' = exits
    BY <1>1 DEF bounds
  <1> QED
    BY <1>1, NextCases
    DEF Start, SyncPosition, SyncOrders, HandleTick, EnterPosition, EnterReturn,
        EnterFail, StampCooldown, EntryFilled, ExitFilled, Reprice, ExitClose,
        CancelAllOrders, ExitStillOpen, GridPrice, GridPlace, GridDone, TPRead,
        TPFlat, TPCheck, TPCancel, TPPlace, TPStore, GridStart, TPStart, GridSkip,
        TPSkip, CancelNewTP, CooldownOver, Fill, ManualExit, Crash, PanicReprice,
        vars

-------------------------------------------------------------------------------
(* The invariant *)

\* Before the first base order.
Blank ==
  /\ orders = <<>> /\ pos = 0
  /\ gridGo = 0 /\ tpGo = 0 /\ phase # "syncing"
  /\ \A t \in Threads : pc[t] \in {"idle", "enter", "rejected", "stamp"}

\* Nobody is about to place a base order or to clear the record.
Clearing == {"enter", "rejected", "closing", "stillOpen", "wipe", "tpFlat"}

\* The position of the cycle is held, and nobody takes it for closed.
Held ==
  /\ pos > 0
  /\ \A o \in fills : orders[o].side = "entry"
  /\ \A t \in Threads : pc[t] \notin Clearing
  /\ phase = "up" => currentState # "IDLE"
  /\ phase = "syncing" => currentState = "IN_POSITION"
  /\ phase # "up" => gridGo = 0 /\ tpGo = 0 /\ \A t \in Threads : pc[t] = "idle"

OneExit == \A o, p \in OpenExits : o = p

\* Where updateTP is with the exit order: about to withdraw the one on record,
\* between the two with none open, or about to record the new one.
OnRecord ==
  /\ \A o \in OpenExits :
       o = currentTPOrderID \/ \E t \in Threads : pc[t] = "tpStore" /\ oid[t] = o
  /\ \A t \in Threads :
       /\ pc[t] = "tpCancel" => oid[t] = currentTPOrderID
       /\ pc[t] = "tpPlace" => OpenExits = {}
       /\ pc[t] = "tpStore" => OpenExits \subseteq {oid[t]}

UpRecord == OneExit /\ (phase = "up" => OnRecord)

Cycle ==
  /\ taken \in Nat
  /\ clean /\ taken = 0 => Blank \/ (Held /\ UpRecord)

\* A clean cycle starts with an empty book and everybody else at rest.
LEMMA BaseState ==
  ASSUME Sound, Truthful, [Next]_vars, BaseBought, FromRest
  PROVE  /\ phase' = "up" /\ currentState' = "PLACING_GRID" /\ pos' = 1
         /\ OpenOrders' = {} /\ OpenExits' = {}
         /\ gridGo' = 0 /\ tpGo' = 0 /\ cancelGo' = {}
         /\ \A t \in Threads : pc'[t] \in {"idle", "entered"}
         /\ NextID \in DOMAIN orders' /\ orders'[NextID].side = "entry"
         /\ Emit(NextID) /\ fills' \subseteq {NextID}
PROOF
  <1>1. PICK t \in Threads :
          /\ EnterPosition(t) /\ Place("entry", 0) /\ pos' = pos + 1 /\ Emit(NextID)
          /\ Goto(t, "entered")
    BY BaseIsEntered DEF Truthful
  <1>2. /\ Len(orders') = Len(orders) + 1 /\ Len(orders) \in Nat
        /\ DOMAIN orders' = 1 .. Len(orders) + 1 /\ DOMAIN orders = 1 .. Len(orders)
        /\ orders'[NextID] = [side |-> "entry", rem |-> 0]
        /\ \A o \in 1 .. Len(orders) : orders'[o] = orders[o]
    BY <1>1, BookIsSeq, PlaceAppends, LenProperties DEF Sides, NextID
  <1>3. OpenOrders' = {} /\ OpenExits' = {}
    BY <1>2 DEF FromRest, OpenOrders, OpenExits, Open, NextID
  <1>4. UNCHANGED <<phase, currentState, gridGo, tpGo, cancelGo>>
    BY <1>1 DEF EnterPosition, memory, pending
  <1>5. \A u \in Threads : pc'[u] \in {"idle", "entered"}
    <2>1. pc' = [pc EXCEPT ![t] = "entered"] /\ pc[t] = "enter"
      BY <1>1 DEF Goto, EnterPosition, At
    <2> QED BY <2>1, BookIsSeq DEF FromRest, At
  <1> QED BY <1>1, <1>2, <1>3, <1>4, <1>5 DEF Emit, FromRest, NextID

LEMMA BaseHolds ==
  ASSUME Sound, Truthful, [Next]_vars, BaseBought, FromRest
  PROVE  Held' /\ UpRecord'
PROOF
  <1>1. Held'
    BY BaseState DEF Held, Clearing
  <1>2. UpRecord'
    BY BaseState DEF UpRecord, OneExit, OnRecord
  <1> QED BY <1>1, <1>2

\* Before it, nothing but the tick that opens the first cycle gets anywhere.
LEMMA BlankStays ==
  ASSUME Sound, Truthful, Next, ~BaseBought, Blank
  PROVE  Blank'
PROOF
  <1>1. /\ DOMAIN orders = {} /\ fills = {} /\ cancelGo = {} /\ OpenExits = {}
        /\ pc \in [Threads -> PC] /\ Len(orders) = 0
    <2>1. Len(orders) = 0
      BY DEF Blank
    <2> QED BY <2>1, BookIsSeq DEF OpenExits, Sound, TypeOK, IdType
  <1>2. ASSUME NEW t \in Threads, EnterPosition(t) PROVE Blank'
    <2>1. ~Place("entry", 0)
      <3> SUFFICES ASSUME Place("entry", 0) PROVE FALSE
        OBVIOUS
      <3>1. /\ orders'[NextID] = [side |-> "entry", rem |-> 0]
            /\ Len(orders') = Len(orders) + 1
        BY NewExit DEF Sides
      <3> QED BY <3>1, <1>1 DEF BaseBought
    <2> QED BY <1>1, <1>2, <2>1 DEF EnterPosition, Blank, exchange, pending, Goto
  <1>3. ASSUME NEW t \in Threads,
               HandleTick(t) \/ EnterReturn(t) \/ EnterFail(t) \/ StampCooldown(t)
        PROVE  Blank'
    BY <1>1, <1>3 DEF HandleTick, EnterReturn, EnterFail, StampCooldown, Blank,
                      exchange, pending, Goto, At
  <1>4. ASSUME NEW t \in Threads,
               \/ Reprice(t) \/ ExitClose(t) \/ CancelAllOrders(t)
               \/ ExitStillOpen(t) \/ GridPrice(t) \/ GridPlace(t) \/ GridDone(t)
               \/ TPRead(t) \/ TPFlat(t) \/ TPCheck(t) \/ TPCancel(t) \/ TPPlace(t)
               \/ TPStore(t) \/ GridStart(t) \/ TPStart(t) \/ PanicReprice(t)
               \/ \E o \in fills : EntryFilled(t, o) \/ ExitFilled(t, o)
        PROVE  FALSE
    BY <1>1, <1>4 DEF Reprice, ExitClose, CancelAllOrders, ExitStillOpen, GridPrice,
                      GridPlace, GridDone, TPRead, TPFlat, TPCheck, TPCancel,
                      TPPlace, TPStore, GridStart, TPStart, PanicReprice, Blank, At
  <1>5. CASE Start \/ SyncPosition \/ CooldownOver \/ UNCHANGED vars
    BY <1>5 DEF Start, SyncPosition, CooldownOver, Blank, vars, exchange, pending
  <1>6. ~(SyncOrders \/ GridSkip \/ TPSkip \/ ManualExit)
    BY DEF SyncOrders, GridSkip, TPSkip, ManualExit, Blank
  <1>7. CASE Crash
    BY <1>7 DEF Crash, LoseMemory, Blank
  <1> QED BY <1>1, <1>2, <1>3, <1>4, <1>5, <1>6, <1>7, NextCases

\* A step that adds no exit order and leaves updateTP and the record alone.
LEMMA RecordStays ==
  ASSUME OneExit, phase = "up" => OnRecord, phase' = phase,
         OpenExits' \subseteq OpenExits, currentTPOrderID' = currentTPOrderID,
         \A t \in Threads :
           /\ pc[t] = "tpStore" => pc'[t] = "tpStore"
           /\ pc'[t] \in {"tpCancel", "tpPlace", "tpStore"} => pc'[t] = pc[t]
           /\ oid'[t] = oid[t]
  PROVE  UpRecord'
  BY DEF UpRecord, OneExit, OnRecord

\* A step that leaves the position held.
LEMMA StillHeld ==
  ASSUME Sound, Sound', Grows, Held, phase' = phase, pos' >= pos,
         \A o \in fills' \ fills : orders'[o].side = "entry",
         currentState' \in {currentState, "PLACING_GRID", "IN_POSITION"},
         phase = "syncing" => currentState' = currentState,
         \A t \in Threads : pc'[t] \notin Clearing,
         phase # "up" => gridGo' = 0 /\ tpGo' = 0 /\ \A t \in Threads : pc'[t] = pc[t]
  PROVE  Held'
PROOF
  <1>1. \A o \in fills' : orders'[o].side = "entry"
    BY BookIsSeq DEF Grows, Held
  <1>2. pos' > 0
    <2>1. pos \in Int /\ pos' \in Int /\ pos > 0
      BY DEF Sound, TypeOK, BookType, Held
    <2> QED BY <2>1
  <1>3. /\ phase' = "up" => currentState' # "IDLE"
        /\ phase' = "syncing" => currentState' = "IN_POSITION"
    BY DEF Held
  <1>4. phase' # "up" => gridGo' = 0 /\ tpGo' = 0 /\ \A t \in Threads : pc'[t] = "idle"
    BY DEF Held
  <1> QED BY <1>1, <1>2, <1>3, <1>4 DEF Held

\* While the process is not up its goroutines do nothing.
LEMMA OnlyUp ==
  ASSUME Sound, Held, Undisturbed, phase # "up",
         NEW t \in Threads,
         \/ HandleTick(t)
         \/ EnterPosition(t) \/ EnterReturn(t) \/ EnterFail(t) \/ StampCooldown(t)
         \/ Reprice(t) \/ ExitClose(t) \/ CancelAllOrders(t) \/ ExitStillOpen(t)
         \/ GridPrice(t) \/ GridPlace(t) \/ GridDone(t)
         \/ TPRead(t) \/ TPFlat(t) \/ TPCheck(t) \/ TPCancel(t) \/ TPPlace(t)
         \/ TPStore(t) \/ GridStart(t) \/ TPStart(t) \/ PanicReprice(t)
         \/ \E o \in fills : EntryFilled(t, o) \/ ExitFilled(t, o)
  PROVE  FALSE
PROOF
  <1>1. /\ pc \in [Threads -> PC] /\ gridGo \in Nat
        /\ gridGo = 0 /\ tpGo = 0 /\ pc[t] = "idle" /\ pos # 0
        /\ \A o \in fills : orders[o].side = "entry"
    BY BookIsSeq DEF Held, Sound, TypeOK, MemoryType
  <1>2. phase = "booting" => pc' = pc /\ gridGo' = gridGo
    BY <1>1 DEF Undisturbed
  <1>3. CASE HandleTick(t)
    BY <1>1, <1>2, <1>3 DEF HandleTick, MuFree, Running, Goto
  <1>4. ASSUME NEW o \in fills, EntryFilled(t, o) PROVE FALSE
    BY <1>1, <1>2, <1>4 DEF EntryFilled, MuFree, Running, Goto
  <1>5. ASSUME NEW o \in fills, ExitFilled(t, o) PROVE FALSE
    BY <1>1, <1>5 DEF ExitFilled
  <1> QED
    BY <1>1, <1>3, <1>4, <1>5
    DEF EnterPosition, EnterReturn, EnterFail, StampCooldown, Reprice, ExitClose,
        CancelAllOrders, ExitStillOpen, GridPrice, GridPlace, GridDone, TPRead,
        TPFlat, TPCheck, TPCancel, TPPlace, TPStore, GridStart, TPStart,
        PanicReprice, At

\* Only one goroutine is in updateTP.
LEMMA Alone ==
  ASSUME Sound, NEW t \in Threads, NEW u \in Threads,
         pc[t] \in TPSection, pc[u] \in TPSection
  PROVE  t = u
  BY DEF Sound, SectionsExclusive

\* Nobody opens another position, takes the position for closed or sells of it.
LEMMA HeldNever ==
  ASSUME Sound, Truthful, Held, Undisturbed, NEW t \in Threads,
         \/ HandleTick(t)
         \/ EnterPosition(t) \/ EnterFail(t)
         \/ ExitClose(t) \/ CancelAllOrders(t) \/ ExitStillOpen(t)
         \/ TPFlat(t) \/ PanicReprice(t)
         \/ \E o \in fills : ExitFilled(t, o)
  PROVE  FALSE
PROOF
  <1>1. phase = "up" /\ currentState # "IDLE"
    BY OnlyUp DEF Held
  <1>2. /\ pc[t] \notin Clearing
        /\ \A o \in fills : orders[o].side = "entry"
    BY DEF Held
  <1> QED
    BY <1>1, <1>2
    DEF HandleTick, EnterPosition, EnterFail, ExitClose, CancelAllOrders,
        ExitStillOpen, TPFlat, PanicReprice, ExitFilled, At, Clearing, Truthful

\* A fill that sells nothing.
LEMMA EntryFill ==
  ASSUME Sound, NEW o \in DOMAIN orders, Fill(o), exits' = exits
  PROVE  \E n \in 1 .. orders[o].rem :
           /\ orders[o].side = "entry" /\ orders[o].rem \in Nat /\ pos' = pos + n
           /\ SameSides /\ orders'[o].rem = orders[o].rem - n
           /\ \A i \in 1 .. Len(orders) : i # o => orders'[i] = orders[i]
           /\ n # orders[o].rem => "PartialFill" \in Env /\ fills' = fills
           /\ n = orders[o].rem => Emit(o)
PROOF
  <1>1. PICK n \in 1 .. orders[o].rem :
          /\ n = orders[o].rem \/ "PartialFill" \in Env
          /\ orders' = [orders EXCEPT ![o].rem = @ - n]
          /\ IF orders[o].side = "entry"
             THEN pos' = pos + n /\ UNCHANGED exits
             ELSE pos' = pos - n /\ exits' = exits + 1
          /\ IF n = orders[o].rem THEN Emit(o) ELSE UNCHANGED fills
    BY DEF Fill
  <1>2. orders[o].side = "entry" /\ pos' = pos + n
    BY <1>1, BookIsSeq
  <1>3. orders[o].rem \in Nat /\ orders[o].rem - n \in Nat
    BY <1>1, BookIsSeq DEF Order
  <1>4. /\ SameSides /\ orders'[o].rem = orders[o].rem - n
        /\ \A i \in 1 .. Len(orders) : i # o => orders'[i] = orders[i]
    <2>1. orders' = [orders EXCEPT ![o].rem = orders[o].rem - n]
      BY <1>1
    <2> QED BY <1>3, <2>1, BookIsSeq, ReplaceKeepsSides
  <1> QED BY <1>1, <1>2, <1>3, <1>4

LEMMA HeldStays ==
  ASSUME Sound, Sound', Truthful, Next, Undisturbed, ~BaseBought, exits' = exits,
         Held, UpRecord
  PROVE  Held' /\ UpRecord'
PROOF
  <1> DEFINE Goal == Held' /\ UpRecord'
  <1>0. Grows
    BY NextSound
  <1>1. /\ orders \in Seq(Order) /\ DOMAIN orders = 1 .. Len(orders)
        /\ Len(orders) \in Nat /\ pos \in Int /\ fills \subseteq 1 .. Len(orders)
        /\ pc \in [Threads -> PC] /\ oid \in [Threads -> 0 .. Len(orders)]
    BY BookIsSeq
  <1>2. pos > 0 /\ OneExit /\ (phase = "up" => OnRecord)
    BY DEF Held, UpRecord
  <1>3. ASSUME NEW t \in Threads,
               \/ HandleTick(t)
               \/ EnterPosition(t) \/ EnterFail(t)
               \/ ExitClose(t) \/ CancelAllOrders(t) \/ ExitStillOpen(t)
               \/ TPFlat(t) \/ PanicReprice(t)
               \/ \E o \in fills : ExitFilled(t, o)
        PROVE  FALSE
    BY <1>3, HeldNever
  \* Steps that touch neither the book nor the record.
  <1>4. ASSUME UNCHANGED <<pos, orders, phase, currentTPOrderID, oid>>,
               fills' \subseteq fills,
               currentState' \in {currentState, "IN_POSITION"},
               phase # "up" => gridGo' = 0 /\ tpGo' = 0 /\ pc' = pc
                                           /\ currentState' = currentState,
               \A t \in Threads :
                 /\ pc'[t] \notin Clearing
                 /\ pc[t] = "tpStore" => pc'[t] = "tpStore"
                 /\ pc'[t] \in {"tpCancel", "tpPlace", "tpStore"} => pc'[t] = pc[t]
        PROVE  Goal
    <2>1. OpenExits' = OpenExits
      BY <1>4 DEF OpenExits, Open
    <2>2. UpRecord'
      BY <1>2, <1>4, <2>1, RecordStays
    <2>3. Held'
      BY <1>0, <1>1, <1>4, StillHeld
    <2> QED BY <2>2, <2>3
  <1>5. /\ \A t \in Threads : pc[t] \notin Clearing
        /\ phase # "up" => gridGo = 0 /\ tpGo = 0
    BY DEF Held
  <1>6. ASSUME CooldownOver \/ GridSkip \/ TPSkip \/ UNCHANGED vars PROVE Goal
    <2>1. /\ UNCHANGED <<exchange, phase, currentTPOrderID, currentState, pc, oid>>
          /\ gridGo' = gridGo \/ (gridGo > 0 /\ gridGo' = gridGo - 1)
          /\ tpGo' = tpGo \/ (tpGo > 0 /\ tpGo' = tpGo - 1)
      BY <1>6 DEF CooldownOver, GridSkip, TPSkip, vars, memory, locals, pending
    <2>2. phase # "up" => gridGo' = 0 /\ tpGo' = 0
      BY <2>1 DEF Held
    <2> QED BY <1>4, <1>5, <2>1, <2>2 DEF exchange
  <1>7. ASSUME NEW t \in Threads,
               \/ EnterReturn(t) \/ StampCooldown(t) \/ Reprice(t)
               \/ GridPrice(t) \/ GridDone(t) \/ GridStart(t) \/ TPStart(t)
               \/ \E o \in fills : EntryFilled(t, o)
        PROVE  Goal
    <2>1. phase = "up"
      BY <1>7, OnlyUp
    <2>2. /\ UNCHANGED <<pos, orders, phase, currentTPOrderID, oid>>
          /\ fills' \subseteq fills
          /\ currentState' \in {currentState, "IN_POSITION"}
      BY <1>7 DEF EnterReturn, StampCooldown, Reprice, GridPrice, GridDone, GridStart,
                  TPStart, EntryFilled, exchange, memory, locals
    <2>3. PICK where \in {"idle", "reprice", "ladder", "gridPrice", "tpRead", pc[t]} :
            pc' = [pc EXCEPT ![t] = where]
      BY <1>1, <1>7 DEF EnterReturn, StampCooldown, Reprice, GridPrice, GridDone,
                        GridStart, TPStart, EntryFilled, Goto
    <2>4. pc[t] # "tpStore"
      BY <1>7 DEF EnterReturn, StampCooldown, Reprice, GridPrice, GridDone, GridStart,
                  TPStart, EntryFilled, At
    <2>5. \A u \in Threads :
            /\ pc'[u] \notin Clearing
            /\ pc[u] = "tpStore" => pc'[u] = "tpStore"
            /\ pc'[u] \in {"tpCancel", "tpPlace", "tpStore"} => pc'[u] = pc[u]
      BY <1>1, <1>5, <2>3, <2>4 DEF Clearing
    <2> QED BY <1>4, <2>1, <2>2, <2>5
  <1>8. CASE Start
    BY <1>2, <1>8 DEF Start, exchange, memory, pending, Held, UpRecord, OneExit,
                      OpenExits, Open
  <1>9. CASE SyncPosition
    BY <1>2, <1>9 DEF SyncPosition, exchange, pending, Held, UpRecord, OneExit,
                      OpenExits, Open, Truthful
  <1>10. CASE SyncOrders
    <2>1. /\ UNCHANGED <<pos, orders, fills, currentState, pc, oid>>
          /\ phase = "syncing" /\ phase' = "up"
          /\ \A o \in OpenExits : currentTPOrderID' = o
      BY <1>2, <1>10 DEF SyncOrders, exchange, locals, OneExit, Truthful
    <2>2. OpenExits' = OpenExits
      BY <2>1 DEF OpenExits, Open
    <2>3. \A t \in Threads : pc'[t] = "idle"
      BY <2>1 DEF Held
    <2>4. OnRecord'
      BY <2>1, <2>2, <2>3 DEF OnRecord
    <2>5. Held'
      BY <2>1, <2>3 DEF Held, Clearing
    <2> QED BY <1>2, <2>2, <2>4, <2>5 DEF UpRecord, OneExit
  <1>11. CASE Crash
    BY <1>2, <1>11 DEF Crash, LoseMemory, Held, UpRecord, OneExit, OpenExits, Open,
                       Clearing
  <1>12. ASSUME NEW o \in cancelGo, CancelNewTP(o) PROVE Goal
    <2>1. /\ UNCHANGED <<pos, fills, phase, currentState, currentTPOrderID, oid, pc,
                         gridGo, tpGo>>
          /\ Withdraw(o)
      BY <1>12 DEF CancelNewTP, memory, locals, Truthful
    <2>2. OpenExits' \subseteq OpenExits
      BY <2>1, WithdrawCloses DEF Sound, TypeOK, IdType
    <2>3. UpRecord'
      BY <1>2, <2>1, <2>2, RecordStays
    <2>4. Held'
      BY <1>0, <1>1, <1>5, <2>1, StillHeld
    <2> QED BY <2>3, <2>4
  <1>13. ASSUME NEW t \in Threads, GridPlace(t) PROVE Goal
    <2>1. UNCHANGED <<pos, fills, phase, currentState, currentTPOrderID, oid, pc,
                      gridGo, tpGo>>
      BY <1>13 DEF GridPlace, memory, pending
    <2>2. level[t] \in 1 .. MaxSafetyOrders
      <3>1. level[t] \in 0 .. MaxSafetyOrders + 1 /\ level[t] # 0
        BY <1>13 DEF Sound, TypeOK, LocalType, InHand, GridPlace, At
      <3> QED BY <1>13, <3>1, StrategyAssumption DEF GridPlace
    <2>3. OpenExits' \subseteq OpenExits
      <3>1. SafetyUnits[level[t]] \in Nat
        BY <2>2, StrategyAssumption
      <3>2. CASE UNCHANGED orders
        BY <3>2 DEF OpenExits, Open
      <3>3. CASE Place("entry", SafetyUnits[level[t]])
        BY <3>1, <3>3, NewExit DEF Sides
      <3> QED BY <1>13, <3>2, <3>3 DEF GridPlace
    <2>4. UpRecord'
      BY <1>2, <2>1, <2>3, RecordStays
    <2>5. Held'
      BY <1>0, <1>1, <1>5, <2>1, StillHeld
    <2> QED BY <2>4, <2>5
  <1>14. ASSUME NEW o \in DOMAIN orders, Fill(o) PROVE Goal
    <2>1. PICK n \in 1 .. orders[o].rem :
            /\ orders[o].side = "entry" /\ orders[o].rem \in Nat /\ pos' = pos + n
            /\ SameSides /\ orders'[o].rem = orders[o].rem - n
            /\ \A i \in 1 .. Len(orders) : i # o => orders'[i] = orders[i]
            /\ n # orders[o].rem => fills' = fills
            /\ n = orders[o].rem => Emit(o)
      BY <1>14, EntryFill
    <2>2. UNCHANGED <<phase, currentState, currentTPOrderID, oid, pc, gridGo, tpGo>>
      BY <1>14 DEF Fill, memory, pending, locals
    <2>3. orders[o].rem \in Nat /\ orders[o].rem - n \in Nat /\ n \in Nat
      BY <2>1
    <2>4. /\ SameSides /\ orders'[o].rem = orders[o].rem - n
          /\ \A i \in 1 .. Len(orders) : i # o => orders'[i] = orders[i]
      BY <2>1
    <2>5. OpenExits' \subseteq OpenExits
      <3>1. \A i \in 1 .. Len(orders) : orders'[i].rem > 0 => orders[i].rem > 0
        BY <2>3, <2>4
      <3> QED BY <2>4, <3>1, NoNewExit
    <2>6. UpRecord'
      BY <1>2, <2>2, <2>5, RecordStays
    <2>7. \A f \in fills' \ fills : orders'[f].side = "entry"
      <3>1. fills' \subseteq fills \cup {o}
        BY <2>1 DEF Emit
      <3> QED BY <1>1, <2>1, <2>4, <3>1 DEF SameSides
    <2>8. Held'
      BY <1>0, <1>1, <1>5, <2>1, <2>2, <2>3, <2>7, StillHeld
    <2> QED BY <2>6, <2>8
  <1>15. ~ManualExit
    BY BookIsSeq DEF ManualExit
  \* updateTP
  <1>16. ASSUME NEW t \in Threads, NEW where \in {"idle", "tpCheck", "tpCancel", "tpPlace", "tpStore"},
                phase = "up", pc[t] \in TPSection,
                pc' = [pc EXCEPT ![t] = where],
                UNCHANGED <<pos, fills, phase, currentState>>
         PROVE  Held' /\ \A u \in Threads : u # t => pc'[u] \notin TPSection
    <2>1. \A u \in Threads : pc'[u] \notin Clearing
      BY <1>1, <1>5, <1>16 DEF Clearing
    <2>2. Held'
      BY <1>0, <1>1, <1>16, <2>1, StillHeld
    <2>3. \A u \in Threads : u # t => pc'[u] = pc[u] /\ pc[u] \notin TPSection
      BY <1>1, <1>16, Alone
    <2> QED BY <2>2, <2>3
  <1>17. ASSUME NEW t \in Threads, TPRead(t) PROVE Goal
    <2>1. phase = "up" /\ pc[t] = "tpRead"
      BY <1>17, OnlyUp DEF TPRead, At
    <2>2. /\ pc' = [pc EXCEPT ![t] = "tpCheck"]
          /\ UNCHANGED <<pos, orders, fills, phase, currentTPOrderID, currentState, oid>>
      BY <1>2, <1>17 DEF TPRead, Goto, exchange, memory, Truthful
    <2>3. Held'
      BY <1>16, <2>1, <2>2 DEF TPSection
    <2>4. OpenExits' = OpenExits
      BY <2>2 DEF OpenExits, Open
    <2>5. UpRecord'
      BY <1>1, <1>2, <2>1, <2>2, <2>4, RecordStays
    <2> QED BY <2>3, <2>5
  <1>18. ASSUME NEW t \in Threads, TPCheck(t) PROVE Goal
    <2>1. phase = "up" /\ pc[t] = "tpCheck" /\ OnRecord
      BY <1>2, <1>18, OnlyUp DEF TPCheck, At
    <2>2. /\ UNCHANGED <<pos, orders, fills, phase, currentTPOrderID, currentState>>
          /\ oid' = [oid EXCEPT ![t] = currentTPOrderID]
          /\ pc' = [pc EXCEPT ![t] = IF currentTPOrderID # 0 THEN "tpCancel" ELSE "tpPlace"]
      BY <1>18, <2>1 DEF TPCheck, Goto, exchange, memory, Held
    <2>3. Held' /\ \A u \in Threads : u # t => pc'[u] \notin TPSection
      BY <1>16, <2>1, <2>2 DEF TPSection
    <2>4. OpenExits' = OpenExits
      BY <2>2 DEF OpenExits, Open
    <2>5. OpenExits \subseteq {currentTPOrderID}
      <3>1. \A u \in Threads : pc[u] # "tpStore"
        BY <2>1, Alone DEF TPSection
      <3> QED BY <2>1, <3>1 DEF OnRecord
    <2>6. currentTPOrderID = 0 => OpenExits = {}
      BY <1>1, <2>5 DEF OpenExits
    <2>7. OnRecord'
      BY <1>1, <2>2, <2>3, <2>4, <2>5, <2>6 DEF OnRecord, TPSection
    <2> QED BY <1>2, <2>3, <2>4, <2>7 DEF UpRecord, OneExit
  <1>19. ASSUME NEW t \in Threads, TPCancel(t) PROVE Goal
    <2>1. phase = "up" /\ pc[t] = "tpCancel" /\ OnRecord
      BY <1>2, <1>19, OnlyUp DEF TPCancel, At
    <2>2. /\ UNCHANGED <<pos, fills, phase, currentTPOrderID, currentState>>
          /\ pc' = [pc EXCEPT ![t] = "tpPlace"]
          /\ Withdraw(oid[t])
      BY <1>19 DEF TPCancel, Goto, memory, Truthful
    <2>3. Held' /\ \A u \in Threads : u # t => pc'[u] \notin TPSection
      BY <1>16, <2>1, <2>2 DEF TPSection
    <2>4. oid[t] \in 1 .. Len(orders) /\ oid[t] = currentTPOrderID
      BY <1>1, <2>1 DEF Sound, InHand, OnRecord
    <2>5. OpenExits \subseteq {currentTPOrderID}
      <3>1. \A u \in Threads : pc[u] # "tpStore"
        BY <2>1, Alone DEF TPSection
      <3> QED BY <2>1, <3>1 DEF OnRecord
    <2>6. OpenExits' = {}
      BY <2>2, <2>4, <2>5, WithdrawCloses
    <2>7. OnRecord'
      BY <1>1, <2>2, <2>3, <2>6 DEF OnRecord, TPSection
    <2> QED BY <2>3, <2>6, <2>7 DEF UpRecord, OneExit
  <1>20. ASSUME NEW t \in Threads, TPPlace(t) PROVE Goal
    <2>1. phase = "up" /\ pc[t] = "tpPlace" /\ OpenExits = {}
      BY <1>2, <1>20, OnlyUp DEF TPPlace, At, OnRecord
    <2>2. UNCHANGED <<pos, fills, phase, currentTPOrderID, currentState>>
      BY <1>20 DEF TPPlace, memory
    <2>3. CASE /\ Place("exit", amt[t]) /\ oid' = [oid EXCEPT ![t] = NextID]
               /\ Goto(t, "tpStore")
      <3>1. amt[t] \in Nat
        BY DEF Sound, TypeOK, LocalType
      <3>2. OpenExits' \subseteq {NextID}
        BY <2>1, <2>3, <3>1, NewExit DEF Sides
      <3>3. pc' = [pc EXCEPT ![t] = "tpStore"]
        BY <2>3 DEF Goto
      <3>4. Held' /\ \A u \in Threads : u # t => pc'[u] \notin TPSection
        BY <1>16, <2>1, <2>2, <3>3 DEF TPSection
      <3>5. pc'[t] = "tpStore" /\ oid'[t] = NextID
        BY <1>1, <2>3, <3>3
      <3>6. OnRecord'
        BY <3>2, <3>4, <3>5 DEF OnRecord, TPSection
      <3> QED BY <3>2, <3>4, <3>6 DEF UpRecord, OneExit
    <2>4. CASE UNCHANGED orders /\ ReturnTP(t)
      <3>1. OpenExits' = {} /\ pc' = [pc EXCEPT ![t] = "idle"]
        BY <2>1, <2>4 DEF OpenExits, Open, ReturnTP, Goto
      <3>2. Held' /\ \A u \in Threads : u # t => pc'[u] \notin TPSection
        BY <1>16, <2>1, <2>2, <3>1 DEF TPSection
      <3>3. pc'[t] = "idle"
        BY <1>1, <3>1
      <3>4. OnRecord'
        BY <3>1, <3>2, <3>3 DEF OnRecord, TPSection
      <3> QED BY <3>1, <3>2, <3>4 DEF UpRecord, OneExit
    <2> QED BY <1>20, <2>3, <2>4 DEF TPPlace, Truthful
  <1>21. ASSUME NEW t \in Threads, TPStore(t) PROVE Goal
    <2>1. /\ phase = "up" /\ pc[t] = "tpStore" /\ OpenExits \subseteq {oid[t]}
          /\ currentState # "IDLE"
      BY <1>2, <1>21, OnlyUp DEF TPStore, At, OnRecord, Held
    <2>2. /\ UNCHANGED <<pos, orders, fills, phase, currentState>>
          /\ currentTPOrderID' = oid[t]
          /\ pc' = [pc EXCEPT ![t] = "idle"]
      BY <1>21, <2>1 DEF TPStore, ReturnTP, Goto, exchange
    <2>3. Held' /\ \A u \in Threads : u # t => pc'[u] \notin TPSection
      BY <1>16, <2>1, <2>2 DEF TPSection
    <2>4. OpenExits' = OpenExits /\ pc'[t] = "idle"
      BY <1>1, <2>2 DEF OpenExits, Open
    <2>5. OnRecord'
      BY <2>1, <2>2, <2>3, <2>4 DEF OnRecord, TPSection
    <2> QED BY <1>2, <2>3, <2>4, <2>5 DEF UpRecord, OneExit
  <1>22. [Next]_vars
    OBVIOUS
  <1> QED
    BY <1>3, <1>6, <1>7, <1>8, <1>9, <1>10, <1>11, <1>12, <1>13, <1>14, <1>15,
       <1>17, <1>18, <1>19, <1>20, <1>21, <1>22, NextCases

LEMMA NextCycle ==
  ASSUME Sound, Sound', Truthful, Cycle, [CycleNext]_cvars
  PROVE  Cycle'
PROOF
  <1>1. CASE UNCHANGED cvars
    <2>1. UNCHANGED <<vars, taken, clean>>
      BY <1>1 DEF cvars
    <2> QED
      BY <2>1 DEF Cycle, Blank, Held, UpRecord, OneExit, OnRecord, OpenExits, Open,
                  vars, exchange, memory, pending, locals
  <1>2. CASE Next /\ BaseBought /\ Watch
    BY <1>2, BaseHolds DEF Watch, Cycle
  <1>3. CASE Next /\ ~BaseBought /\ Watch
    <2>1. [Next]_vars
      BY <1>3
    <2>2. taken \in Nat /\ exits \in Nat /\ (exits' = exits \/ exits' = exits + 1)
      BY <2>1, ExitsCount, BookIsSeq DEF Cycle
    <2>3. /\ taken' = taken + (exits' - exits)
          /\ clean' => clean /\ Undisturbed
      BY <1>3 DEF Watch
    <2>4. taken' \in Nat /\ (taken' = 0 => taken = 0 /\ exits' = exits)
      <3>1. exits' - exits = 0 \/ exits' - exits = 1
        BY <2>2
      <3> QED BY <2>2, <2>3, <3>1
    <2>5. ASSUME clean', taken' = 0 PROVE Blank' \/ (Held' /\ UpRecord')
      <3>1. clean /\ Undisturbed /\ taken = 0 /\ exits' = exits
        BY <2>3, <2>4, <2>5
      <3>2. CASE Blank
        BY <1>3, <3>2, BlankStays
      <3>3. CASE Held /\ UpRecord
        BY <1>3, <3>1, <3>3, HeldStays
      <3> QED BY <3>1, <3>2, <3>3 DEF Cycle
    <2> QED BY <2>4, <2>5 DEF Cycle
  <1> QED BY <1>1, <1>2, <1>3 DEF CycleNext

-------------------------------------------------------------------------------
LEMMA CycleSound == CycleSpec => []Sound
PROOF
  <1>1. CycleInit => Sound
    BY InitSound DEF CycleInit
  <1>2. Sound /\ [CycleNext]_cvars => Sound'
    BY NextSound DEF CycleNext, cvars
  <1> QED BY <1>1, <1>2, PTL DEF CycleSpec

LEMMA CycleInvariant == Truthful => (CycleSpec => []Cycle)
PROOF
  <1> SUFFICES ASSUME Truthful PROVE CycleSpec => []Cycle
    OBVIOUS
  <1>1. CycleInit => Cycle
    BY DEF CycleInit, Init, Cycle, Blank
  <1>2. Sound /\ Sound' /\ Cycle /\ [CycleNext]_cvars => Cycle'
    BY NextCycle
  <1> QED BY <1>1, <1>2, CycleSound, PTL DEF CycleSpec

\* However updateTP, the handlers, a restart and the fills interleave: until the
\* first exit fill of a clean cycle the strategy knows the exit order that rests.
THEOREM RestingExitIsKnown == Truthful => (CycleSpec => []ExitIsKnown)
PROOF
  <1> SUFFICES ASSUME Truthful PROVE CycleSpec => []ExitIsKnown
    OBVIOUS
  <1>1. Cycle => ExitIsKnown
    BY DEF Cycle, Blank, UpRecord, OnRecord, ExitIsKnown, OpenExits
  <1> QED BY <1>1, CycleInvariant, PTL

\* ... and there is one at most: no two can be filled for the same position.
THEOREM RestingExitIsAlone ==
  Truthful => (CycleSpec => [](clean /\ taken = 0 => OneExit))
PROOF
  <1> SUFFICES ASSUME Truthful
               PROVE  CycleSpec => [](clean /\ taken = 0 => OneExit)
    OBVIOUS
  <1>1. Cycle => (clean /\ taken = 0 => OneExit)
    BY DEF Cycle, Blank, UpRecord, OneExit, OpenExits
  <1> QED BY <1>1, CycleInvariant, PTL

-------------------------------------------------------------------------------
(* A step within the cycle *)

\* What happens while the position of the cycle is held.
LEMMA HeldCases ==
  ASSUME Sound, Truthful, Next, Undisturbed, exits' = exits, Held
  PROVE  \/ Start \/ SyncPosition \/ SyncOrders \/ Crash
         \/ CooldownOver \/ GridSkip \/ TPSkip \/ UNCHANGED vars
         \/ \E o \in cancelGo : CancelNewTP(o)
         \/ \E o \in DOMAIN orders : Fill(o)
         \/ /\ phase = "up"
            /\ \E t \in Threads :
                 \/ EnterReturn(t) \/ StampCooldown(t) \/ Reprice(t)
                 \/ GridPrice(t) \/ GridPlace(t) \/ GridDone(t)
                 \/ TPRead(t) \/ TPCheck(t) \/ TPCancel(t) \/ TPPlace(t) \/ TPStore(t)
                 \/ GridStart(t) \/ TPStart(t)
                 \/ \E o \in fills : EntryFilled(t, o)
PROOF
  <1>1. ~ManualExit
    BY BookIsSeq DEF ManualExit
  <1>2. ASSUME NEW t \in Threads,
               \/ HandleTick(t)
               \/ EnterPosition(t) \/ EnterFail(t)
               \/ ExitClose(t) \/ CancelAllOrders(t) \/ ExitStillOpen(t)
               \/ TPFlat(t) \/ PanicReprice(t)
               \/ \E o \in fills : ExitFilled(t, o)
        PROVE  FALSE
    BY <1>2, HeldNever
  <1>3. ASSUME NEW t \in Threads,
               \/ EnterReturn(t) \/ StampCooldown(t) \/ Reprice(t)
               \/ GridPrice(t) \/ GridPlace(t) \/ GridDone(t)
               \/ TPRead(t) \/ TPCheck(t) \/ TPCancel(t) \/ TPPlace(t) \/ TPStore(t)
               \/ GridStart(t) \/ TPStart(t)
               \/ \E o \in fills : EntryFilled(t, o)
        PROVE  phase = "up"
    BY <1>3, OnlyUp
  <1>4. [Next]_vars
    OBVIOUS
  <1> QED BY <1>1, <1>2, <1>3, <1>4, NextCases

\* How a clean cycle got where it is: it has just begun, or it was held before.
LEMMA CycleSteps ==
  ASSUME Sound, Truthful, Cycle, Cycle', [CycleNext]_cvars,
         clean', taken' = 0, pos' # 0
  PROVE  /\ Held' /\ UpRecord'
         /\ \/ UNCHANGED cvars
            \/ Next /\ BaseBought /\ FromRest
            \/ /\ Next /\ ~BaseBought /\ Undisturbed /\ exits' = exits
               /\ clean /\ taken = 0 /\ Held /\ UpRecord
PROOF
  <1>1. Held' /\ UpRecord'
    BY DEF Cycle, Blank
  <1>2. CASE Next /\ BaseBought /\ Watch
    BY <1>1, <1>2 DEF Watch
  <1>3. CASE Next /\ ~BaseBought /\ Watch
    <2>1. /\ taken' = taken + (exits' - exits)
          /\ clean /\ Undisturbed
      BY <1>3 DEF Watch
    <2>2. taken \in Nat /\ exits \in Nat /\ (exits' = exits \/ exits' = exits + 1)
      BY <1>3, ExitsCount, BookIsSeq DEF Cycle
    <2>3. taken = 0 /\ exits' = exits
      BY <2>1, <2>2
    <2>4. ~Blank
      BY <1>3, BlankStays DEF Blank
    <2>5. Held /\ UpRecord
      BY <2>1, <2>3, <2>4 DEF Cycle
    <2> QED BY <1>1, <1>3, <2>1, <2>3, <2>5
  <1> QED BY <1>1, <1>2, <1>3 DEF CycleNext

-------------------------------------------------------------------------------
(* No more is offered than is held *)

\* The amount is read, and the order not placed yet.
Offering == {"tpCheck", "tpCancel", "tpPlace"}

Fitting ==
  /\ \A o \in OpenExits : orders[o].rem <= pos
  /\ \A t \in Threads : pc[t] \in Offering => amt[t] <= pos

FitsInCycle == clean /\ taken = 0 => Fitting

LEMMA FittingKept ==
  ASSUME Sound, Sound', Fitting, pos' >= pos,
         OpenExits' \subseteq OpenExits,
         \A o \in OpenExits' : orders'[o].rem <= orders[o].rem,
         \A t \in Threads : pc'[t] \in Offering => pc[t] \in Offering /\ amt'[t] = amt[t]
  PROVE  Fitting'
PROOF
  <1>1. /\ pos \in Int /\ pos' \in Int
        /\ \A o \in OpenExits : orders[o].rem \in Nat
        /\ \A t \in Threads : amt[t] \in Nat
    <2>1. pos \in Int /\ \A t \in Threads : amt[t] \in Nat
      BY DEF Sound, TypeOK, BookType, LocalType
    <2>2. pos' \in Int
      BY DEF Sound, TypeOK, BookType
    <2>3. \A o \in OpenExits : orders[o].rem \in Nat
      BY BookIsSeq DEF OpenExits, Order
    <2> QED BY <2>1, <2>2, <2>3
  <1>2. ASSUME NEW o \in OpenExits' PROVE orders'[o].rem <= pos'
    <2>1. o \in OpenExits /\ orders'[o].rem <= orders[o].rem /\ orders[o].rem <= pos
      BY <1>2 DEF Fitting
    <2>2. orders'[o].rem \in Nat
      <3>1. \A i \in DOMAIN orders' : orders'[i] \in Order
        BY ElementOfSeq, LenProperties DEF Sound, TypeOK, BookType
      <3> QED BY <1>2, <3>1 DEF OpenExits, Order
    <2> QED BY <1>1, <2>1, <2>2
  <1>3. ASSUME NEW t \in Threads, pc'[t] \in Offering PROVE amt'[t] <= pos'
    <2>1. amt'[t] = amt[t] /\ amt[t] <= pos
      BY <1>3 DEF Fitting
    <2> QED BY <1>1, <2>1
  <1> QED BY <1>2, <1>3 DEF Fitting

\* ... in particular when an order is withdrawn, and nothing else happens to
\* the book.
LEMMA FittingWithdrawn ==
  ASSUME Sound, Sound', Fitting, pos' = pos, NEW o \in 1 .. Len(orders), Withdraw(o),
         \A t \in Threads : pc'[t] \in Offering => pc[t] \in Offering /\ amt'[t] = amt[t]
  PROVE  Fitting'
PROOF
  <1>1. /\ OpenExits' \subseteq OpenExits \ {o}
        /\ \A i \in 1 .. Len(orders) : i # o => orders'[i] = orders[i]
    BY BookIsSeq, WithdrawCloses, WithdrawKeepsSides
  <1>2. \A i \in OpenExits : i \in 1 .. Len(orders) /\ orders[i].rem \in Nat
    BY BookIsSeq DEF OpenExits, Order
  <1>3. \A i \in OpenExits' : orders'[i].rem <= orders[i].rem
    BY <1>1, <1>2
  <1>4. pos' >= pos
    BY BookIsSeq
  <1> QED BY <1>1, <1>3, <1>4, FittingKept

LEMMA FittingStays ==
  ASSUME Sound, Sound', Truthful, Next, Undisturbed, exits' = exits, Held, Fitting
  PROVE  Fitting'
PROOF
  <1>1. /\ DOMAIN orders = 1 .. Len(orders) /\ pos \in Int /\ pc \in [Threads -> PC]
        /\ oid \in [Threads -> 0 .. Len(orders)] /\ pos > 0
    BY BookIsSeq DEF Held
  <1>2. amt \in [Threads -> Nat] /\ cancelGo \subseteq 1 .. Len(orders)
    BY DEF Sound, TypeOK, LocalType, IdType
  <1>3. \A o \in OpenExits : o \in 1 .. Len(orders) /\ orders[o].rem \in Nat
    BY BookIsSeq DEF OpenExits, Order
  <1>4. ASSUME UNCHANGED <<pos, orders>>,
               \A t \in Threads : pc'[t] \in Offering => pc[t] \in Offering /\ amt'[t] = amt[t]
        PROVE  Fitting'
    <2>1. OpenExits' = OpenExits
      BY <1>4 DEF OpenExits, Open
    <2>2. pos' >= pos /\ \A o \in OpenExits' : orders'[o].rem <= orders[o].rem
      BY <1>1, <1>3, <1>4, <2>1
    <2> QED BY <1>4, <2>1, <2>2, FittingKept
  <1>5. CASE \/ Start \/ SyncPosition \/ SyncOrders
             \/ CooldownOver \/ GridSkip \/ TPSkip \/ UNCHANGED vars
    BY <1>4, <1>5 DEF Start, SyncPosition, SyncOrders, CooldownOver, GridSkip, TPSkip,
                      vars, exchange, locals
  <1>6. CASE Crash
    BY <1>4, <1>6 DEF Crash, LoseMemory, Offering
  <1>7. ASSUME NEW t \in Threads,
               \/ EnterReturn(t) \/ StampCooldown(t) \/ Reprice(t)
               \/ GridStart(t) \/ GridPrice(t) \/ GridDone(t) \/ TPStart(t)
               \/ \E o \in fills : EntryFilled(t, o)
        PROVE  Fitting'
    <2>1. UNCHANGED <<pos, orders, amt>>
      BY <1>7 DEF EnterReturn, StampCooldown, Reprice, GridStart, GridPrice, GridDone,
                  TPStart, EntryFilled, exchange, locals
    <2>2. PICK where \in {"idle", "reprice", "ladder", "gridPrice", "tpRead", pc[t]} :
            pc' = [pc EXCEPT ![t] = where]
      BY <1>1, <1>7 DEF EnterReturn, StampCooldown, Reprice, GridPrice, GridDone,
                        GridStart, TPStart, EntryFilled, Goto
    <2> QED BY <1>1, <1>4, <2>1, <2>2 DEF Offering
  <1>8. ASSUME NEW t \in Threads, TPCheck(t) \/ TPStore(t) PROVE Fitting'
    <2>1. UNCHANGED <<pos, orders>> /\ \A u \in Threads : u # t => amt'[u] = amt[u]
      BY <1>2, <1>8 DEF TPCheck, TPStore, ReturnTP, exchange
    <2>2. \/ pc' = [pc EXCEPT ![t] = "idle"]
          \/ /\ pc[t] = "tpCheck" /\ amt' = amt
             /\ pc' = [pc EXCEPT ![t] = IF currentTPOrderID # 0 THEN "tpCancel" ELSE "tpPlace"]
      BY <1>8 DEF TPCheck, TPStore, ReturnTP, Goto, At
    <2>3. \A u \in Threads : pc'[u] \in Offering => pc[u] \in Offering /\ amt'[u] = amt[u]
      BY <1>1, <2>1, <2>2 DEF Offering
    <2> QED BY <1>4, <2>1, <2>3
  <1>9. ASSUME NEW t \in Threads, TPRead(t) PROVE Fitting'
    <2>1. /\ amt' = [amt EXCEPT ![t] = TPAmount] /\ pc' = [pc EXCEPT ![t] = "tpCheck"]
          /\ UNCHANGED <<pos, orders>>
      BY <1>1, <1>9 DEF TPRead, Goto, exchange, Truthful
    <2>2. OpenExits' = OpenExits
      BY <2>1 DEF OpenExits, Open
    <2>3. TPAmount = pos
      BY <1>1 DEF TPAmount
    <2>4. \A u \in Threads : pc'[u] \in Offering => amt'[u] <= pos
      BY <1>1, <1>2, <2>1, <2>3 DEF Fitting
    <2> QED BY <2>1, <2>2, <2>4 DEF Fitting
  <1>10. ASSUME NEW t \in Threads, TPCancel(t) PROVE Fitting'
    <2>1. /\ UNCHANGED <<pos, amt>> /\ pc' = [pc EXCEPT ![t] = "tpPlace"]
          /\ pc[t] = "tpCancel" /\ Withdraw(oid[t])
      BY <1>10 DEF TPCancel, Goto, At, Truthful
    <2>2. oid[t] \in 1 .. Len(orders)
      BY <1>1, <2>1 DEF Sound, InHand
    <2>3. \A u \in Threads : pc'[u] \in Offering => pc[u] \in Offering /\ amt'[u] = amt[u]
      BY <1>1, <2>1 DEF Offering
    <2> QED BY <2>1, <2>2, <2>3, FittingWithdrawn
  <1>11. ASSUME NEW o \in cancelGo, CancelNewTP(o) PROVE Fitting'
    <2>1. UNCHANGED <<pos, pc, amt>> /\ Withdraw(o) /\ o \in 1 .. Len(orders)
      BY <1>2, <1>11 DEF CancelNewTP, locals, Truthful
    <2> QED BY <2>1, FittingWithdrawn
  <1>12. ASSUME NEW t \in Threads, GridPlace(t) PROVE Fitting'
    <2>1. UNCHANGED <<pos, pc, amt>>
      BY <1>12 DEF GridPlace
    <2>2. CASE UNCHANGED orders
      BY <1>4, <2>1, <2>2
    <2>3. CASE Place("entry", SafetyUnits[level[t]])
      <3>1. SafetyUnits[level[t]] \in Nat
        <4>1. level[t] \in 0 .. MaxSafetyOrders + 1 /\ level[t] # 0
          BY <1>12 DEF Sound, TypeOK, LocalType, InHand, GridPlace, At
        <4> QED BY <1>12, <4>1, StrategyAssumption DEF GridPlace
      <3>2. OpenExits' \subseteq OpenExits
        BY <2>3, <3>1, NewExit DEF Sides
      <3>3. \A i \in 1 .. Len(orders) : orders'[i] = orders[i]
        BY <2>3, <3>1, BookIsSeq, PlaceAppends DEF Sides
      <3>4. pos' >= pos /\ \A o \in OpenExits' : orders'[o].rem <= orders[o].rem
        BY <1>1, <1>3, <2>1, <3>2, <3>3
      <3> QED BY <2>1, <3>2, <3>4, FittingKept
    <2> QED BY <1>12, <2>2, <2>3 DEF GridPlace
  <1>13. ASSUME NEW t \in Threads, TPPlace(t) PROVE Fitting'
    <2>1. pc[t] = "tpPlace" /\ pos' = pos /\ \A u \in Threads : u # t => amt'[u] = amt[u]
      BY <1>2, <1>13 DEF TPPlace, ReturnTP, At
    <2>2. pc' = [pc EXCEPT ![t] = "tpStore"] \/ pc' = [pc EXCEPT ![t] = "idle"]
      BY <1>13 DEF TPPlace, ReturnTP, Goto
    <2>3. \A u \in Threads : pc'[u] \in Offering => pc[u] \in Offering /\ amt'[u] = amt[u]
      BY <1>1, <2>1, <2>2 DEF Offering
    <2>4. CASE UNCHANGED orders
      BY <1>4, <2>1, <2>3, <2>4
    <2>5. CASE Place("exit", amt[t])
      <3>1. amt[t] \in Nat /\ amt[t] <= pos
        BY <1>2, <2>1 DEF Fitting, Offering
      <3>2. /\ OpenExits' \subseteq OpenExits \cup {NextID}
            /\ orders'[NextID].rem = amt[t]
        <4>1. /\ OpenExits' \subseteq OpenExits \cup {NextID}
              /\ orders'[NextID] = [side |-> "exit", rem |-> amt[t]]
          BY <2>5, <3>1, NewExit DEF Sides
        <4> QED BY <4>1
      <3>3. \A i \in 1 .. Len(orders) : orders'[i] = orders[i]
        BY <2>5, <3>1, BookIsSeq, PlaceAppends DEF Sides
      <3>4. \A o \in OpenExits' : orders'[o].rem <= pos
        BY <1>3, <3>1, <3>2, <3>3 DEF Fitting
      <3> QED BY <2>1, <2>3, <3>4 DEF Fitting
    <2> QED BY <1>13, <2>4, <2>5 DEF TPPlace
  <1>14. ASSUME NEW o \in DOMAIN orders, Fill(o) PROVE Fitting'
    <2>1. PICK n \in 1 .. orders[o].rem :
            /\ orders[o].side = "entry" /\ orders[o].rem \in Nat /\ pos' = pos + n
            /\ SameSides /\ orders'[o].rem = orders[o].rem - n
            /\ \A i \in 1 .. Len(orders) : i # o => orders'[i] = orders[i]
      BY <1>14, EntryFill
    <2>2. \A i \in 1 .. Len(orders) : orders'[i].rem > 0 => orders[i].rem > 0
      BY <2>1
    <2>3. OpenExits' \subseteq OpenExits
      BY <2>1, <2>2, NoNewExit
    <2>4. pos' >= pos /\ \A i \in OpenExits' : orders'[i].rem <= orders[i].rem
      BY <1>1, <1>3, <2>1, <2>3
    <2>5. UNCHANGED <<pc, amt>>
      BY <1>14 DEF Fill, locals
    <2> QED BY <2>3, <2>4, <2>5, FittingKept
  <1> QED
    BY <1>5, <1>6, <1>7, <1>8, <1>9, <1>10, <1>11, <1>12, <1>13, <1>14, HeldCases

LEMMA NextFitting ==
  ASSUME Sound, Sound', Truthful, Cycle, Cycle', FitsInCycle, [CycleNext]_cvars
  PROVE  FitsInCycle'
PROOF
  <1> SUFFICES ASSUME clean', taken' = 0 PROVE Fitting'
    BY DEF FitsInCycle
  <1>1. CASE pos' = 0
    <2>1. Blank'
      BY <1>1, BookIsSeq DEF Cycle, Held
    <2> QED BY <2>1 DEF Blank, Fitting, OpenExits, Offering
  <1>2. CASE UNCHANGED cvars
    <2>1. Fitting /\ UNCHANGED <<orders, pos, pc, amt>>
      BY <1>2 DEF cvars, vars, exchange, locals, FitsInCycle
    <2> QED BY <2>1 DEF Fitting, OpenExits, Open
  <1>3. CASE Next /\ BaseBought /\ FromRest
    BY <1>3, BaseState DEF Fitting, Offering
  <1>4. CASE /\ Next /\ ~BaseBought /\ Undisturbed /\ exits' = exits
             /\ clean /\ taken = 0 /\ Held /\ UpRecord
    BY <1>4, FittingStays DEF FitsInCycle
  <1> QED BY <1>1, <1>2, <1>3, <1>4, CycleSteps

LEMMA FittingInvariant == Truthful => (CycleSpec => []FitsInCycle)
PROOF
  <1> SUFFICES ASSUME Truthful PROVE CycleSpec => []FitsInCycle
    OBVIOUS
  <1>1. CycleInit => FitsInCycle
    BY EmptySeq DEF CycleInit, Init, FitsInCycle, Fitting, OpenExits, Offering
  <1>2. Sound /\ Sound' /\ Cycle /\ Cycle' /\ FitsInCycle /\ [CycleNext]_cvars => FitsInCycle'
    BY NextFitting
  <1> QED BY <1>1, <1>2, CycleSound, CycleInvariant, PTL DEF CycleSpec

\* The quantities that rest, as one function.
LEMMA RestsAreNat ==
  ASSUME Sound
  PROVE  /\ DOMAIN Resting = 1 .. Len(orders)
         /\ \A o \in 1 .. Len(orders) : Resting[o] = orders[o].rem /\ Resting[o] \in Nat
         /\ IsFiniteSet(OpenOrders) /\ IsFiniteSet(OpenExits)
         /\ OpenExits \subseteq OpenOrders /\ OpenOrders \subseteq 1 .. Len(orders)
PROOF
  <1>1. DOMAIN orders = 1 .. Len(orders) /\ \A o \in 1 .. Len(orders) : orders[o] \in Order
    BY BookIsSeq
  <1>2. IsFiniteSet(1 .. Len(orders))
    BY BookIsSeq, FS_Interval
  <1>3. OpenExits \subseteq OpenOrders /\ OpenOrders \subseteq 1 .. Len(orders)
    BY <1>1 DEF OpenExits, OpenOrders
  <1> QED BY <1>1, <1>2, <1>3, FS_Subset DEF Resting, Order

\* Until the first exit fill of a clean cycle no more is offered for sale than
\* is held, at no moment of the replacement of the take profit by updateTP.
THEOREM NeverOffersMore == Truthful => (CycleSpec => []OffersFit)
PROOF
  <1> SUFFICES ASSUME Truthful PROVE CycleSpec => []OffersFit
    OBVIOUS
  <1>1. Sound /\ Cycle /\ FitsInCycle => OffersFit
    <2> SUFFICES ASSUME Sound, Cycle, FitsInCycle, clean, taken = 0
                 PROVE  Units(OpenExits) <= pos
      BY DEF OffersFit
    <2>1. OneExit /\ pos >= 0 /\ Fitting /\ pos \in Int
      BY BookIsSeq DEF Cycle, Blank, Held, UpRecord, OneExit, OpenExits, FitsInCycle
    <2>2. Units(OpenExits) = Sum(Resting, OpenExits)
      BY DEF Units, Sum
    <2>3. CASE OpenExits = {}
      BY <2>1, <2>2, <2>3, SumEmpty
    <2>4. ASSUME NEW o \in OpenExits PROVE Units(OpenExits) <= pos
      <3>1. OpenExits = {o} /\ orders[o].rem <= pos
        BY <2>1, <2>4 DEF OneExit, Fitting
      <3>2. Resting[o] = orders[o].rem /\ Resting[o] \in Nat
        BY <2>4, RestsAreNat
      <3>3. Sum(Resting, {o}) = Resting[o]
        <4>1. Resting[o] \in Int
          BY <3>2
        <4> QED BY <4>1, SumSingle
      <3> QED BY <2>2, <3>1, <3>2, <3>3
    <2> QED BY <2>3, <2>4
  <1> QED BY <1>1, CycleSound, CycleInvariant, FittingInvariant, PTL

-------------------------------------------------------------------------------
(* The first exit fill closes the position *)

\* No call fails, and no event is lost or overtaken.
NothingFails == Env \subseteq {"PartialFill", "NoAveragePrice"}

LEMMA FailsNot ==
  NothingFails => /\ Truthful
                  /\ Env \cap {"PlaceOrder", "CancelAllOrders", "DropEvent", "Overtaking"} = {}
  BY DEF NothingFails, Truthful

EntryEvents == {o \in fills : orders[o].side = "entry"}

\* What is left to withdraw is in the hands of updateTP or of a goroutine of its.
Withdrawn ==
  /\ \A o \in OpenExits : o \in cancelGo \/ \E t \in Threads : pc[t] = "tpStore" /\ oid[t] = o
  /\ ~early => OpenOrders \subseteq OpenExits

\* The event of the exit fill waits; the handler takes the position for closed;
\* it has reset the record, and wipes the book; the book is wiped.  A new tick
\* may be claimed in the meantime.
Closed ==
  /\ \A t \in Threads : pc[t] # "stillOpen"
  /\ ~early => EntryEvents = {} /\ gridGo = 0 /\ \A t \in Threads : pc[t] \notin GridSection
  /\ \/ \E t \in Threads : pc[t] = "enter"
     \/ \E o \in fills : orders[o].side = "exit"
     \/ EntryEvents = {} /\ \E t \in Threads : pc[t] = "closing"
     \/ /\ EntryEvents = {} /\ currentState = "IDLE"
        /\ (\E t \in Threads : pc[t] = "wipe") \/ Withdrawn

ClosedInCycle == clean /\ taken = 1 => pos >= 0 /\ (pos = 0 => Closed)

\* A goroutine moves by its own steps, unless the process ends.
LEMMA OwnMove ==
  ASSUME Sound, [Next]_vars, ~Crash, ~ \E u \in Threads : PanicReprice(u),
         NEW t \in Threads, pc'[t] # pc[t]
  PROVE  \/ HandleTick(t)
         \/ EnterPosition(t) \/ EnterReturn(t) \/ EnterFail(t) \/ StampCooldown(t)
         \/ Reprice(t) \/ ExitClose(t) \/ CancelAllOrders(t) \/ ExitStillOpen(t)
         \/ GridPrice(t) \/ GridPlace(t) \/ GridDone(t)
         \/ TPRead(t) \/ TPFlat(t) \/ TPCheck(t) \/ TPCancel(t) \/ TPPlace(t)
         \/ TPStore(t) \/ GridStart(t) \/ TPStart(t)
         \/ \E o \in fills : EntryFilled(t, o) \/ ExitFilled(t, o)
PROOF
  <1>1. pc \in [Threads -> PC]
    BY BookIsSeq
  <1>2. ASSUME NEW u \in Threads, u # t,
               \/ HandleTick(u)
               \/ EnterPosition(u) \/ EnterReturn(u) \/ EnterFail(u) \/ StampCooldown(u)
               \/ Reprice(u) \/ ExitClose(u) \/ CancelAllOrders(u) \/ ExitStillOpen(u)
               \/ GridPrice(u) \/ GridPlace(u) \/ GridDone(u)
               \/ TPRead(u) \/ TPFlat(u) \/ TPCheck(u) \/ TPCancel(u) \/ TPPlace(u)
               \/ TPStore(u) \/ GridStart(u) \/ TPStart(u)
               \/ \E o \in fills : EntryFilled(u, o) \/ ExitFilled(u, o)
        PROVE  FALSE
    <2>1. pc' = pc \/ \E where \in PC : pc' = [pc EXCEPT ![u] = where]
      BY <1>2
      DEF HandleTick, EnterPosition, EnterReturn, EnterFail, StampCooldown, Reprice,
          ExitClose, CancelAllOrders, ExitStillOpen, GridPrice, GridPlace, GridDone,
          TPRead, TPFlat, TPCheck, TPCancel, TPPlace, TPStore, GridStart, TPStart,
          EntryFilled, ExitFilled, ReturnTP, Goto, PC, Handling, GridSection, TPSection
    <2> QED BY <1>1, <1>2, <2>1
  <1>3. ~ \/ Start \/ SyncPosition \/ SyncOrders \/ GridSkip \/ TPSkip \/ CooldownOver
          \/ ManualExit \/ UNCHANGED vars
          \/ \E o \in cancelGo : CancelNewTP(o)
          \/ \E o \in DOMAIN orders : Fill(o)
    BY DEF Start, SyncPosition, SyncOrders, GridSkip, TPSkip, CooldownOver, ManualExit,
           CancelNewTP, Fill, vars
  <1> QED BY <1>2, <1>3, NextCases

\* The position shrinks by sales only.
LEMMA OnlySales ==
  ASSUME Sound, [Next]_vars
  PROVE  /\ exits' = exits => pos' >= pos
         /\ exits' # exits =>
              ManualExit \/ \E o \in DOMAIN orders : Fill(o) /\ orders[o].side = "exit"
PROOF
  <1>1. pos \in Int /\ exits \in Nat
    BY BookIsSeq
  <1>2. ASSUME UNCHANGED <<pos, bounds>> PROVE pos' >= pos /\ exits' = exits
    BY <1>1, <1>2 DEF bounds
  <1>3. ASSUME pos' = pos, exits' = exits PROVE pos' >= pos /\ exits' = exits
    BY <1>1, <1>3
  <1>4. ASSUME NEW t \in Threads, EnterPosition(t) PROVE pos' >= pos /\ exits' = exits
    <2>1. (pos' = pos + 1 \/ pos' = pos) /\ exits' = exits
      BY <1>4 DEF EnterPosition, exchange, bounds
    <2> QED BY <1>1, <2>1
  <1>5. ASSUME NEW o \in DOMAIN orders, Fill(o)
        PROVE  /\ exits' = exits => pos' >= pos
               /\ exits' # exits => orders[o].side = "exit"
    <2>1. CASE exits' = exits
      <3>1. PICK n \in 1 .. orders[o].rem : pos' = pos + n
        BY <1>5, <2>1, EntryFill
      <3> QED BY <1>1, <2>1, <3>1
    <2>2. CASE exits' # exits
      <3>1. orders[o].side # "entry" /\ orders[o].side \in Sides
        BY <1>5, <2>2, BookIsSeq DEF Fill, Order
      <3> QED BY <2>2, <3>1 DEF Sides
    <2> QED BY <2>1, <2>2
  <1>6. CASE ManualExit
    BY <1>1, <1>6 DEF ManualExit
  <1>7. ASSUME NEW t \in Threads,
               \/ HandleTick(t) \/ EnterReturn(t) \/ EnterFail(t) \/ StampCooldown(t)
               \/ Reprice(t) \/ ExitClose(t) \/ CancelAllOrders(t) \/ ExitStillOpen(t)
               \/ GridPrice(t) \/ GridPlace(t) \/ GridDone(t)
               \/ TPRead(t) \/ TPFlat(t) \/ TPCheck(t) \/ TPCancel(t) \/ TPPlace(t)
               \/ TPStore(t) \/ GridStart(t) \/ TPStart(t) \/ PanicReprice(t)
               \/ \E o \in fills : EntryFilled(t, o) \/ ExitFilled(t, o)
        PROVE  pos' = pos /\ exits' = exits
    BY <1>7
    DEF HandleTick, EnterReturn, EnterFail, StampCooldown, Reprice,
        ExitClose, CancelAllOrders, ExitStillOpen, GridPrice, GridPlace, GridDone,
        TPRead, TPFlat, TPCheck, TPCancel, TPPlace, TPStore, GridStart, TPStart,
        PanicReprice, EntryFilled, ExitFilled, LoseMemory, exchange, bounds
  <1>8. ASSUME \/ Start \/ SyncPosition \/ SyncOrders \/ GridSkip \/ TPSkip
               \/ CooldownOver \/ Crash \/ UNCHANGED vars
               \/ \E o \in cancelGo : CancelNewTP(o)
        PROVE  pos' = pos /\ exits' = exits
    BY <1>8
    DEF Start, SyncPosition, SyncOrders, GridSkip, TPSkip, CooldownOver, Crash,
        CancelNewTP, LoseMemory, exchange, bounds, vars
  <1> QED BY <1>3, <1>4, <1>5, <1>6, <1>7, <1>8, NextCases

\* What may still happen with nothing held, nothing bought and nothing sold.
LEMMA ClosedCases ==
  ASSUME Sound, NothingFails, Next, ~BaseBought, Undisturbed, exits' = exits,
         pos = 0, pos' = 0
  PROVE  /\ \/ Start \/ SyncPosition \/ SyncOrders \/ GridSkip \/ TPSkip
            \/ CooldownOver \/ UNCHANGED vars
            \/ Crash /\ Quiescent
            \/ \E o \in cancelGo : CancelNewTP(o)
            \/ \E t \in Threads :
                 \/ HandleTick(t) \/ EnterReturn(t) \/ EnterFail(t) \/ StampCooldown(t)
                 \/ Reprice(t) \/ ExitClose(t) \/ CancelAllOrders(t) \/ ExitStillOpen(t)
                 \/ GridPrice(t) \/ GridPlace(t) \/ GridDone(t)
                 \/ TPRead(t) \/ TPFlat(t) \/ TPCheck(t) \/ TPCancel(t) \/ TPPlace(t)
                 \/ TPStore(t) \/ GridStart(t) \/ TPStart(t)
                 \/ \E o \in fills : EntryFilled(t, o) \/ ExitFilled(t, o)
         /\ \A t \in Threads : ~EnterPosition(t) /\ ~PanicReprice(t)
         /\ Grows
PROOF
  <1>1. Truthful /\ "PlaceOrder" \notin Env
    BY FailsNot
  <1>2. ASSUME NEW t \in Threads, EnterPosition(t) PROVE FALSE
    <2>1. pos' = pos + 1
      BY <1>1, <1>2 DEF EnterPosition
    <2> QED BY <2>1
  <1>3. ASSUME NEW t \in Threads, PanicReprice(t) PROVE FALSE
    BY <1>1, <1>3 DEF PanicReprice, Truthful
  <1>4. ASSUME NEW o \in DOMAIN orders, Fill(o) PROVE FALSE
    <2>1. PICK n \in 1 .. orders[o].rem : orders[o].rem \in Nat /\ pos' = pos + n
      BY <1>4, EntryFill
    <2> QED BY <2>1
  <1>5. ~ManualExit
    BY DEF ManualExit
  <1>6. Crash => Quiescent
    BY DEF Crash, Undisturbed, Running
  <1>7. [Next]_vars /\ Grows
    BY NextSound
  <1> QED BY <1>2, <1>3, <1>4, <1>5, <1>6, <1>7, NextCases

\* Nothing that could open a position is added.
LEMMA ClosedQuiet ==
  ASSUME Sound, NothingFails, Next, ~BaseBought, Undisturbed, exits' = exits,
         pos = 0, pos' = 0, Closed
  PROVE  /\ fills' \subseteq fills /\ EntryEvents' \subseteq EntryEvents
         /\ \A o \in fills' : orders'[o].side = orders[o].side
         /\ \A t \in Threads : pc'[t] # "stillOpen"
         /\ ~early => EntryEvents' = {} /\ gridGo' = 0
                      /\ \A t \in Threads : pc'[t] \notin GridSection
PROOF
  <1>1. [Next]_vars /\ Grows /\ \A t \in Threads : ~EnterPosition(t) /\ ~PanicReprice(t)
    BY ClosedCases
  <1>2. fills \subseteq 1 .. Len(orders) /\ gridGo \in Nat
    BY BookIsSeq DEF Sound, TypeOK, MemoryType
  <1>3. fills' \subseteq fills /\ (gridGo' # gridGo => gridGo' = gridGo - 1 \/ gridGo' = 0 \/ EntryEvents # {})
    BY ClosedCases
    DEF Start, SyncPosition, SyncOrders, GridSkip, TPSkip, CooldownOver, vars, Crash,
        LoseMemory, CancelNewTP, HandleTick, EnterReturn, EnterFail, StampCooldown,
        Reprice, ExitClose, CancelAllOrders, ExitStillOpen, GridPrice, GridPlace,
        GridDone, TPRead, TPFlat, TPCheck, TPCancel, TPPlace, TPStore, GridStart,
        TPStart, EntryFilled, ExitFilled, exchange, pending, EntryEvents
  <1>4. EntryEvents' \subseteq EntryEvents /\ \A o \in fills' : orders'[o].side = orders[o].side
    BY <1>1, <1>2, <1>3 DEF Grows, EntryEvents
  <1>5. ASSUME NEW t \in Threads PROVE pc'[t] # "stillOpen"
    <2>1. CASE pc'[t] = pc[t]
      BY <2>1 DEF Closed
    <2>2. CASE Crash
      BY <2>2 DEF Crash, LoseMemory
    <2>3. CASE pc'[t] # pc[t] /\ ~Crash
      BY <1>1, <2>3, OwnMove, BookIsSeq, FailsNot
      DEF HandleTick, EnterPosition, EnterReturn, EnterFail, StampCooldown, Reprice,
          ExitClose, CancelAllOrders, ExitStillOpen, GridPrice, GridPlace, GridDone,
          TPRead, TPFlat, TPCheck, TPCancel, TPPlace, TPStore, GridStart, TPStart,
          EntryFilled, ExitFilled, ReturnTP, Goto, Truthful
    <2> QED BY <2>1, <2>2, <2>3
  <1>6. ASSUME ~early PROVE EntryEvents' = {} /\ gridGo' = 0
    <2>1. EntryEvents = {} /\ gridGo = 0
      BY <1>6 DEF Closed
    <2>2. gridGo' \in Nat
      BY <1>1, NextSound DEF Sound, TypeOK, MemoryType
    <2>3. gridGo' = gridGo \/ gridGo' = gridGo - 1 \/ gridGo' = 0
      BY <1>3, <2>1
    <2>4. gridGo' = 0
      BY <2>1, <2>2, <2>3
    <2> QED BY <1>4, <2>1, <2>4
  <1>7. ASSUME ~early, NEW t \in Threads PROVE pc'[t] \notin GridSection
    <2>1. gridGo = 0 /\ pc[t] \notin GridSection
      BY <1>7 DEF Closed
    <2>2. CASE pc'[t] = pc[t]
      BY <2>1, <2>2
    <2>3. CASE Crash
      BY <2>3 DEF Crash, LoseMemory, GridSection
    <2>4. CASE pc'[t] # pc[t] /\ ~Crash
      <3>1. ~GridStart(t) /\ ~GridPrice(t) /\ ~GridPlace(t) /\ ~GridDone(t)
        <4>1. ~GridStart(t)
          BY <2>1 DEF GridStart
        <4> QED BY <2>1, <4>1 DEF GridPrice, GridPlace, GridDone, At, GridSection
      <3>2. \E where \in PC \ GridSection : pc' = [pc EXCEPT ![t] = where]
        BY <1>1, <2>4, <3>1, OwnMove
        DEF HandleTick, EnterPosition, EnterReturn, EnterFail, StampCooldown, Reprice,
            ExitClose, CancelAllOrders, ExitStillOpen, TPRead, TPFlat, TPCheck,
            TPCancel, TPPlace, TPStore, TPStart, EntryFilled, ExitFilled, ReturnTP,
            Goto, GridSection, PC, Handling, TPSection
      <3> QED BY <3>2, BookIsSeq
    <2> QED BY <2>2, <2>3, <2>4
  <1> QED BY <1>3, <1>4, <1>5, <1>6, <1>7

\* Only a tick takes an idle strategy with nothing held out of IDLE.
LEMMA IdleStays ==
  ASSUME Sound, NothingFails, Next, ~BaseBought, Undisturbed, exits' = exits,
         pos = 0, pos' = 0, Closed, EntryEvents = {}, currentState = "IDLE"
  PROVE  currentState' = "IDLE" \/ \E t \in Threads : pc'[t] = "enter"
PROOF
  <1>1. ASSUME NEW t \in Threads, HandleTick(t) PROVE pc'[t] = "enter"
    BY <1>1, BookIsSeq DEF HandleTick, Goto
  <1>2. \A t \in Threads : pc[t] # "stillOpen"
    BY DEF Closed
  <1> QED
    BY <1>1, <1>2, ClosedCases
    DEF Start, SyncPosition, SyncOrders, GridSkip, TPSkip, CooldownOver, vars, Crash,
        LoseMemory, CancelNewTP, EnterReturn, EnterFail, StampCooldown,
        Reprice, ExitClose, CancelAllOrders, ExitStillOpen, GridPrice, GridPlace,
        GridDone, TPRead, TPFlat, TPCheck, TPCancel, TPPlace, TPStore, GridStart,
        TPStart, EntryFilled, ExitFilled, memory, EntryEvents, At

\* Once the book is wiped, a take profit placed too late is withdrawn.
LEMMA WithdrawnStays ==
  ASSUME Sound, Sound', NothingFails, Next, ~BaseBought, Undisturbed, exits' = exits,
         pos = 0, pos' = 0, Closed, currentState = "IDLE", Withdrawn, ~early' => ~early
  PROVE  Withdrawn'
PROOF
  <1>1. /\ DOMAIN orders = 1 .. Len(orders) /\ orders \in Seq(Order)
        /\ pc \in [Threads -> PC] /\ oid \in [Threads -> 0 .. Len(orders)]
        /\ OpenExits \subseteq 1 .. Len(orders) /\ NextID \notin 1 .. Len(orders)
    BY BookIsSeq DEF OpenExits, NextID
  <1>2. Truthful
    BY FailsNot
  \* Steps that only close orders.
  <1>3. ASSUME SameSides, \A o \in 1 .. Len(orders) : orders'[o].rem > 0 => orders[o].rem > 0,
               \A o \in OpenExits' :
                 /\ o \in cancelGo => o \in cancelGo'
                 /\ \A t \in Threads : pc[t] = "tpStore" /\ oid[t] = o =>
                      o \in cancelGo' \/ (pc'[t] = "tpStore" /\ oid'[t] = o)
        PROVE  Withdrawn'
    <2>1. OpenExits' \subseteq OpenExits
      BY <1>3, NoNewExit
    <2>2. OpenOrders' \subseteq OpenOrders /\ OpenExits = {o \in OpenOrders : orders[o].side = "exit"}
          /\ OpenExits' = {o \in OpenOrders' : orders'[o].side = "exit"}
      <3>1. DOMAIN orders' = 1 .. Len(orders)
        BY <1>3, LenProperties DEF SameSides
      <3> QED BY <1>1, <1>3, <3>1 DEF OpenOrders, OpenExits, Open
    <2>3. ~early' => OpenOrders' \subseteq OpenExits'
      <3>1. \A o \in OpenOrders' : orders'[o].side = orders[o].side
        BY <1>1, <1>3, <2>2 DEF SameSides, OpenOrders
      <3> QED BY <2>2, <3>1 DEF Withdrawn
    <2>4. \A o \in OpenExits' :
            o \in cancelGo' \/ \E t \in Threads : pc'[t] = "tpStore" /\ oid'[t] = o
      BY <1>3, <2>1 DEF Withdrawn
    <2> QED BY <2>3, <2>4 DEF Withdrawn
  <1>4. ASSUME UNCHANGED orders PROVE SameSides
    BY <1>1, <1>4, BookIsSeq DEF SameSides
  <1>5. CASE \/ Start \/ SyncPosition \/ SyncOrders \/ GridSkip \/ TPSkip
             \/ CooldownOver \/ UNCHANGED vars
    <2>1. UNCHANGED <<orders, cancelGo, pc, oid>>
      BY <1>5 DEF Start, SyncPosition, SyncOrders, GridSkip, TPSkip, CooldownOver, vars,
                  exchange, pending, locals
    <2> QED BY <1>3, <1>4, <2>1
  <1>6. CASE Crash /\ Quiescent
    <2>1. OpenExits = {} /\ UNCHANGED orders
      BY <1>6 DEF Quiescent, At, Withdrawn, Crash, LoseMemory
    <2>2. OpenExits' = OpenExits /\ OpenOrders' = OpenOrders
      BY <2>1 DEF OpenExits, OpenOrders, Open
    <2> QED BY <2>1, <2>2 DEF Withdrawn
  <1>7. ASSUME NEW t \in Threads,
               \/ HandleTick(t) \/ EnterReturn(t) \/ EnterFail(t) \/ StampCooldown(t)
               \/ Reprice(t) \/ ExitClose(t) \/ ExitStillOpen(t)
               \/ GridPrice(t) \/ GridDone(t) \/ GridStart(t) \/ TPStart(t)
               \/ TPRead(t) \/ TPFlat(t) \/ TPCheck(t)
               \/ \E o \in fills : EntryFilled(t, o) \/ ExitFilled(t, o)
        PROVE  Withdrawn'
    <2>1. UNCHANGED <<orders, cancelGo>> /\ pc[t] # "tpStore"
      BY <1>7
      DEF HandleTick, EnterReturn, EnterFail, StampCooldown, Reprice, ExitClose,
          ExitStillOpen, GridPrice, GridDone, GridStart, TPStart, TPRead, TPFlat,
          TPCheck, EntryFilled, ExitFilled, exchange, pending, At
    <2>2. \A u \in Threads : u # t => pc'[u] = pc[u] /\ oid'[u] = oid[u]
      BY <1>1, <1>7
      DEF HandleTick, EnterReturn, EnterFail, StampCooldown, Reprice, ExitClose,
          ExitStillOpen, GridPrice, GridDone, GridStart, TPStart, TPRead, TPFlat,
          TPCheck, EntryFilled, ExitFilled, ReturnTP, Goto, locals
    <2> QED BY <1>3, <1>4, <2>1, <2>2
  <1>8. ASSUME NEW o \in 1 .. Len(orders), Withdraw(o)
        PROVE  /\ SameSides /\ o \notin OpenExits'
               /\ \A i \in 1 .. Len(orders) : orders'[i].rem > 0 => orders[i].rem > 0
    <2>1. /\ SameSides /\ orders'[o].rem = 0
          /\ \A i \in 1 .. Len(orders) : i # o => orders'[i] = orders[i]
      BY <1>1, <1>8, WithdrawKeepsSides
    <2> QED BY <2>1 DEF OpenExits, Open
  <1>9. ASSUME NEW o \in cancelGo, CancelNewTP(o) PROVE Withdrawn'
    <2>1. /\ o \in 1 .. Len(orders) /\ Withdraw(o) /\ cancelGo' = cancelGo \ {o}
          /\ UNCHANGED <<pc, oid>>
      BY <1>2, <1>9 DEF CancelNewTP, locals, Truthful, Sound, TypeOK, IdType
    <2> QED BY <1>3, <1>8, <2>1
  <1>10. ASSUME NEW t \in Threads, TPCancel(t) PROVE Withdrawn'
    <2>1. /\ pc[t] = "tpCancel" /\ Withdraw(oid[t]) /\ UNCHANGED cancelGo
          /\ \A u \in Threads : u # t => pc'[u] = pc[u] /\ oid'[u] = oid[u]
      BY <1>1, <1>2, <1>10 DEF TPCancel, At, Goto, pending, Truthful
    <2>2. oid[t] \in 1 .. Len(orders)
      BY <1>1, <2>1 DEF Sound, InHand
    <2> QED BY <1>3, <1>8, <2>1, <2>2
  <1>11. ASSUME NEW t \in Threads, CancelAllOrders(t) PROVE Withdrawn'
    <2>1. orders' = [o \in DOMAIN orders |-> [orders[o] EXCEPT !.rem = 0]]
      BY <1>11, FailsNot DEF CancelAllOrders
    <2>2. SameSides /\ \A i \in 1 .. Len(orders) : orders'[i].rem = 0
      BY <1>1, <2>1, WipeKeepsSides
    <2>3. DOMAIN orders' = 1 .. Len(orders)
      BY <2>2, LenProperties DEF SameSides
    <2> QED BY <2>2, <2>3 DEF Withdrawn, OpenExits, OpenOrders, Open
  <1>12. ASSUME NEW t \in Threads, TPStore(t) PROVE Withdrawn'
    <2>1. /\ cancelGo' = cancelGo \cup {oid[t]} /\ UNCHANGED orders
          /\ \A u \in Threads : u # t => pc'[u] = pc[u] /\ oid'[u] = oid[u]
      BY <1>1, <1>12 DEF TPStore, ReturnTP, Goto, exchange
    <2> QED BY <1>3, <1>4, <2>1
  \* Steps that add an order.
  <1>13. ASSUME NEW t \in Threads, TPPlace(t) PROVE Withdrawn'
    <2>1. /\ Place("exit", amt[t]) /\ UNCHANGED cancelGo
          /\ oid' = [oid EXCEPT ![t] = NextID] /\ pc' = [pc EXCEPT ![t] = "tpStore"]
          /\ pc[t] = "tpPlace"
      BY <1>2, <1>13, FailsNot DEF TPPlace, pending, Goto, At, Truthful
    <2>2. amt[t] \in Nat
      BY DEF Sound, TypeOK, LocalType
    <2>3. OpenExits' \subseteq OpenExits \cup {NextID}
      BY <2>1, <2>2, NewExit DEF Sides
    <2>4. pc'[t] = "tpStore" /\ oid'[t] = NextID
          /\ \A u \in Threads : u # t => pc'[u] = pc[u] /\ oid'[u] = oid[u]
      BY <1>1, <2>1
    <2>5. \A o \in OpenExits' :
            o \in cancelGo' \/ \E u \in Threads : pc'[u] = "tpStore" /\ oid'[u] = o
      BY <2>1, <2>3, <2>4 DEF Withdrawn
    <2>6. ~early' => OpenOrders' \subseteq OpenExits'
      <3>1. /\ \A i \in 1 .. Len(orders) : orders'[i] = orders[i]
            /\ orders' \in Seq(Order) /\ Len(orders') = Len(orders) + 1
        BY <1>1, <2>1, <2>2, PlaceAppends DEF Sides
      <3>2. orders'[NextID] = [side |-> "exit", rem |-> amt[t]]
        BY <2>1, <2>2, NewExit DEF Sides
      <3>3. DOMAIN orders' = 1 .. Len(orders) + 1 /\ Len(orders) \in Nat
        BY <3>1, LenProperties, BookIsSeq
      <3>4. ~early => \A o \in 1 .. Len(orders) : orders[o].rem > 0 => orders[o].side = "exit"
        BY <1>1 DEF Withdrawn, OpenOrders, OpenExits, Open
      <3> QED BY <3>1, <3>2, <3>3, <3>4 DEF OpenOrders, OpenExits, Open, NextID
    <2> QED BY <2>5, <2>6 DEF Withdrawn
  <1>14. ASSUME NEW t \in Threads, GridPlace(t) PROVE Withdrawn'
    <2>1. early /\ UNCHANGED <<pc, oid, cancelGo>>
      BY <1>14 DEF GridPlace, pending, Closed, At, GridSection
    <2>2. Place("entry", SafetyUnits[level[t]])
      BY <1>14, FailsNot DEF GridPlace
    <2>3. SafetyUnits[level[t]] \in Nat
      <3>1. level[t] \in 0 .. MaxSafetyOrders + 1 /\ level[t] # 0
        BY <1>14 DEF Sound, TypeOK, LocalType, InHand, GridPlace, At
      <3> QED BY <1>14, <3>1, StrategyAssumption DEF GridPlace
    <2>4. OpenExits' \subseteq OpenExits
      BY <2>2, <2>3, NewExit DEF Sides
    <2> QED BY <2>1, <2>4 DEF Withdrawn
  <1> QED
    BY <1>5, <1>6, <1>7, <1>9, <1>10, <1>11, <1>12, <1>13, <1>14, ClosedCases

\* The event of the exit fill leads to a wiped book, whatever else goes on.
LEMMA ClosedStays ==
  ASSUME Sound, Sound', NothingFails, Next, ~BaseBought, Undisturbed, exits' = exits,
         pos = 0, pos' = 0, Closed, ~early' => ~early
  PROVE  Closed'
PROOF
  <1> DEFINE Claimed == \E t \in Threads : pc[t] = "enter"
             Told == \E o \in fills : orders[o].side = "exit"
             Closes == EntryEvents = {} /\ \E t \in Threads : pc[t] = "closing"
             Idle == EntryEvents = {} /\ currentState = "IDLE"
             Wipes == \E t \in Threads : pc[t] = "wipe"
             Goal == Claimed' \/ Told' \/ Closes' \/ (Idle' /\ (Wipes' \/ Withdrawn'))
  <1>1. /\ [Next]_vars /\ Grows
        /\ \A t \in Threads : ~EnterPosition(t) /\ ~PanicReprice(t)
    BY ClosedCases
  <1>2. /\ fills' \subseteq fills /\ EntryEvents' \subseteq EntryEvents
        /\ \A o \in fills' : orders'[o].side = orders[o].side
        /\ \A t \in Threads : pc'[t] # "stillOpen"
        /\ ~early => EntryEvents' = {} /\ gridGo' = 0
                     /\ \A t \in Threads : pc'[t] \notin GridSection
    BY ClosedQuiet
  <1>3. pc \in [Threads -> PC] /\ Truthful
    BY BookIsSeq, FailsNot
  <1>4. Crash => Quiescent
    BY DEF Crash, Undisturbed, Running
  <1>5. ASSUME Claimed PROVE Goal
    <2>1. PICK t \in Threads : pc[t] = "enter"
      BY <1>5
    <2>2. ~Crash
      BY <1>4, <2>1 DEF Quiescent, At
    <2>3. pc'[t] = pc[t]
      <3> SUFFICES ASSUME pc'[t] # pc[t] PROVE FALSE
        OBVIOUS
      <3> QED
        BY <1>1, <2>1, <2>2, OwnMove
        DEF HandleTick, EnterReturn, EnterFail, StampCooldown, Reprice,
            ExitClose, CancelAllOrders, ExitStillOpen, GridPrice, GridPlace, GridDone,
            TPRead, TPFlat, TPCheck, TPCancel, TPPlace, TPStore, GridStart, TPStart,
            EntryFilled, ExitFilled, At
    <2> QED BY <2>1, <2>3
  <1>6. ASSUME Told PROVE Goal
    <2>1. PICK o \in fills : orders[o].side = "exit"
      BY <1>6
    <2>2. CASE o \in fills'
      BY <1>2, <2>1, <2>2
    <2>3. CASE o \notin fills'
      <3>1. ~Crash
        BY <1>4, <2>1 DEF Quiescent
      <3>2. PICK t \in Threads, f \in fills : EntryFilled(t, f) \/ ExitFilled(t, f)
        BY <2>1, <2>3, <3>1, ClosedCases
        DEF Start, SyncPosition, SyncOrders, GridSkip, TPSkip, CooldownOver, vars,
            CancelNewTP, HandleTick, EnterReturn, EnterFail, StampCooldown,
            Reprice, ExitClose, CancelAllOrders, ExitStillOpen, GridPrice, GridPlace,
            GridDone, TPRead, TPFlat, TPCheck, TPCancel, TPPlace, TPStore, GridStart,
            TPStart, exchange
      <3>3. ExitFilled(t, f)
        BY <2>1, <2>3, <3>2 DEF EntryFilled
      <3>4. pc'[t] = "closing" /\ EntryEvents = {}
        BY <1>3, <3>3, FailsNot DEF ExitFilled, Goto, EntryEvents
      <3> QED BY <1>2, <3>4
    <2> QED BY <2>2, <2>3
  <1>7. ASSUME Closes PROVE Goal
    <2>1. PICK t \in Threads : pc[t] = "closing"
      BY <1>7
    <2>2. ~Crash /\ EntryEvents' = {}
      BY <1>2, <1>4, <1>7, <2>1 DEF Quiescent, At
    <2>3. CASE pc'[t] = pc[t]
      BY <2>1, <2>2, <2>3
    <2>4. CASE pc'[t] # pc[t]
      <3>1. ExitClose(t)
        BY <1>1, <2>1, <2>2, <2>4, OwnMove
        DEF HandleTick, EnterReturn, EnterFail, StampCooldown, Reprice,
            CancelAllOrders, ExitStillOpen, GridPrice, GridPlace, GridDone,
            TPRead, TPFlat, TPCheck, TPCancel, TPPlace, TPStore, GridStart, TPStart,
            EntryFilled, ExitFilled, At
      <3>2. currentState' = "IDLE" /\ pc'[t] = "wipe"
        BY <1>3, <3>1 DEF ExitClose, Goto
      <3> QED BY <2>2, <3>2
    <2> QED BY <2>3, <2>4
  <1>8. ASSUME Idle /\ Wipes PROVE Goal
    <2>1. PICK t \in Threads : pc[t] = "wipe"
      BY <1>8
    <2>2. ~Crash /\ EntryEvents' = {} /\ (currentState' = "IDLE" \/ Claimed')
      BY <1>2, <1>4, <1>8, <2>1, IdleStays DEF Quiescent, At
    <2>3. CASE pc'[t] = pc[t]
      BY <2>1, <2>2, <2>3
    <2>4. CASE pc'[t] # pc[t]
      <3>1. CancelAllOrders(t)
        BY <1>1, <2>1, <2>2, <2>4, OwnMove
        DEF HandleTick, EnterReturn, EnterFail, StampCooldown, Reprice,
            ExitClose, ExitStillOpen, GridPrice, GridPlace, GridDone,
            TPRead, TPFlat, TPCheck, TPCancel, TPPlace, TPStore, GridStart, TPStart,
            EntryFilled, ExitFilled, At
      <3>2. orders' = [o \in DOMAIN orders |-> [orders[o] EXCEPT !.rem = 0]]
        BY <3>1, FailsNot DEF CancelAllOrders
      <3>3. SameSides /\ \A i \in 1 .. Len(orders) : orders'[i].rem = 0
        BY <3>2, BookIsSeq, WipeKeepsSides
      <3>4. DOMAIN orders' = 1 .. Len(orders)
        BY <3>3, LenProperties DEF SameSides
      <3>5. Withdrawn'
        BY <3>3, <3>4 DEF Withdrawn, OpenExits, OpenOrders, Open
      <3> QED BY <2>2, <3>5
    <2> QED BY <2>3, <2>4
  <1>9. ASSUME Idle /\ Withdrawn PROVE Goal
    <2>1. currentState' = "IDLE" \/ Claimed'
      BY <1>9, IdleStays
    <2>2. Withdrawn'
      BY <1>9, WithdrawnStays
    <2> QED BY <1>2, <1>9, <2>1, <2>2
  <1>10. Goal
    BY <1>5, <1>6, <1>7, <1>8, <1>9 DEF Closed
  <1> QED BY <1>2, <1>10 DEF Closed

\* The first exit fill sells no more than was held, and is reported.
LEMMA FirstSale ==
  ASSUME Sound, NothingFails, Next, Undisturbed, exits' # exits,
         Held, Fitting, ~early' => ~Building
  PROVE  pos' >= 0 /\ (pos' = 0 => Closed')
PROOF
  <1>1. /\ pos \in Int /\ pos > 0 /\ exits \in Nat /\ DOMAIN orders = 1 .. Len(orders)
        /\ Len(orders) \in Nat
    BY BookIsSeq DEF Held
  <1>2. [Next]_vars /\ Truthful /\ "DropEvent" \notin Env
    BY FailsNot
  <1>3. pos' # pos => Running
    BY DEF Undisturbed
  <1>4. Grows
    BY <1>2, NextSound
  \* What is reported is an exit order, and nothing else moves.
  <1>5. ASSUME NEW o \in DOMAIN orders', orders'[o].side = "exit", Emit(o),
               UNCHANGED <<pc, gridGo>>, exits' = exits + 1, pos' = 0
        PROVE  Closed'
    <2>1. fills' = fills \cup {o}
      BY <1>1, <1>2, <1>3, <1>5 DEF Emit
    <2>2. EntryEvents' = EntryEvents
      <3>1. /\ fills \subseteq 1 .. Len(orders)
            /\ \A i \in 1 .. Len(orders) : orders'[i].side = orders[i].side
        BY <1>4, BookIsSeq DEF Grows
      <3> QED BY <1>5, <2>1, <3>1 DEF EntryEvents
    <2>3. ~early' => EntryEvents = {} /\ gridGo = 0 /\ \A t \in Threads : pc[t] \notin GridSection
      <3>2. ~Building => EntryEvents = {} /\ \A t \in Threads : pc[t] \notin GridSection
        BY DEF Building, EntryEvents
      <3>3. ~Building => gridGo = 0
        <4>1. gridGo \in Nat
          BY DEF Sound, TypeOK, MemoryType
        <4> QED BY <4>1 DEF Building
      <3> QED BY <3>2, <3>3
    <2>4. \A t \in Threads : pc[t] # "stillOpen"
      BY DEF Held, Clearing
    <2>5. \E f \in fills' : orders'[f].side = "exit"
      BY <1>5, <2>1
    <2> QED BY <1>5, <2>2, <2>3, <2>4, <2>5 DEF Closed
  <1>6. CASE ManualExit
    <2>1. /\ Place("exit", 0) /\ Emit(NextID) /\ pos' = 0 /\ exits' = exits + 1
          /\ UNCHANGED <<pc, gridGo>>
      BY <1>6 DEF ManualExit, pending
    <2>2. NextID \in DOMAIN orders' /\ orders'[NextID].side = "exit"
      <3>1. orders'[NextID] = [side |-> "exit", rem |-> 0]
        BY <2>1, NewExit DEF Sides
      <3>2. orders' \in Seq(Order) /\ Len(orders') = Len(orders) + 1
        BY <2>1, BookIsSeq, PlaceAppends DEF Sides
      <3>3. NextID \in DOMAIN orders'
        BY <1>1, <3>2, LenProperties DEF NextID
      <3> QED BY <3>1, <3>3
    <2> QED BY <1>5, <2>1, <2>2
  <1>7. ASSUME NEW o \in DOMAIN orders, Fill(o), orders[o].side = "exit"
        PROVE  pos' >= 0 /\ (pos' = 0 => Closed')
    <2>1. PICK n \in 1 .. orders[o].rem :
            /\ pos' = pos - n /\ exits' = exits + 1
            /\ IF n = orders[o].rem THEN Emit(o) ELSE UNCHANGED fills
      BY <1>7 DEF Fill
    <2>2. UNCHANGED <<pc, gridGo>>
      BY <1>7 DEF Fill, pending
    <2>3. orders[o].rem \in Nat /\ orders[o].rem <= pos
      <3>1. o \in OpenExits
        BY <1>7 DEF Fill, OpenExits
      <3> QED BY <1>7, <3>1, BookIsSeq DEF Fitting, Order
    <2>4. pos' >= 0 /\ (pos' = 0 => n = orders[o].rem)
      BY <1>1, <2>1, <2>3
    <2>5. o \in DOMAIN orders' /\ orders'[o].side = "exit"
      <3>1. DOMAIN orders' = 1 .. Len(orders')
        BY <1>4, LenProperties DEF Grows
      <3> QED BY <1>1, <1>4, <1>7, <3>1 DEF Grows
    <2> QED BY <1>5, <2>1, <2>2, <2>4, <2>5
  <1>8. ManualExit \/ \E o \in DOMAIN orders : Fill(o) /\ orders[o].side = "exit"
    BY <1>2, OnlySales
  <1> QED BY <1>1, <1>6, <1>7, <1>8 DEF ManualExit

LEMMA NextClosed ==
  ASSUME Sound, Sound', NothingFails, Cycle, FitsInCycle, ClosedInCycle, [CycleNext]_cvars
  PROVE  ClosedInCycle'
PROOF
  <1> SUFFICES ASSUME clean', taken' = 1 PROVE pos' >= 0 /\ (pos' = 0 => Closed')
    BY DEF ClosedInCycle
  <1>1. CASE UNCHANGED cvars
    <2>1. /\ UNCHANGED <<clean, taken, early, vars>>
          /\ UNCHANGED <<pos, orders, fills, currentState, gridGo, cancelGo, pc, oid>>
      BY <1>1 DEF cvars, vars, exchange, memory, pending, locals
    <2>2. pos >= 0 /\ (pos = 0 => Closed)
      BY <2>1 DEF ClosedInCycle
    <2> QED BY <2>1, <2>2 DEF Closed, EntryEvents, Withdrawn, OpenExits, OpenOrders, Open
  <1>2. CASE Next /\ ~BaseBought /\ Watch
    <2>1. /\ taken' = taken + (exits' - exits)
          /\ clean /\ Undisturbed
          /\ ~early' => ~early /\ ~(exits' > exits /\ Building)
      BY <1>2, Zenon DEF Watch
    <2>2. taken \in Nat /\ exits \in Nat /\ (exits' = exits \/ exits' = exits + 1)
      BY <1>2, ExitsCount, BookIsSeq DEF Cycle
    <2>3. taken' = taken + (exits' - exits)
      BY <2>1
    <2>4. CASE exits' = exits
      <3>1. taken = 1
        BY <2>2, <2>4, <2>3
      <3>2. pos >= 0 /\ (pos = 0 => Closed)
        BY <2>1, <3>1 DEF ClosedInCycle
      <3>3. pos' >= pos /\ pos \in Int /\ pos' \in Int
        BY <1>2, <2>4, OnlySales DEF Sound, TypeOK, BookType
      <3>4. pos' >= 0 /\ (pos' = 0 => pos = 0)
        BY <3>2, <3>3
      <3> QED BY <1>2, <2>1, <2>4, <3>1, <3>2, <3>4, ClosedStays
    <2>5. CASE exits' = exits + 1
      <3>1. taken = 0 /\ exits' # exits /\ exits' > exits
        BY <2>2, <2>5, <2>3
      <3>2. ~Blank
        <4>1. Blank => ~ManualExit /\ ~ \E o \in DOMAIN orders : Fill(o)
          BY BookIsSeq DEF Blank, ManualExit
        <4> QED BY <1>2, <3>1, <4>1, OnlySales
      <3>3. Held /\ Fitting
        BY <2>1, <3>1, <3>2 DEF Cycle, FitsInCycle
      <3> QED BY <1>2, <2>1, <3>1, <3>3, FirstSale
    <2> QED BY <2>2, <2>4, <2>5
  <1>3. ~(BaseBought /\ Watch)
    <2>1. BaseBought /\ Watch => taken' = 0
      BY Zenon DEF Watch
    <2> QED BY <2>1
  <1> QED BY <1>1, <1>2, <1>3 DEF CycleNext

LEMMA ClosedInvariant == NothingFails => (CycleSpec => []ClosedInCycle)
PROOF
  <1> SUFFICES ASSUME NothingFails PROVE CycleSpec => []ClosedInCycle
    OBVIOUS
  <1>1. CycleInit => ClosedInCycle
    BY DEF CycleInit, ClosedInCycle
  <1>2. Truthful
    BY FailsNot
  <1>3. Sound /\ Sound' /\ Cycle /\ FitsInCycle /\ ClosedInCycle /\ [CycleNext]_cvars
        => ClosedInCycle'
    BY NextClosed
  <1>4. CycleSpec => []Cycle
    BY <1>2, CycleInvariant
  <1>5. CycleSpec => []FitsInCycle
    BY <1>2, FittingInvariant
  <1> QED BY <1>1, <1>3, <1>4, <1>5, CycleSound, PTL DEF CycleSpec

\* At rest nothing is under way: only the wiped book is left.
LEMMA ClosedAtRest ==
  ASSUME Closed, Quiescent
  PROVE  currentState = "IDLE" /\ OpenExits = {} /\ (~early => OpenOrders = {})
PROOF
  <1>1. fills = {} /\ cancelGo = {} /\ \A t \in Threads : pc[t] = "idle"
    BY DEF Quiescent, At
  <1>2. currentState = "IDLE" /\ Withdrawn
    BY <1>1 DEF Closed, EntryEvents
  <1> QED BY <1>1, <1>2 DEF Withdrawn

\* When the first exit fill of a clean cycle closes the position, by the take
\* profit or by hand, and the strategy comes to rest, it is idle and no exit order
\* rests: whichever of the reset, CancelAllOrders and the withdrawal at the end of
\* updateTP comes last.
THEOREM ClosesCleanly == NothingFails => (CycleSpec => []CleanClose)
PROOF
  <1> SUFFICES ASSUME NothingFails PROVE CycleSpec => []CleanClose
    OBVIOUS
  <1>1. ClosedInCycle => CleanClose
    BY ClosedAtRest DEF ClosedInCycle, CleanClose
  <1> QED BY <1>1, ClosedInvariant, PTL

\* ... and no rung of the ladder rests to open a position nobody asked for.
THEOREM LeavesNoRung == NothingFails => (CycleSpec => []NothingRests)
PROOF
  <1> SUFFICES ASSUME NothingFails PROVE CycleSpec => []NothingRests
    OBVIOUS
  <1>1. ClosedInCycle => NothingRests
    BY ClosedAtRest DEF ClosedInCycle, NothingRests
  <1> QED BY <1>1, ClosedInvariant, PTL

-------------------------------------------------------------------------------
(* The ladder *)

\* Orders are accepted, and their events arrive.
NothingLost == Truthful /\ Env \cap {"PlaceOrder", "DropEvent"} = {}

OpenEntries == OpenOrders \ OpenExits

\* What was bought and what rests to be bought.
Total == pos + Units(OpenEntries)

\* The base order and the rungs before the k-th.
Upto(k) == 1 + Sum(SafetyUnits, 1 .. k - 1)

\* The event of the base order waits, or placeGridOrders waits to run.
NotYet ==
  /\ phase = "up" /\ OpenOrders = {} /\ pos = 1 /\ tpGo = 0
  /\ \A t \in Threads : pc[t] \in {"idle", "entered"}
  /\ \/ currentState = "PLACING_GRID" /\ gridGo = 0 /\ \E o \in fills : fills = {o}
     \/ currentState = "IN_POSITION" /\ gridGo = 1 /\ fills = {}

Climbing(t) ==
  /\ phase = "up" /\ currentState = "IN_POSITION" /\ gridGo = 0
  /\ \/ pc[t] = "ladder" /\ Total = Upto(level[t])
     \/ pc[t] = "gridPrice" /\ Total = Upto(1)

Complete ==
  /\ phase = "up" => currentState = "IN_POSITION"
  /\ gridGo = 0 /\ \A t \in Threads : pc[t] \notin GridSection
  /\ Total = Upto(MaxSafetyOrders + 1)

Stage ==
  /\ cancelGo = {}
  /\ NotYet \/ (\E t \in Threads : Climbing(t)) \/ Complete

StageInCycle == clean /\ taken = 0 /\ pos # 0 => Stage

\* What is open on the entry side, and what it adds up to.
EntriesOK ==
  /\ \A o : o \in OpenEntries <=>
       o \in 1 .. Len(orders) /\ orders[o].side = "entry" /\ orders[o].rem > 0
  /\ IsFiniteSet(OpenEntries)
  /\ \A o \in OpenEntries : Resting[o] = orders[o].rem /\ Resting[o] \in Int
  /\ Total = pos + Sum(Resting, OpenEntries)
  /\ Sum(Resting, OpenEntries) \in Int /\ pos \in Int

LEMMA EntriesAre == Sound => EntriesOK
PROOF
  <1> SUFFICES ASSUME Sound PROVE EntriesOK
    OBVIOUS
  <1>1. /\ DOMAIN orders = 1 .. Len(orders) /\ pos \in Int
        /\ \A o \in 1 .. Len(orders) : orders[o].side \in Sides
    BY BookIsSeq DEF Order
  <1>2. \A o : o \in OpenEntries <=>
              o \in 1 .. Len(orders) /\ orders[o].side = "entry" /\ orders[o].rem > 0
    BY <1>1 DEF OpenEntries, OpenOrders, OpenExits, Open, Sides
  <1>3. IsFiniteSet(OpenEntries)
    BY RestsAreNat, FS_Subset DEF OpenEntries
  <1>4. \A o \in OpenEntries : Resting[o] = orders[o].rem /\ Resting[o] \in Int
    BY <1>2, RestsAreNat
  <1>5. Units(OpenEntries) = Sum(Resting, OpenEntries)
    BY DEF Units, Sum
  <1>6. \A o \in OpenEntries : Resting[o] \in Int
    BY <1>4
  <1>7. Sum(Resting, OpenEntries) \in Int
    BY <1>3, <1>6, SumIsInt
  <1> QED BY <1>1, <1>2, <1>3, <1>4, <1>5, <1>7 DEF Total, EntriesOK

LEMMA EntriesAreNext == Sound' => EntriesOK'
  BY EntriesAre, PTL

LEMMA SameEntries ==
  ASSUME Sound, Sound', pos' = pos,
         \A o \in OpenEntries : o \in OpenEntries' /\ orders'[o].rem = orders[o].rem,
         OpenEntries' \subseteq OpenEntries
  PROVE  Total' = Total
PROOF
  <1>1. OpenEntries' = OpenEntries
    OBVIOUS
  <1>2. \A o \in OpenEntries : Resting[o] = Resting'[o]
    BY <1>1, EntriesAre, EntriesAreNext DEF EntriesOK
  <1>3. IsFiniteSet(OpenEntries)
    BY EntriesAre DEF EntriesOK
  <1>4. Sum(Resting, OpenEntries) = Sum(Resting', OpenEntries)
    BY <1>2, <1>3, SumAgrees
  <1> QED BY <1>1, <1>4, EntriesAre, EntriesAreNext DEF EntriesOK

\* A rung is added.
LEMMA RungAdded ==
  ASSUME Sound, Sound', pos' = pos, NEW rem \in Nat \ {0}, Place("entry", rem)
  PROVE  Total' = Total + rem
PROOF
  <1>1. /\ Len(orders') = Len(orders) + 1 /\ Len(orders) \in Nat
        /\ \A i \in 1 .. Len(orders) : orders'[i] = orders[i]
        /\ orders'[NextID] = [side |-> "entry", rem |-> rem]
    BY BookIsSeq, PlaceAppends DEF Sides, NextID
  <1>2. orders'[NextID].side = "entry" /\ orders'[NextID].rem = rem
    BY <1>1
  <1>3. NextID \notin OpenEntries /\ OpenEntries' = OpenEntries \cup {NextID}
    BY <1>1, <1>2, EntriesAre, EntriesAreNext DEF NextID, EntriesOK
  <1>4. /\ \A o \in OpenEntries : Resting[o] = Resting'[o]
        /\ Resting'[NextID] = rem
    <2>1. \A o \in OpenEntries : orders'[o] = orders[o]
      BY <1>1, EntriesAre DEF EntriesOK
    <2>2. \A o \in OpenEntries' : Resting'[o] = orders'[o].rem
      BY EntriesAreNext DEF EntriesOK
    <2>3. \A o \in OpenEntries : Resting[o] = orders[o].rem
      BY EntriesAre DEF EntriesOK
    <2> QED BY <1>2, <1>3, <2>1, <2>2, <2>3
  <1>5. IsFiniteSet(OpenEntries)
    BY EntriesAre DEF EntriesOK
  <1>6. Sum(Resting, OpenEntries) = Sum(Resting', OpenEntries)
    BY <1>4, <1>5, SumAgrees
  <1>7. Sum(Resting', OpenEntries') = Resting'[NextID] + Sum(Resting', OpenEntries)
    <2>1. Resting'[NextID] \in Int /\ \A o \in OpenEntries : Resting'[o] \in Int
      BY <1>3, EntriesAreNext DEF EntriesOK
    <2> QED BY <1>3, <1>5, <2>1, SumAdd
  <1> QED BY <1>4, <1>6, <1>7, EntriesAre, EntriesAreNext DEF EntriesOK

\* A rung is filled, in whole or in part: what rested of it is held.
LEMMA RungFilled ==
  ASSUME Sound, Sound', NEW o \in DOMAIN orders, Fill(o), exits' = exits
  PROVE  Total' = Total
PROOF
  <1>1. PICK n \in 1 .. orders[o].rem :
          /\ orders[o].side = "entry" /\ orders[o].rem \in Nat /\ pos' = pos + n
          /\ SameSides /\ orders'[o].rem = orders[o].rem - n
          /\ \A i \in 1 .. Len(orders) : i # o => orders'[i] = orders[i]
    BY EntryFill
  <1>2. o \in 1 .. Len(orders) /\ Len(orders') = Len(orders) /\ orders'[o].side = "entry"
    BY <1>1, BookIsSeq DEF SameSides
  <1>3. o \in OpenEntries
    BY <1>1, <1>2, EntriesAre DEF EntriesOK
  <1> DEFINE Rest == OpenEntries \ {o}
  <1>4. /\ \A i \in Rest : i \in OpenEntries' /\ orders'[i] = orders[i]
        /\ \A i \in OpenEntries' : i = o \/ i \in Rest
    BY <1>1, <1>2, EntriesAre, EntriesAreNext DEF SameSides, EntriesOK
  <1>5. IsFiniteSet(OpenEntries) /\ IsFiniteSet(Rest)
    BY EntriesAre, FS_Subset DEF EntriesOK
  <1>6. Sum(Resting, OpenEntries) = Resting[o] + Sum(Resting, Rest)
    <2>1. \A i \in OpenEntries : Resting[i] \in Int
      BY EntriesAre DEF EntriesOK
    <2> QED BY <1>3, <1>5, <2>1, SumRemove
  <1>7. Sum(Resting, Rest) = Sum(Resting', Rest)
    <2>1. \A i \in Rest : Resting[i] = Resting'[i]
      BY <1>4, EntriesAre, EntriesAreNext DEF EntriesOK
    <2> QED BY <1>5, <2>1, SumAgrees
  <1>8. Resting[o] = orders[o].rem
    BY <1>3, EntriesAre DEF EntriesOK
  <1>9. Sum(Resting', OpenEntries') = orders'[o].rem + Sum(Resting', Rest)
    <2>1. CASE orders'[o].rem > 0
      <3>1. o \in OpenEntries' /\ Rest = OpenEntries' \ {o}
        <4>1. o \in OpenEntries'
          BY <1>2, <2>1, EntriesAreNext DEF EntriesOK
        <4> QED BY <1>4, <4>1
      <3>2. \A i \in OpenEntries' : Resting'[i] \in Int
        BY EntriesAreNext DEF EntriesOK
      <3>3. IsFiniteSet(OpenEntries')
        BY EntriesAreNext DEF EntriesOK
      <3>4. Sum(Resting', OpenEntries') = Resting'[o] + Sum(Resting', OpenEntries' \ {o})
        BY <3>1, <3>2, <3>3, SumRemove
      <3>5. Resting'[o] = orders'[o].rem
        BY <3>1, EntriesAreNext DEF EntriesOK
      <3> QED BY <3>1, <3>4, <3>5
    <2>2. CASE orders'[o].rem <= 0
      <3>1. orders'[o].rem = 0
        BY <1>1, <2>2
      <3>2. o \notin OpenEntries'
        BY <3>1, EntriesAreNext DEF EntriesOK
      <3>3. OpenEntries' = Rest
        BY <1>4, <3>2
      <3>4. Sum(Resting', OpenEntries') \in Int
        BY EntriesAreNext DEF EntriesOK
      <3> QED BY <3>1, <3>3, <3>4
    <2>3. orders'[o].rem \in Int
      BY <1>1
    <2> QED BY <2>1, <2>2, <2>3
  <1>10. Sum(Resting, Rest) \in Int
    <2>1. \A i \in Rest : Resting[i] \in Int
      BY EntriesAre DEF EntriesOK
    <2> QED BY <1>5, <2>1, SumIsInt
  <1> QED BY <1>1, <1>6, <1>7, <1>8, <1>9, <1>10, EntriesAre, EntriesAreNext DEF EntriesOK

LEMMA CycleExits == CycleSpec => []TPIsExit
PROOF
  <1>1. CycleInit => TPIsExit
    BY DEF CycleInit, Init, TPIsExit
  <1>2. Sound /\ TPIsExit /\ [CycleNext]_cvars => TPIsExit'
    BY NextExits DEF CycleNext, cvars
  <1> QED BY <1>1, <1>2, CycleSound, PTL DEF CycleSpec

\* Whatever the other goroutines do, only placeGridOrders changes the total.
LEMMA TotalStays ==
  ASSUME Sound, Sound', NothingLost, Next, Undisturbed, exits' = exits,
         Held, TPIsExit, cancelGo = {}, ~ \E t \in Threads : GridPlace(t)
  PROVE  Total' = Total /\ cancelGo' = {}
PROOF
  <1>1. /\ DOMAIN orders = 1 .. Len(orders) /\ orders \in Seq(Order)
        /\ oid \in [Threads -> 0 .. Len(orders)]
    BY BookIsSeq
  <1>2. Truthful
    BY DEF NothingLost
  <1>3. ASSUME UNCHANGED <<pos, orders>> PROVE Total' = Total
    <2>1. OpenEntries' = OpenEntries
      BY <1>3 DEF OpenEntries, OpenOrders, OpenExits, Open
    <2> QED BY <1>3, <2>1, SameEntries
  <1>4. CASE \/ Start \/ SyncPosition \/ SyncOrders \/ Crash
             \/ CooldownOver \/ GridSkip \/ TPSkip \/ UNCHANGED vars
    <2>1. UNCHANGED <<pos, orders>> /\ cancelGo' = {}
      BY <1>4 DEF Start, SyncPosition, SyncOrders, Crash, LoseMemory, CooldownOver,
                  GridSkip, TPSkip, vars, exchange, pending
    <2> QED BY <1>3, <2>1
  <1>5. ASSUME NEW t \in Threads,
               \/ EnterReturn(t) \/ StampCooldown(t) \/ Reprice(t)
               \/ GridPrice(t) \/ GridDone(t) \/ GridStart(t) \/ TPStart(t)
               \/ TPRead(t) \/ TPCheck(t)
               \/ \E o \in fills : EntryFilled(t, o)
        PROVE  Total' = Total /\ cancelGo' = {}
    <2>1. UNCHANGED <<pos, orders>> /\ cancelGo' = {}
      BY <1>5 DEF EnterReturn, StampCooldown, Reprice, GridPrice, GridDone, GridStart,
                  TPStart, TPRead, TPCheck, EntryFilled, exchange, pending
    <2> QED BY <1>3, <2>1
  <1>6. ASSUME NEW t \in Threads, TPStore(t), phase = "up"
        PROVE  Total' = Total /\ cancelGo' = {}
    <2>1. UNCHANGED <<pos, orders>> /\ cancelGo' = {}
      BY <1>6 DEF TPStore, exchange, Held
    <2> QED BY <1>3, <2>1
  <1>7. ASSUME NEW t \in Threads, TPCancel(t)
        PROVE  Total' = Total /\ cancelGo' = {}
    <2>1. /\ Withdraw(oid[t]) /\ pc[t] = "tpCancel" /\ pos' = pos /\ cancelGo' = {}
      BY <1>2, <1>7 DEF TPCancel, At, pending, Truthful
    <2>2. oid[t] \in 1 .. Len(orders) /\ orders[oid[t]].side = "exit"
      BY <1>1, <2>1 DEF Sound, InHand, TPIsExit
    <2>3. /\ SameSides
          /\ \A i \in 1 .. Len(orders) : i # oid[t] => orders'[i] = orders[i]
      BY <1>1, <2>1, <2>2, WithdrawKeepsSides
    <2>4. OpenEntries' \subseteq OpenEntries
      BY <2>2, <2>3, EntriesAre, EntriesAreNext DEF EntriesOK, SameSides
    <2>5. \A o \in OpenEntries : o \in OpenEntries' /\ orders'[o].rem = orders[o].rem
      BY <2>2, <2>3, EntriesAre, EntriesAreNext DEF EntriesOK, SameSides
    <2> QED BY <2>1, <2>4, <2>5, SameEntries
  <1>8. ASSUME NEW t \in Threads, TPPlace(t)
        PROVE  Total' = Total /\ cancelGo' = {}
    <2>1. Place("exit", amt[t]) /\ pos' = pos /\ cancelGo' = {} /\ amt[t] \in Nat
      BY <1>8 DEF TPPlace, pending, NothingLost, Truthful, Sound, TypeOK, LocalType
    <2>2. /\ Len(orders') = Len(orders) + 1 /\ Len(orders) \in Nat
          /\ \A i \in 1 .. Len(orders) : orders'[i] = orders[i]
          /\ orders'[Len(orders) + 1] = [side |-> "exit", rem |-> amt[t]]
      BY <1>1, <2>1, PlaceAppends DEF Sides
    <2>3. orders'[Len(orders) + 1].side = "exit"
      BY <2>2
    <2>4. OpenEntries' \subseteq OpenEntries
      BY <2>2, <2>3, EntriesAre, EntriesAreNext DEF EntriesOK
    <2>5. \A o \in OpenEntries : o \in OpenEntries' /\ orders'[o].rem = orders[o].rem
      BY <2>2, EntriesAre, EntriesAreNext DEF EntriesOK
    <2> QED BY <2>1, <2>4, <2>5, SameEntries
  <1>9. ASSUME NEW o \in DOMAIN orders, Fill(o)
        PROVE  Total' = Total /\ cancelGo' = {}
    <2>1. cancelGo' = {}
      BY <1>9 DEF Fill, pending
    <2> QED BY <1>9, <2>1, RungFilled
  <1> QED BY <1>2, <1>4, <1>5, <1>6, <1>7, <1>8, <1>9, HeldCases

LEMMA UptoNext ==
  ASSUME NEW k \in 1 .. MaxSafetyOrders
  PROVE  Upto(k) + SafetyUnits[k] = Upto(k + 1)
PROOF
  <1>1. 1 .. (k + 1) - 1 = (1 .. k - 1) \cup {k} /\ k \notin 1 .. k - 1
    OBVIOUS
  <1>2. IsFiniteSet(1 .. k - 1)
    <2>1. k - 1 \in Int
      OBVIOUS
    <2> QED BY <2>1, FS_Interval
  <1>3. \A i \in 1 .. k : SafetyUnits[i] \in Int
    BY StrategyAssumption
  <1>4. SafetyUnits[k] \in Int /\ \A i \in 1 .. k - 1 : SafetyUnits[i] \in Int
    BY <1>3
  <1>5. Sum(SafetyUnits, (1 .. k - 1) \cup {k}) = SafetyUnits[k] + Sum(SafetyUnits, 1 .. k - 1)
    BY <1>1, <1>2, <1>4, SumAdd
  <1>6. Sum(SafetyUnits, 1 .. k - 1) \in Int
    BY <1>2, <1>4, SumIsInt
  <1>7. Upto(k + 1) = 1 + Sum(SafetyUnits, (1 .. k - 1) \cup {k})
    BY <1>1 DEF Upto
  <1>8. Upto(k) = 1 + Sum(SafetyUnits, 1 .. k - 1)
    BY DEF Upto
  <1> QED BY <1>4, <1>5, <1>6, <1>7, <1>8

LEMMA WholeIsUpto == WholeLadder = Upto(MaxSafetyOrders + 1)
PROOF
  <1>1. 1 .. (MaxSafetyOrders + 1) - 1 = 1 .. MaxSafetyOrders
    BY StrategyAssumption
  <1>2. WholeLadder = 1 + Sum(SafetyUnits, 1 .. MaxSafetyOrders)
    BY DEF WholeLadder, Sum
  <1> QED BY <1>1, <1>2 DEF Upto

LEMMA RungClimbed ==
  ASSUME Sound, Sound', NothingLost, NEW t \in Threads, GridPlace(t), Climbing(t)
  PROVE  Climbing(t)' /\ cancelGo' = cancelGo
PROOF
  <1>1. /\ level[t] \in 1 .. MaxSafetyOrders /\ pc[t] = "ladder"
        /\ level' = [level EXCEPT ![t] = level[t] + 1]
        /\ UNCHANGED <<pos, phase, currentState, gridGo, cancelGo, pc>>
    <2>1. level[t] \in 0 .. MaxSafetyOrders + 1 /\ level[t] # 0
      BY DEF Sound, TypeOK, LocalType, InHand, GridPlace, At
    <2> QED BY <2>1, StrategyAssumption DEF GridPlace, At, memory, pending
  <1>2. level'[t] = level[t] + 1
    BY <1>1 DEF Sound, TypeOK, LocalType
  <1>3. Place("entry", SafetyUnits[level[t]]) /\ SafetyUnits[level[t]] \in Nat \ {0}
    BY <1>1, StrategyAssumption DEF GridPlace, NothingLost
  <1>4. Total' = Total + SafetyUnits[level[t]]
    BY <1>1, <1>3, RungAdded
  <1>5. Total = Upto(level[t])
    BY <1>1 DEF Climbing
  <1>6. Total' = Upto(level'[t])
    BY <1>1, <1>2, <1>4, <1>5, UptoNext
  <1>7. Upto(level[t])' = Upto(level'[t])
    BY DEF Upto
  <1> QED BY <1>1, <1>6, <1>7 DEF Climbing

\* Before the ladder is begun, nothing else can happen.
LEMMA NotYetGoesOn ==
  ASSUME Sound, Sound', NothingLost, Next, Undisturbed, exits' = exits,
         Held, cancelGo = {}, NotYet
  PROVE  Stage'
PROOF
  <1>1. gridMu = NoThread /\ pc \in [Threads -> PC]
    BY BookIsSeq DEF Sound, TypeOK, LockType, SectionsExclusive, NotYet, GridSection, TPSection
  <1>2. Total = 1
    <2>1. OpenEntries = {}
      BY DEF NotYet, OpenEntries
    <2> QED BY <2>1, EntriesAre, SumEmpty DEF EntriesOK, NotYet
  <1>3. ASSUME UNCHANGED <<orders, pos, phase, tpGo, cancelGo>>,
               \A t \in Threads : pc'[t] \in {"idle", "entered"},
               \/ UNCHANGED <<currentState, gridGo, fills>>
               \/ currentState' = "IN_POSITION" /\ gridGo' = 1 /\ fills' = {}
        PROVE  Stage'
    <2>1. OpenOrders' = OpenOrders
      BY <1>3 DEF OpenOrders, Open
    <2> QED BY <1>3, <2>1 DEF Stage, NotYet
  <1>4. CASE CooldownOver \/ UNCHANGED vars
    BY <1>3, <1>4 DEF CooldownOver, vars, exchange, memory, pending, NotYet
  <1>5. ~(Start \/ SyncPosition \/ SyncOrders \/ GridSkip \/ TPSkip \/ Crash)
    <2>1. ~Quiescent
      BY DEF Quiescent, NotYet
    <2> QED BY <1>1, <2>1 DEF Start, SyncPosition, SyncOrders, GridSkip, TPSkip, Crash,
                              Undisturbed, Running, NotYet
  <1>6. ~ \E o \in DOMAIN orders : Fill(o)
    BY DEF Fill, NotYet, OpenOrders
  <1>7. ASSUME NEW t \in Threads,
               \/ StampCooldown(t) \/ Reprice(t)
               \/ GridPrice(t) \/ GridPlace(t) \/ GridDone(t)
               \/ TPRead(t) \/ TPCheck(t) \/ TPCancel(t) \/ TPPlace(t) \/ TPStore(t)
               \/ TPStart(t)
        PROVE  FALSE
    BY <1>7 DEF StampCooldown, Reprice, GridPrice, GridPlace, GridDone, TPRead, TPCheck,
                TPCancel, TPPlace, TPStore, TPStart, At, NotYet
  <1>8. ASSUME NEW t \in Threads, EnterReturn(t) PROVE Stage'
    BY <1>1, <1>3, <1>8 DEF EnterReturn, Goto, exchange, pending, NotYet
  <1>9. ASSUME NEW t \in Threads, NEW o \in fills, EntryFilled(t, o) PROVE Stage'
    <2>1. currentState = "PLACING_GRID" /\ gridGo = 0 /\ fills = {o}
      BY <1>9 DEF NotYet
    <2> QED BY <1>3, <1>9, <2>1 DEF EntryFilled, pending, NotYet
  <1>10. ASSUME NEW t \in Threads, GridStart(t) PROVE Stage'
    <2>1. /\ currentState = "IN_POSITION" /\ gridGo = 1 /\ gridGo' = 0
          /\ UNCHANGED <<orders, pos, phase, currentState, cancelGo>>
      BY <1>10 DEF GridStart, NotYet, exchange, memory
    <2>2. Total' = Total
      <3>1. OpenEntries' = OpenEntries
        BY <2>1 DEF OpenEntries, OpenOrders, OpenExits, Open
      <3> QED BY <2>1, <3>1, SameEntries
    <2>3. Upto(1) = 1
      <3>1. 1 .. 1 - 1 = {}
        OBVIOUS
      <3> QED BY <3>1, SumEmpty DEF Upto
    <2>4. pc'[t] = "gridPrice" \/ (pc'[t] = "ladder" /\ level'[t] = 1)
      BY <1>1, <1>10 DEF GridStart, Goto, Sound, TypeOK, LocalType
    <2>5. Climbing(t)'
      <3>1. Upto(level[t])' = Upto(level'[t]) /\ Upto(1)' = Upto(1)
        BY DEF Upto
      <3> QED BY <1>2, <2>1, <2>2, <2>3, <2>4, <3>1 DEF Climbing, NotYet
    <2> QED BY <2>1, <2>5 DEF Stage
  <1> QED
    BY <1>4, <1>5, <1>6, <1>7, <1>8, <1>9, <1>10, HeldCases DEF NothingLost

LEMMA StageStays ==
  ASSUME Sound, Sound', NothingLost, Next, Undisturbed, exits' = exits,
         Held, Held', TPIsExit, Stage
  PROVE  Stage'
PROOF
  <1>1. cancelGo = {} /\ Truthful /\ [Next]_vars
    BY DEF Stage, NothingLost
  <1>2. pc \in [Threads -> PC] /\ level \in [Threads -> 0 .. MaxSafetyOrders + 1]
    BY BookIsSeq DEF Sound, TypeOK, LocalType
  <1>3. /\ \A t \in Threads : ~PanicReprice(t)
        /\ Upto(MaxSafetyOrders + 1)' = Upto(MaxSafetyOrders + 1)
    BY <1>1 DEF PanicReprice, Truthful, Upto
  <1>4. CASE NotYet
    BY <1>1, <1>4, NotYetGoesOn
  \* With the base order handled, every fill is one of a rung.
  <1>5. ASSUME currentState = "IN_POSITION" \/ phase # "up", gridGo = 0
        PROVE  gridGo' = 0 /\ (phase' = "up" => currentState' = "IN_POSITION")
    <2>1. gridGo' = 0
      <3>1. ASSUME NEW t \in Threads, NEW o \in fills, EntryFilled(t, o), phase = "up"
            PROVE  gridGo' = 0
        BY <1>5, <3>1 DEF EntryFilled
      <3>2. ASSUME NEW t \in Threads, GridStart(t) PROVE FALSE
        BY <1>5, <3>2 DEF GridStart
      <3>3. CASE \/ Start \/ SyncPosition \/ SyncOrders \/ Crash \/ CooldownOver
                 \/ GridSkip \/ TPSkip \/ UNCHANGED vars
        BY <1>5, <3>3 DEF Start, SyncPosition, SyncOrders, Crash, LoseMemory,
                          CooldownOver, GridSkip, TPSkip, vars, pending
      <3>4. ASSUME NEW t \in Threads,
                   \/ EnterReturn(t) \/ StampCooldown(t) \/ Reprice(t)
                   \/ GridPrice(t) \/ GridPlace(t) \/ GridDone(t)
                   \/ TPRead(t) \/ TPCheck(t) \/ TPCancel(t) \/ TPPlace(t)
                   \/ (TPStore(t) /\ phase = "up") \/ TPStart(t)
            PROVE  gridGo' = 0
        BY <1>5, <3>4 DEF EnterReturn, StampCooldown, Reprice, GridPrice, GridPlace,
                          GridDone, TPRead, TPCheck, TPCancel, TPPlace, TPStore,
                          TPStart, Held, pending
      <3>5. ASSUME NEW o \in DOMAIN orders, Fill(o) PROVE gridGo' = 0
        BY <1>5, <3>5 DEF Fill, pending
      <3> QED BY <1>1, <3>1, <3>2, <3>3, <3>4, <3>5, HeldCases
    <2>2. phase' = "up" => currentState' = "IN_POSITION"
      <3>1. pos # 0 /\ "GetPosition" \notin Env
            /\ (phase = "syncing" => currentState = "IN_POSITION")
        BY <1>1, BookIsSeq DEF Held, Truthful
      <3>2. CASE \/ Start \/ SyncPosition \/ SyncOrders \/ Crash
        BY <3>1, <3>2 DEF Start, SyncPosition, SyncOrders, Crash
      <3> QED
        BY <1>1, <1>5, <3>2, HeldCases
        DEF GridSkip, TPSkip, CooldownOver, vars, CancelNewTP, EnterReturn,
            StampCooldown, Reprice, GridPrice, GridPlace, GridDone, TPRead, TPCheck,
            TPCancel, TPPlace, TPStore, GridStart, TPStart, EntryFilled, Fill, memory
    <2> QED BY <2>1, <2>2
  <1>6. ASSUME NEW t \in Threads, Climbing(t) PROVE Stage'
    <2>1. /\ phase = "up" /\ currentState = "IN_POSITION" /\ gridGo = 0
          /\ pc[t] \in GridSection
      BY <1>6 DEF Climbing, GridSection
    <2>2. ~Crash
      BY <2>1 DEF Crash, Undisturbed, Running, Quiescent, At, GridSection
    <2>3. phase' = "up"
      BY <1>1, <2>1, <2>2, HeldCases
      DEF Start, SyncPosition, SyncOrders, GridSkip, TPSkip, CooldownOver, vars,
          CancelNewTP, EnterReturn, StampCooldown, Reprice, GridPrice,
          GridPlace, GridDone, TPRead, TPCheck, TPCancel, TPPlace, TPStore, GridStart,
          TPStart, EntryFilled, Fill
    <2>4. gridGo' = 0 /\ currentState' = "IN_POSITION"
      BY <1>5, <2>1, <2>3
    <2>5. \A u \in Threads : u # t => pc[u] \notin GridSection
      BY <2>1 DEF Sound, SectionsExclusive
    <2>6. CASE GridPlace(t)
      BY <1>1, <1>6, <2>6, RungClimbed DEF Stage
    <2>7. CASE ~GridPlace(t)
      <3>1. ~ \E u \in Threads : GridPlace(u)
        BY <2>5, <2>7 DEF GridPlace, At, GridSection
      <3>2. Total' = Total /\ cancelGo' = {}
        BY <1>1, <3>1, TotalStays
      <3>3. CASE pc'[t] = pc[t]
        <4>1. pc[t] = "ladder" => level'[t] = level[t]
          <5> SUFFICES ASSUME pc[t] = "ladder" PROVE level' = level
            OBVIOUS
          <5>1. ASSUME NEW u \in Threads, GridStart(u) \/ GridPrice(u) \/ GridDone(u)
                PROVE  FALSE
            <6>1. ~GridStart(u)
              BY <2>1 DEF GridStart
            <6>2. u = t
              BY <2>5, <5>1, <6>1 DEF GridPrice, GridDone, At, GridSection
            <6> QED BY <1>2, <3>3, <5>1, <6>1, <6>2 DEF GridPrice, GridDone, At, Goto
          <5> QED
            BY <1>1, <2>2, <3>1, <5>1, HeldCases
            DEF Start, SyncPosition, SyncOrders, GridSkip, TPSkip, CooldownOver, vars,
                CancelNewTP, EnterReturn, StampCooldown, Reprice, TPRead, TPCheck,
                TPCancel, TPPlace, TPStore, TPStart, EntryFilled, Fill, locals
        <4>2. Upto(level[t])' = Upto(level'[t]) /\ Upto(1)' = Upto(1)
          BY DEF Upto
        <4>3. Climbing(t)'
          BY <1>6, <2>3, <2>4, <3>2, <3>3, <4>1, <4>2 DEF Climbing
        <4> QED BY <3>2, <4>3 DEF Stage
      <3>4. CASE pc'[t] # pc[t]
        <4>1. GridPrice(t) \/ GridDone(t)
          BY <1>1, <1>3, <2>1, <2>2, <2>7, <3>4, OwnMove
          DEF HandleTick, EnterPosition, EnterReturn, EnterFail, StampCooldown, Reprice,
              ExitClose, CancelAllOrders, ExitStillOpen, TPRead, TPFlat, TPCheck,
              TPCancel, TPPlace, TPStore, GridStart, TPStart, EntryFilled, ExitFilled,
              At, GridSection
        <4>2. CASE GridPrice(t)
          <5>1. pc'[t] = "ladder" /\ level'[t] = 1 /\ pc[t] = "gridPrice"
            BY <1>1, <1>2, <4>2 DEF GridPrice, Goto, At, Held, Truthful
          <5>2. Upto(level[t])' = Upto(level'[t])
            BY DEF Upto
          <5>3. Climbing(t)'
            BY <1>6, <2>3, <2>4, <3>2, <5>1, <5>2 DEF Climbing
          <5> QED BY <3>2, <5>3 DEF Stage
        <4>3. CASE GridDone(t)
          <5>1. /\ pc[t] = "ladder" /\ level[t] > MaxSafetyOrders
                /\ \E where \in {"tpRead", "idle"} : pc' = [pc EXCEPT ![t] = where]
            BY <4>3 DEF GridDone, At, Goto
          <5>2. level[t] = MaxSafetyOrders + 1
            BY <1>2, <5>1, StrategyAssumption
          <5>3. Total = Upto(MaxSafetyOrders + 1)
            BY <1>6, <5>1, <5>2 DEF Climbing
          <5>4. \A u \in Threads : pc'[u] \notin GridSection
            BY <1>2, <2>5, <5>1 DEF GridSection
          <5> QED BY <1>3, <2>4, <3>2, <5>3, <5>4 DEF Stage, Complete
        <4> QED BY <4>1, <4>2, <4>3
      <3> QED BY <3>3, <3>4
    <2> QED BY <2>6, <2>7
  <1>7. CASE Complete
    <2>1. \A t \in Threads : pc[t] \notin GridSection
      BY <1>7 DEF Complete
    <2>2. gridGo = 0 /\ (currentState = "IN_POSITION" \/ phase # "up")
      BY <1>7 DEF Complete
    <2>3. gridGo' = 0 /\ (phase' = "up" => currentState' = "IN_POSITION")
      BY <1>5, <2>2
    <2>4. ~ \E t \in Threads : GridPlace(t)
      BY <2>1 DEF GridPlace, At, GridSection
    <2>5. Total' = Total /\ cancelGo' = {}
      BY <1>1, <2>4, TotalStays
    <2>6. ASSUME NEW t \in Threads PROVE pc'[t] \notin GridSection
      <3>1. CASE pc'[t] = pc[t]
        BY <2>1, <3>1
      <3>2. CASE Crash
        BY <3>2 DEF Crash, LoseMemory, GridSection
      <3>3. CASE pc'[t] # pc[t] /\ ~Crash
        <4>1. ~GridStart(t) /\ ~GridPrice(t) /\ ~GridPlace(t) /\ ~GridDone(t)
          <5>1. ~GridStart(t)
            BY <2>2 DEF GridStart
          <5> QED BY <2>1, <5>1 DEF GridPrice, GridPlace, GridDone, At, GridSection
        <4>2. \E where \in PC \ GridSection : pc' = [pc EXCEPT ![t] = where]
          BY <1>1, <1>3, <3>3, <4>1, OwnMove
          DEF HandleTick, EnterPosition, EnterReturn, EnterFail, StampCooldown, Reprice,
              ExitClose, CancelAllOrders, ExitStillOpen, TPRead, TPFlat, TPCheck,
              TPCancel, TPPlace, TPStore, TPStart, EntryFilled, ExitFilled, ReturnTP,
              Goto, GridSection, PC, Handling, TPSection
        <4> QED BY <1>2, <4>2
      <3> QED BY <3>1, <3>2, <3>3
    <2> QED BY <1>3, <1>7, <2>3, <2>5, <2>6 DEF Stage, Complete
  <1> QED BY <1>4, <1>6, <1>7 DEF Stage

LEMMA NextStage ==
  ASSUME Sound, Sound', NothingLost, Cycle, Cycle', TPIsExit, StageInCycle,
         [CycleNext]_cvars
  PROVE  StageInCycle'
PROOF
  <1> SUFFICES ASSUME clean', taken' = 0, pos' # 0 PROVE Stage'
    BY DEF StageInCycle
  <1>1. Truthful
    BY DEF NothingLost
  <1>2. CASE UNCHANGED cvars
    <2>1. UNCHANGED <<clean, taken>> /\ UNCHANGED <<vars>>
      BY <1>2 DEF cvars
    <2>2. Stage /\ UNCHANGED <<pos, orders, fills, phase, currentState, gridGo, tpGo,
                               cancelGo, pc, level>>
      BY <2>1 DEF vars, exchange, memory, pending, locals, StageInCycle
    <2>3. OpenOrders' = OpenOrders /\ OpenEntries' = OpenEntries
      BY <2>2 DEF OpenEntries, OpenOrders, OpenExits, Open
    <2>4. Total' = Total
      BY <2>2, <2>3, SameEntries
    <2>5. /\ Upto(1)' = Upto(1) /\ \A t \in Threads : Upto(level[t])' = Upto(level[t])
          /\ Upto(MaxSafetyOrders + 1)' = Upto(MaxSafetyOrders + 1)
      BY <2>2 DEF Upto
    <2> QED BY <2>2, <2>3, <2>4, <2>5 DEF Stage, NotYet, Climbing, Complete
  <1>3. CASE Next /\ BaseBought /\ FromRest
    <2>1. "DropEvent" \notin Env /\ Running
      BY <1>3 DEF NothingLost, FromRest, Running
    <2>2. fills' = {NextID}
      BY <1>1, <1>3, <2>1, BaseState DEF Emit
    <2> QED BY <1>1, <1>3, <2>2, BaseState DEF Stage, NotYet
  <1>4. CASE /\ Next /\ ~BaseBought /\ Undisturbed /\ exits' = exits
             /\ clean /\ taken = 0 /\ Held /\ UpRecord
    <2>1. Stage /\ Held'
      BY <1>1, <1>4, CycleSteps DEF StageInCycle, Held
    <2> QED BY <1>4, <2>1, StageStays
  <1> QED BY <1>1, <1>2, <1>3, <1>4, CycleSteps

LEMMA StageInvariant == NothingLost => (CycleSpec => []StageInCycle)
PROOF
  <1> SUFFICES ASSUME NothingLost PROVE CycleSpec => []StageInCycle
    OBVIOUS
  <1>1. CycleInit => StageInCycle
    BY DEF CycleInit, Init, StageInCycle
  <1>2. Sound /\ Sound' /\ Cycle /\ Cycle' /\ TPIsExit /\ StageInCycle /\ [CycleNext]_cvars
        => StageInCycle'
    BY NextStage
  <1>3. CycleSpec => []Cycle
    BY CycleInvariant DEF NothingLost
  <1> QED BY <1>1, <1>2, <1>3, CycleSound, CycleExits, PTL DEF CycleSpec

\* The ladder of a clean cycle is placed once and as a whole: at rest, what it
\* has filled is held and the rest of it rests in the book, in whatever order the
\* fills are handled, in however many parts they come.
THEOREM LadderIsPlacedOnce == NothingLost => (CycleSpec => []LadderIsWhole)
PROOF
  <1> SUFFICES ASSUME NothingLost PROVE CycleSpec => []LadderIsWhole
    OBVIOUS
  <1>1. StageInCycle => LadderIsWhole
    <2> SUFFICES ASSUME StageInCycle, clean, taken = 0, Quiescent, pos # 0
                 PROVE  pos + Units(OpenOrders \ OpenExits) = WholeLadder
      BY DEF LadderIsWhole
    <2>1. Complete
      BY DEF StageInCycle, Stage, NotYet, Climbing, Quiescent, At
    <2> QED BY <2>1, WholeIsUpto DEF Complete, Total, OpenEntries
  <1> QED BY <1>1, StageInvariant, PTL

-------------------------------------------------------------------------------
(* The take profit covers the position *)

\* ... and every fill is reported, once the order is filled as a whole.
NothingHidden == NothingLost /\ "PartialFill" \notin Env

\* Something is under way that ends in another updateTP.
Owed ==
  \/ fills # {} \/ gridGo > 0 \/ tpGo > 0
  \/ \E t \in Threads : pc[t] \in GridSection \cup {"reprice", "tpRead"}

\* A fill that sells nothing leaves the exit orders alone.
LEMMA FillKeepsExits ==
  ASSUME Sound, NEW o \in DOMAIN orders, Fill(o), exits' = exits
  PROVE  \A i \in OpenExits : i \in OpenExits'
PROOF
  <1>1. /\ orders[o].side = "entry" /\ SameSides
        /\ \A i \in 1 .. Len(orders) : i # o => orders'[i] = orders[i]
    BY EntryFill
  <1>2. DOMAIN orders' = DOMAIN orders /\ DOMAIN orders = 1 .. Len(orders)
    BY <1>1, BookIsSeq, LenProperties DEF SameSides
  <1> QED BY <1>1, <1>2 DEF OpenExits, Open

\* updateTP has an amount to offer, and the order it placed rests until it is on
\* record.
Working ==
  \A t \in Threads :
    /\ pc[t] \in Offering => amt[t] > 0
    /\ pc[t] = "tpStore" => oid[t] \in OpenExits

Busy == \E t \in Threads : pc[t] \in Offering \cup {"tpStore"}
Kept == \E o \in OpenExits : phase = "up" => o = currentTPOrderID

\* An exit order rests on record, or something is under way that ends in one.
Guarded == Working /\ (Owed \/ Busy \/ Kept)

GuardInCycle == clean /\ taken = 0 /\ pos # 0 => Guarded

\* A step that takes no exit order away.
LEMMA WorkingKept ==
  ASSUME Working, \A o \in OpenExits : o \in OpenExits',
         \A t \in Threads :
           /\ pc'[t] \in Offering => pc[t] \in Offering /\ amt'[t] = amt[t]
           /\ pc'[t] = "tpStore" => pc[t] = "tpStore" /\ oid'[t] = oid[t]
  PROVE  Working'
  BY DEF Working

LEMMA WorkingStays ==
  ASSUME Sound, Sound', NothingLost, Next, Undisturbed, exits' = exits,
         Held, Stage, Working
  PROVE  Working'
PROOF
  <1>1. /\ DOMAIN orders = 1 .. Len(orders) /\ Len(orders) \in Nat /\ pos \in Nat /\ pos > 0
        /\ pc \in [Threads -> PC] /\ oid \in [Threads -> 0 .. Len(orders)]
        /\ amt \in [Threads -> Nat] /\ cancelGo = {}
    BY BookIsSeq DEF Held, Sound, TypeOK, LocalType, Stage
  <1>2. Truthful /\ "PlaceOrder" \notin Env
    BY DEF NothingLost
  <1>3. ASSUME UNCHANGED orders,
               \A t \in Threads :
                 /\ pc'[t] \in Offering => pc[t] \in Offering /\ amt'[t] = amt[t]
                 /\ pc'[t] = "tpStore" => pc[t] = "tpStore" /\ oid'[t] = oid[t]
        PROVE  Working'
    <2>1. OpenExits' = OpenExits
      BY <1>3 DEF OpenExits, Open
    <2> QED BY <1>3, <2>1, WorkingKept
  <1>4. CASE \/ Start \/ SyncPosition \/ SyncOrders
             \/ CooldownOver \/ GridSkip \/ TPSkip \/ UNCHANGED vars
    BY <1>3, <1>4 DEF Start, SyncPosition, SyncOrders, CooldownOver, GridSkip, TPSkip,
                      vars, exchange, locals
  <1>5. CASE Crash
    BY <1>3, <1>5 DEF Crash, LoseMemory, Offering
  <1>6. ASSUME NEW t \in Threads,
               \/ EnterReturn(t) \/ StampCooldown(t) \/ Reprice(t)
               \/ GridStart(t) \/ GridPrice(t) \/ GridDone(t) \/ TPStart(t)
               \/ \E o \in fills : EntryFilled(t, o)
        PROVE  Working'
    <2>1. UNCHANGED <<orders, amt, oid>>
      BY <1>6 DEF EnterReturn, StampCooldown, Reprice, GridStart, GridPrice, GridDone,
                  TPStart, EntryFilled, exchange, locals
    <2>2. PICK where \in {"idle", "reprice", "ladder", "gridPrice", "tpRead", pc[t]} :
            pc' = [pc EXCEPT ![t] = where]
      BY <1>1, <1>6 DEF EnterReturn, StampCooldown, Reprice, GridPrice, GridDone,
                        GridStart, TPStart, EntryFilled, Goto
    <2> QED BY <1>1, <1>3, <2>1, <2>2 DEF Offering
  <1>7. ASSUME NEW t \in Threads, TPRead(t) PROVE Working'
    <2>1. /\ amt' = [amt EXCEPT ![t] = TPAmount] /\ pc' = [pc EXCEPT ![t] = "tpCheck"]
          /\ UNCHANGED <<orders, oid>>
      BY <1>1, <1>2, <1>7 DEF TPRead, Goto, exchange, Truthful
    <2>2. OpenExits' = OpenExits
      BY <2>1 DEF OpenExits, Open
    <2>3. TPAmount > 0
      BY <1>1 DEF TPAmount
    <2>4. ASSUME NEW u \in Threads, pc'[u] \in Offering PROVE amt'[u] > 0
      BY <1>1, <2>1, <2>3, <2>4 DEF Working
    <2>5. ASSUME NEW u \in Threads, pc'[u] = "tpStore" PROVE oid'[u] \in OpenExits'
      BY <1>1, <2>1, <2>2, <2>5 DEF Working
    <2> QED BY <2>4, <2>5 DEF Working
  <1>8. ASSUME NEW t \in Threads, TPCheck(t) \/ TPStore(t) PROVE Working'
    <2>1. /\ UNCHANGED orders
          /\ \A u \in Threads : u # t => amt'[u] = amt[u] /\ oid'[u] = oid[u]
      BY <1>1, <1>8 DEF TPCheck, TPStore, ReturnTP, exchange
    <2>2. \/ pc' = [pc EXCEPT ![t] = "idle"]
          \/ /\ pc[t] = "tpCheck" /\ amt' = amt
             /\ pc' = [pc EXCEPT ![t] = IF currentTPOrderID # 0 THEN "tpCancel" ELSE "tpPlace"]
      BY <1>8 DEF TPCheck, TPStore, ReturnTP, Goto, At
    <2> QED BY <1>1, <1>3, <2>1, <2>2 DEF Offering
  <1>9. ASSUME NEW t \in Threads, TPCancel(t) PROVE Working'
    <2>1. amt' = amt /\ pc' = [pc EXCEPT ![t] = "tpPlace"] /\ pc[t] = "tpCancel"
      BY <1>9 DEF TPCancel, Goto, At
    <2>2. \A u \in Threads : pc'[u] # "tpStore"
      BY <1>1, <2>1, Alone DEF TPSection
    <2> QED BY <1>1, <2>1, <2>2 DEF Working, Offering
  <1>10. ASSUME NEW side \in Sides, NEW rem \in Nat, Place(side, rem)
         PROVE  /\ \A o \in OpenExits : o \in OpenExits'
                /\ side = "exit" /\ rem > 0 => NextID \in OpenExits'
    <2>1. /\ \A i \in 1 .. Len(orders) : orders'[i] = orders[i]
          /\ orders'[NextID] = [side |-> side, rem |-> rem]
          /\ Len(orders') = Len(orders) + 1
      BY <1>10, NewExit, BookIsSeq, PlaceAppends
    <2>2. DOMAIN orders' = 1 .. Len(orders')
      BY LenProperties DEF Sound, TypeOK, BookType
    <2>3. orders'[NextID].side = side /\ orders'[NextID].rem = rem
      BY <2>1
    <2>4. NextID \in DOMAIN orders' /\ \A i \in DOMAIN orders : i \in DOMAIN orders'
      BY <1>1, <2>1, <2>2 DEF NextID
    <2> QED BY <1>1, <2>1, <2>3, <2>4 DEF OpenExits, Open
  <1>11. ASSUME NEW t \in Threads, GridPlace(t) PROVE Working'
    <2>1. UNCHANGED <<pc, amt, oid>> /\ Place("entry", SafetyUnits[level[t]])
      BY <1>2, <1>11 DEF GridPlace
    <2>2. SafetyUnits[level[t]] \in Nat
      <3>1. level[t] \in 0 .. MaxSafetyOrders + 1 /\ level[t] # 0
        BY <1>11 DEF Sound, TypeOK, LocalType, InHand, GridPlace, At
      <3> QED BY <1>11, <3>1, StrategyAssumption DEF GridPlace
    <2>3. \A o \in OpenExits : o \in OpenExits'
      BY <1>10, <2>1, <2>2 DEF Sides
    <2> QED BY <2>1, <2>3, WorkingKept
  <1>12. ASSUME NEW t \in Threads, TPPlace(t) PROVE Working'
    <2>1. /\ Place("exit", amt[t]) /\ amt' = amt /\ oid' = [oid EXCEPT ![t] = NextID]
          /\ pc' = [pc EXCEPT ![t] = "tpStore"] /\ pc[t] = "tpPlace"
      BY <1>2, <1>12 DEF TPPlace, Goto, At, Truthful
    <2>2. amt[t] \in Nat /\ amt[t] > 0
      BY <1>1, <2>1 DEF Working, Offering
    <2>3. NextID \in OpenExits' /\ \A o \in OpenExits : o \in OpenExits'
      BY <1>10, <2>1, <2>2 DEF Sides
    <2>4. ASSUME NEW u \in Threads, pc'[u] = "tpStore" PROVE oid'[u] \in OpenExits'
      BY <1>1, <2>1, <2>3, <2>4 DEF Working
    <2>5. ASSUME NEW u \in Threads, pc'[u] \in Offering PROVE amt'[u] > 0
      BY <1>1, <2>1, <2>5 DEF Working, Offering
    <2> QED BY <2>4, <2>5 DEF Working
  <1>13. ASSUME NEW o \in DOMAIN orders, Fill(o) PROVE Working'
    <2>1. \A i \in OpenExits : i \in OpenExits'
      BY <1>1, <1>13, FillKeepsExits
    <2> QED BY <1>13, <2>1, WorkingKept DEF Fill, locals
  <1> QED
    BY <1>1, <1>2, <1>4, <1>5, <1>6, <1>7, <1>8, <1>9, <1>11, <1>12, <1>13, HeldCases

\* Whoever holds tpMu while the position is held has not read it yet or offers
\* something for it.
LEMMA HolderWorks ==
  ASSUME Sound, Held, tpMu # NoThread
  PROVE  \E t \in Threads : pc[t] \in {"tpRead", "tpStore"} \cup Offering
PROOF
  <1>1. PICK t \in Threads : tpMu = t
    BY DEF Sound, TypeOK, LockType
  <1>2. pc[t] \in TPSection /\ pc[t] # "tpFlat"
    BY <1>1 DEF Sound, SectionsExclusive, Held, Clearing
  <1> QED BY <1>2 DEF TPSection, Offering

LEMMA GuardStays ==
  ASSUME Sound, Sound', NothingLost, Next, Undisturbed, exits' = exits,
         Held, UpRecord, Stage, Guarded
  PROVE  Owed' \/ Busy' \/ Kept'
PROOF
  <1>1. /\ DOMAIN orders = 1 .. Len(orders) /\ Len(orders) \in Nat /\ pos \in Int /\ pos > 0
        /\ pc \in [Threads -> PC] /\ oid \in [Threads -> 0 .. Len(orders)]
        /\ gridGo \in Nat /\ tpGo \in Nat /\ cancelGo = {}
    BY BookIsSeq DEF Held, Sound, TypeOK, MemoryType, Stage
  <1>2. Truthful /\ "DropEvent" \notin Env /\ "PlaceOrder" \notin Env
    BY DEF NothingLost
  <1>3. Working /\ (Owed \/ Busy \/ Kept)
    BY DEF Guarded
  <1>4. ASSUME UNCHANGED <<fills, gridGo, tpGo>>, \A t \in Threads : pc[t] # "idle" => pc'[t] = pc[t]
        PROVE  (Owed => Owed') /\ (Busy => Busy')
    BY <1>4 DEF Owed, Busy, Offering, GridSection
  \* What starts, syncs or ends the process.
  <1>5. CASE Start \/ SyncPosition
    <2>1. UNCHANGED <<orders, fills, currentTPOrderID, gridGo, tpGo, pc>>
      BY <1>5 DEF Start, SyncPosition, exchange, memory, pending
    <2>2. phase # "up" /\ phase' # "up"
      BY <1>1, <1>2, <1>5 DEF Start, SyncPosition, Truthful
    <2>3. OpenExits' = OpenExits
      BY <2>1 DEF OpenExits, Open
    <2>4. Kept => Kept'
      BY <2>2, <2>3 DEF Kept
    <2> QED BY <1>3, <1>4, <2>1, <2>4
  <1>6. CASE SyncOrders
    <2>1. OpenExits' = OpenExits
      BY <1>6 DEF SyncOrders, exchange, OpenExits, Open
    <2>2. CASE OpenExits = {} /\ tpGo' = tpGo + 1
      BY <1>1, <2>2 DEF Owed
    <2>3. CASE \E o \in OpenExits : currentTPOrderID' = o
      BY <2>1, <2>3 DEF Kept
    <2> QED BY <1>2, <1>6, <2>2, <2>3 DEF SyncOrders, Truthful
  <1>7. CASE Crash
    <2>1. Quiescent
      BY <1>7 DEF Crash, Undisturbed, Running
    <2>2. ~Owed /\ ~Busy
      BY <1>1, <2>1 DEF Owed, Busy, Offering, Quiescent, At, GridSection
    <2>3. OpenExits' = OpenExits /\ phase' = "down"
      BY <1>7 DEF Crash, LoseMemory, OpenExits, Open
    <2> QED BY <1>3, <2>2, <2>3 DEF Kept
  <1>8. CASE CooldownOver \/ UNCHANGED vars
    <2>1. UNCHANGED <<orders, fills, phase, currentTPOrderID, gridGo, tpGo, pc>>
      BY <1>8 DEF CooldownOver, vars, exchange, memory, pending
    <2>2. OpenExits' = OpenExits
      BY <2>1 DEF OpenExits, Open
    <2>3. Kept => Kept'
      BY <2>1, <2>2 DEF Kept
    <2> QED BY <1>3, <1>4, <2>1, <2>3
  <1>9. ~GridSkip
    <2>1. ASSUME gridGo > 0 PROVE gridMu = NoThread
      <3>1. NotYet
        BY <2>1 DEF Stage, Climbing, Complete
      <3>2. \A t \in Threads : pc[t] \in {"idle", "entered"}
        BY <3>1 DEF NotYet
      <3> QED BY <3>2 DEF Sound, TypeOK, LockType, SectionsExclusive, GridSection, TPSection
    <2> QED BY <2>1 DEF GridSkip
  \* An update that is skipped leaves the work to the one that runs.
  <1>10. CASE TPSkip
    <2>1. tpMu # NoThread /\ pc' = pc
      BY <1>10 DEF TPSkip
    <2>2. PICK t \in Threads : pc'[t] \in {"tpRead", "tpStore"} \cup Offering
      BY <2>1, HolderWorks
    <2> QED BY <2>2 DEF Owed, Busy
  <1>11. ASSUME NEW o \in DOMAIN orders, Fill(o) PROVE Owed' \/ Busy' \/ Kept'
    <2>1. PICK n \in 1 .. orders[o].rem :
            /\ orders[o].rem \in Nat /\ pos' = pos + n
            /\ n # orders[o].rem => fills' = fills
            /\ n = orders[o].rem => Emit(o)
      BY <1>11, EntryFill
    <2>2. pos' # pos /\ Running
      <3>1. pos' # pos
        BY <1>1, <2>1
      <3> QED BY <3>1 DEF Undisturbed
    <2>3. CASE n = orders[o].rem
      BY <1>2, <2>1, <2>2, <2>3 DEF Emit, Owed
    <2>4. CASE n # orders[o].rem
      <3>1. UNCHANGED <<fills, phase, currentTPOrderID, gridGo, tpGo, pc>>
        BY <1>11, <2>1, <2>4 DEF Fill, memory, pending
      <3>2. \A i \in OpenExits : i \in OpenExits'
        BY <1>11, FillKeepsExits
      <3>3. Kept => Kept'
        BY <3>1, <3>2 DEF Kept
      <3> QED BY <1>3, <1>4, <3>1, <3>3
    <2> QED BY <2>3, <2>4
  <1>12. ASSUME NEW t \in Threads, EnterReturn(t) \/ StampCooldown(t)
         PROVE  Owed' \/ Busy' \/ Kept'
    <2>1. /\ UNCHANGED <<orders, fills, phase, currentTPOrderID, gridGo, tpGo>>
          /\ pc' = [pc EXCEPT ![t] = "idle"] /\ pc[t] \in {"entered", "stamp"}
      BY <1>12 DEF EnterReturn, StampCooldown, Goto, At, exchange, memory, pending
    <2>2. OpenExits' = OpenExits
      BY <2>1 DEF OpenExits, Open
    <2>3. Kept => Kept'
      BY <2>1, <2>2 DEF Kept
    <2>4. (Owed => Owed') /\ (Busy => Busy')
      BY <1>1, <2>1 DEF Owed, Busy, Offering, GridSection
    <2> QED BY <1>3, <2>3, <2>4
  <1>13. ASSUME NEW t \in Threads,
                Reprice(t) \/ TPStart(t) \/ \E o \in fills : EntryFilled(t, o)
         PROVE  Owed'
    BY <1>1, <1>13 DEF Reprice, TPStart, EntryFilled, Goto, Owed
  <1>14. ASSUME NEW t \in Threads, GridStart(t) \/ GridPrice(t) \/ GridPlace(t)
         PROVE  Owed'
    <2>1. pc'[t] \in GridSection
      BY <1>1, <1>2, <1>14 DEF GridStart, GridPrice, GridPlace, Goto, At, GridSection, Truthful
    <2> QED BY <2>1 DEF Owed
  <1>15. ASSUME NEW t \in Threads, GridDone(t) PROVE Owed' \/ Busy'
    <2>1. CASE tpMu = NoThread /\ pc' = [pc EXCEPT ![t] = "tpRead"]
      BY <1>1, <2>1 DEF Owed
    <2>2. CASE tpMu # NoThread /\ pc' = [pc EXCEPT ![t] = "idle"]
      <3>1. PICK u \in Threads : pc[u] \in {"tpRead", "tpStore"} \cup Offering
        BY <2>2, HolderWorks
      <3>2. pc[t] = "ladder"
        BY <1>15 DEF GridDone, At
      <3>3. pc'[u] = pc[u]
        BY <1>1, <2>2, <3>1, <3>2 DEF Offering
      <3> QED BY <3>1, <3>3 DEF Owed, Busy
    <2> QED BY <1>15, <2>1, <2>2 DEF GridDone, Goto
  <1>16. ASSUME NEW t \in Threads, TPRead(t) \/ TPCheck(t) \/ TPCancel(t) \/ TPPlace(t)
         PROVE  Busy'
    <2>1. phase = "up"
      BY <1>16, OnlyUp
    <2>2. pc'[t] \in Offering \cup {"tpStore"}
      BY <1>1, <1>2, <1>16, <2>1
      DEF TPRead, TPCheck, TPCancel, TPPlace, Goto, Offering, Truthful, Held
    <2> QED BY <2>2 DEF Busy
  \* The order that goes on record rests.
  <1>17. ASSUME NEW t \in Threads, TPStore(t) PROVE Kept'
    <2>1. phase = "up"
      BY <1>17, OnlyUp
    <2>2. /\ UNCHANGED <<orders, phase>> /\ pc[t] = "tpStore" /\ currentTPOrderID' = oid[t]
      BY <1>17, <2>1 DEF TPStore, At, exchange, Held
    <2>3. OpenExits' = OpenExits /\ oid[t] \in OpenExits
      BY <1>3, <2>2 DEF OpenExits, Open, Working
    <2> QED BY <2>2, <2>3 DEF Kept
  <1> QED
    BY <1>1, <1>2, <1>5, <1>6, <1>7, <1>8, <1>9, <1>10, <1>11, <1>12, <1>13, <1>14,
       <1>15, <1>16, <1>17, HeldCases

LEMMA NextGuard ==
  ASSUME Sound, Sound', NothingLost, Cycle, Cycle', StageInCycle, GuardInCycle,
         [CycleNext]_cvars
  PROVE  GuardInCycle'
PROOF
  <1> SUFFICES ASSUME clean', taken' = 0, pos' # 0 PROVE Guarded'
    BY DEF GuardInCycle
  <1>1. Truthful /\ "DropEvent" \notin Env
    BY DEF NothingLost
  <1>2. CASE UNCHANGED cvars
    <2>1. UNCHANGED <<clean, taken, vars>>
      BY <1>2 DEF cvars
    <2>2. UNCHANGED <<pos, orders, fills, phase, currentTPOrderID, gridGo, tpGo, pc,
                      amt, oid>>
      BY <2>1 DEF vars, exchange, memory, pending, locals
    <2>3. Guarded
      BY <2>1, <2>2 DEF GuardInCycle
    <2>4. OpenExits' = OpenExits
      BY <2>2 DEF OpenExits, Open
    <2> QED BY <2>2, <2>3, <2>4 DEF Guarded, Working, Busy, Kept, Owed
  <1>3. CASE Next /\ BaseBought /\ FromRest
    <2>1. NextID \in fills'
      BY <1>1, <1>3, BaseState DEF Emit, FromRest, Running
    <2>2. \A t \in Threads : pc'[t] \in {"idle", "entered"}
      BY <1>1, <1>3, BaseState
    <2> QED BY <2>1, <2>2 DEF Guarded, Working, Owed, Offering
  <1>4. CASE /\ Next /\ ~BaseBought /\ Undisturbed /\ exits' = exits
             /\ clean /\ taken = 0 /\ Held /\ UpRecord
    <2>1. pos # 0
      BY <1>4, BookIsSeq DEF Held
    <2>2. Stage /\ Guarded
      BY <1>4, <2>1 DEF StageInCycle, GuardInCycle
    <2> QED BY <1>4, <2>2, WorkingStays, GuardStays DEF Guarded
  <1> QED BY <1>1, <1>2, <1>3, <1>4, CycleSteps

LEMMA GuardInvariant == NothingLost => (CycleSpec => []GuardInCycle)
PROOF
  <1> SUFFICES ASSUME NothingLost PROVE CycleSpec => []GuardInCycle
    OBVIOUS
  <1>1. CycleInit => GuardInCycle
    BY DEF CycleInit, Init, GuardInCycle
  <1>2. Sound /\ Sound' /\ Cycle /\ Cycle' /\ StageInCycle /\ GuardInCycle
        /\ [CycleNext]_cvars => GuardInCycle'
    BY NextGuard
  <1>3. CycleSpec => []Cycle /\ []StageInCycle
    BY CycleInvariant, StageInvariant DEF NothingLost
  <1> QED BY <1>1, <1>2, <1>3, CycleSound, PTL DEF CycleSpec

\* updateTP offers, or an exit order rests for, exactly what is held.
Covered ==
  \/ \E t \in Threads : pc[t] \in Offering /\ amt[t] = pos
  \/ \E t \in Threads :
       pc[t] = "tpStore" /\ oid[t] \in OpenExits /\ orders[oid[t]].rem = pos
  \/ /\ \A t \in Threads : pc[t] \notin Offering \cup {"tpStore"}
     /\ \E o \in OpenExits :
          orders[o].rem = pos /\ (phase = "up" => o = currentTPOrderID)

CoverInCycle == clean /\ taken = 0 /\ pos # 0 /\ tpSkipCount = 0 => Owed \/ Covered

\* A step that leaves the exit orders and updateTP alone.
LEMMA CoverKept ==
  ASSUME Sound, Sound', Covered, pos' = pos, phase' = phase,
         currentTPOrderID' = currentTPOrderID,
         \A o \in OpenExits : o \in OpenExits' /\ orders'[o].rem = orders[o].rem,
         \A t \in Threads :
           /\ pc[t] \in Offering => pc'[t] \in Offering
           /\ pc[t] = "tpStore" => pc'[t] = "tpStore"
           /\ pc'[t] \in Offering \cup {"tpStore"} => pc[t] \in Offering \cup {"tpStore"}
           /\ amt'[t] = amt[t]
           /\ pc[t] = "tpStore" => oid'[t] = oid[t]
  PROVE  Covered'
PROOF
  <1>1. CASE \E t \in Threads : pc[t] \in Offering /\ amt[t] = pos
    BY <1>1 DEF Covered
  <1>2. CASE \E t \in Threads :
               pc[t] = "tpStore" /\ oid[t] \in OpenExits /\ orders[oid[t]].rem = pos
    <2>1. PICK t \in Threads :
            pc[t] = "tpStore" /\ oid[t] \in OpenExits /\ orders[oid[t]].rem = pos
      BY <1>2
    <2>2. pc'[t] = "tpStore" /\ oid'[t] \in OpenExits' /\ orders'[oid'[t]].rem = pos'
      BY <2>1
    <2> QED BY <2>2 DEF Covered
  <1>3. CASE /\ \A t \in Threads : pc[t] \notin Offering \cup {"tpStore"}
             /\ \E o \in OpenExits :
                  orders[o].rem = pos /\ (phase = "up" => o = currentTPOrderID)
    <2>1. PICK o \in OpenExits :
            orders[o].rem = pos /\ (phase = "up" => o = currentTPOrderID)
      BY <1>3
    <2>2. o \in OpenExits' /\ orders'[o].rem = pos' /\ (phase' = "up" => o = currentTPOrderID')
      BY <2>1
    <2> QED BY <1>3, <2>2 DEF Covered
  <1> QED BY <1>1, <1>2, <1>3 DEF Covered

LEMMA CoverStays ==
  ASSUME Sound, Sound', NothingHidden, Next, Undisturbed, exits' = exits,
         Held, UpRecord, Stage, tpSkipCount' = 0,
         tpSkipCount = 0 => Owed \/ Covered
  PROVE  Owed' \/ Covered'
PROOF
  <1>1. /\ DOMAIN orders = 1 .. Len(orders) /\ pos \in Int /\ pos > 0
        /\ pc \in [Threads -> PC] /\ oid \in [Threads -> 0 .. Len(orders)]
        /\ amt \in [Threads -> Nat]
        /\ gridGo \in Nat /\ tpGo \in Nat /\ tpSkipCount \in Nat
    BY BookIsSeq DEF Held, Sound, TypeOK, MemoryType, LocalType, CountType
  <1>2. Truthful /\ NothingLost /\ "PartialFill" \notin Env /\ "DropEvent" \notin Env
        /\ "PlaceOrder" \notin Env /\ cancelGo = {}
    BY DEF NothingHidden, NothingLost, Stage
  <1>3. ASSUME UNCHANGED <<pos, orders, phase, currentTPOrderID, amt>>,
               Covered,
               \A t \in Threads :
                 /\ pc[t] \in Offering => pc'[t] \in Offering
                 /\ pc[t] = "tpStore" => pc'[t] = "tpStore" /\ oid'[t] = oid[t]
                 /\ pc'[t] \in Offering \cup {"tpStore"}
                    => pc[t] \in Offering \cup {"tpStore"}
        PROVE  Covered'
    <2>1. \A o \in OpenExits : o \in OpenExits' /\ orders'[o].rem = orders[o].rem
      BY <1>3 DEF OpenExits, Open
    <2> QED BY <1>3, <2>1, CoverKept
  \* What starts, syncs or ends the process.
  <1>4. CASE Start
    <2>1. Owed \/ Covered
      BY <1>4 DEF Start, skips
    <2>2. UNCHANGED <<pos, orders, fills, currentTPOrderID, gridGo, tpGo, pc, amt, oid>>
      BY <1>4 DEF Start, exchange, memory, pending, locals
    <2>3. phase # "up" /\ phase' # "up"
      BY <1>4 DEF Start
    <2>4. Owed => Owed'
      BY <2>2 DEF Owed
    <2>5. OpenExits' = OpenExits
      BY <2>2 DEF OpenExits, Open
    <2>6. Covered => Covered'
      BY <2>2, <2>3, <2>5 DEF Covered
    <2> QED BY <2>1, <2>4, <2>6
  <1>5. CASE SyncPosition
    <2>1. Owed \/ Covered
      BY <1>5 DEF SyncPosition, skips
    <2>2. UNCHANGED <<pos, orders, fills, currentTPOrderID, gridGo, tpGo, pc, amt, oid>>
      BY <1>5 DEF SyncPosition, exchange, pending, locals
    <2>3. phase # "up" /\ phase' # "up"
      BY <1>1, <1>2, <1>5 DEF SyncPosition, Truthful
    <2>4. Owed => Owed'
      BY <2>2 DEF Owed
    <2>5. OpenExits' = OpenExits
      BY <2>2 DEF OpenExits, Open
    <2>6. Covered => Covered'
      BY <2>2, <2>3, <2>5 DEF Covered
    <2> QED BY <2>1, <2>4, <2>6
  <1>6. CASE SyncOrders
    <2>1. Owed \/ Covered
      BY <1>6 DEF SyncOrders, skips
    <2>2. UNCHANGED <<pos, orders, fills, gridGo, pc, amt, oid>> /\ phase = "syncing"
      BY <1>6 DEF SyncOrders, exchange, locals
    <2>3. OpenExits' = OpenExits
      BY <2>2 DEF OpenExits, Open
    <2>4. CASE OpenExits = {} /\ tpGo' = tpGo + 1
      BY <1>1, <2>4 DEF Owed
    <2>5. CASE tpGo' = tpGo /\ \E o \in OpenExits : currentTPOrderID' = o
      <3>1. Owed => Owed'
        BY <2>2, <2>5 DEF Owed
      <3>2. ASSUME Covered PROVE Covered'
        <4>1. \A t \in Threads : pc[t] = "idle"
          BY <2>2 DEF Held
        <4>2. PICK o \in OpenExits : orders[o].rem = pos
          BY <3>2, <4>1 DEF Covered, Offering
        <4>3. currentTPOrderID' = o
          BY <2>5 DEF UpRecord, OneExit
        <4>4. \A t \in Threads : pc'[t] \notin Offering \cup {"tpStore"}
          BY <2>2, <4>1 DEF Offering
        <4> QED BY <2>2, <2>3, <4>2, <4>3, <4>4 DEF Covered
      <3> QED BY <2>1, <3>1, <3>2
    <2> QED BY <1>2, <1>6, <2>4, <2>5 DEF SyncOrders, Truthful
  <1>7. CASE Crash
    <2>1. Quiescent /\ tpSkipCount = 0
      BY <1>7 DEF Crash, Undisturbed, Running
    <2>2. ~Owed
      BY <1>1, <2>1 DEF Owed, Quiescent, At, GridSection
    <2>3. PICK o \in OpenExits : orders[o].rem = pos
      BY <2>1, <2>2 DEF Covered, Quiescent, At, Offering
    <2>4. /\ UNCHANGED <<pos, orders>> /\ phase' = "down"
          /\ \A t \in Threads : pc'[t] = "idle"
      BY <1>7 DEF Crash, LoseMemory
    <2>5. OpenExits' = OpenExits
      BY <2>4 DEF OpenExits, Open
    <2> QED BY <2>3, <2>4, <2>5 DEF Covered, Offering
  <1>8. ASSUME ~Crash PROVE tpSkipCount' >= tpSkipCount
    <2>1. \A t \in Threads : ~PanicReprice(t)
      BY <1>2 DEF PanicReprice, Truthful
    <2>2. CASE UNCHANGED tpSkipCount
      BY <1>1, <2>2
    <2>3. CASE \E t \in Threads : GridDone(t)
      BY <1>1, <2>3 DEF GridDone
    <2>4. CASE TPSkip
      BY <1>1, <2>4 DEF TPSkip
    <2>5. ASSUME ~TPSkip, \A t \in Threads : ~GridDone(t) PROVE UNCHANGED tpSkipCount
      BY <1>2, <1>8, <2>5, HeldCases
      DEF Start, SyncPosition, SyncOrders, CooldownOver, GridSkip, vars, CancelNewTP,
          Fill, EnterReturn, StampCooldown, Reprice, GridPrice, GridPlace, TPRead,
          TPCheck, TPCancel, TPPlace, TPStore, GridStart, TPStart, EntryFilled, skips
    <2> QED BY <2>2, <2>3, <2>4, <2>5
  <1>9. ASSUME ~Crash PROVE tpSkipCount = 0 /\ (Owed \/ Covered)
    BY <1>1, <1>8, <1>9
  <1>10. ~TPSkip
    BY <1>1, <1>9 DEF TPSkip, Crash
  <1>11. ~GridSkip
    <2>1. ASSUME gridGo > 0 PROVE gridMu = NoThread
      <3>1. NotYet
        BY <2>1 DEF Stage, Climbing, Complete
      <3>2. \A t \in Threads : pc[t] \in {"idle", "entered"}
        BY <3>1 DEF NotYet
      <3> QED BY <3>2 DEF Sound, TypeOK, LockType, SectionsExclusive, GridSection, TPSection
    <2> QED BY <2>1 DEF GridSkip
  <1>12. CASE CooldownOver \/ UNCHANGED vars
    <2>1. UNCHANGED <<pos, orders, fills, phase, currentTPOrderID, gridGo, tpGo,
                      pc, amt, oid>>
      BY <1>12 DEF CooldownOver, vars, exchange, memory, pending, locals
    <2>2. Owed \/ Covered
      BY <1>9, <2>1 DEF Crash, Running
    <2>3. Covered => Covered'
      BY <1>3, <2>1
    <2>4. Owed => Owed'
      BY <2>1 DEF Owed
    <2> QED BY <2>2, <2>3, <2>4
  \* What is owed is owed until updateTP starts, and a fill owes more.
  <1>13. ASSUME NEW t \in Threads, NEW where, pc' = [pc EXCEPT ![t] = where],
                pc[t] \notin GridSection \cup {"reprice", "tpRead"},
                UNCHANGED <<fills, gridGo, tpGo>>
         PROVE  Owed => Owed'
    BY <1>1, <1>13 DEF Owed
  <1>14. ASSUME NEW o \in DOMAIN orders, Fill(o) PROVE Owed'
    <2>1. PICK n \in 1 .. orders[o].rem :
            /\ orders[o].rem \in Nat /\ pos' = pos + n
            /\ n # orders[o].rem => "PartialFill" \in Env /\ fills' = fills
            /\ n = orders[o].rem => Emit(o)
      BY <1>14, EntryFill
    <2>2. Running
      <3>1. pos' # pos
        BY <1>1, <2>1
      <3> QED BY <3>1 DEF Undisturbed
    <2>3. o \in fills'
      BY <1>2, <2>1, <2>2 DEF Emit
    <2> QED BY <2>3 DEF Owed
  <1>15. ASSUME NEW t \in Threads, EnterReturn(t) \/ StampCooldown(t)
         PROVE  Owed' \/ Covered'
    <2>1. /\ UNCHANGED <<pos, orders, fills, phase, currentTPOrderID, gridGo, tpGo, amt, oid>>
          /\ pc' = [pc EXCEPT ![t] = "idle"] /\ pc[t] \in {"entered", "stamp"}
      BY <1>15 DEF EnterReturn, StampCooldown, Goto, At, exchange, memory, pending, locals
    <2>2. Owed \/ Covered
      BY <1>9, <2>1 DEF Crash, Running
    <2>3. Owed => Owed'
      BY <1>13, <2>1 DEF GridSection
    <2>4. \A u \in Threads : u # t => pc'[u] = pc[u]
      BY <1>1, <2>1
    <2>5. pc'[t] = "idle"
      BY <1>1, <2>1
    <2>6. Covered => Covered'
      BY <1>3, <2>1, <2>4, <2>5 DEF Offering
    <2> QED BY <2>2, <2>3, <2>6
  <1>16. ASSUME NEW t \in Threads, NEW o \in fills, EntryFilled(t, o) PROVE Owed'
    BY <1>1, <1>16 DEF EntryFilled, Goto, Owed
  <1>17. ASSUME NEW t \in Threads, Reprice(t) PROVE Owed'
    BY <1>1, <1>17 DEF Reprice, Owed
  <1>18. ASSUME NEW t \in Threads,
                GridStart(t) \/ GridPrice(t) \/ GridPlace(t) \/ GridDone(t) \/ TPStart(t)
         PROVE  Owed'
    <2>1. pc'[t] \in GridSection \cup {"tpRead"}
      <3>1. CASE GridStart(t) \/ TPStart(t)
        BY <1>1, <3>1 DEF GridStart, TPStart, Goto, GridSection
      <3>2. CASE GridPrice(t) \/ GridPlace(t)
        BY <1>1, <1>2, <3>2 DEF GridPrice, GridPlace, Goto, At, GridSection, Truthful
      <3>3. CASE GridDone(t)
        <4>1. ~Crash
          BY <1>1, <3>3 DEF GridDone, Crash, LoseMemory, bounds, Sound, TypeOK, CountType
        <4>2. tpSkipCount = 0
          BY <1>9, <4>1
        <4> QED BY <1>1, <3>3, <4>2 DEF GridDone, Goto
      <3> QED BY <1>18, <3>1, <3>2, <3>3
    <2> QED BY <2>1 DEF Owed
  <1>19. ASSUME NEW t \in Threads, TPRead(t) PROVE Covered'
    <2>1. /\ amt' = [amt EXCEPT ![t] = TPAmount] /\ pc' = [pc EXCEPT ![t] = "tpCheck"]
          /\ pos' = pos
      BY <1>1, <1>2, <1>19 DEF TPRead, Goto, exchange, Truthful
    <2>2. TPAmount = pos
      BY <1>1 DEF TPAmount
    <2>3. pc'[t] \in Offering /\ amt'[t] = pos'
      BY <1>1, <2>1, <2>2 DEF Offering
    <2> QED BY <2>3 DEF Covered
  \* updateTP is alone, so that it is its own amount that covers.
  <1>20. ASSUME NEW t \in Threads, pc[t] \in Offering, Covered PROVE amt[t] = pos
    <2>1. \A u \in Threads : pc[u] \in Offering \cup {"tpStore"} => u = t
      BY <1>20, Alone DEF Offering, TPSection
    <2> QED BY <1>20, <2>1 DEF Covered, Offering
  <1>21. ASSUME NEW t \in Threads, TPCheck(t) \/ TPCancel(t) PROVE Owed' \/ Covered'
    <2>1. /\ UNCHANGED <<pos, fills, phase, gridGo, tpGo, amt>>
          /\ pc[t] \in {"tpCheck", "tpCancel"}
          /\ \E where \in {"tpCancel", "tpPlace"} : pc' = [pc EXCEPT ![t] = where]
      <3>1. CASE TPCheck(t)
        <4>1. phase = "up"
          BY <3>1, OnlyUp
        <4>2. currentState # "IDLE"
          BY <4>1 DEF Held
        <4> QED BY <3>1, <4>2 DEF TPCheck, Goto, At, exchange, pending
      <3>2. CASE TPCancel(t)
        BY <3>2 DEF TPCancel, Goto, At, pending
      <3> QED BY <1>21, <3>1, <3>2
    <2>2. Owed \/ Covered
      BY <1>9, <2>1 DEF Crash, Running
    <2>3. Owed => Owed'
      BY <1>13, <2>1 DEF GridSection
    <2>4. ASSUME Covered PROVE Covered'
      <3>1. amt'[t] = pos' /\ pc'[t] \in Offering
        BY <1>1, <1>20, <2>1, <2>4 DEF Offering
      <3> QED BY <3>1 DEF Covered
    <2> QED BY <2>2, <2>3, <2>4
  <1>22. ASSUME NEW t \in Threads, TPPlace(t) PROVE Owed' \/ Covered'
    <2>1. /\ UNCHANGED <<pos, fills, phase, gridGo, tpGo>> /\ pc[t] = "tpPlace"
          /\ Place("exit", amt[t]) /\ oid' = [oid EXCEPT ![t] = NextID]
          /\ pc' = [pc EXCEPT ![t] = "tpStore"]
      BY <1>2, <1>22 DEF TPPlace, Goto, At, pending, Truthful
    <2>2. Owed \/ Covered
      BY <1>9, <2>1 DEF Crash, Running
    <2>3. Owed => Owed'
      BY <1>13, <2>1 DEF GridSection
    <2>4. ASSUME Covered PROVE Covered'
      <3>1. amt[t] = pos /\ amt[t] \in Nat
        BY <1>1, <1>20, <2>1, <2>4 DEF Offering
      <3>2. /\ orders'[NextID] = [side |-> "exit", rem |-> amt[t]]
            /\ DOMAIN orders' = 1 .. Len(orders')
            /\ Len(orders') = Len(orders) + 1 /\ Len(orders) \in Nat
        BY <2>1, <3>1, NewExit, BookIsSeq, PlaceAppends, LenProperties DEF Sides
      <3>3. orders'[NextID].side = "exit" /\ orders'[NextID].rem = pos'
        BY <2>1, <3>1, <3>2
      <3>4. NextID \in OpenExits'
        BY <1>1, <2>1, <3>2, <3>3 DEF OpenExits, Open, NextID
      <3>5. oid'[t] = NextID /\ pc'[t] = "tpStore"
        BY <1>1, <2>1
      <3> QED BY <3>3, <3>4, <3>5 DEF Covered
    <2> QED BY <2>2, <2>3, <2>4
  <1>23. ASSUME NEW t \in Threads, TPStore(t) PROVE Owed' \/ Covered'
    <2>1. phase = "up" /\ currentState # "IDLE"
      <3>1. phase = "up"
        BY <1>23, OnlyUp
      <3> QED BY <3>1 DEF Held
    <2>2. /\ UNCHANGED <<pos, orders, fills, phase, gridGo, tpGo>> /\ pc[t] = "tpStore"
          /\ currentTPOrderID' = oid[t] /\ pc' = [pc EXCEPT ![t] = "idle"]
      BY <1>23, <2>1 DEF TPStore, ReturnTP, Goto, At, exchange
    <2>3. Owed \/ Covered
      BY <1>9, <2>1, <2>2 DEF Crash
    <2>4. Owed => Owed'
      BY <1>13, <2>2 DEF GridSection
    <2>5. ASSUME Covered PROVE Covered'
      <3>1. \A u \in Threads : pc[u] \in Offering \cup {"tpStore"} => u = t
        BY <2>2, Alone DEF Offering, TPSection
      <3>2. oid[t] \in OpenExits /\ orders[oid[t]].rem = pos
        BY <2>2, <2>5, <3>1 DEF Covered, Offering
      <3>3. OpenExits' = OpenExits
        BY <2>2 DEF OpenExits, Open
      <3>4. \A u \in Threads : pc'[u] \notin Offering \cup {"tpStore"}
        BY <1>1, <2>2, <3>1 DEF Offering
      <3> QED BY <2>2, <3>2, <3>3, <3>4 DEF Covered
    <2> QED BY <2>3, <2>4, <2>5
  <1> QED
    BY <1>2, <1>4, <1>5, <1>6, <1>7, <1>10, <1>11, <1>12, <1>14, <1>15, <1>16, <1>17,
       <1>18, <1>19, <1>21, <1>22, <1>23, HeldCases

LEMMA NextCover ==
  ASSUME Sound, Sound', NothingHidden, Cycle, Cycle', StageInCycle, CoverInCycle,
         [CycleNext]_cvars
  PROVE  CoverInCycle'
PROOF
  <1> SUFFICES ASSUME clean', taken' = 0, pos' # 0, tpSkipCount' = 0
               PROVE  Owed' \/ Covered'
    BY DEF CoverInCycle
  <1>1. Truthful /\ "DropEvent" \notin Env
    BY DEF NothingHidden, NothingLost
  <1>2. CASE UNCHANGED cvars
    <2>1. UNCHANGED <<clean, taken, vars>>
      BY <1>2 DEF cvars
    <2>2. UNCHANGED <<pos, orders, fills, phase, currentTPOrderID, tpSkipCount, gridGo,
                      tpGo, pc, amt, oid>>
      BY <2>1 DEF vars, exchange, memory, skips, pending, locals
    <2>3. Owed \/ Covered
      BY <2>1, <2>2 DEF CoverInCycle
    <2>4. OpenExits' = OpenExits
      BY <2>2 DEF OpenExits, Open
    <2> QED BY <2>2, <2>3, <2>4 DEF Owed, Covered
  <1>3. CASE Next /\ BaseBought /\ FromRest
    <2>1. NextID \in fills'
      BY <1>1, <1>3, BaseState DEF Emit, FromRest, Running
    <2> QED BY <2>1 DEF Owed
  <1>4. CASE /\ Next /\ ~BaseBought /\ Undisturbed /\ exits' = exits
             /\ clean /\ taken = 0 /\ Held /\ UpRecord
    <2>1. pos # 0
      BY <1>4, BookIsSeq DEF Held
    <2>2. Stage /\ (tpSkipCount = 0 => Owed \/ Covered)
      BY <1>4, <2>1 DEF StageInCycle, CoverInCycle
    <2> QED BY <1>4, <2>2, CoverStays
  <1> QED BY <1>1, <1>2, <1>3, <1>4, CycleSteps

LEMMA CoverInvariant == NothingHidden => (CycleSpec => []CoverInCycle)
PROOF
  <1> SUFFICES ASSUME NothingHidden PROVE CycleSpec => []CoverInCycle
    OBVIOUS
  <1>1. CycleInit => CoverInCycle
    BY DEF CycleInit, Init, CoverInCycle
  <1>2. Sound /\ Sound' /\ Cycle /\ Cycle' /\ StageInCycle /\ CoverInCycle
        /\ [CycleNext]_cvars => CoverInCycle'
    BY NextCover
  <1>3. CycleSpec => []Cycle /\ []StageInCycle
    BY CycleInvariant, StageInvariant DEF NothingHidden, NothingLost
  <1> QED BY <1>1, <1>2, <1>3, CycleSound, PTL DEF CycleSpec

\* At rest, with a position of which nothing was sold, the exit order on record
\* is the only one there is, whatever the order of fills, updates and a restart
\* and whichever updates were skipped; and it offers exactly what is held, if
\* the TryLock of updateTP never failed.
THEOREM RestIsProtected == NothingHidden => (CycleSpec => []RestIsCovered)
PROOF
  <1> SUFFICES ASSUME NothingHidden PROVE CycleSpec => []RestIsCovered
    OBVIOUS
  <1>1. Sound /\ Cycle /\ GuardInCycle /\ CoverInCycle => RestIsCovered
    <2> SUFFICES ASSUME Sound, Cycle, GuardInCycle, CoverInCycle, clean, taken = 0,
                        Quiescent, pos # 0
                 PROVE  /\ OpenExits = {currentTPOrderID}
                        /\ tpSkipCount = 0 => orders[currentTPOrderID].rem = pos
      BY DEF RestIsCovered
    <2>1. ~Owed
      BY BookIsSeq DEF Owed, Quiescent, At, GridSection, Sound, TypeOK, MemoryType
    <2>2. phase = "up" /\ \A t \in Threads : pc[t] = "idle"
      BY DEF Quiescent, At
    <2>3. ~Busy
      BY <2>2 DEF Busy, Offering
    <2>4. currentTPOrderID \in OpenExits
      BY <2>1, <2>2, <2>3 DEF GuardInCycle, Guarded, Kept
    <2>5. OneExit
      BY DEF Cycle, Blank, UpRecord
    <2>6. tpSkipCount = 0 => orders[currentTPOrderID].rem = pos
      BY <2>1, <2>2 DEF CoverInCycle, Covered, Offering
    <2> QED BY <2>4, <2>5, <2>6 DEF OneExit
  <1>2. CycleSpec => []Cycle /\ []GuardInCycle
    BY CycleInvariant, GuardInvariant DEF NothingHidden, NothingLost
  <1> QED BY <1>1, <1>2, CycleSound, CoverInvariant, PTL
===============================================================================
