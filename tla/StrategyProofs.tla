---------------------------- MODULE StrategyProofs ----------------------------
(***************************************************************************)
(* Strategy for every number of goroutines, every ladder, every bound and  *)
(* every combination of errors of the exchange.                            *)
(***************************************************************************)
EXTENDS StrategyProperties, SequenceTheorems, TLAPS

-------------------------------------------------------------------------------
(* The order book *)

\* A new order gets the next id and leaves the others as they are.
LEMMA PlaceAppends ==
  ASSUME orders \in Seq(Order), NEW side \in Sides, NEW rem \in Nat,
         Place(side, rem)
  PROVE  /\ orders' \in Seq(Order)
         /\ Len(orders') = Len(orders) + 1 /\ Len(orders) \in Nat
         /\ \A i \in 1 .. Len(orders) : orders'[i] = orders[i]
         /\ orders'[Len(orders) + 1] = [side |-> side, rem |-> rem]
PROOF
  <1> DEFINE e == [side |-> side, rem |-> rem]
  <1>1. e \in Order
    BY DEF Order
  <1>2. orders' = Append(orders, e)
    BY DEF Place
  <1> HIDE DEF e
  <1>3. Len(orders) \in Nat
    BY LenProperties
  <1>4. /\ Append(orders, e) \in Seq(Order)
        /\ Len(Append(orders, e)) = Len(orders) + 1
        /\ \A i \in 1 .. Len(orders) : Append(orders, e)[i] = orders[i]
        /\ Append(orders, e)[Len(orders) + 1] = e
    BY <1>1, AppendProperties
  <1> QED BY <1>2, <1>3, <1>4 DEF e

\* What replacing quantities does to the book: nothing but that.
SameSides ==
  /\ orders' \in Seq(Order)
  /\ Len(orders') = Len(orders) /\ Len(orders) \in Nat
  /\ \A i \in 1 .. Len(orders) : orders'[i].side = orders[i].side

LEMMA ReplaceKeepsSides ==
  ASSUME orders \in Seq(Order), NEW o \in 1 .. Len(orders), NEW r \in Nat,
         orders' = [orders EXCEPT ![o].rem = r]
  PROVE  /\ SameSides
         /\ orders'[o].rem = r
         /\ \A i \in 1 .. Len(orders) : i # o => orders'[i] = orders[i]
PROOF
  <1> DEFINE e == [orders[o] EXCEPT !.rem = r]
  <1>1. orders[o] \in Order
    BY ElementOfSeq
  <1>2. e \in Order /\ e.side = orders[o].side /\ e.rem = r
    BY <1>1 DEF Order
  <1>3. orders' = [orders EXCEPT ![o] = e]
    BY <1>1
  <1> HIDE DEF e
  <1>4. /\ [orders EXCEPT ![o] = e] \in Seq(Order)
        /\ Len([orders EXCEPT ![o] = e]) = Len(orders)
        /\ \A j \in 1 .. Len(orders) :
             [orders EXCEPT ![o] = e][j] = IF j = o THEN e ELSE orders[j]
    BY <1>2, ExceptSeq
  <1>5. Len(orders) \in Nat
    BY LenProperties
  <1> QED BY <1>2, <1>3, <1>4, <1>5 DEF SameSides

LEMMA WithdrawKeepsSides ==
  ASSUME orders \in Seq(Order), NEW o \in 1 .. Len(orders), Withdraw(o)
  PROVE  /\ SameSides
         /\ orders'[o].rem = 0
         /\ \A i \in 1 .. Len(orders) : i # o => orders'[i] = orders[i]
  BY ReplaceKeepsSides DEF Withdraw

LEMMA WipeKeepsSides ==
  ASSUME orders \in Seq(Order),
         orders' = [o \in DOMAIN orders |-> [orders[o] EXCEPT !.rem = 0]]
  PROVE  SameSides /\ \A i \in 1 .. Len(orders) : orders'[i].rem = 0
PROOF
  <1>1. DOMAIN orders = 1 .. Len(orders) /\ Len(orders) \in Nat
    BY LenProperties
  <1>2. \A i \in 1 .. Len(orders) : orders[i] \in Order
    BY ElementOfSeq
  <1>3. \A i \in 1 .. Len(orders) :
          /\ orders'[i] \in Order
          /\ orders'[i].side = orders[i].side
          /\ orders'[i].rem = 0
    BY <1>1, <1>2 DEF Order
  <1>4. orders' \in [1 .. Len(orders) -> Order]
    BY <1>1, <1>3
  <1>5. orders' \in Seq(Order)
    BY <1>1, <1>4
  <1>6. Len(orders') = Len(orders)
    BY <1>1, <1>4, <1>5, LenProperties
  <1> QED BY <1>1, <1>3, <1>5, <1>6 DEF SameSides

-------------------------------------------------------------------------------
(* Next, taken apart *)

LEMMA NextCases ==
  ASSUME [Next]_vars
  PROVE  \/ Start \/ SyncPosition \/ SyncOrders
         \/ \E t \in Threads :
              \/ HandleTick(t)
              \/ EnterPosition(t) \/ EnterReturn(t) \/ EnterFail(t)
              \/ StampCooldown(t)
         \/ \E t \in Threads, o \in fills : EntryFilled(t, o) \/ ExitFilled(t, o)
         \/ \E t \in Threads :
              \/ Reprice(t) \/ ExitClose(t) \/ CancelAllOrders(t)
              \/ ExitStillOpen(t)
         \/ \E t \in Threads : GridPrice(t) \/ GridPlace(t) \/ GridDone(t)
         \/ \E t \in Threads :
              \/ TPRead(t) \/ TPFlat(t) \/ TPCheck(t)
              \/ TPCancel(t) \/ TPPlace(t) \/ TPStore(t)
         \/ \E t \in Threads : GridStart(t) \/ TPStart(t)
         \/ GridSkip \/ TPSkip
         \/ \E o \in cancelGo : CancelNewTP(o)
         \/ CooldownOver
         \/ \E o \in DOMAIN orders : Fill(o)
         \/ ManualExit \/ Crash
         \/ \E t \in Threads : PanicReprice(t)
         \/ UNCHANGED vars
  BY Zenon DEF Next, Sync, EnterStep, HandlerStep, GridStep, TPStep, Spawned,
            HandleOrderUpdate, Wait

-------------------------------------------------------------------------------
(* Mutual exclusion: it needs no more than the types of its three variables. *)

Locks == LockType /\ SectionsExclusive

LEMMA InitLocks == Init => Locks
  BY StrategyAssumption
  DEF Init, Locks, LockType, SectionsExclusive, PC, TPSection, GridSection

LEMMA NextLocks == Locks /\ [Next]_vars => Locks'
PROOF
  <1> SUFFICES ASSUME Locks, [Next]_vars PROVE Locks'
    OBVIOUS
  <1> USE StrategyAssumption
      DEF Locks, LockType, SectionsExclusive, PC, TPSection, GridSection,
          Handling, Goto, At, mutexes, vars
  <1>1. CASE UNCHANGED <<pc, gridMu, tpMu>>
    BY <1>1
  <1>2. CASE Start \/ SyncPosition \/ SyncOrders \/ GridSkip \/ TPSkip
             \/ CooldownOver \/ ManualExit \/ UNCHANGED vars
    BY <1>1, <1>2 DEF Start, SyncPosition, SyncOrders, GridSkip, TPSkip,
                      CooldownOver, ManualExit
  <1>3. CASE (\E o \in cancelGo : CancelNewTP(o)) \/ (\E o \in DOMAIN orders : Fill(o))
    BY <1>1, <1>3 DEF CancelNewTP, Fill
  <1>4. ASSUME NEW t \in Threads,
               HandleTick(t) \/ EnterPosition(t) \/ EnterReturn(t)
               \/ EnterFail(t) \/ StampCooldown(t)
        PROVE  Locks'
    BY <1>4 DEF HandleTick, EnterPosition, EnterReturn, EnterFail, StampCooldown
  <1>5. ASSUME NEW t \in Threads, NEW o \in fills, EntryFilled(t, o) \/ ExitFilled(t, o)
        PROVE  Locks'
    BY <1>5 DEF EntryFilled, ExitFilled
  <1>6. ASSUME NEW t \in Threads,
               Reprice(t) \/ ExitClose(t) \/ CancelAllOrders(t) \/ ExitStillOpen(t)
        PROVE  Locks'
    BY <1>6 DEF Reprice, ExitClose, CancelAllOrders, ExitStillOpen
  <1>7. ASSUME NEW t \in Threads, GridPrice(t) \/ GridPlace(t) \/ GridDone(t)
        PROVE  Locks'
    BY <1>7 DEF GridPrice, GridPlace, GridDone
  <1>8. ASSUME NEW t \in Threads, GridStart(t) \/ TPStart(t)
        PROVE  Locks'
    BY <1>8 DEF GridStart, TPStart
  <1>9. ASSUME NEW t \in Threads, TPFlat(t) \/ TPStore(t)
        PROVE  Locks'
    BY <1>9 DEF TPFlat, TPStore, ReturnTP
  <1>10. ASSUME NEW t \in Threads, TPRead(t) \/ TPCheck(t)
         PROVE  Locks'
    BY <1>10 DEF TPRead, TPCheck, ReturnTP
  <1>11. ASSUME NEW t \in Threads, TPCancel(t) \/ TPPlace(t)
         PROVE  Locks'
    BY <1>11 DEF TPCancel, TPPlace, ReturnTP
  <1>12. ASSUME Crash \/ \E t \in Threads : PanicReprice(t)
         PROVE  Locks'
    BY <1>12 DEF Crash, PanicReprice, LoseMemory
  <1> QED
    BY <1>2, <1>3, <1>4, <1>5, <1>6, <1>7, <1>8, <1>9, <1>10, <1>11, <1>12, NextCases

\* Never two goroutines in updateTP, never two in placeGridOrders, and every
\* return path gives back exactly what it took.
THEOREM MutualExclusion == Spec => []SectionsExclusive
PROOF
  <1>1. Locks => SectionsExclusive
    BY DEF Locks
  <1> QED BY <1>1, InitLocks, NextLocks, PTL DEF Spec

-------------------------------------------------------------------------------
(* Types, one group of variables after the other *)

LEMMA InitTypes == Init => TypeOK
PROOF
  <1> SUFFICES ASSUME Init PROVE TypeOK
    OBVIOUS
  <1>1. <<>> \in Seq(Order) /\ Len(<<>>) = 0
    BY EmptySeq
  <1>2. BookType
    BY <1>1 DEF Init, BookType
  <1>3. MemoryType
    BY DEF Init, MemoryType, Phases, States
  <1>4. FlagType
    BY Zenon DEF Init, FlagType
  <1>5. CountType
    BY DEF Init, CountType
  <1>6. LockType
    BY DEF Init, LockType, PC
  <1>7. LocalType
    BY StrategyAssumption DEF Init, LocalType
  <1>8. IdType
    BY <1>1 DEF Init, IdType
  <1> QED BY <1>2, <1>3, <1>4, <1>5, <1>6, <1>7, <1>8 DEF TypeOK

LEMMA NextFlag == FlagType /\ [Next]_vars => FlagType'
PROOF
  <1> SUFFICES ASSUME FlagType, [Next]_vars PROVE FlagType'
    OBVIOUS
  <1> USE DEF FlagType
  <1>1. CASE UNCHANGED cooling
    BY Zenon, <1>1
  <1>2. ASSUME NEW t \in Threads, StampCooldown(t) PROVE FlagType'
    BY Zenon, <1>2 DEF StampCooldown
  <1>3. CASE CooldownOver
    BY Zenon, <1>3 DEF CooldownOver
  <1>4. CASE Crash \/ \E t \in Threads : PanicReprice(t)
    BY Zenon, <1>4 DEF Crash, PanicReprice, LoseMemory
  <1>5. CASE Start \/ SyncPosition \/ SyncOrders \/ GridSkip \/ TPSkip
             \/ ManualExit \/ UNCHANGED vars
             \/ (\E o \in cancelGo : CancelNewTP(o))
             \/ (\E o \in DOMAIN orders : Fill(o))
    BY <1>1, <1>5 DEF Start, SyncPosition, SyncOrders, GridSkip, TPSkip,
                      ManualExit, CancelNewTP, Fill, vars, memory
  <1>6. ASSUME NEW t \in Threads,
               \/ HandleTick(t) \/ EnterPosition(t) \/ EnterReturn(t)
               \/ EnterFail(t) \/ Reprice(t) \/ ExitClose(t)
               \/ CancelAllOrders(t) \/ ExitStillOpen(t)
               \/ \E o \in fills : EntryFilled(t, o) \/ ExitFilled(t, o)
        PROVE  FlagType'
    BY <1>1, <1>6
    DEF HandleTick, EnterPosition, EnterReturn, EnterFail, Reprice, ExitClose,
        CancelAllOrders, ExitStillOpen, EntryFilled, ExitFilled, memory
  <1>7. ASSUME NEW t \in Threads,
               \/ GridStart(t) \/ GridPrice(t) \/ GridPlace(t) \/ GridDone(t)
               \/ TPStart(t) \/ TPRead(t) \/ TPFlat(t) \/ TPCheck(t)
               \/ TPCancel(t) \/ TPPlace(t) \/ TPStore(t)
        PROVE  FlagType'
    BY <1>1, <1>7
    DEF GridStart, GridPrice, GridPlace, GridDone, TPStart, TPRead, TPFlat, TPCheck,
        TPCancel, TPPlace, TPStore, memory
  <1> QED BY <1>2, <1>3, <1>4, <1>5, <1>6, <1>7, NextCases

LEMMA NextMemory == BookType /\ MemoryType /\ [Next]_vars => MemoryType'
PROOF
  <1> SUFFICES ASSUME BookType, MemoryType, [Next]_vars PROVE MemoryType'
    OBVIOUS
  <1> USE DEF MemoryType, Phases, States
  <1>1. CASE UNCHANGED <<phase, memory, skips, pending>>
    BY <1>1 DEF memory, skips, pending
  <1>2. CASE Start
    BY <1>2 DEF Start, memory, skips, pending
  <1>3. CASE SyncPosition
    BY <1>3 DEF SyncPosition, BookType, skips, pending
  <1>4. CASE SyncOrders
    BY <1>4 DEF SyncOrders, skips
  <1>5. CASE CooldownOver
    BY <1>5 DEF CooldownOver, skips, pending
  <1>6. CASE GridSkip \/ TPSkip
    BY <1>6 DEF GridSkip, TPSkip, memory
  <1>7. ASSUME NEW t \in Threads,
               HandleTick(t) \/ EnterReturn(t) \/ EnterFail(t) \/ StampCooldown(t)
        PROVE  MemoryType'
    BY <1>7 DEF HandleTick, EnterReturn, EnterFail, StampCooldown, skips, pending
  <1>8. ASSUME NEW t \in Threads, NEW o \in fills, EntryFilled(t, o)
        PROVE  MemoryType'
    BY <1>8 DEF EntryFilled, skips
  <1>9. ASSUME NEW t \in Threads, Reprice(t) \/ ExitClose(t) \/ ExitStillOpen(t)
        PROVE  MemoryType'
    BY <1>9 DEF Reprice, ExitClose, ExitStillOpen, memory, skips, pending
  <1>10. ASSUME NEW t \in Threads, GridStart(t) \/ TPStart(t) \/ GridDone(t)
         PROVE  MemoryType'
    BY <1>10 DEF GridStart, TPStart, GridDone, memory, skips, pending
  <1>11. ASSUME NEW t \in Threads, TPFlat(t) \/ TPStore(t)
         PROVE  MemoryType'
    BY <1>11 DEF TPFlat, TPStore, skips, pending
  <1>12. CASE \E o \in cancelGo : CancelNewTP(o)
    BY <1>12 DEF CancelNewTP, memory, skips
  <1>13. CASE ManualExit \/ UNCHANGED vars \/ \E o \in DOMAIN orders : Fill(o)
    BY <1>1, <1>13 DEF ManualExit, Fill, vars
  <1>14. ASSUME NEW t \in Threads,
                \/ EnterPosition(t) \/ CancelAllOrders(t) \/ GridPrice(t)
                \/ GridPlace(t) \/ TPRead(t) \/ TPCheck(t) \/ TPCancel(t)
                \/ TPPlace(t) \/ \E o \in fills : ExitFilled(t, o)
         PROVE  MemoryType'
    BY <1>1, <1>14 DEF EnterPosition, CancelAllOrders, GridPrice, GridPlace, TPRead,
                       TPCheck, TPCancel, TPPlace, ExitFilled
  <1>15. CASE Crash
    BY <1>15 DEF Crash, LoseMemory
  <1>16. ASSUME NEW t \in Threads, PanicReprice(t) PROVE MemoryType'
    BY <1>16 DEF PanicReprice, LoseMemory
  <1> QED
    BY <1>2, <1>3, <1>4, <1>5, <1>6, <1>7, <1>8, <1>9, <1>10, <1>11, <1>12, <1>13,
       <1>14, <1>15, <1>16, NextCases

LEMMA NextLocal == BookType /\ LocalType /\ [Next]_vars => LocalType'
PROOF
  <1> SUFFICES ASSUME BookType, LocalType, [Next]_vars PROVE LocalType'
    OBVIOUS
  <1> USE StrategyAssumption DEF LocalType
  <1>1. CASE UNCHANGED locals
    BY <1>1 DEF locals
  <1>2. CASE \/ Start \/ SyncPosition \/ SyncOrders \/ CooldownOver
             \/ GridSkip \/ TPSkip \/ ManualExit \/ UNCHANGED vars
             \/ (\E o \in cancelGo : CancelNewTP(o))
             \/ (\E o \in DOMAIN orders : Fill(o))
    BY <1>1, <1>2 DEF Start, SyncPosition, SyncOrders, CooldownOver, GridSkip,
                      TPSkip, ManualExit, CancelNewTP, Fill, vars
  <1>3. ASSUME NEW t \in Threads,
               \/ HandleTick(t) \/ EnterPosition(t) \/ EnterReturn(t)
               \/ EnterFail(t) \/ StampCooldown(t)
               \/ Reprice(t) \/ ExitClose(t) \/ CancelAllOrders(t)
               \/ ExitStillOpen(t) \/ TPStart(t)
               \/ \E o \in fills : EntryFilled(t, o) \/ ExitFilled(t, o)
        PROVE  LocalType'
    BY <1>1, <1>3
    DEF HandleTick, EnterPosition, EnterReturn, EnterFail, StampCooldown, Reprice,
        ExitClose, CancelAllOrders, ExitStillOpen, TPStart, EntryFilled, ExitFilled
  <1>4. ASSUME NEW t \in Threads, GridStart(t) \/ GridPrice(t) \/ GridPlace(t)
                                  \/ GridDone(t)
        PROVE  LocalType'
    BY <1>4 DEF GridStart, GridPrice, GridPlace, GridDone
  <1>5. ASSUME NEW t \in Threads, TPRead(t) PROVE LocalType'
    <2>1. TPAmount \in Nat
      BY DEF BookType, TPAmount
    <2> QED BY <1>5, <2>1 DEF TPRead, TPAmount, ReturnTP
  <1>6. ASSUME NEW t \in Threads, TPFlat(t) \/ TPCheck(t) \/ TPCancel(t)
                                  \/ TPPlace(t) \/ TPStore(t)
        PROVE  LocalType'
    BY <1>6 DEF TPFlat, TPCheck, TPCancel, TPPlace, TPStore, ReturnTP
  <1>7. ASSUME Crash \/ \E t \in Threads : PanicReprice(t)
        PROVE  LocalType'
    BY <1>7 DEF Crash, PanicReprice, LoseMemory
  <1> QED
    BY <1>2, <1>3, <1>4, <1>5, <1>6, <1>7, NextCases

LEMMA NextCount == CountType /\ [Next]_vars => CountType'
PROOF
  <1> SUFFICES ASSUME CountType, [Next]_vars PROVE CountType'
    OBVIOUS
  <1> USE DEF CountType
  <1>1. CASE UNCHANGED bounds
    BY <1>1 DEF bounds
  <1>2. CASE \/ Start \/ SyncPosition \/ SyncOrders \/ CooldownOver
             \/ GridSkip \/ TPSkip \/ UNCHANGED vars
             \/ \E o \in cancelGo : CancelNewTP(o)
    BY <1>1, <1>2 DEF Start, SyncPosition, SyncOrders, CooldownOver, GridSkip,
                      TPSkip, CancelNewTP, vars
  <1>3. ASSUME NEW t \in Threads,
               \/ EnterPosition(t) \/ EnterReturn(t)
               \/ EnterFail(t) \/ StampCooldown(t)
               \/ Reprice(t) \/ ExitClose(t) \/ CancelAllOrders(t)
               \/ ExitStillOpen(t)
               \/ \E o \in fills : EntryFilled(t, o) \/ ExitFilled(t, o)
        PROVE  CountType'
    BY <1>1, <1>3
    DEF EnterPosition, EnterReturn, EnterFail, StampCooldown, Reprice, ExitClose,
        CancelAllOrders, ExitStillOpen, EntryFilled, ExitFilled
  <1>4. ASSUME NEW t \in Threads,
               \/ GridStart(t) \/ GridPrice(t) \/ GridPlace(t) \/ GridDone(t)
               \/ TPStart(t) \/ TPRead(t) \/ TPFlat(t) \/ TPCheck(t)
               \/ TPCancel(t) \/ TPPlace(t) \/ TPStore(t) \/ PanicReprice(t)
        PROVE  CountType'
    BY <1>1, <1>4
    DEF GridStart, GridPrice, GridPlace, GridDone, TPStart, TPRead, TPFlat, TPCheck,
        TPCancel, TPPlace, TPStore, PanicReprice
  <1>5. CASE (\E t \in Threads : HandleTick(t)) \/ ManualExit \/ Crash
             \/ \E o \in DOMAIN orders : Fill(o)
    BY <1>5 DEF HandleTick, ManualExit, Crash, Fill
  <1> QED BY <1>2, <1>3, <1>4, <1>5, NextCases

\* What a goroutine refers to while it is on its way: a rung of the ladder, an
\* order it is going to cancel or to store.
InHand ==
  \A t \in Threads :
    /\ pc[t] \in {"tpCancel", "tpStore"} => oid[t] # 0
    /\ pc[t] = "ladder" => level[t] # 0

LEMMA NextHand ==
  BookType /\ LockType /\ LocalType /\ IdType /\ InHand /\ [Next]_vars => InHand'
PROOF
  <1> SUFFICES ASSUME BookType, LockType, LocalType, IdType, InHand, [Next]_vars
               PROVE  InHand'
    OBVIOUS
  <1> USE DEF InHand, LockType, LocalType, Goto, At
  <1>1. CASE UNCHANGED <<pc, oid, level>>
    BY <1>1
  <1>2. CASE \/ Start \/ SyncPosition \/ SyncOrders \/ CooldownOver
             \/ GridSkip \/ TPSkip \/ ManualExit \/ UNCHANGED vars
             \/ (\E o \in cancelGo : CancelNewTP(o))
             \/ (\E o \in DOMAIN orders : Fill(o))
    BY <1>1, <1>2 DEF Start, SyncPosition, SyncOrders, CooldownOver, GridSkip,
                      TPSkip, ManualExit, CancelNewTP, Fill, vars, locals
  <1>3. ASSUME NEW t \in Threads,
               \/ HandleTick(t) \/ EnterPosition(t) \/ EnterReturn(t)
               \/ EnterFail(t) \/ StampCooldown(t)
        PROVE  InHand'
    BY <1>3 DEF HandleTick, EnterPosition, EnterReturn, EnterFail, StampCooldown,
                locals
  <1>4. ASSUME NEW t \in Threads,
               \/ Reprice(t) \/ ExitClose(t) \/ CancelAllOrders(t)
               \/ ExitStillOpen(t) \/ TPStart(t)
        PROVE  InHand'
    BY <1>4 DEF Reprice, ExitClose, CancelAllOrders, ExitStillOpen, TPStart, locals
  <1>5. ASSUME NEW t \in Threads, NEW o \in fills, EntryFilled(t, o) \/ ExitFilled(t, o)
        PROVE  InHand'
    BY <1>5 DEF EntryFilled, ExitFilled, locals
  <1>6. ASSUME NEW t \in Threads, GridStart(t) \/ GridPrice(t)
        PROVE  InHand'
    BY <1>6 DEF GridStart, GridPrice
  <1>7. ASSUME NEW t \in Threads, GridPlace(t) \/ GridDone(t)
        PROVE  InHand'
    BY <1>7, StrategyAssumption DEF GridPlace, GridDone
  <1>8. ASSUME NEW t \in Threads, TPRead(t) \/ TPFlat(t) \/ TPCancel(t) \/ TPStore(t)
        PROVE  InHand'
    <2>1. CASE TPRead(t)
      <3>1. CASE UNCHANGED oid /\ pc' \in {[pc EXCEPT ![t] = w] : w \in {"tpFlat", "tpCheck"}}
        BY <2>1, <3>1 DEF TPRead
      <3>2. CASE ReturnTP(t)
        BY <2>1, <3>2 DEF TPRead, ReturnTP
      <3> QED BY <2>1, <3>1, <3>2 DEF TPRead
    <2>2. CASE TPFlat(t)
      BY <2>2 DEF TPFlat, ReturnTP
    <2>3. CASE TPCancel(t)
      BY <2>3 DEF TPCancel
    <2>4. CASE TPStore(t)
      BY <2>4 DEF TPStore, ReturnTP
    <2> QED BY <1>8, <2>1, <2>2, <2>3, <2>4
  <1>9. ASSUME NEW t \in Threads, TPCheck(t) PROVE InHand'
    BY <1>9 DEF TPCheck, ReturnTP, IdType
  <1>10. ASSUME NEW t \in Threads, TPPlace(t) PROVE InHand'
    <2>1. NextID # 0
      BY LenProperties DEF NextID, BookType
    <2> QED BY <1>10, <2>1 DEF TPPlace, ReturnTP, IdType
  <1>11. CASE Crash
    BY <1>11 DEF Crash, LoseMemory
  <1>12. ASSUME NEW t \in Threads, PanicReprice(t) PROVE InHand'
    BY <1>12 DEF PanicReprice, LoseMemory
  <1> QED
    BY <1>2, <1>3, <1>4, <1>5, <1>6, <1>7, <1>8, <1>9, <1>10, <1>11, <1>12, NextCases

\* Orders are added to the book and change their quantities: an id never
\* disappears and never changes sides.
Grows ==
  /\ orders' \in Seq(Order)
  /\ Len(orders) \in Nat /\ Len(orders') \in Nat /\ Len(orders) <= Len(orders')
  /\ \A i \in 1 .. Len(orders) : orders'[i].side = orders[i].side

LEMMA EmitKnown ==
  ASSUME NEW n \in Nat, fills \subseteq 1 .. n, NEW o \in 1 .. n, Emit(o)
  PROVE  fills' \subseteq 1 .. n
  BY DEF Emit

LEMMA NextBook ==
  ASSUME BookType, LockType, LocalType, IdType, InHand, [Next]_vars
  PROVE  BookType' /\ Grows
PROOF
  <1>1. orders \in Seq(Order) /\ Len(orders) \in Nat /\ DOMAIN orders = 1 .. Len(orders)
    BY LenProperties DEF BookType
  <1>2. ASSUME UNCHANGED orders, pos' \in Int, fills' \subseteq fills
        PROVE  BookType' /\ Grows
    BY <1>1, <1>2 DEF BookType, Grows
  <1>3. ASSUME SameSides, UNCHANGED <<pos, fills>>
        PROVE  BookType' /\ Grows
    BY <1>1, <1>3 DEF BookType, Grows, SameSides
  <1>4. ASSUME NEW side \in Sides, NEW rem \in Nat, Place(side, rem),
               pos' \in Int, fills' \subseteq 1 .. Len(orders) + 1
        PROVE  BookType' /\ Grows
    <2>1. /\ orders' \in Seq(Order)
          /\ Len(orders') = Len(orders) + 1
          /\ \A i \in 1 .. Len(orders) : orders'[i] = orders[i]
      BY <1>1, <1>4, PlaceAppends
    <2>2. Grows
      BY <1>1, <2>1 DEF Grows
    <2>3. BookType'
      BY <1>1, <1>4, <2>1 DEF BookType
    <2> QED BY <2>2, <2>3
  <1>5. CASE \/ Start \/ SyncPosition \/ SyncOrders \/ CooldownOver
             \/ GridSkip \/ TPSkip \/ UNCHANGED vars
    BY <1>2, <1>5 DEF Start, SyncPosition, SyncOrders, CooldownOver, GridSkip,
                      TPSkip, vars, exchange, BookType
  <1>6. ASSUME NEW t \in Threads,
               \/ HandleTick(t) \/ EnterReturn(t) \/ EnterFail(t)
               \/ StampCooldown(t) \/ Reprice(t) \/ ExitClose(t)
               \/ ExitStillOpen(t) \/ GridStart(t) \/ GridPrice(t)
               \/ GridDone(t) \/ TPStart(t) \/ TPRead(t) \/ TPFlat(t)
               \/ TPCheck(t) \/ TPStore(t)
        PROVE  BookType' /\ Grows
    BY <1>2, <1>6
    DEF HandleTick, EnterReturn, EnterFail, StampCooldown, Reprice, ExitClose,
        ExitStillOpen, GridStart, GridPrice, GridDone, TPStart, TPRead, TPFlat,
        TPCheck, TPStore, exchange, BookType
  <1>7. ASSUME NEW t \in Threads, NEW o \in fills, EntryFilled(t, o) \/ ExitFilled(t, o)
        PROVE  BookType' /\ Grows
    BY <1>2, <1>7 DEF EntryFilled, ExitFilled, BookType
  <1>8. ASSUME NEW t \in Threads, EnterPosition(t)
        PROVE  BookType' /\ Grows
    <2>1. CASE UNCHANGED exchange
      BY <1>2, <2>1 DEF exchange, BookType
    <2>2. CASE Place("entry", 0) /\ pos' = pos + 1 /\ Emit(NextID)
      <3>1. fills' \subseteq 1 .. Len(orders) + 1
        BY <1>1, <2>2, EmitKnown DEF NextID, BookType
      <3> QED BY <1>4, <2>2, <3>1 DEF Sides, BookType
    <2> QED BY <1>8, <2>1, <2>2 DEF EnterPosition
  <1>9. CASE ManualExit
    <2>1. fills' \subseteq 1 .. Len(orders) + 1
      BY <1>1, <1>9, EmitKnown DEF ManualExit, NextID, BookType
    <2> QED BY <1>4, <1>9, <2>1 DEF ManualExit, Sides
  <1>10. ASSUME NEW t \in Threads, GridPlace(t)
         PROVE  BookType' /\ Grows
    <2>1. CASE UNCHANGED orders
      BY <1>2, <1>10, <2>1 DEF GridPlace, BookType
    <2>2. CASE Place("entry", SafetyUnits[level[t]])
      <3>1. level[t] \in 1 .. MaxSafetyOrders
        BY <1>10, StrategyAssumption DEF GridPlace, InHand, LocalType, At
      <3>2. SafetyUnits[level[t]] \in Nat
        BY <3>1, StrategyAssumption
      <3>3. fills' \subseteq 1 .. Len(orders) + 1 /\ pos' \in Int
        BY <1>1, <1>10 DEF GridPlace, BookType
      <3> QED BY <1>4, <2>2, <3>2, <3>3 DEF Sides
    <2> QED BY <1>10, <2>1, <2>2 DEF GridPlace
  <1>11. ASSUME NEW t \in Threads, TPPlace(t)
         PROVE  BookType' /\ Grows
    <2>1. CASE UNCHANGED orders
      BY <1>2, <1>11, <2>1 DEF TPPlace, BookType
    <2>2. CASE Place("exit", amt[t])
      <3>1. fills' \subseteq 1 .. Len(orders) + 1 /\ pos' \in Int
        BY <1>1, <1>11 DEF TPPlace, BookType
      <3> QED BY <1>4, <2>2, <3>1 DEF Sides, LocalType
    <2> QED BY <1>11, <2>1, <2>2 DEF TPPlace
  <1>12. ASSUME NEW t \in Threads, TPCancel(t)
         PROVE  BookType' /\ Grows
    <2>1. oid[t] \in 1 .. Len(orders)
      BY <1>1, <1>12 DEF TPCancel, InHand, IdType, At
    <2>2. UNCHANGED <<pos, fills>> /\ (Withdraw(oid[t]) \/ UNCHANGED orders)
      BY <1>12 DEF TPCancel
    <2> QED BY <1>1, <1>2, <1>3, <2>1, <2>2, WithdrawKeepsSides DEF BookType
  <1>13. ASSUME NEW o \in cancelGo, CancelNewTP(o)
         PROVE  BookType' /\ Grows
    <2>1. o \in 1 .. Len(orders)
      BY DEF IdType
    <2>2. UNCHANGED <<pos, fills>> /\ (Withdraw(o) \/ UNCHANGED orders)
      BY <1>13 DEF CancelNewTP
    <2> QED BY <1>1, <1>2, <1>3, <2>1, <2>2, WithdrawKeepsSides DEF BookType
  <1>14. ASSUME NEW t \in Threads, CancelAllOrders(t)
         PROVE  BookType' /\ Grows
    <2>1. CASE UNCHANGED orders
      BY <1>2, <1>14, <2>1 DEF CancelAllOrders, BookType
    <2>2. CASE orders' = [o \in DOMAIN orders |-> [orders[o] EXCEPT !.rem = 0]]
      <3>1. SameSides
        BY <1>1, <2>2, WipeKeepsSides
      <3> QED BY <1>3, <1>14, <3>1 DEF CancelAllOrders
    <2> QED BY <1>14, <2>1, <2>2 DEF CancelAllOrders
  <1>15. ASSUME NEW o \in DOMAIN orders, Fill(o)
         PROVE  BookType' /\ Grows
    <2>1. orders[o].rem \in Nat
      <3>1. orders[o] \in Order
        BY <1>1, ElementOfSeq
      <3> QED BY <3>1 DEF Order
    <2>2. PICK n \in 1 .. orders[o].rem :
            /\ orders' = [orders EXCEPT ![o].rem = @ - n]
            /\ pos' = pos + n \/ pos' = pos - n
            /\ Emit(o) \/ UNCHANGED fills
      BY <1>15 DEF Fill
    <2>3. orders[o].rem - n \in Nat
      BY <2>1
    <2>4. SameSides
      BY <1>1, <2>2, <2>3, ReplaceKeepsSides
    <2>5. pos' \in Int
      BY <2>1, <2>2 DEF BookType
    <2>6. fills' \subseteq 1 .. Len(orders)
      BY <1>1, <2>2, EmitKnown DEF BookType
    <2> QED BY <1>1, <2>4, <2>5, <2>6 DEF BookType, Grows, SameSides
  <1>16. CASE Crash
    BY <1>2, <1>16 DEF Crash, LoseMemory, BookType
  <1>17. ASSUME NEW t \in Threads, PanicReprice(t)
         PROVE  BookType' /\ Grows
    BY <1>2, <1>17 DEF PanicReprice, LoseMemory, BookType
  <1> QED
    BY <1>5, <1>6, <1>7, <1>8, <1>9, <1>10, <1>11, <1>12, <1>13, <1>14, <1>15,
       <1>16, <1>17, NextCases

LEMMA NextIds ==
  ASSUME BookType, LockType, LocalType, IdType, InHand, [Next]_vars
  PROVE  IdType'
PROOF
  <1>1. Grows /\ DOMAIN orders = 1 .. Len(orders)
    BY NextBook, LenProperties DEF BookType
  <1>2. 0 .. Len(orders) \subseteq 0 .. Len(orders') /\ 0 \in 0 .. Len(orders')
    BY <1>1 DEF Grows
  <1>3. 1 .. Len(orders) \subseteq 1 .. Len(orders')
    BY <1>1 DEF Grows
  <1> USE DEF IdType
  <1>4. CASE UNCHANGED <<currentTPOrderID, cancelGo, oid>>
    BY <1>2, <1>3, <1>4
  <1>5. CASE \/ Start \/ SyncPosition \/ CooldownOver \/ GridSkip \/ TPSkip
             \/ ManualExit \/ UNCHANGED vars \/ \E o \in DOMAIN orders : Fill(o)
    BY <1>4, <1>5 DEF Start, SyncPosition, CooldownOver, GridSkip, TPSkip,
                      ManualExit, Fill, vars, memory, pending, locals
  <1>6. CASE SyncOrders
    BY <1>1, <1>2, <1>3, <1>6 DEF SyncOrders, OpenExits, locals
  <1>7. ASSUME NEW t \in Threads,
               \/ HandleTick(t) \/ EnterPosition(t) \/ EnterReturn(t)
               \/ EnterFail(t) \/ StampCooldown(t)
               \/ Reprice(t) \/ CancelAllOrders(t) \/ ExitStillOpen(t)
               \/ GridStart(t) \/ GridPrice(t) \/ GridPlace(t) \/ GridDone(t)
               \/ TPStart(t)
               \/ \E o \in fills : EntryFilled(t, o) \/ ExitFilled(t, o)
        PROVE  IdType'
    BY <1>4, <1>7
    DEF HandleTick, EnterPosition, EnterReturn, EnterFail, StampCooldown,
        Reprice, CancelAllOrders, ExitStillOpen, GridStart, GridPrice, GridPlace,
        GridDone, TPStart, EntryFilled, ExitFilled, memory, pending, locals
  <1>8. ASSUME NEW t \in Threads, ExitClose(t)
        PROVE  IdType'
    BY <1>2, <1>3, <1>8 DEF ExitClose, pending, locals
  <1>9. ASSUME NEW t \in Threads, TPRead(t)
        PROVE  IdType'
    BY <1>2, <1>3, <1>9 DEF TPRead, ReturnTP, memory, pending
  <1>10. ASSUME NEW t \in Threads, TPFlat(t)
         PROVE  IdType'
    BY <1>2, <1>3, <1>10 DEF TPFlat, ReturnTP, pending
  <1>11. ASSUME NEW t \in Threads, TPCheck(t)
         PROVE  IdType'
    BY <1>2, <1>3, <1>11 DEF TPCheck, ReturnTP, memory, pending
  <1>12. ASSUME NEW t \in Threads, TPCancel(t)
         PROVE  IdType'
    BY <1>2, <1>3, <1>12 DEF TPCancel, memory, pending
  <1>13. ASSUME NEW t \in Threads, TPPlace(t)
         PROVE  IdType'
    <2>1. UNCHANGED <<currentTPOrderID, cancelGo>>
      BY <1>13 DEF TPPlace, memory, pending
    <2>2. CASE oid' = [oid EXCEPT ![t] = 0]
      BY <1>2, <1>3, <2>1, <2>2
    <2>3. CASE Place("exit", amt[t]) /\ oid' = [oid EXCEPT ![t] = NextID]
      <3>1. Len(orders') = Len(orders) + 1 /\ Len(orders) \in Nat
        BY <2>3, PlaceAppends DEF BookType, LocalType, Sides
      <3>2. NextID \in 0 .. Len(orders')
        BY <3>1 DEF NextID
      <3> QED BY <1>2, <1>3, <2>1, <2>3, <3>2
    <2> QED BY <1>13, <2>2, <2>3 DEF TPPlace, ReturnTP
  <1>14. ASSUME NEW t \in Threads, TPStore(t)
         PROVE  IdType'
    <2>1. oid[t] \in 1 .. Len(orders) /\ oid[t] \in 0 .. Len(orders)
      BY <1>1, <1>14 DEF TPStore, InHand, At, Grows
    <2> QED BY <1>2, <1>3, <1>14, <2>1 DEF TPStore, ReturnTP
  <1>15. ASSUME NEW o \in cancelGo, CancelNewTP(o)
         PROVE  IdType'
    BY <1>2, <1>3, <1>15 DEF CancelNewTP, memory, locals
  <1>16. CASE Crash
    BY <1>2, <1>16 DEF Crash, LoseMemory
  <1>17. ASSUME NEW t \in Threads, PanicReprice(t)
         PROVE  IdType'
    BY <1>2, <1>17 DEF PanicReprice, LoseMemory
  <1> QED
    BY <1>5, <1>6, <1>7, <1>8, <1>9, <1>10, <1>11, <1>12, <1>13, <1>14, <1>15,
       <1>16, <1>17, NextCases

-------------------------------------------------------------------------------
Sound == TypeOK /\ SectionsExclusive /\ InHand

LEMMA InitSound == Init => Sound
  BY InitTypes, InitLocks DEF Sound, Locks, Init, InHand

LEMMA NextSound == Sound /\ [Next]_vars => Sound' /\ Grows
PROOF
  <1> SUFFICES ASSUME Sound, [Next]_vars PROVE Sound' /\ Grows
    OBVIOUS
  <1>1. /\ BookType /\ MemoryType /\ FlagType /\ LockType
        /\ LocalType /\ IdType /\ CountType /\ InHand /\ SectionsExclusive
    BY Zenon DEF Sound, TypeOK
  <1>2. BookType' /\ Grows
    BY <1>1, NextBook
  <1>3. MemoryType' /\ FlagType'
    BY <1>1, NextMemory, NextFlag
  <1>4. LockType' /\ SectionsExclusive'
    BY <1>1, NextLocks DEF Locks
  <1>5. LocalType' /\ CountType'
    BY <1>1, NextLocal, NextCount
  <1>6. IdType' /\ InHand'
    BY <1>1, NextIds, NextHand
  <1> QED BY <1>2, <1>3, <1>4, <1>5, <1>6 DEF Sound, TypeOK

\* The variables keep their shapes whatever fails and whoever crashes.
THEOREM TypeCorrect == Spec => []TypeOK
PROOF
  <1>1. Sound => TypeOK
    BY DEF Sound
  <1> QED BY <1>1, InitSound, NextSound, PTL DEF Spec

-------------------------------------------------------------------------------
(* The strategy only ever replaces exit orders *)

LEMMA NextExits ==
  ASSUME Sound, TPIsExit, [Next]_vars
  PROVE  TPIsExit'
PROOF
  <1> DEFINE IsExit(o) == o # 0 => orders[o].side = "exit"
             Stays(o) == o # 0 => orders'[o].side = "exit"
  <1>1. Grows /\ Sound'
    BY NextSound
  <1>2. BookType /\ LockType /\ LocalType /\ IdType /\ InHand /\ IdType'
    BY <1>1 DEF Sound, TypeOK
  <1>3. DOMAIN orders = 1 .. Len(orders)
    BY <1>2, LenProperties DEF BookType
  <1>4. ASSUME NEW o \in 0 .. Len(orders), IsExit(o) PROVE Stays(o)
    BY <1>1, <1>4 DEF Grows
  <1>5. /\ Stays(currentTPOrderID) /\ Stays(0)
        /\ \A o \in cancelGo : Stays(o)
        /\ \A t \in Threads : Stays(oid[t])
    <2>1. /\ IsExit(currentTPOrderID)
          /\ \A o \in cancelGo : IsExit(o)
          /\ \A t \in Threads : IsExit(oid[t])
      BY DEF TPIsExit
    <2>2. /\ currentTPOrderID \in 0 .. Len(orders)
          /\ \A o \in cancelGo : o \in 0 .. Len(orders)
          /\ \A t \in Threads : oid[t] \in 0 .. Len(orders)
      BY <1>2 DEF IdType
    <2>3. Stays(0)
      OBVIOUS
    <2> HIDE DEF IsExit, Stays
    <2> QED BY <1>4, <2>1, <2>2, <2>3
  <1>6. ASSUME Stays(currentTPOrderID'), \A o \in cancelGo' : Stays(o),
               \A t \in Threads : Stays(oid'[t])
        PROVE  TPIsExit'
    BY <1>6 DEF TPIsExit
  <1> HIDE DEF Stays
  <1> USE <1>5
  <1>7. ASSUME currentTPOrderID' \in {currentTPOrderID, 0}, cancelGo' \subseteq cancelGo,
               \A t \in Threads : oid'[t] \in {oid[t], 0}
        PROVE  TPIsExit'
    BY <1>6, <1>7
  <1>8. CASE \/ Start \/ SyncPosition \/ CooldownOver \/ GridSkip \/ TPSkip
             \/ ManualExit \/ UNCHANGED vars \/ \E o \in DOMAIN orders : Fill(o)
    BY <1>7, <1>8 DEF Start, SyncPosition, CooldownOver, GridSkip, TPSkip,
                      ManualExit, Fill, vars, memory, pending, locals
  <1>9. CASE SyncOrders
    <2>1. currentTPOrderID' = currentTPOrderID \/ currentTPOrderID' \in OpenExits
      BY <1>9 DEF SyncOrders
    <2>2. ASSUME NEW o \in OpenExits PROVE Stays(o)
      BY <1>1, <1>3 DEF OpenExits, Grows, Stays
    <2> QED BY <1>6, <1>9, <2>1, <2>2 DEF SyncOrders, locals
  <1>10. ASSUME NEW t \in Threads,
               \/ HandleTick(t) \/ EnterPosition(t) \/ EnterReturn(t)
               \/ EnterFail(t) \/ StampCooldown(t)
               \/ Reprice(t) \/ CancelAllOrders(t) \/ ExitStillOpen(t)
               \/ GridStart(t) \/ GridPrice(t) \/ GridPlace(t) \/ GridDone(t)
               \/ TPStart(t)
               \/ \E o \in fills : EntryFilled(t, o) \/ ExitFilled(t, o)
        PROVE  TPIsExit'
    BY <1>7, <1>10
    DEF HandleTick, EnterPosition, EnterReturn, EnterFail, StampCooldown,
        Reprice, CancelAllOrders, ExitStillOpen, GridStart, GridPrice, GridPlace,
        GridDone, TPStart, EntryFilled, ExitFilled, memory, pending, locals
  <1>11. ASSUME NEW t \in Threads, ExitClose(t) \/ TPRead(t) \/ TPFlat(t) \/ TPCancel(t)
         PROVE  TPIsExit'
    BY <1>2, <1>7, <1>11 DEF ExitClose, TPRead, TPFlat, TPCancel, ReturnTP,
                             memory, pending, locals, IdType
  <1>12. ASSUME NEW t \in Threads, TPCheck(t)
         PROVE  TPIsExit'
    <2>1. UNCHANGED <<currentTPOrderID, cancelGo>>
      BY <1>12 DEF TPCheck, memory, pending
    <2>2. \A s \in Threads : oid'[s] \in {oid[s], 0, currentTPOrderID}
      BY <1>2, <1>12 DEF TPCheck, ReturnTP, IdType
    <2> QED BY <1>6, <2>1, <2>2
  <1>13. ASSUME NEW t \in Threads, TPPlace(t)
         PROVE  TPIsExit'
    <2>1. UNCHANGED <<currentTPOrderID, cancelGo>>
      BY <1>13 DEF TPPlace, memory, pending
    <2>2. CASE oid' = [oid EXCEPT ![t] = 0]
      BY <1>2, <1>7, <2>1, <2>2 DEF IdType
    <2>3. CASE Place("exit", amt[t]) /\ oid' = [oid EXCEPT ![t] = NextID]
      <3>1. orders'[NextID].side = "exit"
        <4>1. orders \in Seq(Order) /\ amt[t] \in Nat /\ "exit" \in Sides
          BY <1>2 DEF BookType, LocalType, Sides
        <4>2. orders'[Len(orders) + 1] = [side |-> "exit", rem |-> amt[t]]
          BY <2>3, <4>1, PlaceAppends
        <4> QED BY <4>2 DEF NextID
      <3>2. Stays(NextID)
        BY <3>1 DEF Stays
      <3>3. \A s \in Threads : oid'[s] \in {oid[s], NextID}
        BY <1>2, <2>3 DEF IdType
      <3> QED BY <1>6, <2>1, <3>2, <3>3
    <2> QED BY <1>13, <2>2, <2>3 DEF TPPlace, ReturnTP
  <1>14. ASSUME NEW t \in Threads, TPStore(t)
         PROVE  TPIsExit'
    <2>1. currentTPOrderID' \in {currentTPOrderID, oid[t]}
      BY <1>14 DEF TPStore
    <2>2. cancelGo' \subseteq cancelGo \cup {oid[t]}
      BY <1>14 DEF TPStore
    <2>3. \A s \in Threads : oid'[s] \in {oid[s], 0}
      BY <1>2, <1>14 DEF TPStore, ReturnTP, IdType
    <2> QED BY <1>6, <2>1, <2>2, <2>3
  <1>15. ASSUME NEW o \in cancelGo, CancelNewTP(o)
         PROVE  TPIsExit'
    BY <1>7, <1>15 DEF CancelNewTP, memory, locals
  <1>16. CASE Crash \/ \E t \in Threads : PanicReprice(t)
    BY <1>7, <1>16 DEF Crash, PanicReprice, LoseMemory
  <1> QED
    BY <1>8, <1>9, <1>10, <1>11, <1>12, <1>13, <1>14, <1>15, <1>16, NextCases

\* No race of updateTP, the handlers and restarts makes the strategy cancel a
\* safety order in place of its take profit.
THEOREM CancelsOnlyExits == Spec => []TPIsExit
PROOF
  <1>1. Init => TPIsExit
    BY DEF Init, TPIsExit
  <1>2. Sound /\ TPIsExit /\ [Next]_vars => Sound' /\ TPIsExit'
    BY NextSound, NextExits
  <1> QED BY <1>1, <1>2, InitSound, PTL DEF Spec

-------------------------------------------------------------------------------
(* The first exit fill *)

\* The first exit fill never turns the position around, whatever fails.
\* Before it the position only grows, so an amount that was read remains
\* small enough: the induction keeps every exit order, and every amount
\* that waits to become one, within the position.

Within(o) == orders[o].side = "exit" => orders[o].rem <= pos

Fits ==
  exits = 0 => /\ pos >= 0
               /\ \A o \in 1 .. Len(orders) : Within(o)
               /\ \A t \in Threads : amt[t] <= pos

LEMMA InitFits == Init => Fits /\ FirstExitFits
  BY EmptySeq DEF Init, Fits, FirstExitFits, Within

\* The quantities of orders are numbers.
LEMMA RemIsNat ==
  ASSUME BookType, NEW o \in 1 .. Len(orders)
  PROVE  orders[o].rem \in Nat
<1>1. orders[o] \in Order
  BY ElementOfSeq DEF BookType
<1> QED BY <1>1 DEF Order

\* One lemma per way in which a step may touch what Fits is about.
LEMMA NothingGrows ==
  ASSUME BookType, LocalType, Fits, FirstExitFits,
         UNCHANGED <<pos, exits>>, Len(orders') = Len(orders),
         \A o \in 1 .. Len(orders) : /\ orders'[o].side = orders[o].side
                                     /\ orders'[o].rem \in {orders[o].rem, 0},
         \A t \in Threads : amt'[t] \in {amt[t], 0}
  PROVE  Fits' /\ FirstExitFits'
<1>1. FirstExitFits'
  BY DEF FirstExitFits
<1>2. ASSUME exits = 0 PROVE \A o \in 1 .. Len(orders) : Within(o)'
  BY <1>2, RemIsNat DEF Fits, Within
<1>3. ASSUME exits = 0 PROVE \A t \in Threads : amt'[t] <= pos
  BY <1>3 DEF Fits
<1> QED BY <1>1, <1>2, <1>3 DEF Fits

LEMMA Unmoved ==
  ASSUME BookType, LocalType, Fits, FirstExitFits, UNCHANGED <<pos, orders, exits>>,
         \A t \in Threads : amt'[t] \in {amt[t], 0}
  PROVE  Fits' /\ FirstExitFits'
BY NothingGrows

\* A new order, which fits when it is an exit order.
LEMMA OrderAdded ==
  ASSUME BookType, LocalType, Fits, FirstExitFits,
         NEW side \in Sides, NEW rem \in Nat, Place(side, rem),
         pos' \in Int, pos' >= pos, exits' = exits,
         exits = 0 /\ side = "exit" => rem <= pos,
         \A t \in Threads : amt'[t] \in {amt[t], 0}
  PROVE  Fits' /\ FirstExitFits'
<1>1. /\ Len(orders') = Len(orders) + 1 /\ Len(orders) \in Nat
      /\ \A i \in 1 .. Len(orders) : orders'[i] = orders[i]
      /\ orders'[Len(orders) + 1] = [side |-> side, rem |-> rem]
  BY PlaceAppends DEF BookType
<1>2. pos \in Int
  BY DEF BookType
<1>3. FirstExitFits'
  BY <1>2 DEF FirstExitFits
<1>4. ASSUME exits = 0, NEW o \in 1 .. Len(orders') PROVE Within(o)'
  <2>1. CASE o = Len(orders) + 1
    <3>1. orders'[o].side = side /\ orders'[o].rem = rem
      BY <1>1, <2>1
    <3> QED BY <1>2, <1>4, <3>1 DEF Within
  <2>2. CASE o # Len(orders) + 1
    <3>1. o \in 1 .. Len(orders) /\ orders'[o] = orders[o]
      BY <1>1, <1>4, <2>2
    <3>2. Within(o) /\ orders[o].rem \in Nat
      BY <1>4, <3>1, RemIsNat DEF Fits
    <3> QED BY <1>2, <3>1, <3>2 DEF Within
  <2> QED BY <2>1, <2>2
<1>5. ASSUME exits = 0, NEW t \in Threads PROVE amt'[t] <= pos'
  BY <1>2, <1>5 DEF Fits, LocalType
<1>6. exits = 0 => pos' >= 0
  BY <1>2 DEF Fits
<1> QED BY <1>3, <1>4, <1>5, <1>6 DEF Fits

-------------------------------------------------------------------------------
\* A fill of an exit order is the first one, or Fits has nothing to say.
LEMMA FillFits ==
  ASSUME Sound, Fits, FirstExitFits, NEW o \in DOMAIN orders, Fill(o)
  PROVE  Fits' /\ FirstExitFits'
<1>1. BookType /\ LocalType /\ exits \in Nat /\ pos \in Int
  BY Zenon DEF Sound, TypeOK, CountType, BookType
<1>2. o \in 1 .. Len(orders)
  BY <1>1, LenProperties DEF BookType
<1>3. orders[o].rem \in Nat
  BY <1>1, <1>2, RemIsNat
<1>4. PICK n \in 1 .. orders[o].rem :
        /\ orders' = [orders EXCEPT ![o].rem = @ - n]
        /\ IF orders[o].side = "entry"
           THEN pos' = pos + n /\ UNCHANGED exits
           ELSE pos' = pos - n /\ exits' = exits + 1
  BY DEF Fill
<1>5. amt' = amt
  BY DEF Fill, locals
<1>6. CASE orders[o].side = "entry"
  <2>1. pos' = pos + n /\ exits' = exits
    BY <1>4, <1>6
  <2>2. orders[o].rem - n \in Nat
    BY <1>3, <1>4
  <2>3. /\ SameSides
        /\ \A i \in 1 .. Len(orders) : i # o => orders'[i] = orders[i]
    <3>1. orders' = [orders EXCEPT ![o].rem = orders[o].rem - n]
      BY <1>4
    <3> QED BY <1>1, <1>2, <2>2, <3>1, ReplaceKeepsSides DEF BookType
  <2>4. FirstExitFits'
    BY <1>1, <1>3, <2>1 DEF FirstExitFits
  <2>5. ASSUME exits = 0, NEW i \in 1 .. Len(orders') PROVE Within(i)'
    <3>1. i \in 1 .. Len(orders) /\ orders'[i].side = orders[i].side
      BY <2>3, <2>5 DEF SameSides
    <3>2. CASE i = o
      BY <1>6, <3>1, <3>2 DEF Within
    <3>3. CASE i # o
      <4>1. orders'[i] = orders[i] /\ Within(i) /\ orders[i].rem \in Nat
        BY <1>1, <2>3, <2>5, <3>1, <3>3, RemIsNat DEF Fits
      <4> QED BY <1>1, <1>3, <2>1, <4>1 DEF Within
    <3> QED BY <3>2, <3>3
  <2>6. ASSUME exits = 0, NEW t \in Threads PROVE amt'[t] <= pos'
    BY <1>1, <1>3, <1>5, <2>1, <2>6 DEF Fits, LocalType
  <2>7. exits = 0 => pos' >= 0
    BY <1>1, <1>3, <2>1 DEF Fits
  <2> QED BY <2>1, <2>4, <2>5, <2>6, <2>7 DEF Fits
<1>7. CASE orders[o].side # "entry"
  <2>1. pos' = pos - n /\ exits' = exits + 1
    BY <1>4, <1>7
  <2>2. orders[o].side = "exit"
    <3>1. orders[o] \in Order
      BY <1>1, <1>2, ElementOfSeq DEF BookType
    <3> QED BY <1>7, <3>1 DEF Order, Sides
  <2>3. exits = 0 => n <= pos
    BY <1>1, <1>2, <1>3, <2>2 DEF Fits, Within
  <2> QED BY <1>1, <2>1, <2>3 DEF Fits, FirstExitFits
<1> QED BY <1>6, <1>7

\* updateTP reads an amount that fits, and keeps to it.
LEMMA ReadFits ==
  ASSUME Sound, Fits, FirstExitFits, NEW t \in Threads, TPRead(t)
  PROVE  Fits' /\ FirstExitFits'
<1>1. BookType /\ LocalType /\ pos \in Int
  BY Zenon DEF Sound, TypeOK, BookType
<1>2. UNCHANGED <<pos, orders, exits>>
  BY DEF TPRead, exchange, bounds
<1>3. CASE amt' = [amt EXCEPT ![t] = TPAmount]
  <2>1. exits = 0 => TPAmount = pos
    BY <1>1 DEF Fits, TPAmount
  <2>2. ASSUME exits = 0, NEW s \in Threads PROVE amt'[s] <= pos
    <3>1. amt'[s] = amt[s] \/ amt'[s] = TPAmount
      BY <1>1, <1>3 DEF LocalType
    <3> QED BY <1>1, <2>1, <2>2, <3>1 DEF Fits
  <2> QED BY <1>2, <2>2 DEF Fits, FirstExitFits, Within
<1>4. CASE ReturnTP(t)
  BY <1>1, <1>2, <1>4, Unmoved DEF ReturnTP, LocalType
<1> QED BY <1>3, <1>4 DEF TPRead

\* The take profit that updateTP places fits.
LEMMA PlaceFits ==
  ASSUME Sound, Fits, FirstExitFits, NEW t \in Threads, TPPlace(t)
  PROVE  Fits' /\ FirstExitFits'
<1>1. BookType /\ LocalType /\ pos \in Int /\ amt[t] \in Nat /\ "exit" \in Sides
  BY DEF Sound, TypeOK, BookType, LocalType, Sides
<1>2. /\ UNCHANGED <<pos, exits>>
      /\ \A s \in Threads : amt'[s] \in {amt[s], 0}
  BY <1>1 DEF TPPlace, ReturnTP, bounds, LocalType
<1>3. CASE Place("exit", amt[t])
  <2>1. exits = 0 => amt[t] <= pos
    BY DEF Fits
  <2> QED BY <1>1, <1>2, <1>3, <2>1, OrderAdded
<1>4. CASE UNCHANGED orders
  BY <1>1, <1>2, <1>4, Unmoved
<1> QED BY <1>3, <1>4 DEF TPPlace

LEMMA NextFits ==
  ASSUME Sound, Fits, FirstExitFits, [Next]_vars
  PROVE  Fits' /\ FirstExitFits'
<1>1. /\ BookType /\ LocalType /\ IdType /\ InHand
      /\ pos \in Int /\ exits \in Nat /\ amt \in [Threads -> Nat]
  BY Zenon DEF Sound, TypeOK, BookType, LocalType, CountType
<1>2. DOMAIN orders = 1 .. Len(orders) /\ orders \in Seq(Order)
  BY <1>1, LenProperties DEF BookType
<1>3. CASE \/ Start \/ SyncPosition \/ SyncOrders \/ CooldownOver
           \/ GridSkip \/ TPSkip \/ UNCHANGED vars
  BY <1>1, <1>3, Unmoved DEF Start, SyncPosition, SyncOrders, CooldownOver,
                             GridSkip, TPSkip, vars, exchange, locals, bounds
<1>4. ASSUME NEW t \in Threads,
             \/ HandleTick(t) \/ EnterReturn(t) \/ EnterFail(t)
             \/ StampCooldown(t) \/ Reprice(t) \/ ExitClose(t)
             \/ ExitStillOpen(t) \/ GridStart(t) \/ GridPrice(t)
             \/ GridDone(t) \/ TPStart(t)
             \/ \E o \in fills : EntryFilled(t, o) \/ ExitFilled(t, o)
      PROVE  Fits' /\ FirstExitFits'
  BY <1>1, <1>4, Unmoved
  DEF HandleTick, EnterReturn, EnterFail, StampCooldown, Reprice, ExitClose,
      ExitStillOpen, GridStart, GridPrice, GridDone, TPStart, EntryFilled,
      ExitFilled, exchange, locals, bounds
<1>5. ASSUME NEW t \in Threads, TPFlat(t) \/ TPCheck(t) \/ TPStore(t)
      PROVE  Fits' /\ FirstExitFits'
  BY <1>1, <1>5, Unmoved DEF TPFlat, TPCheck, TPStore, ReturnTP, exchange, bounds
<1>6. ASSUME SameSides, UNCHANGED <<pos, exits, amt>>,
             \A i \in 1 .. Len(orders) : orders'[i].rem \in {orders[i].rem, 0}
      PROVE  Fits' /\ FirstExitFits'
  BY <1>1, <1>6, NothingGrows DEF SameSides
<1>7. ASSUME NEW o \in 1 .. Len(orders), Withdraw(o), UNCHANGED <<pos, exits, amt>>
      PROVE  Fits' /\ FirstExitFits'
  <2>1. /\ SameSides /\ orders'[o].rem = 0
        /\ \A i \in 1 .. Len(orders) : i # o => orders'[i] = orders[i]
    BY <1>2, <1>7, WithdrawKeepsSides
  <2>2. \A i \in 1 .. Len(orders) : orders'[i].rem \in {orders[i].rem, 0}
    BY <2>1
  <2> QED BY <1>6, <1>7, <2>1, <2>2
<1>8. ASSUME NEW t \in Threads, CancelAllOrders(t) PROVE Fits' /\ FirstExitFits'
  <2>1. UNCHANGED <<pos, exits, amt>>
    BY <1>8 DEF CancelAllOrders, locals, bounds
  <2>2. CASE UNCHANGED orders
    BY <1>1, <2>1, <2>2, Unmoved
  <2>3. CASE orders' = [o \in DOMAIN orders |-> [orders[o] EXCEPT !.rem = 0]]
    <3>1. SameSides /\ \A i \in 1 .. Len(orders) : orders'[i].rem = 0
      BY <1>2, <2>3, WipeKeepsSides
    <3> QED BY <1>6, <2>1, <3>1
  <2> QED BY <1>8, <2>2, <2>3 DEF CancelAllOrders
<1>9. ASSUME NEW t \in Threads, TPCancel(t) PROVE Fits' /\ FirstExitFits'
  <2>1. UNCHANGED <<pos, exits, amt>>
    BY <1>9 DEF TPCancel, bounds
  <2>2. CASE UNCHANGED orders
    BY <1>1, <2>1, <2>2, Unmoved
  <2>3. CASE Withdraw(oid[t])
    <3>1. oid[t] \in 1 .. Len(orders)
      BY <1>1, <1>9, LenProperties DEF TPCancel, InHand, IdType, BookType, At
    <3> QED BY <1>7, <2>1, <2>3, <3>1
  <2> QED BY <1>9, <2>2, <2>3 DEF TPCancel
<1>10. ASSUME NEW o \in cancelGo, CancelNewTP(o) PROVE Fits' /\ FirstExitFits'
  <2>1. UNCHANGED <<pos, exits, amt>> /\ o \in 1 .. Len(orders)
    BY <1>1, <1>10 DEF CancelNewTP, locals, bounds, IdType
  <2>2. CASE UNCHANGED orders
    BY <1>1, <2>1, <2>2, Unmoved
  <2>3. CASE Withdraw(o)
    BY <1>7, <2>1, <2>3
  <2> QED BY <1>10, <2>2, <2>3 DEF CancelNewTP
<1>11. ASSUME NEW t \in Threads, EnterPosition(t) PROVE Fits' /\ FirstExitFits'
  <2>1. exits' = exits /\ amt' = amt
    BY <1>11 DEF EnterPosition, locals, bounds
  <2>2. CASE UNCHANGED exchange
    BY <1>1, <2>1, <2>2, Unmoved DEF exchange
  <2>3. CASE Place("entry", 0) /\ pos' = pos + 1
    BY <1>1, <2>1, <2>3, OrderAdded DEF Sides
  <2> QED BY <1>11, <2>2, <2>3 DEF EnterPosition
<1>12. ASSUME NEW t \in Threads, GridPlace(t) PROVE Fits' /\ FirstExitFits'
  <2>1. UNCHANGED <<pos, exits, amt>>
    BY <1>12 DEF GridPlace, bounds
  <2>2. CASE UNCHANGED orders
    BY <1>1, <2>1, <2>2, Unmoved
  <2>3. CASE Place("entry", SafetyUnits[level[t]])
    <3>1. level[t] \in 1 .. MaxSafetyOrders
      BY <1>1, <1>12, StrategyAssumption DEF GridPlace, InHand, LocalType, At
    <3>2. SafetyUnits[level[t]] \in Nat
      BY <3>1, StrategyAssumption
    <3> QED BY <1>1, <2>1, <2>3, <3>2, OrderAdded DEF Sides
  <2> QED BY <1>12, <2>2, <2>3 DEF GridPlace
<1>13. CASE ManualExit
  <2>1. pos' = 0 /\ exits' = exits + 1
    BY <1>13 DEF ManualExit
  <2> QED BY <1>1, <2>1 DEF Fits, FirstExitFits
<1>14. CASE Crash \/ \E t \in Threads : PanicReprice(t)
  <2>1. UNCHANGED <<pos, orders, exits>> /\ amt' = [t \in Threads |-> 0]
    BY <1>14 DEF Crash, PanicReprice, LoseMemory, bounds
  <2> QED BY <1>1, <2>1, Unmoved
<1> QED
  BY <1>3, <1>4, <1>5, <1>8, <1>9, <1>10, <1>11, <1>12, <1>13, <1>14, FillFits,
     ReadFits, PlaceFits, NextCases

\* Whatever fails, is lost or restarts, and however many goroutines replace the
\* take profit, the first exit fill does not sell more than there is (updateTP,
\* syncState, handleOrderUpdate).
THEOREM FirstExitIsCovered == Spec => []FirstExitFits
<1>1. Init => Sound /\ Fits /\ FirstExitFits
  BY InitSound, InitFits
<1>2. Sound /\ Fits /\ FirstExitFits /\ [Next]_vars
        => Sound' /\ Fits' /\ FirstExitFits'
  BY NextSound, NextFits
<1> QED BY <1>1, <1>2, PTL DEF Spec

-------------------------------------------------------------------------------
(* PLACING_GRID *)

\* PLACING_GRID is always about to be left, as long as no event is lost.
\* The goroutine that claimed the tick holds the state until its order is
\* answered; then the event of the fill does, or the goroutine that saw an
\* error and resets the state.

\* Only a running process has goroutines, so a base order is placed, and its
\* event published, by a strategy that has subscribed.
AtWork ==
  phase \in {"down", "panicked"} =>
    /\ \A t \in Threads : pc[t] = "idle"
    /\ gridGo = 0 /\ tpGo = 0

\* Whoever will write the state.
Claims(t) == pc[t] \in {"enter", "rejected"}

LEMMA InitPlacing == Init => AtWork /\ PlacingIsTransient
  BY DEF Init, AtWork, PlacingIsTransient

LEMMA NextAtWork ==
  ASSUME Sound, AtWork, [Next]_vars
  PROVE  AtWork'
<1>1. ASSUME UNCHANGED <<phase, pc, gridGo, tpGo>> PROVE AtWork'
  BY <1>1 DEF AtWork
<1>2. ASSUME phase' \notin {"down", "panicked"} PROVE AtWork'
  BY <1>2 DEF AtWork
<1>3. ASSUME Running, UNCHANGED phase PROVE AtWork'
  BY <1>2, <1>3 DEF Running
<1>4. ASSUME NEW t \in Threads, pc[t] # "idle", UNCHANGED phase PROVE AtWork'
  BY <1>4 DEF AtWork
<1>5. CASE \/ Start \/ SyncPosition \/ SyncOrders
  BY <1>2, <1>5 DEF Start, SyncPosition, SyncOrders
<1>6. CASE \/ CooldownOver \/ ManualExit \/ UNCHANGED vars
           \/ (\E o \in cancelGo : CancelNewTP(o))
           \/ (\E o \in DOMAIN orders : Fill(o))
  BY <1>1, <1>6 DEF CooldownOver, ManualExit, CancelNewTP, Fill, vars, pending
<1>7. CASE GridSkip \/ TPSkip
  BY <1>3, <1>7 DEF GridSkip, TPSkip, MuFree
<1>8. ASSUME NEW t \in Threads,
             \/ HandleTick(t)
             \/ \E o \in fills : EntryFilled(t, o) \/ ExitFilled(t, o)
      PROVE  AtWork'
  BY <1>3, <1>8 DEF HandleTick, EntryFilled, ExitFilled, MuFree
<1>9. ASSUME NEW t \in Threads,
             \/ EnterPosition(t) \/ EnterReturn(t) \/ EnterFail(t) \/ StampCooldown(t)
             \/ Reprice(t) \/ ExitClose(t) \/ CancelAllOrders(t) \/ ExitStillOpen(t)
             \/ GridPrice(t) \/ GridPlace(t) \/ GridDone(t)
             \/ TPRead(t) \/ TPFlat(t) \/ TPCheck(t) \/ TPCancel(t) \/ TPPlace(t)
             \/ TPStore(t)
      PROVE  AtWork'
  BY <1>4, <1>9
  DEF EnterPosition, EnterReturn, EnterFail, StampCooldown, Reprice, ExitClose,
      CancelAllOrders, ExitStillOpen, GridPrice, GridPlace, GridDone, TPRead,
      TPFlat, TPCheck, TPCancel, TPPlace, TPStore, At
<1>10. ASSUME NEW t \in Threads, GridStart(t) \/ TPStart(t) PROVE AtWork'
  BY <1>10 DEF GridStart, TPStart, AtWork
<1>11. CASE Crash \/ \E t \in Threads : PanicReprice(t)
  BY <1>11 DEF Crash, PanicReprice, LoseMemory, AtWork
<1> QED
  BY <1>5, <1>6, <1>7, <1>8, <1>9, <1>10, <1>11, NextCases

\* Whoever was about to write the state still is.
LEMMA StillTransient ==
  ASSUME Grows, BookType, PlacingIsTransient,
         \A o \in fills : orders[o].side = "entry" => o \in fills',
         \A t \in Threads : Claims(t) => Claims(t)',
         currentState' = "PLACING_GRID" => currentState = "PLACING_GRID"
  PROVE  PlacingIsTransient'
<1>1. ASSUME NEW o \in fills, orders[o].side = "entry"
      PROVE  o \in fills' /\ orders'[o].side = "entry"
  BY <1>1 DEF Grows, BookType
<1> QED BY <1>1 DEF PlacingIsTransient, Claims

\* The base order is answered.
LEMMA EnterTransient ==
  ASSUME Sound, Grows, AtWork, PlacingIsTransient, "DropEvent" \notin Env,
         NEW t \in Threads, EnterPosition(t)
  PROVE  PlacingIsTransient'
<1>1. BookType /\ pc \in [Threads -> PC] /\ phase \in Phases
  BY Zenon DEF Sound, TypeOK, LockType, MemoryType
<1>2. CASE Goto(t, "rejected")
  BY <1>1, <1>2 DEF Goto, PlacingIsTransient
<1>3. CASE Place("entry", 0) /\ Emit(NextID)
  <2>1. Running
    <3>1. phase \notin {"down", "panicked"}
      BY DEF AtWork, EnterPosition, At
    <3> QED BY <1>1, <3>1 DEF Running, Phases
  <2>2. NextID \in fills'
    BY <1>3, <2>1 DEF Emit
  <2>3. orders'[NextID].side = "entry"
    <3>1. orders'[Len(orders) + 1] = [side |-> "entry", rem |-> 0]
      BY <1>1, <1>3, PlaceAppends DEF BookType, Sides
    <3> QED BY <3>1 DEF NextID
  <2> QED BY <2>2, <2>3 DEF PlacingIsTransient
<1> QED BY <1>2, <1>3 DEF EnterPosition

LEMMA NextPlacing ==
  ASSUME Sound, Grows, AtWork, PlacingIsTransient, "DropEvent" \notin Env, [Next]_vars
  PROVE  PlacingIsTransient'
<1>1. BookType /\ pc \in [Threads -> PC] /\ currentState \in States
  BY Zenon DEF Sound, TypeOK, LockType, MemoryType
<1>2. ASSUME currentState' # "PLACING_GRID" PROVE PlacingIsTransient'
  BY <1>2 DEF PlacingIsTransient
<1>3. ASSUME fills \subseteq fills', UNCHANGED <<pc, currentState>>
      PROVE  PlacingIsTransient'
  BY <1>1, <1>3, StillTransient DEF Claims
<1>4. ASSUME NEW t \in Threads, ~Claims(t), NEW where, Goto(t, where),
             fills \subseteq fills', UNCHANGED currentState
      PROVE  PlacingIsTransient'
  <2>1. \A s \in Threads : Claims(s) => Claims(s)'
    BY <1>1, <1>4 DEF Claims, Goto
  <2> QED BY <1>1, <1>4, <2>1, StillTransient
<1>5. CASE \/ Start \/ SyncOrders \/ CooldownOver \/ GridSkip \/ TPSkip
           \/ UNCHANGED vars \/ (\E o \in cancelGo : CancelNewTP(o))
  BY <1>3, <1>5 DEF Start, SyncOrders, CooldownOver, GridSkip, TPSkip, CancelNewTP,
                    vars, exchange, memory
<1>6. CASE ManualExit \/ \E o \in DOMAIN orders : Fill(o)
  <2>1. UNCHANGED <<pc, currentState>> /\ fills \subseteq fills'
    BY <1>6 DEF ManualExit, Fill, Emit, memory
  <2> QED BY <1>3, <2>1
<1>7. CASE SyncPosition
  <2>1. CASE UNCHANGED currentState
    BY <1>3, <1>7, <2>1 DEF SyncPosition, exchange
  <2>2. CASE currentState' = IF pos = 0 THEN "IDLE" ELSE "IN_POSITION"
    <3>1. currentState' \in {"IDLE", "IN_POSITION"}
      BY <2>2
    <3> QED BY <1>2, <3>1
  <2> QED BY <1>7, <2>1, <2>2 DEF SyncPosition
<1>8. ASSUME NEW t \in Threads, HandleTick(t) PROVE PlacingIsTransient'
  BY <1>1, <1>8 DEF HandleTick, Goto, PlacingIsTransient
<1>9. ASSUME NEW t \in Threads, EnterFail(t) \/ ExitClose(t) \/ ExitStillOpen(t)
      PROVE  PlacingIsTransient'
  BY <1>2, <1>9 DEF EnterFail, ExitClose, ExitStillOpen
<1>10. ASSUME NEW t \in Threads, NEW o \in fills, EntryFilled(t, o)
       PROVE  PlacingIsTransient'
  BY <1>2, <1>10 DEF EntryFilled
<1>11. ASSUME NEW t \in Threads, NEW o \in fills, ExitFilled(t, o)
       PROVE  PlacingIsTransient'
  <2>1. /\ fills' = fills \ {o} /\ orders[o].side = "exit"
        /\ UNCHANGED currentState /\ pc[t] = "idle"
    BY <1>11 DEF ExitFilled, memory, At
  <2>2. \A s \in Threads : Claims(s) => Claims(s)'
    <3>1. \E where : Goto(t, where)
      BY <1>11 DEF ExitFilled
    <3> QED BY <1>1, <2>1, <3>1 DEF Claims, Goto
  <2> QED BY <1>1, <2>1, <2>2, StillTransient
<1>12. ASSUME NEW t \in Threads,
              \/ EnterReturn(t) \/ StampCooldown(t) \/ Reprice(t)
              \/ CancelAllOrders(t) \/ GridPlace(t)
       PROVE  PlacingIsTransient'
  BY <1>3, <1>4, <1>12 DEF EnterReturn, StampCooldown, Reprice, CancelAllOrders,
                           GridPlace, exchange, memory, At, Claims
<1>13. ASSUME NEW t \in Threads,
              \/ GridStart(t) \/ TPStart(t) \/ GridPrice(t) \/ GridDone(t)
       PROVE  PlacingIsTransient'
  BY <1>4, <1>13 DEF GridStart, TPStart, GridPrice, GridDone, exchange, memory, At,
                     Claims
<1>14. ASSUME NEW t \in Threads,
              \/ TPRead(t) \/ TPFlat(t) \/ TPCheck(t) \/ TPCancel(t) \/ TPPlace(t)
              \/ TPStore(t)
       PROVE  PlacingIsTransient'
  <2>1. ~Claims(t) /\ fills' = fills /\ UNCHANGED currentState
    BY <1>14 DEF TPRead, TPFlat, TPCheck, TPCancel, TPPlace, TPStore, exchange,
                 memory, At, Claims
  <2>2. \E where : Goto(t, where)
    BY <1>14 DEF TPRead, TPFlat, TPCheck, TPCancel, TPPlace, TPStore, ReturnTP
  <2> QED BY <1>4, <2>1, <2>2
<1>15. CASE Crash \/ \E t \in Threads : PanicReprice(t)
  BY <1>2, <1>15 DEF Crash, PanicReprice, LoseMemory
<1> QED
  BY <1>5, <1>6, <1>7, <1>8, <1>9, <1>10, <1>11, <1>12, <1>13, <1>14, <1>15,
     EnterTransient, NextCases

\* As long as no event is lost, PLACING_GRID is always about to be left, whatever
\* else fails, overtakes or restarts (handleTick, handleOrderUpdate, syncState).
THEOREM PlacingIsLeft ==
  ASSUME "DropEvent" \notin Env
  PROVE  Spec => []PlacingIsTransient
<1>1. Init => Sound /\ AtWork /\ PlacingIsTransient
  BY InitSound, InitPlacing
<1>2. Sound /\ AtWork /\ PlacingIsTransient /\ [Next]_vars
        => Sound' /\ AtWork' /\ PlacingIsTransient'
  BY NextSound, NextAtWork, NextPlacing
<1> QED BY <1>1, <1>2, PTL DEF Spec
===============================================================================
