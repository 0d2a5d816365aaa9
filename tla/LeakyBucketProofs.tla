--------------------------- MODULE LeakyBucketProofs ---------------------------
(***************************************************************************)
(* Machine-checked proofs about the ring of leaky_bucket_buf, for every    *)
(* buffer length, every number of held packets below it and every bound on *)
(* the packets received: where its pointers stand, that packets handed out *)
(* stay intact, and that it implements DropOldestQueue.                    *)
(***************************************************************************)
EXTENDS LeakyBucket, CommonLemmas, TLAPS

(* The chain tied by the constructor stays within the ring. *)
LEMMA AdvanceInSlot ==
    ASSUME NEW s \in Slot
    PROVE  Advance(s) \in Slot
  BY BufferLengthAssumption DEF Advance, Slot

LEMMA SizeOfType ==
    ASSUME NEW m \in Payload
    PROVE  SizeOf(m) \in DataSize
  BY MaxPacketsAssumption DEF SizeOf, Payload, Terminator, RTPSize, DataSize

LEMMA FunctionIsSeq ==
    ASSUME NEW S, NEW n \in Nat, NEW f \in [1 .. n -> S]
    PROVE  f \in Seq(S) /\ Len(f) = n
  OBVIOUS

(* What the history keeps after a pop. *)
LEMMA RememberType ==
    ASSUME TypeOK, NEW h \in [slot : Slot, payload : Payload]
    PROVE  /\ Remember(h) \in Seq([slot : Slot, payload : Payload])
           /\ Len(Remember(h)) <= Held
           /\ Len(Remember(h)) \in Nat
           /\ Len(Remember(h)) <= Len(held) + 1
           /\ \A i \in 1 .. Len(Remember(h)) :
                 Remember(h)[i] = IF i = 1 THEN h ELSE held[i - 1]
  <1> DEFINE n == IF Len(held) < Held THEN Len(held) + 1 ELSE Held
             T == [slot : Slot, payload : Payload]
  <1>1. n \in Nat /\ n <= Held /\ n <= Len(held) + 1
    BY HeldAssumption DEF TypeOK
  <1>2. \A i \in 1 .. n : (IF i = 1 THEN h ELSE held[i - 1]) \in T
    <2> SUFFICES ASSUME NEW i \in 1 .. n, i # 1
                 PROVE  held[i - 1] \in T
      OBVIOUS
    <2>1. i - 1 \in 1 .. Len(held)
      BY <1>1 DEF TypeOK
    <2>2. held \in Seq(T)
      BY DEF TypeOK
    <2> HIDE DEF T
    <2> QED  BY <2>1, <2>2, ElementOfSeq
  <1>3. Remember(h) = [i \in 1 .. n |-> IF i = 1 THEN h ELSE held[i - 1]]
    BY DEF Remember
  <1>4. Remember(h) \in [1 .. n -> T]
    BY <1>2, <1>3
  <1>5. Remember(h) \in Seq(T) /\ Len(Remember(h)) = n
    <2> HIDE DEF n, T
    <2> QED  BY <1>1, <1>4, FunctionIsSeq
  <1> QED  BY <1>1, <1>3, <1>5

--------------------------------------------------------------------------------
(* Type correctness. *)

LEMMA TypeInit == Init => TypeOK
  <1> SUFFICES ASSUME Init PROVE TypeOK
    OBVIOUS
  <1>1. 0 \in Slot
    BY BufferLengthAssumption DEF Slot
  <1>2. <<>> \in Seq([slot : Slot, payload : Payload]) /\ Len(<<>>) <= Held
    BY HeldAssumption
  <1>3. 0 \in Payload /\ 0 \in DataSize
    BY MaxPacketsAssumption DEF Payload, DataSize, RTPSize
  <1> QED
    BY <1>1, <1>2, <1>3, BufferLengthAssumption, MaxPacketsAssumption
    DEF Init, TypeOK, Message, Terminator

LEMMA CountOneType ==
    ASSUME TypeOK, CountOne
    PROVE  next_pop' \in Slot /\ current_num_data' \in 0 .. BufferLength
  BY BufferLengthAssumption, AdvanceInSlot DEF TypeOK, CountOne

LEMMA TypeStep == TypeOK /\ [Next]_vars => TypeOK'
  <1> SUFFICES ASSUME TypeOK, [Next]_vars PROVE TypeOK'
    OBVIOUS
  <1> USE DEF Message
  <1>0. /\ 0 \in DataSize /\ 1 \in DataSize /\ -1 \in DataSize
        /\ Terminator \in Payload
    BY MaxPacketsAssumption DEF DataSize, RTPSize, Payload, Terminator
  <1>1. CASE RecvMsg
    <2>1. received < MaxPackets => received + 1 \in Payload
      BY MaxPacketsAssumption DEF TypeOK, Payload
    <2> QED
      BY <1>0, <1>1, <2>1, MaxPacketsAssumption
      DEF TypeOK, RecvMsg, Touch, otherVars
  <1>2. CASE StoreReceived
    BY <1>2, AdvanceInSlot, SizeOfType
    DEF TypeOK, StoreReceived, otherVars, historyVars
  <1>3. CASE Publish
    BY <1>3, CountOneType DEF TypeOK, Publish, otherVars
  <1>4. CASE Notify
    BY <1>4 DEF TypeOK, Notify, notify_one, ringVars, historyVars
  <1>5. CASE RecvAgain
    BY <1>0, <1>5 DEF TypeOK, RecvAgain, Touch, threadVars
  <1>6. CASE RecvFailed
    BY <1>0, <1>6 DEF TypeOK, RecvFailed, Touch, otherVars
  <1>7. CASE Inspkt
    BY <1>0, <1>7, CountOneType, AdvanceInSlot DEF TypeOK, Inspkt, otherVars
  <1>8. CASE StopReceiving
    BY <1>8 DEF TypeOK, StopReceiving, ringVars, otherVars, historyVars
  <1>9. CASE PushSize
    BY <1>0, <1>9 DEF TypeOK, PushSize, Touch, otherVars
  <1>10. CASE PushData
    BY <1>0, <1>10, AdvanceInSlot
    DEF TypeOK, PushData, otherVars, historyVars
  <1>11. CASE Pop
    <2> DEFINE h == [slot |-> next_pop, payload |-> data[next_pop]]
    <2>1. /\ h \in [slot : Slot, payload : Payload]
          /\ popped' \in Message
      BY <1>11 DEF TypeOK, Pop, advance
    <2>2. held' = Remember(h)
      BY <1>11 DEF Pop, advance
    <2>3. held' \in Seq([slot : Slot, payload : Payload]) /\ Len(held') <= Held
      <3> HIDE DEF h
      <3> QED  BY <2>1, <2>2, RememberType
    <2>4. current_num_data' \in 0 .. BufferLength /\ next_pop' \in Slot
      BY <1>11, BufferLengthAssumption, AdvanceInSlot DEF TypeOK, Pop, advance
    <2>5. raced' \in BOOLEAN /\ apc' \in {"main", "loop", "pop", "dest", "done", "aborted"}
      BY <1>11 DEF TypeOK, Pop, Onward, advance
    <2>6. data_size' \in [Slot -> DataSize]
      BY <1>0, <1>11 DEF TypeOK, Pop, advance
    <2>7. UNCHANGED <<next_write, data, sig_flag, rpc, output, waiting, received, dirty, tight>>
      BY <1>11 DEF Pop, advance
    <2> QED  BY <2>1, <2>3, <2>4, <2>5, <2>6, <2>7 DEF TypeOK
  <1>12. CASE Wait
    BY <1>12 DEF TypeOK, Wait, ringVars, historyVars
  <1>13. CASE SpuriousWakeup \/ Signal \/ TestSigFlag
    <2>1. CASE SpuriousWakeup
      BY <2>1 DEF TypeOK, SpuriousWakeup, ringVars, historyVars
    <2>2. CASE Signal
      BY <2>2 DEF TypeOK, Signal, ringVars, historyVars
    <2>3. CASE TestSigFlag
      BY <2>3 DEF TypeOK, TestSigFlag, ringVars, historyVars
    <2> QED  BY <1>13, <2>1, <2>2, <2>3
  <1>14. CASE UNCHANGED vars
    BY <1>14 DEF TypeOK, vars, ringVars, threadVars, historyVars
  <1> QED
    BY <1>1, <1>2, <1>3, <1>4, <1>5, <1>6, <1>7, <1>8, <1>9, <1>10, <1>11,
       <1>12, <1>13, <1>14
    DEF Next, ReceiveThread, AnalysisThread

(* Every variable keeps its type: next_pop and next_write never leave the    *)
(* ring, and the counter never passes buffer_length however far the receive  *)
(* thread runs ahead.                                                        *)
THEOREM TypeCorrect == Spec => []TypeOK
  <1>1. Init => TypeOK
    BY TypeInit
  <1>2. TypeOK /\ [Next]_vars => TypeOK'
    BY TypeStep
  <1> QED  BY <1>1, <1>2, PTL DEF Spec

--------------------------------------------------------------------------------
(* The inductive invariant. *)

LEMMA RingInvInit == Init => RingInv
  <1> SUFFICES ASSUME Init PROVE RingInv
    OBVIOUS
  <1>1. TypeOK
    BY TypeInit
  <1>2. Len(held) = 0
    BY DEF Init
  <1>3. RingPosition
    BY BufferLengthAssumption DEF Init, RingPosition, Uncounted
  <1>4. DirtyPhases /\ RoomForHeld
    BY DEF Init, DirtyPhases, RoomForHeld
  <1>5. HeldBehindPop /\ HeldIntact
    BY <1>2 DEF HeldBehindPop, HeldIntact
  <1> QED  BY <1>1, <1>3, <1>4, <1>5 DEF RingInv

(* One step along the ring. *)
LEMMA AdvanceBy ==
    ASSUME NEW s \in Slot
    PROVE  Advance(s) - s \in {1, 1 - BufferLength}
  BY BufferLengthAssumption DEF Advance, Slot

LEMMA PopPosition ==
    ASSUME TypeOK, RingPosition, Pop
    PROVE  RingPosition'
  <1>1. /\ current_num_data' = current_num_data - 1
        /\ current_num_data > 0
        /\ next_pop' = Advance(next_pop)
        /\ Uncounted' = Uncounted
        /\ next_write' = next_write
    BY DEF Pop, advance, Uncounted
  <1>2. next_pop' - next_pop \in {1, 1 - BufferLength} /\ next_pop' \in Slot
    BY <1>1, AdvanceBy, AdvanceInSlot DEF TypeOK
  <1>3. next_write \in Slot /\ next_pop \in Slot /\ current_num_data \in Int
    BY DEF TypeOK
  <1>4. Uncounted \in {0, 1}
    BY DEF Uncounted
  <1> QED
    BY <1>1, <1>2, <1>3, <1>4, BufferLengthAssumption DEF RingPosition, Slot

LEMMA InspktPosition ==
    ASSUME TypeOK, RingPosition, Inspkt
    PROVE  RingPosition'
  <1>1. /\ next_write' = Advance(next_write)
        /\ CountOne
        /\ Uncounted = 0 /\ Uncounted' = 0
    BY DEF Inspkt, Uncounted
  <1>2. /\ next_write' - next_write \in {1, 1 - BufferLength}
        /\ next_write' \in Slot
        /\ next_write \in Slot /\ next_pop \in Slot
        /\ current_num_data \in 0 .. BufferLength
    BY <1>1, AdvanceBy, AdvanceInSlot DEF TypeOK
  <1>3. CASE current_num_data + 1 > BufferLength
    <2>1. next_pop' = Advance(next_pop) /\ current_num_data' = BufferLength
      BY <1>1, <1>3 DEF CountOne
    <2>2. next_pop' - next_pop \in {1, 1 - BufferLength} /\ next_pop' \in Slot
      BY <1>2, <2>1, AdvanceBy, AdvanceInSlot
    <2> QED
      BY <1>1, <1>2, <1>3, <2>1, <2>2, BufferLengthAssumption
      DEF RingPosition, Slot
  <1>4. CASE ~(current_num_data + 1 > BufferLength)
    <2>1. next_pop' = next_pop /\ current_num_data' = current_num_data + 1
      BY <1>1, <1>4 DEF CountOne
    <2> QED
      BY <1>1, <1>2, <1>4, <2>1, BufferLengthAssumption DEF RingPosition, Slot
  <1> QED  BY <1>3, <1>4

(* The pointers and the counter, one step at a time. *)
LEMMA PositionStep ==
    ASSUME TypeOK, RingPosition, [Next]_vars
    PROVE  RingPosition'
  <1> USE BufferLengthAssumption DEF TypeOK, RingPosition, Uncounted, Advance, Slot
  <1>1. CASE RecvMsg
    BY <1>1 DEF RecvMsg
  <1>2. CASE StoreReceived
    BY <1>2 DEF StoreReceived
  <1>3. CASE Publish
    BY <1>3 DEF Publish, CountOne
  <1>4. CASE Notify
    BY <1>4 DEF Notify, notify_one, ringVars
  <1>5. CASE RecvAgain
    BY <1>5 DEF RecvAgain, threadVars
  <1>6. CASE RecvFailed
    BY <1>6 DEF RecvFailed
  <1>7. CASE Inspkt
    BY <1>7, InspktPosition
  <1>8. CASE StopReceiving
    BY <1>8 DEF StopReceiving, ringVars
  <1>9. CASE PushSize
    BY <1>9 DEF PushSize
  <1>10. CASE PushData
    BY <1>10 DEF PushData
  <1>11. CASE Pop
    BY <1>11, PopPosition
  <1>12. CASE Wait
    BY <1>12 DEF Wait, ringVars
  <1>13. CASE SpuriousWakeup \/ Signal \/ TestSigFlag
    BY <1>13 DEF SpuriousWakeup, Signal, TestSigFlag, ringVars
  <1>14. CASE UNCHANGED vars
    BY <1>14 DEF vars, ringVars, threadVars
  <1> QED
    BY <1>1, <1>2, <1>3, <1>4, <1>5, <1>6, <1>7, <1>8, <1>9, <1>10, <1>11,
       <1>12, <1>13, <1>14
    DEF Next, ReceiveThread, AnalysisThread

(* What Touch records. *)
LEMMA TouchRoom ==
    ASSUME TypeOK, Touch, UNCHANGED current_num_data
    PROVE  /\ dirty'
           /\ ~tight' => current_num_data' + Held < BufferLength
  <1>1. dirty' /\ (~tight' => ~(current_num_data + Held >= BufferLength))
    BY Zenon DEF Touch
  <1>2. current_num_data \in Int /\ Held \in Int /\ BufferLength \in Int
    BY BufferLengthAssumption, HeldAssumption DEF TypeOK
  <1>3. ~(current_num_data + Held >= BufferLength)
            => current_num_data' + Held < BufferLength
    BY <1>2
  <1> QED  BY <1>1, <1>3, Zenon

(* dirty brackets every write, and only a write can bring the ring within    *)
(* Held slots of full.                                                       *)
LEMMA RoomStep ==
    ASSUME TypeOK, DirtyPhases, RoomForHeld, [Next]_vars
    PROVE  DirtyPhases' /\ RoomForHeld'
  <1> USE BufferLengthAssumption, HeldAssumption DEF TypeOK, DirtyPhases, RoomForHeld
  <1>1. CASE RecvMsg
    BY <1>1, TouchRoom DEF RecvMsg
  <1>2. CASE StoreReceived
    BY <1>2 DEF StoreReceived, historyVars
  <1>3. CASE Publish
    BY <1>3 DEF Publish
  <1>4. CASE Notify
    BY <1>4 DEF Notify, notify_one, ringVars, historyVars
  <1>5. CASE RecvAgain
    BY <1>5, TouchRoom DEF RecvAgain, threadVars
  <1>6. CASE RecvFailed
    BY <1>6, TouchRoom DEF RecvFailed
  <1>7. CASE Inspkt
    BY <1>7 DEF Inspkt
  <1>8. CASE StopReceiving
    BY <1>8 DEF StopReceiving, ringVars, historyVars
  <1>9. CASE PushSize
    BY <1>9, TouchRoom DEF PushSize
  <1>10. CASE PushData
    BY <1>10 DEF PushData, historyVars
  <1>11. CASE Pop
    BY <1>11 DEF Pop, advance
  <1>12. CASE Wait
    BY <1>12 DEF Wait, ringVars, historyVars
  <1>13. CASE SpuriousWakeup \/ Signal \/ TestSigFlag
    BY <1>13 DEF SpuriousWakeup, Signal, TestSigFlag, ringVars, historyVars
  <1>14. CASE UNCHANGED vars
    BY <1>14 DEF vars, ringVars, threadVars, historyVars
  <1> QED
    BY <1>1, <1>2, <1>3, <1>4, <1>5, <1>6, <1>7, <1>8, <1>9, <1>10, <1>11,
       <1>12, <1>13, <1>14
    DEF Next, ReceiveThread, AnalysisThread

LEMMA HeldElement ==
    ASSUME TypeOK, NEW i \in 1 .. Len(held)
    PROVE  /\ held[i] \in [slot : Slot, payload : Payload]
           /\ held[i].slot \in Slot
           /\ i \in Int /\ 1 <= i /\ i <= Held
  <1> DEFINE T == [slot : Slot, payload : Payload]
  <1>1. held \in Seq(T) /\ Len(held) <= Held /\ Len(held) \in Nat
    BY DEF TypeOK
  <1>2. held[i] \in T
    <2> HIDE DEF T
    <2> QED  BY <1>1, ElementOfSeq
  <1> QED  BY <1>1, <1>2, HeldAssumption

(* No held packet sits in the slot the receive thread is about to fill while *)
(* at least Held slots are free.                                             *)
LEMMA NextWriteNotHeld ==
    ASSUME TypeOK, RingPosition, HeldBehindPop, ~tight, rpc # "publish",
           current_num_data + Held < BufferLength,
           NEW i \in 1 .. Len(held)
    PROVE  held[i].slot # next_write
  <1>1. held[i].slot + i - next_pop \in {0, BufferLength}
    BY DEF HeldBehindPop
  <1>2. held[i].slot \in Slot /\ i \in Int /\ 1 <= i /\ i <= Held
    BY HeldElement
  <1>3. next_pop + current_num_data - next_write \in {0, BufferLength, 2 * BufferLength}
    <2>1. Uncounted = 0
      BY DEF Uncounted
    <2>2. next_pop \in Int /\ current_num_data \in Int /\ next_write \in Int
      BY BufferLengthAssumption DEF TypeOK, Slot
    <2> QED  BY <2>1, <2>2 DEF RingPosition
  <1>4. /\ next_pop \in 0 .. BufferLength - 1
        /\ next_write \in 0 .. BufferLength - 1
        /\ held[i].slot \in 0 .. BufferLength - 1
        /\ current_num_data \in 0 .. BufferLength
    BY <1>2 DEF TypeOK, Slot
  <1> SUFFICES ASSUME held[i].slot = next_write PROVE FALSE
    OBVIOUS
  <1> DEFINE k == held[i].slot
  <1>5. k + i - next_pop \in {0, BufferLength} /\ k = next_write
        /\ k \in 0 .. BufferLength - 1
    BY <1>1, <1>4
  <1> HIDE DEF k
  <1> QED
    BY <1>2, <1>3, <1>4, <1>5, BufferLengthAssumption, HeldAssumption

(* Held packets are left alone by a step that moves neither next_pop nor a   *)
(* byte ...                                                                  *)
LEMMA HeldUntouched ==
    ASSUME HeldBehindPop, HeldIntact, UNCHANGED <<held, next_pop, data>>,
           ~tight' => ~tight
    PROVE  HeldBehindPop' /\ HeldIntact'
  BY DEF HeldBehindPop, HeldIntact

(* ... and by a write to next_write that finds room.                         *)
LEMMA HeldSurvivesWrite ==
    ASSUME TypeOK, RingPosition, HeldBehindPop, HeldIntact,
           rpc # "publish", UNCHANGED <<held, next_pop>>,
           NEW m, data' = [data EXCEPT ![next_write] = m],
           ~tight' => ~tight /\ current_num_data + Held < BufferLength
    PROVE  HeldBehindPop' /\ HeldIntact'
  <1>1. HeldBehindPop'
    BY DEF HeldBehindPop
  <1>2. HeldIntact'
    <2> SUFFICES ASSUME ~tight', NEW i \in 1 .. Len(held)
                 PROVE  data'[held[i].slot] = held[i].payload
      BY DEF HeldIntact
    <2>1. held[i].slot # next_write
      BY NextWriteNotHeld
    <2>2. held[i].slot \in Slot
      BY HeldElement
    <2>3. data[held[i].slot] = held[i].payload
      BY DEF HeldIntact
    <2> QED  BY <2>1, <2>2, <2>3 DEF TypeOK
  <1> QED  BY <1>1, <1>2

(* A pop puts its slot right behind next_pop and pushes the others one back. *)
LEMMA HeldAfterPop ==
    ASSUME TypeOK, HeldBehindPop, HeldIntact, Pop
    PROVE  HeldBehindPop' /\ HeldIntact'
  <1> DEFINE h == [slot |-> next_pop, payload |-> data[next_pop]]
  <1>1. /\ held' = Remember(h)
        /\ next_pop' = Advance(next_pop)
        /\ data' = data
        /\ tight' = tight
    BY DEF Pop, advance
  <1>2. /\ h \in [slot : Slot, payload : Payload]
        /\ h.slot = next_pop
        /\ h.payload = data[next_pop]
        /\ next_pop \in Slot
    BY DEF TypeOK
  <1> HIDE DEF h
  <1>3. /\ Len(held') \in Nat /\ Len(held') <= Held /\ Len(held') <= Len(held) + 1
        /\ \A i \in 1 .. Len(held') : held'[i] = IF i = 1 THEN h ELSE held[i - 1]
    BY <1>1, <1>2, RememberType
  <1>4. next_pop' - next_pop \in {1, 1 - BufferLength}
    BY <1>1, <1>2, AdvanceBy
  <1>5. next_pop \in 0 .. BufferLength - 1 /\ next_pop' \in 0 .. BufferLength - 1
    BY <1>1, <1>2, AdvanceInSlot DEF Slot
  <1>8. PICK q \in 0 .. BufferLength - 1 : q = next_pop'
    BY <1>5
  <1>9. q - next_pop \in {1, 1 - BufferLength}
    BY <1>4, <1>8
  <1>10. next_pop + 1 - q \in {0, BufferLength}
    BY <1>5, <1>9, BufferLengthAssumption
  <1>11. \A k \in 0 .. BufferLength - 1, j \in Int :
           0 <= j /\ j + 1 < BufferLength /\ k + j - next_pop \in {0, BufferLength}
              => k + (j + 1) - q \in {0, BufferLength}
    BY <1>5, <1>9, BufferLengthAssumption
  <1> SUFFICES ASSUME ~tight, NEW i \in 1 .. Len(held')
               PROVE  /\ held'[i].slot + i - q \in {0, BufferLength}
                      /\ data[held'[i].slot] = held'[i].payload
    BY <1>1, <1>8 DEF HeldBehindPop, HeldIntact
  <1>6. CASE i = 1
    <2>1. held'[i] = h
      BY <1>3, <1>6
    <2> QED
      BY <1>2, <1>6, <1>10, <2>1
  <1>7. CASE i # 1
    <2> DEFINE j == i - 1
    <2>1. Len(held) \in Nat
      BY DEF TypeOK
    <2>2. j \in 1 .. Len(held) /\ i \in 2 .. Held /\ i = j + 1
      BY <1>3, <1>7, <2>1, HeldAssumption
    <2>3. held'[i] = held[j]
      BY <1>3, <1>7
    <2> DEFINE k == held[j].slot
    <2>4. k + j - next_pop \in {0, BufferLength} /\ data[k] = held[j].payload
      BY <2>2 DEF HeldBehindPop, HeldIntact
    <2>5. k \in 0 .. BufferLength - 1
      BY <2>2, HeldElement DEF Slot
    <2>6. held'[i].slot = k
      BY <2>3
    <2> HIDE DEF j, k
    <2>7. k + (j + 1) - q \in {0, BufferLength}
      <3>1. j \in Int /\ 0 <= j /\ j + 1 < BufferLength
        BY <2>2, HeldAssumption, BufferLengthAssumption
      <3> QED  BY <1>11, <2>4, <2>5, <3>1
    <2> QED  BY <2>2, <2>3, <2>4, <2>6, <2>7
  <1> QED  BY <1>6, <1>7

(* While there is room the oldest packet is not given up. *)
LEMMA CountOneWithRoom ==
    ASSUME TypeOK, CountOne, current_num_data + Held < BufferLength
    PROVE  next_pop' = next_pop
  BY BufferLengthAssumption, HeldAssumption DEF TypeOK, CountOne

LEMMA HeldStep ==
    ASSUME RingInv, [Next]_vars
    PROVE  HeldBehindPop' /\ HeldIntact'
  <1> USE DEF RingInv
  <1>1. CASE RecvMsg
    <2>1. PICK m : data' = [data EXCEPT ![next_write] = m]
      BY <1>1 DEF RecvMsg
    <2>2. UNCHANGED <<held, next_pop, current_num_data>> /\ rpc # "publish" /\ Touch
      BY <1>1 DEF RecvMsg, Touch
    <2>3. ~tight' => current_num_data + Held < BufferLength
      BY <2>2, TouchRoom
    <2>4. ~tight' => ~tight
      BY <2>2, Zenon DEF Touch
    <2> QED  BY <2>1, <2>2, <2>3, <2>4, HeldSurvivesWrite
  <1>2. CASE StoreReceived
    BY <1>2, HeldUntouched DEF StoreReceived, historyVars
  <1>3. CASE Publish
    <2>1. /\ UNCHANGED <<held, data, tight>>
          /\ CountOne
          /\ dirty
      BY <1>3 DEF Publish, DirtyPhases
    <2>2. CASE tight
      BY <2>1, <2>2 DEF HeldBehindPop, HeldIntact
    <2>3. CASE ~tight
      <3>1. next_pop' = next_pop
        BY <2>1, <2>3, CountOneWithRoom DEF RoomForHeld
      <3> QED  BY <2>1, <3>1, HeldUntouched
    <2> QED  BY <2>2, <2>3
  <1>4. CASE Notify
    BY <1>4, HeldUntouched DEF Notify, notify_one, ringVars, historyVars
  <1>5. CASE RecvAgain
    <2>1. ~tight' => ~tight
      BY <1>5, Zenon DEF RecvAgain, Touch
    <2> QED  BY <1>5, <2>1, HeldUntouched DEF RecvAgain, Touch
  <1>6. CASE RecvFailed
    <2>1. ~tight' => ~tight
      BY <1>6, Zenon DEF RecvFailed, Touch
    <2> QED  BY <1>6, <2>1, HeldUntouched DEF RecvFailed, Touch
  <1>7. CASE Inspkt
    <2>1. /\ UNCHANGED <<held, tight>>
          /\ CountOne
          /\ dirty
          /\ rpc # "publish"
          /\ data' = [data EXCEPT ![next_write] = Terminator]
      BY <1>7 DEF Inspkt, DirtyPhases
    <2>2. CASE tight
      BY <2>1, <2>2 DEF HeldBehindPop, HeldIntact
    <2>3. CASE ~tight
      <3>1. current_num_data + Held < BufferLength
        BY <2>1, <2>3 DEF RoomForHeld
      <3>2. next_pop' = next_pop
        BY <2>1, <3>1, CountOneWithRoom
      <3> QED  BY <2>1, <2>3, <3>1, <3>2, HeldSurvivesWrite
    <2> QED  BY <2>2, <2>3
  <1>8. CASE StopReceiving
    BY <1>8, HeldUntouched DEF StopReceiving, ringVars, historyVars
  <1>9. CASE PushSize
    <2>1. ~tight' => ~tight
      BY <1>9, Zenon DEF PushSize, Touch
    <2> QED  BY <1>9, <2>1, HeldUntouched DEF PushSize, Touch
  <1>10. CASE PushData
    <2>1. /\ UNCHANGED <<held, next_pop, tight>>
          /\ dirty
          /\ rpc # "publish"
          /\ data' = [data EXCEPT ![next_write] = Terminator]
      BY <1>10 DEF PushData, DirtyPhases, historyVars
    <2>2. ~tight' => ~tight /\ current_num_data + Held < BufferLength
      BY <2>1 DEF RoomForHeld
    <2> QED  BY <2>1, <2>2, HeldSurvivesWrite
  <1>11. CASE Pop
    BY <1>11, HeldAfterPop
  <1>12. CASE Wait
    BY <1>12, HeldUntouched DEF Wait, ringVars, historyVars
  <1>13. CASE SpuriousWakeup \/ Signal \/ TestSigFlag
    BY <1>13, HeldUntouched DEF SpuriousWakeup, Signal, TestSigFlag, ringVars, historyVars
  <1>14. CASE UNCHANGED vars
    BY <1>14, HeldUntouched DEF vars, ringVars, historyVars
  <1> QED
    BY <1>1, <1>2, <1>3, <1>4, <1>5, <1>6, <1>7, <1>8, <1>9, <1>10, <1>11,
       <1>12, <1>13, <1>14
    DEF Next, ReceiveThread, AnalysisThread

(* The conjunction is inductive. *)
THEOREM RingInvCorrect == Spec => []RingInv
  <1>1. Init => RingInv
    BY RingInvInit
  <1>2. RingInv /\ [Next]_vars => RingInv'
    BY TypeStep, PositionStep, RoomStep, HeldStep DEF RingInv
  <1> QED  BY <1>1, <1>2, PTL DEF Spec

--------------------------------------------------------------------------------
(* Consequences. *)

(* next_write stays current_num_data slots (one more while a packet is       *)
(* written but not counted) ahead of next_pop, whichever thread moves        *)
(* next_pop.                                                                 *)
THEOREM RingPositionCorrect == Spec => []RingPosition
  <1>1. RingInv => RingPosition
    BY DEF RingInv
  <1> QED  BY <1>1, RingInvCorrect, PTL

(* The unlocked accesses of receive and push can meet those of get_impl only *)
(* on a full ring.                                                           *)
THEOREM DirtySlotCorrect == Spec => []DirtySlotPoppableOnlyWhenFull
  <1>1. RingInv => DirtySlotPoppableOnlyWhenFull
    <2> SUFFICES ASSUME RingInv, next_pop = WritingSlot, current_num_data > 0
                 PROVE  current_num_data = BufferLength
      BY DEF DirtySlotPoppableOnlyWhenFull
    <2>1. /\ next_pop \in 0 .. BufferLength - 1
          /\ next_write \in 0 .. BufferLength - 1
          /\ current_num_data \in 0 .. BufferLength
      BY DEF RingInv, TypeOK, Slot
    <2>2. next_pop + current_num_data + Uncounted - next_write
             \in {0, BufferLength, 2 * BufferLength}
      BY DEF RingInv, RingPosition
    <2>3. CASE rpc = "publish"
      BY <2>1, <2>2, <2>3, BufferLengthAssumption DEF Uncounted, WritingSlot
    <2>4. CASE rpc # "publish"
      BY <2>1, <2>2, <2>4, BufferLengthAssumption DEF Uncounted, WritingSlot
    <2> QED  BY <2>3, <2>4
  <1> QED  BY <1>1, RingInvCorrect, PTL

(* The packets RTPReceiver still points into are not overwritten while every *)
(* write finds more than Held free slots.                                    *)
THEOREM HeldIntactCorrect == Spec => []HeldIntact
  <1>1. RingInv => HeldIntact
    BY DEF RingInv
  <1> QED  BY <1>1, RingInvCorrect, PTL

--------------------------------------------------------------------------------
(* The ring implements the drop-oldest queue. *)

(* The slots from next_pop on, and a slot whose length is that of its bytes. *)
SlotAt(k) == (next_pop + k) % BufferLength
Whole(s) == data_size[s] = SizeOf(data[s])
Cell(s) == [size |-> data_size[s], payload |-> data[s]]

(* Until a race every packet in the queue is whole, and so is the one about  *)
(* to be counted, at the latest when the mutex is taken.                     *)
QueueWhole == \A k \in Clobbered .. current_num_data - 1 : Whole(SlotAt(k))

WholeInv ==
    ~raced =>
        /\ QueueWhole
        /\ rpc = "publish" => Whole(WritingSlot)
        /\ rpc = "pushData" => data_size[next_write] = 1

LEMMA OnceAround ==
    ASSUME NEW a \in 0 .. 2 * BufferLength - 1
    PROVE  /\ a % BufferLength \in Slot
           /\ a % BufferLength = IF a < BufferLength THEN a ELSE a - BufferLength
  <1>1. BufferLength \in Nat /\ BufferLength > 0 /\ a \in Int
    BY BufferLengthAssumption
  <1>2. a % BufferLength \in 0 .. BufferLength - 1
        /\ a = BufferLength * (a \div BufferLength) + (a % BufferLength)
    BY <1>1, DivMod
  <1>3. CASE a < BufferLength
    <2>1. BufferLength * 0 = 0 /\ BufferLength * 0 + BufferLength = BufferLength
      BY <1>1
    <2>2. a \div BufferLength = 0
      BY <1>1, <1>3, <2>1, DivUnique
    <2> QED  BY <1>1, <1>2, <1>3, <2>1, <2>2 DEF Slot
  <1>4. CASE ~(a < BufferLength)
    <2>1. BufferLength * 1 = BufferLength
      BY <1>1
    <2>2. a \div BufferLength = 1
      BY <1>1, <1>4, <2>1, DivUnique
    <2> QED  BY <1>1, <1>2, <1>4, <2>1, <2>2 DEF Slot
  <1> QED  BY <1>3, <1>4

(* The slots of the ring in order.                                           *)
LEMMA SlotsInOrder ==
    ASSUME TypeOK
    PROVE  /\ \A k \in 0 .. BufferLength :
                /\ SlotAt(k) \in Slot
                /\ SlotAt(k) = IF next_pop + k < BufferLength THEN next_pop + k
                                                            ELSE next_pop + k - BufferLength
           /\ SlotAt(0) = next_pop /\ SlotAt(BufferLength) = next_pop
           /\ \A j, k \in 0 .. BufferLength - 1 : SlotAt(j) = SlotAt(k) => j = k
           /\ \A k \in 0 .. BufferLength - 1 : (Advance(next_pop) + k) % BufferLength = SlotAt(k + 1)
  <1>1. next_pop \in 0 .. BufferLength - 1 /\ BufferLength \in Nat /\ BufferLength > 0
    BY BufferLengthAssumption DEF TypeOK, Slot
  <1>2. \A k \in 0 .. BufferLength :
           /\ SlotAt(k) \in Slot
           /\ SlotAt(k) = IF next_pop + k < BufferLength THEN next_pop + k ELSE next_pop + k - BufferLength
    <2> TAKE k \in 0 .. BufferLength
    <2> DEFINE a == next_pop + k
    <2>1. a \in 0 .. 2 * BufferLength - 1
      BY <1>1
    <2>2. SlotAt(k) = a % BufferLength
      BY DEF SlotAt
    <2> HIDE DEF a
    <2>3. /\ a % BufferLength \in Slot
          /\ a % BufferLength = IF a < BufferLength THEN a ELSE a - BufferLength
      BY <2>1, OnceAround
    <2> QED  BY <1>1, <2>2, <2>3 DEF a
  <1>3. \A k \in 0 .. BufferLength - 1 : (Advance(next_pop) + k) % BufferLength = SlotAt(k + 1)
    <2> TAKE k \in 0 .. BufferLength - 1
    <2> DEFINE a == Advance(next_pop) + k
    <2>1. a = IF next_pop = BufferLength - 1 THEN k ELSE next_pop + 1 + k
      BY <1>1 DEF Advance
    <2>2. a \in 0 .. 2 * BufferLength - 1
      BY <1>1, <2>1
    <2> HIDE DEF a
    <2>3. a % BufferLength = IF a < BufferLength THEN a ELSE a - BufferLength
      BY <2>2, OnceAround
    <2>4. k + 1 \in 0 .. BufferLength
      BY <1>1
    <2>5. SlotAt(k + 1) = IF next_pop + (k + 1) < BufferLength THEN next_pop + (k + 1)
                          ELSE next_pop + (k + 1) - BufferLength
      BY <1>2, <2>4
    <2>6. a % BufferLength = SlotAt(k + 1)
      BY <1>1, <2>1, <2>3, <2>5
    <2> QED  BY <2>6 DEF a
  <1>4. SlotAt(0) = next_pop /\ SlotAt(BufferLength) = next_pop
    <2>1. 0 \in 0 .. BufferLength /\ BufferLength \in 0 .. BufferLength
      BY <1>1
    <2> QED  BY <1>1, <1>2, <2>1
  <1>5. \A j, k \in 0 .. BufferLength - 1 : SlotAt(j) = SlotAt(k) => j = k
    <2> TAKE j, k \in 0 .. BufferLength - 1
    <2>1. j \in 0 .. BufferLength /\ k \in 0 .. BufferLength
      BY <1>1
    <2> QED  BY <1>1, <1>2, <2>1
  <1> QED  BY <1>2, <1>3, <1>4, <1>5

(* The slot written without the mutex is the one after the counted ones; it  *)
(* is one of them only on a full ring, and then the oldest.                  *)
LEMMA WritingSlotAt ==
    ASSUME TypeOK, RingPosition
    PROVE  /\ WritingSlot = SlotAt(current_num_data)
           /\ WritingSlot \in Slot
           /\ \A k \in 0 .. current_num_data - 1 :
                 SlotAt(k) = WritingSlot => k = 0 /\ current_num_data = BufferLength
  <1> DEFINE c == current_num_data
  <1>1. /\ next_pop \in 0 .. BufferLength - 1 /\ next_write \in 0 .. BufferLength - 1
        /\ c \in 0 .. BufferLength /\ BufferLength \in Nat /\ BufferLength > 0
    BY BufferLengthAssumption DEF TypeOK, Slot
  <1>2. next_pop + c + Uncounted - next_write \in {0, BufferLength, 2 * BufferLength}
    BY DEF RingPosition
  <1>4. SlotAt(c) \in Slot
        /\ SlotAt(c) = IF next_pop + c < BufferLength THEN next_pop + c ELSE next_pop + c - BufferLength
    BY SlotsInOrder DEF TypeOK
  <1> HIDE DEF c
  <1>5. WritingSlot = SlotAt(c)
    <2>1. CASE rpc = "publish"
      BY <1>1, <1>2, <1>4, <2>1 DEF Uncounted, WritingSlot
    <2>2. CASE rpc # "publish"
      BY <1>1, <1>2, <1>4, <2>2 DEF Uncounted, WritingSlot
    <2> QED  BY <2>1, <2>2
  <1>6. ASSUME NEW k \in 0 .. c - 1, SlotAt(k) = WritingSlot
        PROVE  k = 0 /\ c = BufferLength
    <2>1. k \in 0 .. BufferLength - 1 /\ 0 \in 0 .. BufferLength - 1
      BY <1>1
    <2>2. c = BufferLength
      <3>1. SUFFICES ASSUME c \in 0 .. BufferLength - 1 PROVE FALSE
        BY <1>1
      <3>2. k = c
        BY <1>5, <1>6, <2>1, <3>1, SlotsInOrder
      <3> QED  BY <1>1, <3>2
    <2>3. k = 0
      BY <1>5, <1>6, <2>1, <2>2, SlotsInOrder
    <2> QED  BY <2>2, <2>3
  <1> QED  BY <1>4, <1>5, <1>6 DEF c

(* The queue as a sequence of cells.                                         *)
QueueForm ==
    /\ Clobbered \in {0, 1} /\ current_num_data - Clobbered \in 0 .. BufferLength
    /\ \A k \in Clobbered .. current_num_data - 1 : Undelivered[k - Clobbered + 1] = Cell(SlotAt(k))
    /\ \A s \in Slot : Cell(s) \in Message
    /\ Undelivered \in [1 .. current_num_data - Clobbered -> Message]
    /\ Undelivered \in Seq(Message) /\ Len(Undelivered) = current_num_data - Clobbered

LEMMA QueueType == TypeOK => QueueForm
  <1> SUFFICES ASSUME TypeOK PROVE QueueForm
    OBVIOUS
  <1> DEFINE n == current_num_data - Clobbered
  <1>1. /\ current_num_data \in 0 .. BufferLength /\ BufferLength \in Nat /\ BufferLength > 0
        /\ next_pop \in Int
    BY BufferLengthAssumption DEF TypeOK, Slot
  <1>2. Clobbered \in {0, 1} /\ (Clobbered = 1 => current_num_data = BufferLength)
    BY DEF Clobbered
  <1>3. n \in 0 .. BufferLength /\ Clobbered + n = current_num_data
    BY <1>1, <1>2
  <1>4. Undelivered = [i \in 1 .. n |-> Cell(SlotAt(Clobbered + i - 1))]
    <2>1. \A i \in 1 .. n : next_pop + Clobbered + i - 1 = next_pop + (Clobbered + i - 1)
      BY <1>1, <1>2, <1>3
    <2> QED  BY <2>1 DEF Undelivered, Cell, SlotAt
  <1>5. \A s \in Slot : Cell(s) \in Message
    <2>1. \A s \in Slot : data_size[s] \in DataSize /\ data[s] \in Payload
      BY DEF TypeOK
    <2> QED  BY <2>1 DEF Cell, Message
  <1>6. \A i \in 1 .. n : Cell(SlotAt(Clobbered + i - 1)) \in Message
    <2> TAKE i \in 1 .. n
    <2>1. Clobbered + i - 1 \in 0 .. BufferLength
      BY <1>1, <1>2, <1>3
    <2> QED  BY <1>5, <2>1, SlotsInOrder
  <1>7. Undelivered \in [1 .. n -> Message]
    BY <1>4, <1>6
  <1>8. Undelivered \in Seq(Message) /\ Len(Undelivered) = n
    <2> HIDE DEF n
    <2>1. n \in Nat
      BY <1>3
    <2> QED  BY <1>7, <2>1, FunctionIsSeq
  <1>9. \A k \in Clobbered .. current_num_data - 1 : Undelivered[k - Clobbered + 1] = Cell(SlotAt(k))
    <2> TAKE k \in Clobbered .. current_num_data - 1
    <2>1. k - Clobbered + 1 \in 1 .. n /\ Clobbered + (k - Clobbered + 1) - 1 = k
      BY <1>1, <1>2
    <2> HIDE DEF n
    <2> QED  BY <1>4, <2>1
  <1> QED  BY <1>2, <1>3, <1>5, <1>7, <1>8, <1>9 DEF QueueForm

LEMMA AppendIs ==
    ASSUME NEW S, NEW n \in Nat, NEW f \in [1 .. n -> S], NEW g \in [1 .. n + 1 -> S],
           \A i \in 1 .. n : g[i] = f[i]
    PROVE  g = Append(f, g[n + 1])
  <1>1. f \in Seq(S) /\ Len(f) = n /\ g[n + 1] \in S
    BY FunctionIsSeq
  <1>2. g \in Seq(S) /\ Len(g) = n + 1
    BY FunctionIsSeq, n + 1 \in Nat
  <1> QED  BY <1>1, <1>2

LEMMA TailIs ==
    ASSUME NEW S, NEW n \in Nat, NEW f \in [1 .. n + 1 -> S], NEW g \in [1 .. n -> S],
           \A i \in 1 .. n : g[i] = f[i + 1]
    PROVE  f # <<>> /\ Head(f) = f[1] /\ g = Tail(f)
  <1>1. f \in Seq(S) /\ Len(f) = n + 1
    BY FunctionIsSeq, n + 1 \in Nat
  <1>2. g \in Seq(S) /\ Len(g) = n
    BY FunctionIsSeq
  <1> QED  BY <1>1, <1>2

(* A write without the mutex: the queue stays as it is, or leaks its oldest  *)
(* element, which is the slot written.                                       *)
LEMMA WriteUnlocked ==
    ASSUME TypeOK, TypeOK', RingPosition, QueueWhole, dirty',
           UNCHANGED <<next_pop, current_num_data, popped>>,
           \A s \in Slot : s # WritingSlot => data'[s] = data[s] /\ data_size'[s] = data_size[s]
    PROVE  QueueWhole' /\ [Bucket!QueueNext]_(Bucket!queueVars)
  <1> DEFINE c == current_num_data
             b == Clobbered
             b1 == Clobbered'
  <1>1. /\ c \in 0 .. BufferLength /\ BufferLength \in Nat /\ BufferLength > 0 /\ c' = c
        /\ dirty \in BOOLEAN /\ dirty'
    BY BufferLengthAssumption DEF TypeOK
  <1>2. /\ b1 = IF c = BufferLength THEN 1 ELSE 0
        /\ b = IF dirty /\ c = BufferLength THEN 1 ELSE 0
    BY <1>1 DEF Clobbered
  <1>3. \A k \in b1 .. c - 1 : /\ k \in 0 .. c - 1 /\ k \in b .. c - 1
                               /\ SlotAt(k)' = SlotAt(k) /\ SlotAt(k) \in Slot
                               /\ SlotAt(k) # WritingSlot
    <2> TAKE k \in b1 .. c - 1
    <2>1. k \in 0 .. c - 1 /\ k \in b .. c - 1 /\ k \in 0 .. BufferLength
          /\ ~(k = 0 /\ c = BufferLength)
      BY <1>1, <1>2
    <2>2. SlotAt(k)' = SlotAt(k)
      BY DEF SlotAt
    <2> QED  BY <2>1, <2>2, SlotsInOrder, WritingSlotAt
  <1>4. \A k \in b1 .. c - 1 : Cell(SlotAt(k))' = Cell(SlotAt(k)) /\ Whole(SlotAt(k))'
    <2> TAKE k \in b1 .. c - 1
    <2>1. /\ SlotAt(k)' = SlotAt(k) /\ data'[SlotAt(k)] = data[SlotAt(k)]
          /\ data_size'[SlotAt(k)] = data_size[SlotAt(k)]
      BY <1>3
    <2>2. Whole(SlotAt(k))
      BY <1>3 DEF QueueWhole
    <2> QED  BY <2>1, <2>2 DEF Cell, Whole
  <1>5. QueueWhole'
    BY <1>1, <1>4 DEF QueueWhole
  <1>6. /\ Undelivered \in [1 .. c - b -> Message] /\ Len(Undelivered) = c - b
        /\ \A k \in b .. c - 1 : Undelivered[k - b + 1] = Cell(SlotAt(k))
    BY QueueType DEF QueueForm
  <1>7. /\ Undelivered' \in [1 .. c - b1 -> Message]
        /\ \A k \in b1 .. c - 1 : Undelivered'[k - b1 + 1] = Cell(SlotAt(k))
    <2>1. (TypeOK => QueueForm)'
      BY QueueType, PTL
    <2>2. /\ Undelivered' \in [1 .. c - b1 -> Message]
          /\ \A k \in b1 .. c - 1 : Undelivered'[k - b1 + 1] = Cell(SlotAt(k))'
      BY <1>1, <2>1 DEF QueueForm
    <2> QED  BY <1>4, <2>2
  <1>8. \A i \in 1 .. c - b1 : /\ i + b1 - 1 \in b1 .. c - 1 /\ i + b1 - 1 \in b .. c - 1
                               /\ (i + b1 - 1) - b1 + 1 = i /\ (i + b1 - 1) - b + 1 = i + b1 - b
    BY <1>1, <1>2
  <1> HIDE DEF b, b1, c
  <1>9. \A i \in 1 .. c - b1 : Undelivered'[i] = Undelivered[i + b1 - b]
    BY <1>6, <1>7, <1>8
  <1>10. CASE b = b1
    <2>1. \A i \in 1 .. c - b : i + b1 - b = i
      BY <1>1, <1>2, <1>10
    <2>2. Undelivered' = Undelivered
      BY <1>6, <1>7, <1>9, <1>10, <2>1
    <2> QED  BY <1>5, <2>2 DEF Bucket!queueVars
  <1>11. CASE b # b1
    <2>1. b = 0 /\ b1 = 1 /\ c = BufferLength
      BY <1>1, <1>2, <1>11
    <2>2. c - 1 \in Nat /\ (c - 1) + 1 = c /\ c - 0 = c /\ \A i \in 1 .. c - 1 : i + 1 - 0 = i + 1
      BY <1>1, <2>1
    <2>3. Undelivered' = Tail(Undelivered)
      <3>1. Undelivered \in [1 .. (c - 1) + 1 -> Message] /\ Undelivered' \in [1 .. c - 1 -> Message]
        BY <1>6, <1>7, <2>1, <2>2
      <3>2. \A i \in 1 .. c - 1 : Undelivered'[i] = Undelivered[i + 1]
        BY <1>9, <2>1, <2>2
      <3> QED  BY <2>2, <3>1, <3>2, TailIs
    <2>4. Len(Undelivered) = BufferLength
      BY <1>6, <2>1, <2>2
    <2>5. Bucket!Leak
      BY <2>3, <2>4 DEF Bucket!Leak
    <2> QED  BY <1>5, <2>5 DEF Bucket!QueueNext
  <1> QED  BY <1>10, <1>11

(* The critical section that counts the slot just written: the queue grows   *)
(* by a whole packet. On a full ring next_pop leaves the slot behind.        *)
LEMMA CountWritten ==
    ASSUME TypeOK, TypeOK', RingPosition, QueueWhole, dirty, ~dirty', CountOne, popped' = popped,
           \A s \in Slot : s # WritingSlot => data'[s] = data[s] /\ data_size'[s] = data_size[s],
           data_size'[WritingSlot] = SizeOf(data'[WritingSlot])
    PROVE  QueueWhole' /\ [Bucket!QueueNext]_(Bucket!queueVars)
  <1> DEFINE c == current_num_data
             b == Clobbered
             n == c - b
             w == WritingSlot
             T == {[size |-> SizeOf(m), payload |-> m] : m \in Payload}
  <1>1. c \in 0 .. BufferLength /\ BufferLength \in Nat /\ BufferLength > 0
    BY BufferLengthAssumption DEF TypeOK
  <1>2. /\ b = (IF c = BufferLength THEN 1 ELSE 0) /\ Clobbered' = 0
        /\ n \in 0 .. BufferLength - 1 /\ c' = n + 1 /\ n = c - b /\ n + b = c
        /\ next_pop' = IF b = 1 THEN Advance(next_pop) ELSE next_pop
    BY <1>1 DEF Clobbered, CountOne
  <1>3. \A k \in 0 .. n : SlotAt(k)' = SlotAt(k + b) /\ SlotAt(k + b) \in Slot
    <2> TAKE k \in 0 .. n
    <2>1. k \in 0 .. BufferLength - 1 /\ k + b \in 0 .. BufferLength /\ k + 0 = k
      BY <1>1, <1>2
    <2>2. CASE b = 1
      BY <1>2, <2>1, <2>2, SlotsInOrder DEF SlotAt
    <2>3. CASE b = 0
      BY <1>2, <2>1, <2>3, SlotsInOrder DEF SlotAt
    <2> QED  BY <1>2, <2>2, <2>3
  <1>4. w = SlotAt(n + b) /\ w \in Slot
    BY <1>2, WritingSlotAt
  <1>5. \A k \in 0 .. n - 1 : SlotAt(k + b) # w /\ k + b \in b .. c - 1
    <2> TAKE k \in 0 .. n - 1
    <2>1. k + b \in 0 .. c - 1 /\ k + b \in b .. c - 1 /\ ~(k + b = 0 /\ c = BufferLength)
      BY <1>1, <1>2
    <2> QED  BY <2>1, WritingSlotAt
  <1>6. /\ Undelivered \in [1 .. n -> Message]
        /\ \A k \in b .. c - 1 : Undelivered[k - b + 1] = Cell(SlotAt(k))
        /\ Len(Undelivered) = n
    BY QueueType DEF QueueForm
  <1>7. /\ Undelivered' \in [1 .. n + 1 -> Message]
        /\ \A k \in 0 .. n : Undelivered'[k + 1] = [size |-> data_size'[SlotAt(k + b)],
                                                    payload |-> data'[SlotAt(k + b)]]
    <2>1. (TypeOK => QueueForm)'
      BY QueueType, PTL
    <2>2. /\ Undelivered' \in [1 .. (n + 1) - 0 -> Message]
          /\ \A k \in 0 .. (n + 1) - 1 : Undelivered'[k - 0 + 1] = Cell(SlotAt(k))'
      BY <1>2, <2>1 DEF QueueForm
    <2>3. (n + 1) - 0 = n + 1 /\ (n + 1) - 1 = n /\ \A k \in 0 .. n : k - 0 + 1 = k + 1
      BY <1>2
    <2> HIDE DEF n, b
    <2>4. Undelivered' \in [1 .. n + 1 -> Message] /\ \A k \in 0 .. n : Undelivered'[k + 1] = Cell(SlotAt(k))'
      BY <2>2, <2>3
    <2> QED  BY <1>3, <2>4 DEF Cell
  <1>8. \A k \in 0 .. n - 1 :
           /\ data'[SlotAt(k + b)] = data[SlotAt(k + b)]
           /\ data_size'[SlotAt(k + b)] = data_size[SlotAt(k + b)]
           /\ Whole(SlotAt(k + b))
    <2> TAKE k \in 0 .. n - 1
    <2>1. k \in 0 .. n
      BY <1>2
    <2> QED  BY <1>3, <1>5, <2>1 DEF QueueWhole
  <1> HIDE DEF n, b, c, w
  <1>9. QueueWhole'
    <2> SUFFICES ASSUME NEW k \in 0 .. n PROVE data_size'[SlotAt(k)'] = SizeOf(data'[SlotAt(k)'])
      <3>1. (Clobbered .. current_num_data - 1)' = 0 .. n
        BY <1>2 DEF c
      <3> QED  BY <3>1 DEF QueueWhole, Whole
    <2>1. SlotAt(k)' = SlotAt(k + b)
      BY <1>3
    <2>2. CASE k = n
      BY <1>4, <2>1, <2>2 DEF w
    <2>3. CASE k # n
      <3>1. k \in 0 .. n - 1
        BY <1>2, <2>3
      <3> QED  BY <1>8, <2>1, <3>1 DEF Whole
    <2> QED  BY <2>2, <2>3
  <1>10. \A i \in 1 .. n : Undelivered'[i] = Undelivered[i]
    <2> TAKE i \in 1 .. n
    <2>1. i - 1 \in 0 .. n - 1 /\ i - 1 \in 0 .. n /\ (i - 1) + 1 = i /\ ((i - 1) + b) - b + 1 = i
      BY <1>1, <1>2
    <2>2. Undelivered[i] = Cell(SlotAt((i - 1) + b))
      BY <1>5, <1>6, <2>1
    <2>3. Undelivered'[i] = [size |-> data_size'[SlotAt((i - 1) + b)], payload |-> data'[SlotAt((i - 1) + b)]]
      BY <1>7, <2>1
    <2> QED  BY <1>8, <2>1, <2>2, <2>3 DEF Cell
  <1>11. Undelivered' = Append(Undelivered, Undelivered'[n + 1])
    <2>1. n \in Nat
      BY <1>2
    <2> QED  BY <1>6, <1>7, <1>10, <2>1, AppendIs
  <1>12. Undelivered'[n + 1] \in T
    <2>1. n \in 0 .. n
      BY <1>2
    <2>2. Undelivered'[n + 1] = [size |-> SizeOf(data'[w]), payload |-> data'[w]]
      BY <1>4, <1>7, <2>1 DEF w
    <2>3. data'[w] \in Payload
      BY <1>4 DEF TypeOK
    <2> QED  BY <2>2, <2>3
  <1>13. Len(Undelivered) < BufferLength
    BY <1>1, <1>2, <1>6
  <1> HIDE DEF T
  <1>14. \E m \in T : Undelivered' = Append(Undelivered, m)
    BY <1>11, <1>12
  <1>15. Bucket!Put
    BY <1>13, <1>14 DEF Bucket!Put, T
  <1> QED  BY <1>9, <1>15 DEF Bucket!QueueNext

(* A pop that meets no write takes the oldest element.                       *)
LEMMA TakeOldest ==
    ASSUME TypeOK, TypeOK', RingPosition, QueueWhole, Pop, ~raced'
    PROVE  /\ QueueWhole' /\ Bucket!QueueNext
           /\ dirty => WritingSlot # next_pop
  <1> DEFINE c == current_num_data
  <1>1. /\ c \in 1 .. BufferLength /\ BufferLength \in Nat /\ BufferLength > 0
        /\ c' = c - 1 /\ next_pop' = Advance(next_pop) /\ data' = data /\ dirty' = dirty
        /\ data_size' = [data_size EXCEPT ![next_pop] = 0]
        /\ popped' = Cell(next_pop)
        /\ data_size \in [Slot -> DataSize]
    BY BufferLengthAssumption DEF TypeOK, Pop, advance, Cell
  <1>2. dirty => WritingSlot # next_pop
    BY Zenon DEF Pop
  <1>3. Clobbered = 0 /\ Clobbered' = 0
    <2>1. dirty => c # BufferLength
      BY <1>2, WritingSlotAt, SlotsInOrder
    <2>2. c' # BufferLength
      BY <1>1
    <2> QED  BY <2>1, <2>2 DEF Clobbered
  <1>4. \A k \in 0 .. c - 2 : /\ SlotAt(k)' = SlotAt(k + 1) /\ SlotAt(k + 1) # next_pop
                              /\ SlotAt(k + 1) \in Slot
    <2> TAKE k \in 0 .. c - 2
    <2>1. k \in 0 .. BufferLength - 1 /\ k + 1 \in 0 .. BufferLength - 1 /\ k + 1 \in 0 .. BufferLength
          /\ 0 \in 0 .. BufferLength - 1 /\ k + 1 # 0
      BY <1>1
    <2> QED  BY <1>1, <2>1, SlotsInOrder DEF SlotAt
  <1>5. /\ Undelivered \in [1 .. c - 0 -> Message] /\ Len(Undelivered) = c - 0
        /\ \A k \in 0 .. c - 1 : Undelivered[k - 0 + 1] = Cell(SlotAt(k))
    BY <1>3, QueueType DEF QueueForm
  <1>6. /\ Undelivered' \in [1 .. (c - 1) - 0 -> Message]
        /\ \A k \in 0 .. (c - 1) - 1 : Undelivered'[k - 0 + 1] = Cell(SlotAt(k))'
    <2>1. (TypeOK => QueueForm)'
      BY QueueType, PTL
    <2> QED  BY <1>1, <1>3, <2>1 DEF QueueForm
  <1>7. \A k \in 0 .. c - 2 : Cell(SlotAt(k))' = Cell(SlotAt(k + 1)) /\ Whole(SlotAt(k))'
    <2> TAKE k \in 0 .. c - 2
    <2>1. data_size'[SlotAt(k + 1)] = data_size[SlotAt(k + 1)]
      BY <1>1, <1>4
    <2>2. Whole(SlotAt(k + 1))
      BY <1>1, <1>3 DEF QueueWhole
    <2> QED  BY <1>1, <1>4, <2>1, <2>2 DEF Cell, Whole
  <1>8. c - 1 \in Nat /\ (c - 1) + 1 = c /\ c - 0 = c /\ (c - 1) - 0 = c - 1 /\ (c - 1) - 1 = c - 2 /\ c > 0
    BY <1>1
  <1>9. QueueWhole'
    <2>1. (Clobbered .. current_num_data - 1)' = 0 .. c - 2
      BY <1>1, <1>3, <1>8
    <2> QED  BY <1>7, <2>1 DEF QueueWhole
  <1>10. \A i \in 1 .. c - 1 : Undelivered'[i] = Undelivered[i + 1]
    <2> TAKE i \in 1 .. c - 1
    <2>1. /\ i - 1 \in 0 .. c - 2 /\ (i - 1) - 0 + 1 = i /\ i - 0 + 1 = i + 1 /\ i \in 0 .. c - 1
          /\ (i - 1) + 1 = i
      BY <1>1
    <2>2. Undelivered'[i] = Cell(SlotAt(i - 1))'
      BY <1>6, <1>8, <2>1
    <2>3. Undelivered[i + 1] = Cell(SlotAt(i))
      BY <1>5, <2>1
    <2> QED  BY <1>7, <2>1, <2>2, <2>3
  <1>11. Undelivered # <<>> /\ Head(Undelivered) = Undelivered[1] /\ Undelivered' = Tail(Undelivered)
    <2> HIDE DEF c
    <2>1. Undelivered \in [1 .. (c - 1) + 1 -> Message] /\ Undelivered' \in [1 .. c - 1 -> Message]
      BY <1>5, <1>6, <1>8
    <2> QED  BY <1>8, <1>10, <2>1, TailIs
  <1>12. popped' = Undelivered[1]
    <2>1. 0 \in 0 .. c - 1 /\ 0 - 0 + 1 = 1
      BY <1>1
    <2>2. SlotAt(0) = next_pop
      BY SlotsInOrder
    <2> QED  BY <1>1, <1>5, <2>1, <2>2
  <1>13. Bucket!Take
    BY <1>11, <1>12 DEF Bucket!Take
  <1> QED  BY <1>2, <1>9, <1>13 DEF Bucket!QueueNext

(* A step that leaves the ring alone.                                        *)
LEMMA RingUntouched ==
    ASSUME TypeOK, QueueWhole, UNCHANGED <<ringVars, popped, dirty>>
    PROVE  QueueWhole' /\ [Bucket!QueueNext]_(Bucket!queueVars)
  <1> USE DEF ringVars
  <1>1. Clobbered' = Clobbered /\ \A k : SlotAt(k)' = SlotAt(k) /\ Whole(SlotAt(k))' = Whole(SlotAt(k))
    BY DEF Clobbered, SlotAt, Whole
  <1>2. QueueWhole'
    BY <1>1 DEF QueueWhole
  <1>3. Undelivered' = Undelivered
    BY <1>1 DEF Undelivered
  <1> QED  BY <1>2, <1>3 DEF Bucket!queueVars

LEMMA QueueStep ==
    RingInv /\ WholeInv /\ [Next]_vars
        => /\ WholeInv'
           /\ [~raced' => Bucket!QueueNext]_(Bucket!queueVars)
  <1> SUFFICES ASSUME RingInv, WholeInv, [Next]_vars
               PROVE  /\ WholeInv'
                      /\ [~raced' => Bucket!QueueNext]_(Bucket!queueVars)
    OBVIOUS
  <1>1. TypeOK /\ TypeOK' /\ RingPosition /\ DirtyPhases
    BY TypeStep DEF RingInv
  <1> DEFINE Goal == QueueWhole' /\ [Bucket!QueueNext]_(Bucket!queueVars)
             Published == rpc' = "publish" => Whole(WritingSlot)'
             Pushed == rpc' = "pushData" => data_size'[next_write'] = 1
  <1>2. SUFFICES ASSUME ~raced' PROVE Goal /\ Published /\ Pushed
    BY DEF WholeInv
  <1>3. ~raced
    BY <1>2, Zenon DEF Next, ReceiveThread, AnalysisThread, RecvMsg, StoreReceived, Publish, Notify,
       RecvAgain, RecvFailed, Inspkt, StopReceiving, PushSize, PushData, Pop, Wait, SpuriousWakeup,
       Signal, TestSigFlag,
       Touch, historyVars, vars
  <1>4. QueueWhole /\ (rpc = "publish" => Whole(WritingSlot))
        /\ (rpc = "pushData" => data_size[next_write] = 1)
    BY <1>3 DEF WholeInv
  <1>5. data \in [Slot -> Payload] /\ data_size \in [Slot -> DataSize] /\ next_write \in Slot
    BY <1>1 DEF TypeOK
  <1>6. rpc # "publish" => WritingSlot = next_write
    BY DEF WritingSlot
  <1>7. BufferLength \in Nat /\ BufferLength > 0
    BY BufferLengthAssumption
  <1> HIDE DEF Goal
  <1>8. ASSUME dirty', UNCHANGED <<next_pop, current_num_data, popped>>, rpc # "publish",
               \A s \in Slot : s # next_write => data'[s] = data[s] /\ data_size'[s] = data_size[s]
        PROVE  Goal
    BY <1>1, <1>4, <1>6, <1>8, WriteUnlocked DEF Goal
  <1>9. ASSUME UNCHANGED <<ringVars, popped, dirty>>
        PROVE  Goal
    BY <1>1, <1>4, <1>9, RingUntouched DEF Goal
  <1>10. CASE RecvMsg
    <2>1. /\ rpc = "receive" /\ rpc' = "received" /\ dirty' /\ UNCHANGED <<next_pop, current_num_data, popped, data_size>>
          /\ \E m : data' = [data EXCEPT ![next_write] = m]
      BY <1>10, Zenon DEF RecvMsg, Touch, otherVars
    <2> QED  BY <1>5, <1>8, <2>1
  <1>11. CASE StoreReceived
    <2>1. /\ rpc = "received" /\ rpc' = "publish" /\ next_write' = Advance(next_write)
          /\ data_size' = [data_size EXCEPT ![next_write] = SizeOf(data[next_write])]
          /\ UNCHANGED <<next_pop, current_num_data, data, popped, dirty>>
      BY <1>11 DEF StoreReceived, otherVars, historyVars
    <2>2. Goal
      BY <1>1, <1>5, <1>8, <2>1 DEF DirtyPhases
    <2>3. WritingSlot' = next_write
      BY <1>5, <1>7, <2>1 DEF WritingSlot, Advance, Slot
    <2> QED  BY <1>5, <2>1, <2>2, <2>3 DEF Whole
  <1>12. CASE Publish
    <2>1. /\ rpc = "publish" /\ rpc' = "notify" /\ CountOne /\ ~dirty'
          /\ UNCHANGED <<data, data_size, popped>>
      BY <1>12 DEF Publish, otherVars
    <2>2. Goal
      BY <1>1, <1>4, <2>1, CountWritten DEF DirtyPhases, Whole, Goal
    <2> QED  BY <2>1, <2>2
  <1>13. CASE Notify
    <2>1. UNCHANGED <<ringVars, popped, dirty>> /\ rpc' \in {"receive", "push", "done"}
      BY <1>1, <1>13 DEF Notify, historyVars, TypeOK
    <2> QED  BY <1>9, <2>1
  <1>14. CASE RecvAgain
    <2>1. /\ rpc = "receive" /\ rpc' = "receive" /\ dirty' /\ UNCHANGED <<next_pop, current_num_data, popped, data>>
          /\ data_size' = [data_size EXCEPT ![next_write] = -1]
      BY <1>14, Zenon DEF RecvAgain, Touch, threadVars
    <2> QED  BY <1>5, <1>8, <2>1
  <1>15. CASE RecvFailed
    <2>1. /\ rpc = "receive" /\ rpc' \in {"inspkt", "push"} /\ dirty' /\ UNCHANGED <<next_pop, current_num_data, popped, data>>
          /\ data_size' = [data_size EXCEPT ![next_write] = -1]
      BY <1>15 DEF RecvFailed, Touch, otherVars
    <2> QED  BY <1>5, <1>8, <2>1
  <1>16. CASE Inspkt
    <2>1. /\ rpc = "inspkt" /\ rpc' = "notify" /\ CountOne /\ ~dirty' /\ popped' = popped
          /\ data_size' = [data_size EXCEPT ![next_write] = 1]
          /\ data' = [data EXCEPT ![next_write] = Terminator]
      BY <1>16 DEF Inspkt, otherVars
    <2>2. dirty /\ WritingSlot = next_write
      BY <1>1, <1>6, <2>1 DEF DirtyPhases
    <2>3. data_size'[WritingSlot] = SizeOf(data'[WritingSlot])
      BY <1>5, <2>1, <2>2 DEF SizeOf
    <2>4. \A s \in Slot : s # WritingSlot => data'[s] = data[s] /\ data_size'[s] = data_size[s]
      BY <1>5, <2>1, <2>2
    <2>5. Goal
      BY <1>1, <1>4, <2>1, <2>2, <2>3, <2>4, CountWritten DEF Goal
    <2> QED  BY <2>1, <2>5
  <1>17. CASE StopReceiving
    <2>1. UNCHANGED <<ringVars, popped, dirty>> /\ rpc' = "push"
      BY <1>17 DEF StopReceiving, otherVars, historyVars
    <2> QED  BY <1>9, <2>1
  <1>18. CASE PushSize
    <2>1. /\ rpc = "push" /\ rpc' = "pushData" /\ dirty' /\ UNCHANGED <<next_write, next_pop, current_num_data, popped, data>>
          /\ data_size' = [data_size EXCEPT ![next_write] = 1]
      BY <1>18, Zenon DEF PushSize, Touch, otherVars
    <2> QED  BY <1>5, <1>8, <2>1
  <1>19. CASE PushData
    <2>1. /\ rpc = "pushData" /\ rpc' = "publish" /\ next_write' = Advance(next_write)
          /\ data' = [data EXCEPT ![next_write] = Terminator]
          /\ UNCHANGED <<next_pop, current_num_data, data_size, popped, dirty>>
      BY <1>19 DEF PushData, otherVars, historyVars
    <2>2. Goal
      BY <1>1, <1>5, <1>8, <2>1 DEF DirtyPhases
    <2>3. WritingSlot' = next_write
      BY <1>5, <1>7, <2>1 DEF WritingSlot, Advance, Slot
    <2> QED  BY <1>4, <1>5, <2>1, <2>2, <2>3 DEF Whole, SizeOf
  <1>20. CASE Pop
    <2>1. Goal /\ (dirty => WritingSlot # next_pop)
      BY <1>1, <1>2, <1>4, <1>20, TakeOldest DEF Goal
    <2>2. /\ UNCHANGED <<rpc, next_write, data>>
          /\ data_size' = [data_size EXCEPT ![next_pop] = 0]
      BY <1>20 DEF Pop, advance
    <2>3. WritingSlot' = WritingSlot /\ WritingSlot \in Slot
      BY <1>1, <2>2, WritingSlotAt DEF WritingSlot
    <2>4. rpc \in {"publish", "pushData"} => WritingSlot # next_pop
      BY <1>1, <2>1 DEF DirtyPhases
    <2>5. Published
      BY <1>4, <1>5, <2>2, <2>3, <2>4 DEF Whole
    <2>6. Pushed
      BY <1>4, <1>5, <1>6, <2>2, <2>4
    <2> QED  BY <2>1, <2>5, <2>6
  <1>21. CASE Wait \/ SpuriousWakeup \/ Signal \/ TestSigFlag \/ UNCHANGED vars
    <2>1. UNCHANGED <<ringVars, popped, dirty, rpc>>
      BY <1>21 DEF Wait, SpuriousWakeup, Signal, TestSigFlag, vars, threadVars, historyVars
    <2>2. Goal
      BY <1>9, <2>1
    <2>3. WritingSlot' = WritingSlot
      BY <2>1 DEF WritingSlot, ringVars
    <2> QED  BY <1>4, <2>1, <2>2, <2>3 DEF Whole, ringVars
  <1> QED
    BY <1>10, <1>11, <1>12, <1>13, <1>14, <1>15, <1>16, <1>17, <1>18, <1>19, <1>20, <1>21
    DEF Next, ReceiveThread, AnalysisThread

(* For a ring of any length: until a slot is popped while it is written,     *)
(* every step of the two threads is a step of the drop-oldest queue or       *)
(* leaves it alone.                                                          *)
THEOREM RingImplementsQueue == Spec => RefinesUntilRace
  <1>1. Init => WholeInv
    <2> SUFFICES ASSUME Init PROVE WholeInv
      OBVIOUS
    <2>1. Clobbered = 0 /\ current_num_data = 0 /\ rpc = "receive"
      BY BufferLengthAssumption DEF Init, Clobbered
    <2> QED  BY <2>1 DEF WholeInv, QueueWhole
  <1>2. Init => Bucket!QueueInit(popped)
    <2> SUFFICES ASSUME Init PROVE Bucket!QueueInit(popped)
      OBVIOUS
    <2>1. Clobbered = 0 /\ current_num_data = 0
      BY BufferLengthAssumption DEF Init, Clobbered
    <2>2. 1 .. current_num_data - Clobbered = {}
      BY <2>1
    <2>3. Undelivered = <<>>
      BY <2>2 DEF Undelivered
    <2> QED  BY <2>3 DEF Bucket!QueueInit
  <1> QED  BY <1>1, <1>2, RingInvCorrect, QueueStep, PTL DEF Spec, RefinesUntilRace

================================================================================
