--------------------------- MODULE EventBusProofs ---------------------------
(***************************************************************************)
(* Used from task context only, or by callbacks that never strike inside a *)
(* call of the task (Preempt = FALSE), the ring buffer of event_bus.c      *)
(* implements the bounded FIFO, for every capacity and set of events.      *)
(***************************************************************************)
EXTENDS EventBus, SequenceTheorems, TLAPS

(* The slot i places after the tail.                                       *)
Offset(i) == IF tail + i < Capacity THEN tail + i ELSE tail + i - Capacity

(* How many slots the ring holds between tail and head.                    *)
Held == IF pc = "idle" THEN count
        ELSE IF pc = "posting" THEN count + 1
        ELSE count - 1

(* While the task is inside a call the ring and s_count differ by the one  *)
(* event in transit, and the register holds s_count.                       *)
RingInv ==
    /\ pc = "posting" => reg = count /\ count < Capacity
    /\ pc = "popping" => reg = count /\ count > 0
    /\ head = Offset(Held)
    /\ \A i \in 0 .. (Held - 1) : slots[Offset(i)] \in Events

BInv == BusTypeOK /\ RingInv
-----------------------------------------------------------------------------
(* The arithmetic of the type invariant, for the provers.                  *)
LEMMA Ints ==
    ASSUME BInv
    PROVE  /\ Capacity \in Nat /\ Capacity > 0
           /\ tail \in Nat /\ tail < Capacity
           /\ head \in Nat /\ head < Capacity
           /\ count \in Nat /\ count <= Capacity
           /\ reg \in Nat /\ reg <= Capacity
           /\ Held \in Nat /\ Held <= Capacity
           /\ Pending \in Nat /\ Pending <= Held
           /\ pc \in {"idle", "posting", "popping"}
<1>1. /\ Capacity \in Nat /\ Capacity > 0
      /\ tail \in Nat /\ tail < Capacity
      /\ head \in Nat /\ head < Capacity
      /\ count \in Nat /\ count <= Capacity
      /\ reg \in Nat /\ reg <= Capacity
      /\ pc \in {"idle", "posting", "popping"}
  BY BusAssumption DEF BInv, BusTypeOK, Slots
<1> QED
  BY <1>1 DEF BInv, RingInv, Held, Pending

(* Distinct offsets within the ring are distinct slots.                    *)
LEMMA OffsetInjective ==
    ASSUME BInv, NEW i \in 0 .. (Capacity - 1), NEW j \in 0 .. (Capacity - 1),
           i # j
    PROVE  Offset(i) \in Slots /\ Offset(i) # Offset(j)
  BY Ints DEF Offset, Slots

(* The i-th pending event is in the slot i - 1 places after the tail.      *)
LEMMA PositionOffset ==
    ASSUME BInv, NEW i \in 1 .. Capacity
    PROVE  Position(i) = Offset(i - 1) /\ Position(i) \in Slots
  BY Ints DEF Offset, Position, Slots

LEMMA BumpType == \A c \in Counters : Bump(c) \in Counters
  BY BusAssumption DEF Bump, Counters

LEMMA TallyType ==
    ASSUME BInv, NEW n \in 0 .. Capacity
    PROVE  Tally(n) \in [posted : Counters, dispatched : Counters,
                         refused : Counters, depth : 0 .. Capacity]
  BY BumpType DEF BInv, BusTypeOK, Tally

(* The abstract queue is a sequence of events.                             *)
ContentsOK ==
    /\ Contents \in Seq(Events)
    /\ Len(Contents) = Pending
    /\ \A i \in 1 .. Pending : Contents[i] = slots[Offset(i - 1)]

LEMMA ContentsSeq == BInv => ContentsOK
<1> SUFFICES ASSUME BInv PROVE ContentsOK
  OBVIOUS
<1>1. ASSUME NEW i \in 1 .. Pending
      PROVE  slots[Position(i)] \in Events /\ Position(i) = Offset(i - 1)
  <2>1. i \in 1 .. Capacity /\ i - 1 \in 0 .. (Held - 1)
    BY Ints
  <2> QED
    BY <2>1, PositionOffset DEF BInv, RingInv
<1>2. Contents \in [1 .. Pending -> Events]
  BY <1>1 DEF Contents
<1>3. Contents \in Seq(Events)
  BY <1>2, SeqDef, Ints
<1>4. DOMAIN Contents = 1 .. Pending
  BY DEF Contents
<1>5. Len(Contents) = Pending
  BY <1>3, <1>4, LenProperties, Ints
<1> QED
  BY <1>1, <1>3, <1>5 DEF Contents, ContentsOK
-----------------------------------------------------------------------------
LEMMA InitBInv == Init => BInv
<1> SUFFICES ASSUME Init PROVE BInv
  OBVIOUS
<1>1. 0 \in Slots /\ 0 \in Counters /\ 0 \in 0 .. Capacity
  BY BusAssumption DEF Slots, Counters
<1>2. BusTypeOK
  BY <1>1 DEF Init, BusTypeOK
<1>3. RingInv
  BY <1>1, BusAssumption DEF Init, RingInv, Held, Offset
<1> QED
  BY <1>2, <1>3 DEF BInv

(* Writing the slot at s_head extends the ring by one event and moves no   *)
(* other.                                                                  *)
LEMMA EnqueueExtends ==
    ASSUME BInv, NEW e \in Events, Enqueue(e), Held < Capacity, tail' = tail
    PROVE  /\ slots' \in [Slots -> Events \cup {NoEvent}]
           /\ head' = Offset(Held + 1) /\ head' \in Slots
           /\ slots'[Offset(Held)] = e
           /\ \A i \in 0 .. (Held - 1) : slots'[Offset(i)] = slots[Offset(i)]
<1>1. head = Offset(Held) /\ head \in Slots
  BY DEF BInv, RingInv, BusTypeOK
<1>2. slots' = [slots EXCEPT ![head] = e] /\ head' = After(head)
  BY DEF Enqueue
<1>3. head' = Offset(Held + 1) /\ head' \in Slots
  BY <1>1, <1>2, Ints DEF After, Offset, Slots
<1>4. ASSUME NEW i \in 0 .. (Held - 1)
      PROVE  slots'[Offset(i)] = slots[Offset(i)]
  <2>1. /\ i \in 0 .. (Capacity - 1) /\ Held \in 0 .. (Capacity - 1)
        /\ i # Held
    BY Ints
  <2>2. Offset(i) \in Slots /\ Offset(i) # head
    BY <1>1, <2>1, OffsetInjective
  <2> QED
    BY <1>2, <2>2 DEF BInv, BusTypeOK
<1>5. slots' \in [Slots -> Events \cup {NoEvent}] /\ slots'[head] = e
  BY <1>1, <1>2 DEF BInv, BusTypeOK
<1> QED
  BY <1>1, <1>3, <1>4, <1>5

(* The events in the ring after it was extended.                           *)
LEMMA ExtendedEvents ==
    ASSUME BInv, NEW e \in Events, Enqueue(e), Held < Capacity, tail' = tail,
           NEW i \in 0 .. Held
    PROVE  slots'[Offset(i)] \in Events
<1>1. CASE i = Held
  BY <1>1, EnqueueExtends
<1>2. CASE i # Held
  <2>1. i \in 0 .. (Held - 1)
    BY <1>2, Ints
  <2> QED
    BY <2>1, EnqueueExtends DEF BInv, RingInv
<1> QED
  BY <1>1, <1>2

LEMMA TaskPostStep ==
    ASSUME BInv, NEW e \in Events, TaskPost(e)
    PROVE  BInv' /\ Contents' = Contents /\ out' = out
<1>1. /\ pc = "idle" /\ pc' = "posting" /\ count < Capacity /\ Enqueue(e)
      /\ reg' = count /\ tail' = tail /\ count' = count /\ out' = out
      /\ stats' = stats
  BY DEF TaskPost
<1>2. Held = count /\ Held' = count + 1 /\ Pending = count /\ Pending' = count
  BY <1>1 DEF Held, Pending
<1>3. /\ \A i : Offset(i)' = Offset(i) /\ Position(i)' = Position(i)
      /\ Offset(Held)' = Offset(Held + 1)
  BY <1>1, <1>2 DEF Offset, Position
<1>4. BusTypeOK'
  BY <1>1, <1>2, EnqueueExtends DEF BInv, BusTypeOK
<1>5. RingInv'
  <2>1. head' = Offset(Held)'
    BY <1>1, <1>2, <1>3, EnqueueExtends
  <2>2. ASSUME NEW i \in 0 .. (Held' - 1) PROVE slots'[Offset(i)] \in Events
    <3>1. i \in 0 .. Held
      BY <1>2, Ints
    <3> QED
      BY <1>1, <1>2, <3>1, ExtendedEvents
  <2> QED
    BY <1>1, <1>3, <2>1, <2>2 DEF RingInv
<1>6. Contents' = Contents
  <2>1. ASSUME NEW i \in 1 .. Pending
        PROVE  slots'[Position(i)] = slots[Position(i)]
    <3>1. i \in 1 .. Capacity /\ i - 1 \in 0 .. (Held - 1)
      BY <1>2, Ints
    <3> QED
      BY <1>1, <1>2, <3>1, PositionOffset, EnqueueExtends
  <2> QED
    BY <1>2, <1>3, <2>1 DEF Contents
<1> QED
  BY <1>1, <1>4, <1>5, <1>6 DEF BInv

LEMMA TaskPostedStep ==
    ASSUME BInv, TaskPosted
    PROVE  BInv' /\ Fifo!FifoNext
<1>1. /\ pc = "posting" /\ pc' = "idle" /\ count' = reg + 1
      /\ slots' = slots /\ head' = head /\ tail' = tail /\ reg' = reg
      /\ out' = out /\ stats' = Tally(reg + 1)
  BY DEF TaskPosted
<1>2. reg = count /\ count < Capacity
  BY <1>1 DEF BInv, RingInv
<1>3. /\ Held = count + 1 /\ Held' = count + 1
      /\ Pending = count /\ Pending' = count + 1
  BY <1>1, <1>2 DEF Held, Pending
<1>4. /\ \A i : Offset(i)' = Offset(i) /\ Position(i)' = Position(i)
      /\ Offset(Held)' = Offset(Held)
  BY <1>1, <1>3 DEF Offset, Position
<1>5. count' \in 0 .. Capacity
  BY <1>1, <1>2, Ints
<1>6. BusTypeOK'
  BY <1>1, <1>2, <1>5, TallyType DEF BInv, BusTypeOK
<1>7. RingInv'
  BY <1>1, <1>3, <1>4 DEF BInv, RingInv
<1>8. BInv'
  BY <1>6, <1>7 DEF BInv
<1> DEFINE e == slots[Offset(count)]
<1>9. e \in Events
  <2>1. count \in 0 .. (Held - 1)
    BY <1>3, Ints
  <2> QED
    BY <2>1 DEF BInv, RingInv
<1>10. Contents' = Append(Contents, e)
  <2>1. ContentsOK'
    BY <1>8, ContentsSeq, PTL
  <2>2. ContentsOK
    BY ContentsSeq
  <2>3. /\ Contents' \in Seq(Events) /\ Len(Contents') = count + 1
        /\ \A i \in 1 .. count + 1 : Contents'[i] = slots[Offset(i - 1)]
    BY <1>1, <1>3, <1>4, <2>1 DEF ContentsOK
  <2>4. /\ Contents \in Seq(Events) /\ Len(Contents) = count
        /\ \A i \in 1 .. count : Contents[i] = slots[Offset(i - 1)]
    BY <1>3, <2>2 DEF ContentsOK
  <2>5. Append(Contents, e) \in Seq(Events) /\ Len(Append(Contents, e)) = count + 1
    BY <1>9, <2>4
  <2>6. ASSUME NEW i \in 1 .. count + 1 PROVE Contents'[i] = Append(Contents, e)[i]
    <3>1. CASE i = count + 1
      BY <1>9, <2>3, <2>4, <3>1, Ints
    <3>2. CASE i # count + 1
      <4>1. i \in 1 .. count
        BY <3>2, Ints
      <4> QED
        BY <1>9, <2>3, <2>4, <4>1, Ints
    <3> QED
      BY <3>1, <3>2
  <2> QED
    BY <2>3, <2>5, <2>6, SeqEqual
<1>11. Len(Contents) < Capacity
  BY <1>2, <1>3, ContentsSeq DEF ContentsOK
<1> QED
  BY <1>1, <1>8, <1>9, <1>10, <1>11 DEF Fifo!FifoNext, Fifo!Put

LEMMA TaskPopStep ==
    ASSUME BInv, TaskPop
    PROVE  BInv' /\ Fifo!Take
<1>1. /\ pc = "idle" /\ pc' = "popping" /\ count # 0 /\ count' = count
      /\ slots' = slots /\ head' = head /\ tail' = After(tail)
      /\ reg' = count /\ out' = slots[tail] /\ stats' = stats
  BY DEF TaskPop
<1>2. /\ Held = count /\ Held' = count - 1
      /\ Pending = count /\ Pending' = count - 1
  BY <1>1 DEF Held, Pending
<1>3. tail' \in Slots
  BY <1>1, Ints DEF After, Slots
<1>4. ASSUME NEW i \in 0 .. (Capacity - 1)
      PROVE  Offset(i)' = Offset(i + 1)
  BY <1>1, Ints DEF After, Offset
<1>5. Offset(Held)' = Offset(Held)
  BY <1>1, <1>2, Ints DEF After, Offset
<1>6. BusTypeOK'
  <2>1. tail \in Slots
    BY DEF BInv, BusTypeOK
  <2> QED
    BY <1>1, <1>3, <2>1 DEF BInv, BusTypeOK
<1>7. RingInv'
  <2>1. ASSUME NEW i \in 0 .. (Held' - 1) PROVE slots'[Offset(i)'] \in Events
    <3>1. i \in 0 .. (Capacity - 1) /\ i + 1 \in 0 .. (Held - 1)
      BY <1>2, Ints
    <3> QED
      BY <1>1, <1>4, <3>1 DEF BInv, RingInv
  <2>2. head' = Offset(Held)'
    BY <1>1, <1>5 DEF BInv, RingInv
  <2> QED
    BY <1>1, <1>2, <2>1, <2>2, Ints DEF RingInv
<1>8. BInv'
  BY <1>6, <1>7 DEF BInv
<1>9. ContentsOK /\ ContentsOK'
  BY <1>8, ContentsSeq, PTL
<1>10. /\ Contents \in Seq(Events) /\ Len(Contents) = count
       /\ \A i \in 1 .. count : Contents[i] = slots[Offset(i - 1)]
  BY <1>2, <1>9 DEF ContentsOK
<1>11. /\ Contents' \in Seq(Events) /\ Len(Contents') = count - 1
       /\ \A i \in 1 .. count - 1 : Contents'[i] = slots[Offset(i)]
  <2>1. ASSUME NEW i \in 1 .. count - 1 PROVE Contents'[i] = slots[Offset(i)]
    <3>1. Contents'[i] = slots'[Offset(i - 1)']
      BY <1>2, <1>9 DEF ContentsOK
    <3>2. i - 1 \in 0 .. (Capacity - 1) /\ (i - 1) + 1 = i
      BY Ints
    <3> QED
      BY <1>1, <1>4, <3>1, <3>2
  <2> QED
    BY <1>2, <1>9, <2>1 DEF ContentsOK
<1>12. Contents # <<>>
  BY <1>1, <1>10, EmptySeq
<1>13. out' = Head(Contents)
  <2>1. 1 \in 1 .. count /\ Offset(0) = tail
    BY <1>1, Ints DEF Offset
  <2> QED
    BY <1>1, <1>10, <1>12, <2>1
<1>14. Contents' = Tail(Contents)
  <2>1. /\ Tail(Contents) \in Seq(Events)
        /\ Len(Tail(Contents)) = count - 1
        /\ \A i \in 1 .. count - 1 : Tail(Contents)[i] = Contents[i + 1]
    BY <1>10, <1>12, HeadTailProperties
  <2>2. ASSUME NEW i \in 1 .. count - 1 PROVE Contents'[i] = Tail(Contents)[i]
    <3>1. i + 1 \in 1 .. count /\ (i + 1) - 1 = i
      BY Ints
    <3> QED
      BY <1>10, <1>11, <2>1, <3>1
  <2> QED
    BY <1>11, <2>1, <2>2, SeqEqual
<1> QED
  BY <1>8, <1>12, <1>13, <1>14 DEF Fifo!Take

LEMMA TaskPoppedStep ==
    ASSUME BInv, TaskPopped
    PROVE  BInv' /\ Contents' = Contents /\ out' = out
<1>1. /\ pc = "popping" /\ pc' = "idle" /\ count' = reg - 1
      /\ slots' = slots /\ head' = head /\ tail' = tail /\ reg' = reg
      /\ out' = out
      /\ stats' = [stats EXCEPT !.dispatched = Bump(@), !.depth = reg - 1]
  BY DEF TaskPopped
<1>2. reg = count /\ count > 0
  BY <1>1 DEF BInv, RingInv
<1>3. /\ Held = count - 1 /\ Held' = count - 1
      /\ Pending = count - 1 /\ Pending' = count - 1
  BY <1>1, <1>2 DEF Held, Pending
<1>4. /\ \A i : Offset(i)' = Offset(i) /\ Position(i)' = Position(i)
      /\ Offset(Held)' = Offset(Held)
  BY <1>1, <1>3 DEF Offset, Position
<1>5. count' \in 0 .. Capacity
  BY <1>1, <1>2, Ints
<1>6. stats' \in [posted : Counters, dispatched : Counters,
                  refused : Counters, depth : 0 .. Capacity]
  BY <1>1, <1>5, BumpType DEF BInv, BusTypeOK
<1>7. BusTypeOK'
  BY <1>1, <1>5, <1>6 DEF BInv, BusTypeOK
<1>8. RingInv'
  BY <1>1, <1>3, <1>4 DEF BInv, RingInv
<1>9. Contents' = Contents
  BY <1>1, <1>3, <1>4 DEF Contents
<1> QED
  BY <1>1, <1>7, <1>8, <1>9 DEF BInv

LEMMA IsrPostStep ==
    ASSUME BInv, NEW e \in Events, pc = "idle", IsrPost(e)
    PROVE  BInv' /\ Fifo!Put(e)
<1>1. /\ pc' = "idle" /\ count < Capacity /\ Enqueue(e)
      /\ reg' = reg /\ tail' = tail /\ count' = count + 1 /\ out' = out
      /\ stats' = Tally(count + 1)
  BY DEF IsrPost
<1>2. /\ Held = count /\ Held' = count + 1
      /\ Pending = count /\ Pending' = count + 1
  BY <1>1 DEF Held, Pending
<1>3. /\ \A i : Offset(i)' = Offset(i)
      /\ Offset(Held)' = Offset(Held + 1)
  BY <1>1, <1>2 DEF Offset
<1>4. count' \in 0 .. Capacity
  BY <1>1, Ints
<1>5. BusTypeOK'
  BY <1>1, <1>2, <1>4, EnqueueExtends, TallyType DEF BInv, BusTypeOK
<1>6. RingInv'
  <2>1. head' = Offset(Held)'
    BY <1>1, <1>2, <1>3, EnqueueExtends
  <2>2. ASSUME NEW i \in 0 .. (Held' - 1) PROVE slots'[Offset(i)] \in Events
    <3>1. i \in 0 .. Held
      BY <1>2, Ints
    <3> QED
      BY <1>1, <1>2, <3>1, ExtendedEvents
  <2> QED
    BY <1>1, <1>3, <2>1, <2>2 DEF RingInv
<1>7. BInv'
  BY <1>5, <1>6 DEF BInv
<1>8. ContentsOK /\ ContentsOK'
  BY <1>7, ContentsSeq, PTL
<1>9. /\ Contents \in Seq(Events) /\ Len(Contents) = count
      /\ \A i \in 1 .. count : Contents[i] = slots[Offset(i - 1)]
  BY <1>2, <1>8 DEF ContentsOK
<1>10. /\ Contents' \in Seq(Events) /\ Len(Contents') = count + 1
       /\ \A i \in 1 .. count + 1 : Contents'[i] = slots'[Offset(i - 1)]
  BY <1>2, <1>3, <1>8 DEF ContentsOK
<1>11. Append(Contents, e) \in Seq(Events) /\ Len(Append(Contents, e)) = count + 1
  BY <1>9
<1>12. ASSUME NEW i \in 1 .. count + 1 PROVE Contents'[i] = Append(Contents, e)[i]
  <2>1. CASE i = count + 1
    <3>1. Contents'[i] = e
      BY <1>1, <1>2, <1>10, <2>1, EnqueueExtends, Ints
    <3> QED
      BY <1>9, <2>1, <3>1
  <2>2. CASE i # count + 1
    <3>1. i \in 1 .. count /\ i - 1 \in 0 .. (Held - 1)
      BY <1>2, <2>2, Ints
    <3>2. Contents'[i] = Contents[i]
      BY <1>1, <1>2, <1>9, <1>10, <3>1, EnqueueExtends
    <3> QED
      BY <1>9, <3>1, <3>2
  <2> QED
    BY <2>1, <2>2
<1>13. Contents' = Append(Contents, e)
  BY <1>10, <1>11, <1>12, SeqEqual
<1> QED
  BY <1>1, <1>2, <1>7, <1>9, <1>13 DEF Fifo!Put

(* A refused post, and a stuttering step, leave the queue alone.           *)
LEMMA UntouchedStep ==
    ASSUME BInv, Refuse \/ UNCHANGED vars
    PROVE  BInv' /\ Contents' = Contents /\ out' = out
<1>1. /\ slots' = slots /\ head' = head /\ tail' = tail /\ count' = count
      /\ pc' = pc /\ reg' = reg /\ out' = out
  BY DEF Refuse, vars
<1>2. stats' \in [posted : Counters, dispatched : Counters,
                  refused : Counters, depth : 0 .. Capacity]
  BY BumpType DEF Refuse, vars, BInv, BusTypeOK
<1>3. Held' = Held /\ Pending' = Pending
  BY <1>1 DEF Held, Pending
<1>4. /\ \A i : Offset(i)' = Offset(i) /\ Position(i)' = Position(i)
      /\ Offset(Held)' = Offset(Held)
  BY <1>1, <1>3 DEF Offset, Position
<1>5. BusTypeOK' /\ RingInv'
  BY <1>1, <1>2, <1>3, <1>4 DEF BInv, BusTypeOK, RingInv
<1>6. Contents' = Contents
  BY <1>1, <1>3, <1>4 DEF Contents
<1> QED
  BY <1>1, <1>5, <1>6 DEF BInv
-----------------------------------------------------------------------------
LEMMA StepRefines ==
    ASSUME Preempt = FALSE, BInv, [Next]_vars
    PROVE  BInv' /\ [Fifo!FifoNext]_(Fifo!fifo)
<1>1. CASE \E e \in Events : TaskPost(e)
  BY <1>1, TaskPostStep DEF Fifo!fifo
<1>2. CASE \E e \in Events : IsrPost(e)
  <2>1. PICK e \in Events : IsrPost(e)
    BY <1>2
  <2>2. pc = "idle"
    BY <2>1 DEF IsrPost
  <2> QED
    BY <2>1, <2>2, IsrPostStep DEF Fifo!FifoNext
<1>3. CASE TaskPosted
  BY <1>3, TaskPostedStep
<1>4. CASE TaskPop
  BY <1>4, TaskPopStep DEF Fifo!FifoNext
<1>5. CASE TaskPopped
  BY <1>5, TaskPoppedStep DEF Fifo!fifo
<1>6. CASE TaskRefused \/ IsrRefused \/ UNCHANGED vars
  BY <1>6, UntouchedStep DEF TaskRefused, IsrRefused, Fifo!fifo
<1> QED
  BY <1>1, <1>2, <1>3, <1>4, <1>5, <1>6 DEF Next

LEMMA InitRefines == Init => Fifo!FifoInit
<1> SUFFICES ASSUME Init PROVE Fifo!FifoInit
  OBVIOUS
<1>1. ContentsOK /\ Pending = 0
  BY InitBInv, ContentsSeq DEF Init, Pending
<1>2. Contents = <<>>
  BY <1>1, EmptySeq DEF ContentsOK
<1> QED
  BY <1>2 DEF Init, Fifo!FifoInit

(* Every variable of the bus keeps its type: the indices stay inside the   *)
(* ring and s_count between zero and the capacity.                         *)
THEOREM BusTypeCorrect == ASSUME Preempt = FALSE PROVE Spec => []BusTypeOK
<1>1. Init => BInv
  BY InitBInv
<1>2. BInv /\ [Next]_vars => BInv'
  BY StepRefines
<1>3. BInv => BusTypeOK
  BY DEF BInv
<1> QED
  BY <1>1, <1>2, <1>3, PTL DEF Spec

(* mk_event_bus_post and mk_event_bus_pop implement the bounded FIFO.      *)
THEOREM Refinement == ASSUME Preempt = FALSE PROVE Spec => FifoSpec
<1>1. Init => BInv /\ Fifo!FifoInit
  BY InitBInv, InitRefines
<1>2. BInv /\ [Next]_vars => BInv' /\ [Fifo!FifoNext]_(Fifo!fifo)
  BY StepRefines
<1> QED
  BY <1>1, <1>2, PTL DEF Spec, FifoSpec, Fifo!FifoSpec
-----------------------------------------------------------------------------
(* Counters that wrap differ from the depth of the queue by nothing or by  *)
(* one turn of the counter.                                                *)
Apart(posted, dispatched, depth) ==
    \/ posted - dispatched = depth
    \/ posted - dispatched = depth - CounterMod

StatsInv ==
    /\ pc = "idle" => stats.depth = count
    /\ Apart(stats.posted, stats.dispatched, count)

(* One more event posted and not yet dispatched ...                        *)
LEMMA PostedApart ==
    ASSUME NEW p \in Counters, NEW d \in Counters, NEW c \in 0 .. (Capacity - 1),
           Apart(p, d, c)
    PROVE  Apart(Bump(p), d, c + 1)
<1>1. /\ p \in Nat /\ d \in Nat /\ c \in Nat /\ CounterMod \in Nat /\ Capacity \in Nat
      /\ p < CounterMod /\ d < CounterMod /\ c < Capacity /\ Capacity < CounterMod
  BY BusAssumption DEF Counters
<1>2. CASE p = CounterMod - 1
  BY <1>1, <1>2 DEF Apart, Bump
<1>3. CASE p # CounterMod - 1
  BY <1>1, <1>3 DEF Apart, Bump
<1> QED
  BY <1>2, <1>3

(* ... and one fewer.                                                      *)
LEMMA DispatchedApart ==
    ASSUME NEW p \in Counters, NEW d \in Counters, NEW c \in 1 .. Capacity,
           Apart(p, d, c)
    PROVE  Apart(p, Bump(d), c - 1)
<1>1. /\ p \in Nat /\ d \in Nat /\ c \in Nat /\ CounterMod \in Nat /\ Capacity \in Nat
      /\ p < CounterMod /\ d < CounterMod /\ 0 < c /\ c <= Capacity /\ Capacity < CounterMod
  BY BusAssumption DEF Counters
<1>2. CASE d = CounterMod - 1
  BY <1>1, <1>2 DEF Apart, Bump
<1>3. CASE d # CounterMod - 1
  BY <1>1, <1>3 DEF Apart, Bump
<1> QED
  BY <1>2, <1>3

(* The remainders the two cases of Apart leave.                            *)
LEMMA Remainders ==
    ASSUME NEW n \in Nat \ {0}, NEW a \in 0 .. (n - 1), NEW b \in Int,
           (b = a) \/ (b = a - n)
    PROVE  b % n = a
<1>1. CASE b = a
  BY <1>1
<1>2. CASE b = a - n
  BY <1>2
<1> QED
  BY <1>1, <1>2

LEMMA ApartRemainder ==
    ASSUME NEW p \in Counters, NEW d \in Counters, NEW c \in 0 .. Capacity,
           Apart(p, d, c)
    PROVE  (p - d) % CounterMod = c
<1>1. /\ CounterMod \in Nat \ {0} /\ c \in 0 .. (CounterMod - 1) /\ p - d \in Int
  BY BusAssumption DEF Counters
<1>2. p - d = c \/ p - d = c - CounterMod
  BY DEF Apart
<1> QED
  BY <1>1, <1>2, Remainders

LEMMA CountersType ==
    BInv => /\ stats.posted \in Counters /\ stats.dispatched \in Counters
            /\ count \in 0 .. Capacity
  BY DEF BInv, BusTypeOK

LEMMA StatsStep ==
    ASSUME Preempt = FALSE, BInv, StatsInv, [Next]_vars
    PROVE  StatsInv'
<1>1. CASE (\E e \in Events : TaskPost(e)) \/ TaskPop
  BY <1>1 DEF TaskPost, TaskPop, StatsInv
<1>2. CASE TaskRefused \/ IsrRefused \/ UNCHANGED vars
  <2>1. /\ count' = count /\ pc' = pc
        /\ \/ stats' = stats
           \/ stats' = [stats EXCEPT !.refused = Bump(@)]
    BY <1>2 DEF TaskRefused, IsrRefused, Refuse, vars
  <2>2. /\ stats'.posted = stats.posted /\ stats'.dispatched = stats.dispatched
        /\ stats'.depth = stats.depth
    BY <2>1 DEF BInv, BusTypeOK
  <2> QED
    BY <2>1, <2>2 DEF StatsInv
<1>3. ASSUME count < Capacity, count' = count + 1, stats' = Tally(count + 1)
      PROVE  StatsInv'
  <2>1. /\ stats'.depth = count + 1 /\ stats'.posted = Bump(stats.posted)
        /\ stats'.dispatched = stats.dispatched
    BY <1>3 DEF Tally, BInv, BusTypeOK
  <2>2. count \in 0 .. (Capacity - 1)
    BY <1>3, Ints
  <2>3. Apart(Bump(stats.posted), stats.dispatched, count + 1)
    BY <2>2, CountersType, PostedApart DEF StatsInv
  <2> QED
    BY <1>3, <2>1, <2>3 DEF StatsInv
<1>4. CASE TaskPosted
  BY <1>3, <1>4 DEF TaskPosted, BInv, RingInv
<1>5. CASE \E e \in Events : IsrPost(e)
  BY <1>3, <1>5 DEF IsrPost
<1>6. CASE TaskPopped
  <2>1. /\ count > 0 /\ count' = count - 1
        /\ stats' = [stats EXCEPT !.dispatched = Bump(@), !.depth = count - 1]
    BY <1>6 DEF TaskPopped, BInv, RingInv
  <2>2. /\ stats'.depth = count - 1 /\ stats'.posted = stats.posted
        /\ stats'.dispatched = Bump(stats.dispatched)
    BY <2>1 DEF BInv, BusTypeOK
  <2>3. count \in 1 .. Capacity
    BY <2>1, Ints
  <2>4. Apart(stats.posted, Bump(stats.dispatched), count - 1)
    BY <2>3, CountersType, DispatchedApart DEF StatsInv
  <2> QED
    BY <2>1, <2>2, <2>4 DEF StatsInv
<1> QED
  BY <1>1, <1>2, <1>4, <1>5, <1>6 DEF Next

(* Between the task's calls the reported depth is s_count, and the posted  *)
(* less the dispatched events are s_count, however often either counter    *)
(* has wrapped.                                                            *)
THEOREM StatsAddUpHolds == ASSUME Preempt = FALSE PROVE Spec => []StatsAddUp
<1>1. Init => BInv /\ StatsInv
  <2> SUFFICES ASSUME Init PROVE BInv /\ StatsInv
    OBVIOUS
  <2>1. BInv
    BY InitBInv
  <2>2. stats.posted = 0 /\ stats.dispatched = 0 /\ stats.depth = 0 /\ count = 0
    BY DEF Init
  <2>3. Apart(0, 0, 0)
    BY DEF Apart
  <2> QED
    BY <2>1, <2>2, <2>3 DEF StatsInv
<1>2. BInv /\ StatsInv /\ [Next]_vars => BInv' /\ StatsInv'
  BY StepRefines, StatsStep
<1>3. BInv /\ StatsInv => StatsAddUp
  BY CountersType, ApartRemainder DEF StatsInv, StatsAddUp
<1> QED
  BY <1>1, <1>2, <1>3, PTL DEF Spec
=============================================================================
