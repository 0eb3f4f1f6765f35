------------------------- MODULE MCComponents_proofs -------------------------
(***************************************************************************)
(* Proofs about the components that work by themselves, for every value of *)
(* their constants: here those about BoundedQueue, SessionNamer and        *)
(* FrameDecoder, and at the end what these and the theorems about          *)
(* ScreenRepaint, SessionLayout and Bridge say of the model that puts the  *)
(* components side by side.                                                *)
(***************************************************************************)
EXTENDS MCComponents, Integers, FiniteSetTheorems, SequenceTheorems, WellFoundedInduction, TLAPS

-----------------------------------------------------------------------------
(* BoundedQueue.  The ring's arithmetic is left behind in AtProperties, the  *)
(* line it holds in LineProperties; the steps are then about sequences.      *)

(* The slots that are counted hold items. *)
RingHolds == \A i \in 0..(size - 1) : slots[At(head + i)] \in Items

(* Blocked producers pushed one after another. *)
BlockedInOrder ==
  \A i, j \in 1..Len(blocked) :
    blocked[i] <= pushed /\ (i < j => blocked[i] < blocked[j])

IInv ==
  /\ TypeOK
  /\ RingHolds
  /\ NobodyWaitsInVain
  /\ BlockedInOrder
  /\ PendingAreBlocked

(* Adding less than a turn to an index wraps around the ring at most once. *)
LEMMA AtProperties ==
  ASSUME NEW h \in 0..(Capacity - 1), NEW i \in 0..Capacity
  PROVE  /\ At(h + i) = IF h + i < Capacity THEN h + i ELSE h + i - Capacity
         /\ At(h + i) \in 0..(Capacity - 1)
<1>1. Capacity \in Nat \ {0} BY BoundedQueueAssumption
<1>2. CASE h + i < Capacity
  BY <1>1, <1>2 DEF At
<1>3. CASE ~(h + i < Capacity)
  BY <1>1, <1>3 DEF At
<1> QED BY <1>2, <1>3

(* What Line is, without reference to how it is written. *)
LineFacts ==
  /\ Line \in Seq(Items)
  /\ Len(Line) = size + Len(blocked)
  /\ \A i \in 1..size : Line[i] = slots[At(head + i - 1)]
  /\ \A i \in 1..Len(blocked) : Line[size + i] = blocked[i]
  /\ size > 0 => At(head) = head

LEMMA LineProperties == IInv => LineFacts
<1> SUFFICES ASSUME IInv PROVE LineFacts
  OBVIOUS
<1> DEFINE n == size + Len(blocked)
<1>1. /\ size \in 0..Capacity /\ head \in 0..(Capacity - 1) /\ Capacity \in Nat \ {0}
      /\ blocked \in Seq(Items)
  BY BoundedQueueAssumption DEF IInv, TypeOK
<1>2. n \in Nat /\ Len(blocked) \in Nat
  BY <1>1
<1>3. ASSUME NEW i \in 1..n
      PROVE  (IF i <= size THEN slots[At(head + i - 1)] ELSE blocked[i - size]) \in Items
  <2>1. CASE i <= size
    <3>1. i - 1 \in 0..(size - 1) /\ head + (i - 1) = head + i - 1
      BY <1>1, <1>2, <2>1
    <3> QED BY <2>1, <3>1 DEF IInv, RingHolds
  <2>2. CASE ~(i <= size)
    <3>1. i - size \in 1..Len(blocked)
      BY <1>1, <1>2, <2>2
    <3>2. blocked[i - size] \in Items
      BY <1>1, <3>1, ElementOfSeq
    <3> QED BY <2>2, <3>2
  <2> QED BY <2>1, <2>2
<1>4. Line \in [1..n -> Items]
  BY <1>3 DEF Line
<1>5. Line \in Seq(Items)
  BY <1>2, <1>4, SeqDef
<1>6. Len(Line) = n
  BY <1>2, <1>4, <1>5
<1>7. \A i \in 1..size : Line[i] = slots[At(head + i - 1)]
  BY <1>1, <1>2 DEF Line
<1>8. \A i \in 1..Len(blocked) : Line[size + i] = blocked[i]
  <2> SUFFICES ASSUME NEW i \in 1..Len(blocked) PROVE Line[size + i] = blocked[i]
    OBVIOUS
  <2>1. size + i \in 1..n /\ ~(size + i <= size) /\ (size + i) - size = i
    BY <1>1, <1>2
  <2> QED BY <2>1 DEF Line
<1>9. At(head + 0) = head
  BY <1>1, AtProperties
<1>10. head + 0 = head
  BY <1>1
<1> QED BY <1>5, <1>6, <1>7, <1>8, <1>9, <1>10 DEF LineFacts

(* The slot behind the counted ones, and that no counted one is it. *)
LEMMA BehindTheRing ==
  ASSUME TypeOK
  PROVE  /\ At(head + size) \in 0..(Capacity - 1)
         /\ size < Capacity => \A i \in 0..(size - 1) : At(head + i) # At(head + size)
         /\ size = Capacity => At(head + size) = head
         /\ \A i \in 1..(size - 1) : At(head + i) # head
         /\ \A i \in 0..(Capacity - 1) : At(At(head + 1) + i) = At(head + (i + 1))
         /\ At(head + 1) \in 0..(Capacity - 1)
<1>1. /\ size \in 0..Capacity /\ head \in 0..(Capacity - 1) /\ Capacity \in Nat \ {0}
  BY BoundedQueueAssumption DEF TypeOK
<1>2. \A i \in 0..Capacity :
        /\ At(head + i) = IF head + i < Capacity THEN head + i ELSE head + i - Capacity
        /\ At(head + i) \in 0..(Capacity - 1)
  BY <1>1, AtProperties
<1>3. \A i \in 0..Capacity :
        At(At(head + 1) + i) = IF At(head + 1) + i < Capacity THEN At(head + 1) + i
                               ELSE At(head + 1) + i - Capacity
  BY <1>1, <1>2, AtProperties
<1>4. At(head + size) \in 0..(Capacity - 1) /\ At(head + 1) \in 0..(Capacity - 1)
  BY <1>1, <1>2
<1>5. ASSUME size < Capacity, NEW i \in 0..(size - 1)
      PROVE  At(head + i) # At(head + size)
  BY <1>1, <1>2, <1>5
<1>6. ASSUME size = Capacity
      PROVE  At(head + size) = head
  BY <1>1, <1>2, <1>6
<1>7. ASSUME NEW i \in 1..(size - 1)
      PROVE  At(head + i) # head
  BY <1>1, <1>2
<1>8. ASSUME NEW i \in 0..(Capacity - 1)
      PROVE  At(At(head + 1) + i) = At(head + (i + 1))
  <2>1. i + 1 \in 0..Capacity /\ i \in 0..Capacity /\ 1 \in 0..Capacity
    BY <1>1
  <2>2. At(head + 1) = IF head + 1 < Capacity THEN head + 1 ELSE head + 1 - Capacity
    BY <1>2, <2>1
  <2>3. At(head + (i + 1)) = IF head + (i + 1) < Capacity THEN head + (i + 1)
                             ELSE head + (i + 1) - Capacity
    BY <1>2, <2>1
  <2>4. At(At(head + 1) + i) = IF At(head + 1) + i < Capacity THEN At(head + 1) + i
                               ELSE At(head + 1) + i - Capacity
    BY <1>3, <2>1
  <2> QED BY <1>1, <2>1, <2>2, <2>3, <2>4
<1> QED BY <1>4, <1>5, <1>6, <1>7, <1>8

(* The invariant holds of a queue that was just made. *)
LEMMA InitInv == Init => IInv
<1> SUFFICES ASSUME Init PROVE IInv
  OBVIOUS
<1>1. /\ size = 0 /\ head = 0 /\ blocked = <<>> /\ pending = {} /\ pushed = 0
      /\ served = <<>> /\ ~waiting /\ ~finished
  BY DEF Init
<1>2. <<>> \in Seq(Items) /\ Len(<<>>) = 0
  BY EmptySeq
<1>3. TypeOK
  BY <1>1, <1>2, BoundedQueueAssumption DEF Init, TypeOK, Policies
<1>4. RingHolds
  BY <1>1 DEF RingHolds
<1>5. NobodyWaitsInVain
  BY <1>1 DEF NobodyWaitsInVain
<1>6. BlockedInOrder
  BY <1>1, <1>2 DEF BlockedInOrder
<1>7. PendingAreBlocked
  BY <1>1 DEF PendingAreBlocked
<1> QED BY <1>3, <1>4, <1>5, <1>6, <1>7 DEF IInv

(* A push that does not fill a slot changes no slot. *)
LEMMA PushInv == IInv /\ Push => IInv'
<1> SUFFICES ASSUME IInv, Push PROVE IInv'
  OBVIOUS
<1> DEFINE item == pushed + 1
<1>1. TypeOK /\ RingHolds /\ NobodyWaitsInVain /\ BlockedInOrder /\ PendingAreBlocked
  BY DEF IInv
<1>2. /\ item \in Items /\ pushed' = item /\ item \in 0..MaxItems
      /\ UNCHANGED <<policy, finished, ended>>
      /\ pushed \in 0..MaxItems
  <2>1. /\ pushed \in 0..MaxItems /\ MaxItems \in Nat
    BY <1>1, BoundedQueueAssumption DEF TypeOK
  <2>2. pushed < MaxItems /\ pushed' = item /\ UNCHANGED <<policy, finished, ended>>
    BY DEF Push
  <2> QED BY <2>1, <2>2 DEF Items
<1>3. /\ size \in 0..Capacity /\ head \in 0..(Capacity - 1) /\ Capacity \in Nat \ {0}
      /\ blocked \in Seq(Items) /\ Len(blocked) \in Nat
      /\ served \in Seq(Items)
      /\ slots \in [0..(Capacity - 1) -> Items \cup {Empty}]
  BY <1>1, BoundedQueueAssumption DEF TypeOK
<1>4. CASE finished /\ UNCHANGED <<slots, head, size, blocked, waiting, pending, served>>
  <2>1. TypeOK'
    BY <1>1, <1>2, <1>4 DEF TypeOK
  <2>2. BlockedInOrder'
    <3>1. blocked' = blocked /\ Len(blocked') = Len(blocked)
      BY <1>4
    <3>2. ASSUME NEW i \in 1..Len(blocked), NEW j \in 1..Len(blocked)
          PROVE  blocked[i] <= pushed' /\ (i < j => blocked[i] < blocked[j])
      <4>1. /\ blocked[i] <= pushed
            /\ i < j => blocked[i] < blocked[j]
        BY <1>1, <3>2 DEF BlockedInOrder
      <4>2. blocked[i] \in Items
        <5>1. blocked \in Seq(Items)
          BY <1>3
        <5> HIDE DEF Items
        <5> QED BY <3>2, <5>1, ElementOfSeq
      <4> QED BY <1>2, <4>1, <4>2 DEF Items
    <3> QED BY <3>1, <3>2 DEF BlockedInOrder
  <2> QED BY <1>1, <1>2, <1>4, <2>1, <2>2
          DEF IInv, RingHolds, NobodyWaitsInVain, PendingAreBlocked
<1>5. CASE /\ ~finished /\ size < Capacity
           /\ Enqueue(pushed')
           /\ UNCHANGED <<head, blocked, pending>>
  <2>1. blocked = <<>> /\ Len(blocked) = 0
    BY <1>1, <1>3, <1>5, EmptySeq DEF NobodyWaitsInVain
  <2>2. BlockedInOrder' /\ PendingAreBlocked'
    BY <1>1, <1>5, <2>1 DEF BlockedInOrder, PendingAreBlocked
  <2>3. CASE waiting
    <3>1. waiting' = FALSE /\ served' = Append(served, item) /\ UNCHANGED <<slots, size>>
      BY <1>2, <1>5, <2>3 DEF Enqueue
    <3>2. served' \in Seq(Items)
      BY <1>2, <1>3, <3>1
    <3>3. TypeOK'
      BY <1>1, <1>2, <1>5, <3>1, <3>2 DEF TypeOK
    <3> QED BY <1>1, <1>2, <1>5, <2>2, <3>1, <3>3 DEF IInv, RingHolds, NobodyWaitsInVain
  <2>4. CASE ~waiting
    <3>1. /\ slots' = [slots EXCEPT ![At(head + size)] = item]
          /\ size' = size + 1
          /\ UNCHANGED <<waiting, served>>
      BY <1>2, <1>5, <2>4 DEF Enqueue
    <3>2. At(head + size) \in 0..(Capacity - 1)
      BY <1>1, BehindTheRing
    <3>3. slots' \in [0..(Capacity - 1) -> Items \cup {Empty}] /\ slots'[At(head + size)] = item
      BY <1>2, <1>3, <3>1, <3>2
    <3>4. TypeOK'
      BY <1>1, <1>2, <1>3, <1>5, <3>1, <3>3 DEF TypeOK
    <3>5. ASSUME NEW i \in 0..(size' - 1)
          PROVE  slots'[At(head' + i)] \in Items
      <4>1. CASE i = size
        BY <1>2, <1>5, <3>3, <4>1
      <4>2. CASE i # size
        <5>1. i \in 0..(size - 1)
          BY <1>3, <3>1, <4>2
        <5>2. At(head + i) # At(head + size)
          BY <1>1, <1>5, <5>1, BehindTheRing
        <5>3. slots[At(head + i)] \in Items
          BY <1>1, <5>1 DEF RingHolds
        <5>4. i \in 0..Capacity
          BY <1>3, <5>1
        <5>5. At(head + i) \in 0..(Capacity - 1)
          BY <1>3, <5>4, AtProperties
        <5> QED BY <1>3, <1>5, <3>1, <5>2, <5>3, <5>5
      <4> QED BY <4>1, <4>2
    <3>6. NobodyWaitsInVain'
      BY <1>5, <2>1, <2>4, <3>1 DEF NobodyWaitsInVain
    <3> QED BY <2>2, <3>4, <3>5, <3>6 DEF IInv, RingHolds
  <2> QED BY <1>1, <2>3, <2>4 DEF TypeOK
<1>6. CASE /\ ~finished /\ size = Capacity /\ policy = "dropOldest"
           /\ ReplaceOldest(pushed')
           /\ UNCHANGED <<blocked, pending>>
  <2>1. blocked = <<>> /\ Len(blocked) = 0
    BY <1>1, <1>3, <1>6, EmptySeq DEF NobodyWaitsInVain
  <2>2. BlockedInOrder' /\ PendingAreBlocked'
    BY <1>1, <1>6, <2>1 DEF BlockedInOrder, PendingAreBlocked
  <2>3. /\ slots' = [slots EXCEPT ![head] = item]
        /\ head' = At(head + 1)
        /\ UNCHANGED <<size, waiting, served>>
    BY <1>2, <1>6 DEF ReplaceOldest
  <2>4. At(head + 1) \in 0..(Capacity - 1)
    BY <1>1, BehindTheRing
  <2>5. slots' \in [0..(Capacity - 1) -> Items \cup {Empty}]
    BY <1>2, <1>3, <2>3
  <2>6. TypeOK'
    BY <1>1, <1>2, <1>6, <2>3, <2>4, <2>5 DEF TypeOK
  <2>7. ASSUME NEW i \in 0..(size' - 1)
        PROVE  slots'[At(head' + i)] \in Items
    <3>1. i \in 0..(Capacity - 1) /\ i + 1 \in 0..Capacity
      BY <1>3, <1>6, <2>3
    <3>2. At(head' + i) = At(head + (i + 1)) /\ At(head + (i + 1)) \in 0..(Capacity - 1)
      BY <1>1, <1>3, <2>3, <3>1, BehindTheRing, AtProperties
    <3>3. CASE At(head + (i + 1)) = head
      BY <1>2, <1>3, <2>3, <3>2, <3>3
    <3>4. CASE At(head + (i + 1)) # head
      <4>1. i + 1 \in 0..(size - 1)
        <5>1. SUFFICES i + 1 # Capacity
          BY <1>3, <1>6, <3>1
        <5> QED BY <1>1, <1>6, <3>4, BehindTheRing
      <4> QED BY <1>1, <1>3, <2>3, <3>2, <3>4, <4>1 DEF RingHolds
    <3> QED BY <3>3, <3>4
  <2>8. NobodyWaitsInVain'
    BY <1>1, <1>2, <1>6, <2>1, <2>3 DEF NobodyWaitsInVain
  <2> QED BY <2>2, <2>6, <2>7, <2>8 DEF IInv, RingHolds
<1>7. CASE /\ ~finished /\ size = Capacity /\ policy = "block"
           /\ blocked' = Append(blocked, pushed')
           /\ pending' = pending \cup {pushed'}
           /\ UNCHANGED <<slots, head, size, waiting, served>>
  <2>1. /\ blocked' \in Seq(Items)
        /\ Len(blocked') = Len(blocked) + 1
        /\ \A i \in 1..Len(blocked) : blocked'[i] = blocked[i]
        /\ blocked'[Len(blocked) + 1] = item
    BY <1>2, <1>3, <1>7
  <2>2. DOMAIN blocked = 1..Len(blocked) /\ DOMAIN blocked' = 1..(Len(blocked) + 1)
    BY <1>3, <2>1
  <2>3. TypeOK'
    BY <1>1, <1>2, <1>7, <2>1 DEF TypeOK
  <2>4. BlockedInOrder'
    <3> SUFFICES ASSUME NEW i \in 1..(Len(blocked) + 1), NEW j \in 1..(Len(blocked) + 1)
                 PROVE  /\ blocked'[i] <= pushed'
                        /\ i < j => blocked'[i] < blocked'[j]
      BY <2>1 DEF BlockedInOrder
    <3>1. ASSUME NEW k \in 1..Len(blocked)
          PROVE  blocked'[k] = blocked[k] /\ blocked[k] <= pushed /\ blocked[k] \in Nat
      BY <1>1, <1>3, <2>1, ElementOfSeq DEF BlockedInOrder, Items
    <3>2. blocked'[i] <= pushed'
      BY <1>2, <1>3, <2>1, <3>1, SMTT(30)
    <3>3. ASSUME i < j PROVE blocked'[i] < blocked'[j]
      <4>1. i \in 1..Len(blocked)
        BY <1>3, <3>3
      <4>2. CASE j = Len(blocked) + 1
        BY <1>2, <2>1, <3>1, <4>1, <4>2
      <4>3. CASE j # Len(blocked) + 1
        <5>1. j \in 1..Len(blocked)
          BY <1>3, <4>3
        <5> QED BY <1>1, <3>1, <3>3, <4>1, <5>1 DEF BlockedInOrder
      <4> QED BY <4>2, <4>3
    <3> QED BY <3>2, <3>3
  <2>5. PendingAreBlocked'
    <3>1. {blocked'[i] : i \in DOMAIN blocked'} = {blocked[i] : i \in DOMAIN blocked} \cup {item}
      <4>1. /\ DOMAIN blocked = 1..Len(blocked)
            /\ DOMAIN blocked' = 1..(Len(blocked) + 1)
            /\ Len(blocked) \in Nat
        BY <1>3, <2>1, <2>2
      <4>2. DOMAIN blocked' = DOMAIN blocked \cup {Len(blocked) + 1}
        BY <4>1
      <4>3. /\ \A i \in DOMAIN blocked : blocked'[i] = blocked[i]
            /\ blocked'[Len(blocked) + 1] = item
        BY <2>1, <4>1
      <4> HIDE DEF item
      <4> QED BY <4>2, <4>3
    <3> QED BY <1>1, <1>2, <1>7, <3>1 DEF PendingAreBlocked
  <2>6. NobodyWaitsInVain'
    BY <1>1, <1>2, <1>3, <1>7 DEF NobodyWaitsInVain
  <2>7. RingHolds'
    BY <1>1, <1>7 DEF RingHolds
  <2> QED BY <2>3, <2>4, <2>5, <2>6, <2>7 DEF IInv
<1> QED BY <1>4, <1>5, <1>6, <1>7 DEF Push

(* Taking the head frees one slot and, if a producer is blocked, fills it.  *)
LEMMA AdvanceInv ==
  ASSUME IInv, size > 0, Advance,
         served' = Append(served, slots[head]),
         UNCHANGED <<policy, finished, pushed, waiting, ended>>,
         ~waiting
  PROVE  IInv'
<1>1. TypeOK /\ RingHolds /\ NobodyWaitsInVain /\ BlockedInOrder /\ PendingAreBlocked
  BY DEF IInv
<1>2. /\ size \in 1..Capacity /\ head \in 0..(Capacity - 1) /\ Capacity \in Nat \ {0}
      /\ blocked \in Seq(Items) /\ Len(blocked) \in Nat
      /\ served \in Seq(Items)
      /\ slots \in [0..(Capacity - 1) -> Items \cup {Empty}]
      /\ pending \subseteq Items
  BY <1>1, BoundedQueueAssumption DEF TypeOK
<1>3. head' = At(head + 1) /\ head' \in 0..(Capacity - 1)
  BY <1>1, BehindTheRing DEF Advance
<1>4. slots[head] \in Items
  <2>1. 0 \in 0..(size - 1) /\ head + 0 = head
    BY <1>2
  <2>2. slots[At(head + 0)] \in Items
    BY <1>1, <2>1 DEF RingHolds
  <2>3. At(head + 0) = head
    BY <1>2, <2>1, AtProperties
  <2> QED BY <2>2, <2>3
<1>5. served' \in Seq(Items)
  BY <1>2, <1>4
<1>6. CASE blocked = <<>>
  <2>1. /\ slots' = [slots EXCEPT ![head] = Empty] /\ size' = size - 1
        /\ UNCHANGED <<blocked, pending>>
    BY <1>6 DEF Advance
  <2>2. slots' \in [0..(Capacity - 1) -> Items \cup {Empty}]
    BY <1>2, <2>1
  <2>3. size' \in 0..Capacity
    BY <1>2, <2>1
  <2>4. TypeOK'
    BY <1>1, <1>3, <1>5, <2>1, <2>2, <2>3 DEF TypeOK
  <2>5. ASSUME NEW i \in 0..(size' - 1)
        PROVE  slots'[At(head' + i)] \in Items
    <3>1. i \in 0..(Capacity - 1) /\ i + 1 \in 0..Capacity /\ i + 1 \in 1..(size - 1)
          /\ i + 1 \in 0..(size - 1)
      BY <1>2, <2>1
    <3>2. At(head' + i) = At(head + (i + 1)) /\ At(head + (i + 1)) \in 0..(Capacity - 1)
      BY <1>1, <1>2, <1>3, <3>1, BehindTheRing, AtProperties
    <3>3. At(head + (i + 1)) # head
      BY <1>1, <3>1, BehindTheRing
    <3>4. slots[At(head + (i + 1))] \in Items
      BY <1>1, <3>1 DEF RingHolds
    <3> QED BY <1>2, <2>1, <3>2, <3>3, <3>4
  <2>6. NobodyWaitsInVain' /\ BlockedInOrder' /\ PendingAreBlocked'
    BY <1>1, <1>6, <2>1 DEF NobodyWaitsInVain, BlockedInOrder, PendingAreBlocked
  <2> QED BY <2>4, <2>5, <2>6 DEF IInv, RingHolds
<1>7. CASE blocked # <<>>
  <2>1. /\ slots' = [slots EXCEPT ![head] = Empty, ![At(head + size)] = Head(blocked)]
        /\ blocked' = Tail(blocked)
        /\ pending' = pending \ {Head(blocked)}
        /\ UNCHANGED size
    BY <1>7 DEF Advance
  <2>2. size = Capacity /\ policy = "block" /\ ~finished
    BY <1>1, <1>7 DEF NobodyWaitsInVain
  <2>3. At(head + size) = head
    BY <1>1, <2>2, BehindTheRing
  <2>4. /\ Head(blocked) \in Items /\ Head(blocked) = blocked[1] /\ Len(blocked) >= 1
        /\ blocked' \in Seq(Items)
        /\ Len(blocked') = Len(blocked) - 1
        /\ \A i \in 1..Len(blocked') : blocked'[i] = blocked[i + 1]
    BY <1>2, <1>7, <2>1, HeadTailProperties, EmptySeq
  <2>5. slots' \in [0..(Capacity - 1) -> Items \cup {Empty}] /\ slots'[head] = Head(blocked)
        /\ \A p \in 0..(Capacity - 1) : p # head => slots'[p] = slots[p]
    BY <1>2, <2>1, <2>3, <2>4
  <2>6. TypeOK'
    BY <1>1, <1>3, <1>5, <2>1, <2>4, <2>5 DEF TypeOK
  <2>7. ASSUME NEW i \in 0..(size' - 1)
        PROVE  slots'[At(head' + i)] \in Items
    <3>1. i \in 0..(Capacity - 1) /\ i + 1 \in 0..Capacity
      BY <1>2, <2>1, <2>2
    <3>2. At(head' + i) = At(head + (i + 1)) /\ At(head + (i + 1)) \in 0..(Capacity - 1)
      BY <1>1, <1>2, <1>3, <3>1, BehindTheRing, AtProperties
    <3>3. CASE At(head + (i + 1)) = head
      BY <2>4, <2>5, <3>2, <3>3
    <3>4. CASE At(head + (i + 1)) # head
      <4>1. i + 1 # Capacity
        BY <1>1, <2>2, <3>4, BehindTheRing
      <4>2. i + 1 \in 0..(size - 1)
        BY <1>2, <2>2, <3>1, <4>1
      <4>3. slots[At(head + (i + 1))] \in Items
        BY <1>1, <4>2 DEF RingHolds
      <4> QED BY <2>5, <3>2, <3>4, <4>3
    <3> QED BY <3>3, <3>4
  <2>8. NobodyWaitsInVain'
    BY <1>1, <2>1, <2>2 DEF NobodyWaitsInVain
  <2>9. BlockedInOrder'
    <3> SUFFICES ASSUME NEW i \in 1..Len(blocked'), NEW j \in 1..Len(blocked')
                 PROVE  /\ blocked'[i] <= pushed'
                        /\ i < j => blocked'[i] < blocked'[j]
      BY DEF BlockedInOrder
    <3>1. /\ i + 1 \in 1..Len(blocked) /\ j + 1 \in 1..Len(blocked)
          /\ i < j => i + 1 < j + 1
          /\ blocked'[i] = blocked[i + 1] /\ blocked'[j] = blocked[j + 1]
      BY <1>2, <2>4
    <3> QED BY <1>1, <3>1 DEF BlockedInOrder
  <2>10. PendingAreBlocked'
    <3>1. DOMAIN blocked = 1..Len(blocked) /\ DOMAIN blocked' = 1..(Len(blocked) - 1)
      BY <1>2, <2>4
    <3>2. \A i \in 2..Len(blocked) : blocked[i] # blocked[1]
      <4> SUFFICES ASSUME NEW i \in 2..Len(blocked) PROVE blocked[i] # blocked[1]
        OBVIOUS
      <4>1. blocked[1] < blocked[i]
        BY <1>1, <1>2, <2>4 DEF BlockedInOrder
      <4>2. blocked[1] \in Nat /\ blocked[i] \in Nat
        <5>1. 1 \in 1..Len(blocked) /\ i \in 1..Len(blocked)
          BY <1>2, <2>4
        <5>2. blocked[1] \in Items /\ blocked[i] \in Items
          BY <1>2, <5>1, ElementOfSeq
        <5> QED BY <5>2 DEF Items
      <4> QED BY <4>1, <4>2
    <3>3. \A x : (\E i \in DOMAIN blocked' : x = blocked'[i])
                  <=> (\E i \in 2..Len(blocked) : x = blocked[i])
      <4> SUFFICES ASSUME NEW x
                   PROVE  (\E i \in DOMAIN blocked' : x = blocked'[i])
                          <=> (\E i \in 2..Len(blocked) : x = blocked[i])
        OBVIOUS
      <4>1. ASSUME NEW i \in DOMAIN blocked', x = blocked'[i]
            PROVE  \E k \in 2..Len(blocked) : x = blocked[k]
        <5>1. i + 1 \in 2..Len(blocked) /\ blocked'[i] = blocked[i + 1]
          BY <1>2, <2>4, <3>1
        <5> QED BY <4>1, <5>1
      <4>2. ASSUME NEW i \in 2..Len(blocked), x = blocked[i]
            PROVE  \E k \in DOMAIN blocked' : x = blocked'[k]
        <5>1. i - 1 \in DOMAIN blocked' /\ blocked'[i - 1] = blocked[i]
          BY <1>2, <2>4, <3>1
        <5> QED BY <4>2, <5>1
      <4> QED BY <4>1, <4>2
    <3>4. \A x : (\E i \in DOMAIN blocked : x = blocked[i])
                  <=> (x = blocked[1] \/ \E i \in 2..Len(blocked) : x = blocked[i])
      <4>1. 1..Len(blocked) = {1} \cup 2..Len(blocked)
        BY <1>2, <2>4
      <4> QED BY <3>1, <4>1
    <3>5. pending = {blocked[i] : i \in DOMAIN blocked}
      BY <1>1 DEF PendingAreBlocked
    <3>6. ASSUME NEW x PROVE x \in pending' <=> x \in {blocked'[i] : i \in DOMAIN blocked'}
      <4>1. x \in pending <=> (x = blocked[1] \/ \E i \in 2..Len(blocked) : x = blocked[i])
        BY <3>4, <3>5
      <4>2. x \in pending' <=> (x \in pending /\ x # blocked[1])
        BY <2>1, <2>4
      <4>3. x \in pending' <=> \E i \in 2..Len(blocked) : x = blocked[i]
        BY <3>2, <4>1, <4>2
      <4> QED BY <3>3, <4>3
    <3> QED BY <3>6 DEF PendingAreBlocked
  <2> QED BY <2>6, <2>7, <2>8, <2>9, <2>10 DEF IInv, RingHolds
<1> QED BY <1>6, <1>7

LEMMA NextItemInv == IInv /\ NextItem => IInv'
<1> SUFFICES ASSUME IInv, NextItem PROVE IInv'
  OBVIOUS
<1>1. ~waiting /\ UNCHANGED <<policy, finished, pushed>>
  BY DEF NextItem
<1>2. CASE size > 0 /\ served' = Append(served, slots[head]) /\ Advance
           /\ UNCHANGED <<waiting, ended>>
  BY <1>1, <1>2, AdvanceInv
<1>3. CASE /\ size = 0 /\ finished /\ ended' = TRUE
           /\ UNCHANGED <<slots, head, size, blocked, waiting, pending, served>>
  BY <1>1, <1>3
     DEF IInv, TypeOK, RingHolds, NobodyWaitsInVain, BlockedInOrder, PendingAreBlocked
<1>4. CASE /\ size = 0 /\ ~finished /\ waiting' = TRUE
           /\ UNCHANGED <<slots, head, size, blocked, pending, served, ended>>
  BY <1>1, <1>4
     DEF IInv, TypeOK, RingHolds, NobodyWaitsInVain, BlockedInOrder, PendingAreBlocked
<1> QED BY <1>2, <1>3, <1>4 DEF NextItem

(* Finishing leaves nobody blocked and nobody pending. *)
LEMMA ReleaseInv ==
  ASSUME IInv, Release, waiting' = FALSE, finished' = TRUE, ended' \in BOOLEAN,
         UNCHANGED <<policy, slots, head, size, pushed, served>>
  PROVE  IInv'
<1>1. TypeOK /\ RingHolds /\ NobodyWaitsInVain /\ PendingAreBlocked
  BY DEF IInv
<1>2. blocked' = <<>> /\ pending' = pending \ {blocked[i] : i \in DOMAIN blocked}
  BY DEF Release
<1>3. pending' = {}
  BY <1>1, <1>2 DEF PendingAreBlocked
<1>4. <<>> \in Seq(Items) /\ Len(<<>>) = 0
  BY EmptySeq
<1>5. TypeOK'
  BY <1>1, <1>2, <1>3, <1>4 DEF TypeOK
<1>6. RingHolds' /\ NobodyWaitsInVain'
  BY <1>1, <1>2 DEF RingHolds, NobodyWaitsInVain
<1>7. BlockedInOrder' /\ PendingAreBlocked'
  BY <1>2, <1>3, <1>4 DEF BlockedInOrder, PendingAreBlocked
<1> QED BY <1>5, <1>6, <1>7 DEF IInv

LEMMA FinishInv == IInv /\ Finish => IInv'
<1> SUFFICES ASSUME IInv, Finish PROVE IInv'
  OBVIOUS
<1>1. ended' \in BOOLEAN
  BY DEF Finish, IInv, TypeOK
<1> QED BY <1>1, ReleaseInv DEF Finish

LEMMA ReturnInv == IInv /\ Return => IInv'
<1> SUFFICES ASSUME IInv, Return PROVE IInv'
  OBVIOUS
<1>1. waiting' = FALSE
  BY DEF Return, IInv, TypeOK
<1>2. ended' \in BOOLEAN
  BY DEF Return
<1> QED BY <1>1, <1>2, ReleaseInv DEF Return

LEMMA StutterInv == IInv /\ UNCHANGED vars => IInv'
BY DEF vars, IInv, TypeOK, RingHolds, NobodyWaitsInVain, BlockedInOrder, PendingAreBlocked

THEOREM Invariance == Spec => []IInv
<1>1. IInv /\ [Next]_vars => IInv'
  BY PushInv, NextItemInv, FinishInv, ReturnInv, StutterInv DEF Next
<1> QED BY <1>1, InitInv, PTL DEF Spec

(* Every variable keeps its type: in particular the ring never counts more  *)
(* items than it has slots.                                                 *)
THEOREM TypeCorrect == Spec => []TypeOK
<1>1. IInv => TypeOK
  BY DEF IInv
<1> QED BY <1>1, Invariance, PTL

(* A parked consumer has nothing to take, and a producer waits only for a   *)
(* full ring of an unfinished queue.                                        *)
THEOREM NoLostWakeup == Spec => []NobodyWaitsInVain
<1>1. IInv => NobodyWaitsInVain
  BY DEF IInv
<1> QED BY <1>1, Invariance, PTL

(* A push is unresolved exactly while its item is blocked. *)
THEOREM PushesResolve == Spec => []PendingAreBlocked
<1>1. IInv => PendingAreBlocked
  BY DEF IInv
<1> QED BY <1>1, Invariance, PTL

-----------------------------------------------------------------------------
(***************************************************************************)
(* The refinement: what each operation does to the line.                   *)
(***************************************************************************)
LEMMA InitImplements == Init => Fifo!Init
<1> SUFFICES ASSUME Init PROVE Fifo!Init
  OBVIOUS
<1>1. IInv
  BY InitInv
<1>2. LineFacts
  BY <1>1, LineProperties
<1>3. size = 0 /\ Len(blocked) = 0
  BY EmptySeq DEF Init
<1>4. Line = <<>>
  BY <1>2, <1>3, EmptySeq DEF LineFacts
<1> QED BY <1>4 DEF Init, Fifo!Init, Policies, Fifo!Policies

LEMMA SameLine == IInv /\ UNCHANGED <<slots, head, size, blocked>> => Line' = Line
BY DEF Line

(* A push joins the line behind the items it holds, or displaces the first. *)
LEMMA PushImplements ==
  IInv /\ LineFacts /\ LineFacts' /\ Push
    => pushed < MaxItems /\ (Fifo!Ignore \/ Fifo!Hand \/ Fifo!Join \/ Fifo!Displace)
<1> SUFFICES ASSUME IInv, LineFacts, LineFacts', Push
             PROVE  pushed < MaxItems /\ (Fifo!Ignore \/ Fifo!Hand \/ Fifo!Join \/ Fifo!Displace)
  OBVIOUS
<1> DEFINE item == pushed + 1
<1>1. TypeOK /\ NobodyWaitsInVain
  BY DEF IInv
<1>2. /\ pushed < MaxItems /\ pushed' = item
      /\ UNCHANGED <<policy, finished, ended>>
  BY DEF Push
<1>3. /\ size \in 0..Capacity /\ head \in 0..(Capacity - 1) /\ Capacity \in Nat \ {0}
      /\ blocked \in Seq(Items) /\ Len(blocked) \in Nat
      /\ slots \in [0..(Capacity - 1) -> Items \cup {Empty}]
      /\ pushed \in Nat /\ MaxItems \in Nat /\ item \in Items
  BY <1>1, <1>2, BoundedQueueAssumption DEF TypeOK, Items
<1>4. /\ Line \in Seq(Items) /\ Len(Line) = size + Len(blocked)
      /\ Line' \in Seq(Items) /\ Len(Line') = size' + Len(blocked')
      /\ Append(Line, item) \in Seq(Items) /\ Len(Append(Line, item)) = Len(Line) + 1
      /\ \A i \in 1..Len(Line) : Append(Line, item)[i] = Line[i]
      /\ Append(Line, item)[Len(Line) + 1] = item
  <2>1. Line \in Seq(Items) /\ Len(Line) = size + Len(blocked)
    BY DEF LineFacts
  <2>2. Line' \in Seq(Items) /\ Len(Line') = size' + Len(blocked')
    BY DEF LineFacts
  <2> HIDE DEF item
  <2>3. item \in Items
    BY <1>3
  <2>4. /\ Append(Line, item) \in Seq(Items)
        /\ Len(Append(Line, item)) = Len(Line) + 1
        /\ \A i \in 1..Len(Line) : Append(Line, item)[i] = Line[i]
        /\ Append(Line, item)[Len(Line) + 1] = item
    BY <2>1, <2>3, AppendProperties
  <2> QED BY <2>1, <2>2, <2>4
<1>5. CASE finished /\ UNCHANGED <<slots, head, size, blocked, waiting, pending, served>>
  BY <1>2, <1>5, SameLine DEF Fifo!Ignore
<1>6. CASE /\ ~finished /\ size < Capacity
           /\ Enqueue(pushed')
           /\ UNCHANGED <<head, blocked, pending>>
  <2>1. CASE waiting
    <3>1. waiting' = FALSE /\ served' = Append(served, item) /\ UNCHANGED <<slots, size>>
      BY <1>2, <1>6, <2>1 DEF Enqueue
    <3> QED BY <1>2, <1>6, <2>1, <3>1, SameLine DEF Fifo!Hand
  <2>2. CASE ~waiting
    <3>1. /\ slots' = [slots EXCEPT ![At(head + size)] = item]
          /\ size' = size + 1
          /\ UNCHANGED <<waiting, served, head, blocked>>
      BY <1>2, <1>6, <2>2 DEF Enqueue
    <3>2. Len(blocked) = 0
      BY <1>1, <1>3, <1>6, EmptySeq DEF NobodyWaitsInVain
    <3>3. At(head + size) \in 0..(Capacity - 1)
      BY <1>1, BehindTheRing
    <3>4. ASSUME NEW i \in 1..(size + 1) PROVE Line'[i] = Append(Line, item)[i]
      <4>1. Line'[i] = slots'[At(head + i - 1)]
        BY <1>3, <3>1, <3>4 DEF LineFacts
      <4>2. CASE i = size + 1
        <5>1. head + i - 1 = head + size
          BY <1>3, <4>2
        <5> QED BY <1>3, <1>4, <3>1, <3>2, <3>3, <4>1, <4>2, <5>1
      <4>3. CASE i # size + 1
        <5>1. i \in 1..size /\ i - 1 \in 0..(size - 1) /\ i - 1 \in 0..Capacity
              /\ head + (i - 1) = head + i - 1
          BY <1>3, <4>3
        <5>2. At(head + i - 1) # At(head + size) /\ At(head + i - 1) \in 0..(Capacity - 1)
          BY <1>1, <1>3, <1>6, <5>1, BehindTheRing, AtProperties
        <5>3. Line[i] = slots[At(head + i - 1)]
          BY <5>1 DEF LineFacts
        <5> QED BY <1>3, <1>4, <3>1, <3>2, <4>1, <5>1, <5>2, <5>3
      <4> QED BY <4>2, <4>3
    <3>5. Line' = Append(Line, item)
      <4>1. Len(Line') = Len(Append(Line, item)) /\ Len(Line') = size + 1
        BY <1>3, <1>4, <3>1, <3>2
      <4> QED BY <1>4, <3>4, <4>1, SeqEqual
    <3> QED BY <1>2, <1>3, <1>4, <1>6, <2>2, <3>1, <3>2, <3>5 DEF Fifo!Join
  <2> QED BY <1>1, <2>1, <2>2 DEF TypeOK
<1>7. CASE /\ ~finished /\ size = Capacity /\ policy = "dropOldest"
           /\ ReplaceOldest(pushed')
           /\ UNCHANGED <<blocked, pending>>
  <2>1. /\ slots' = [slots EXCEPT ![head] = item]
        /\ head' = At(head + 1)
        /\ UNCHANGED <<size, waiting, served, blocked>>
    BY <1>2, <1>7 DEF ReplaceOldest
  <2>2. Len(blocked) = 0 /\ ~waiting
    BY <1>1, <1>3, <1>7, EmptySeq DEF NobodyWaitsInVain
  <2>3. /\ Tail(Line) \in Seq(Items) /\ Len(Tail(Line)) = size - 1
        /\ \A i \in 1..(size - 1) : Tail(Line)[i] = Line[i + 1]
    <3>1. Line # <<>>
      BY <1>3, <1>4, <1>7, <2>2, EmptySeq
    <3>2. Len(Tail(Line)) = size - 1
      BY <1>3, <1>4, <2>2, <3>1, HeadTailProperties
    <3> QED BY <1>4, <3>1, <3>2, HeadTailProperties
  <2>4. /\ Append(Tail(Line), item) \in Seq(Items) /\ Len(Append(Tail(Line), item)) = size
        /\ \A i \in 1..(size - 1) : Append(Tail(Line), item)[i] = Line[i + 1]
        /\ Append(Tail(Line), item)[size] = item
    BY <1>3, <1>7, <2>3
  <2>5. ASSUME NEW i \in 1..size PROVE Line'[i] = Append(Tail(Line), item)[i]
    <3>1. Line'[i] = slots'[At(head' + i - 1)]
      BY <2>1, <2>5 DEF LineFacts
    <3>2. i - 1 \in 0..(Capacity - 1) /\ head' + (i - 1) = head' + i - 1
          /\ (i - 1) + 1 = i /\ i \in 0..Capacity
      <4>1. head' \in Nat
        BY <1>1, <2>1, <1>3, BehindTheRing
      <4> QED BY <1>3, <4>1
    <3>3. At(head' + i - 1) = At(head + i) /\ At(head + i) \in 0..(Capacity - 1)
      BY <1>1, <1>3, <2>1, <3>2, BehindTheRing, AtProperties
    <3>4. CASE i = size
      <4>1. At(head + i) = head
        BY <1>1, <1>7, <3>4, BehindTheRing
      <4> QED BY <1>3, <2>1, <2>4, <3>1, <3>3, <3>4, <4>1
    <3>5. CASE i # size
      <4>1. i \in 1..(size - 1) /\ i + 1 \in 1..size /\ head + (i + 1) - 1 = head + i
        BY <1>3, <3>5
      <4>2. At(head + i) # head
        BY <1>1, <4>1, BehindTheRing
      <4>3. Line[i + 1] = slots[At(head + i)]
        BY <4>1 DEF LineFacts
      <4> QED BY <1>3, <2>1, <2>4, <3>1, <3>3, <4>1, <4>2, <4>3
    <3> QED BY <3>4, <3>5
  <2>6. Line' = Append(Tail(Line), item)
    <3>1. Len(Line') = size
      BY <1>3, <1>4, <2>1, <2>2
    <3> QED BY <1>4, <2>4, <2>5, <3>1, SeqEqual
  <2> QED BY <1>2, <1>3, <1>4, <1>7, <2>1, <2>2, <2>6 DEF Fifo!Displace
<1>8. CASE /\ ~finished /\ size = Capacity /\ policy = "block"
           /\ blocked' = Append(blocked, pushed')
           /\ pending' = pending \cup {pushed'}
           /\ UNCHANGED <<slots, head, size, waiting, served>>
  <2>1. /\ Len(blocked') = Len(blocked) + 1
        /\ \A i \in 1..Len(blocked) : blocked'[i] = blocked[i]
        /\ blocked'[Len(blocked) + 1] = item
    BY <1>2, <1>3, <1>8
  <2>2. ~waiting
    BY <1>1, <1>3, <1>8 DEF NobodyWaitsInVain
  <2>3. Len(Line') = Len(Line) + 1
    BY <1>3, <1>4, <1>8, <2>1
  <2>4. ASSUME NEW i \in 1..(Len(Line) + 1) PROVE Line'[i] = Append(Line, item)[i]
    <3>1. CASE i \in 1..size
      <4>1. Line'[i] = slots[At(head + i - 1)] /\ Line[i] = slots[At(head + i - 1)]
        BY <1>8, <3>1 DEF LineFacts
      <4>2. i \in 1..Len(Line)
        BY <1>3, <1>4, <3>1
      <4> QED BY <1>4, <4>1, <4>2
    <3>2. CASE i \notin 1..size
      <4>1. i - size \in 1..(Len(blocked) + 1) /\ size + (i - size) = i
        BY <1>3, <1>4, <3>2
      <4>2. Line'[i] = blocked'[i - size]
        BY <1>8, <2>1, <4>1 DEF LineFacts
      <4>3. CASE i = Len(Line) + 1
        <5>1. i - size = Len(blocked) + 1
          BY <1>3, <1>4, <4>3
        <5> QED BY <1>4, <2>1, <4>2, <4>3, <5>1
      <4>4. CASE i # Len(Line) + 1
        <5>1. i - size \in 1..Len(blocked) /\ i \in 1..Len(Line)
          <6>1. PICK n \in Nat : n = Len(blocked)
            BY <1>3
          <6>2. Len(Line) = size + n /\ size \in Nat
            BY <6>1, <1>3, <1>4
          <6> QED BY <6>1, <6>2, <4>1, <4>4
        <5>2. Line[i] = blocked[i - size]
          BY <4>1, <5>1 DEF LineFacts
        <5> QED BY <1>4, <2>1, <4>2, <5>1, <5>2
      <4> QED BY <4>3, <4>4
    <3> QED BY <3>1, <3>2
  <2>5. Line' = Append(Line, item)
    BY <1>4, <2>3, <2>4, SeqEqual
  <2> QED BY <1>2, <1>8, <2>2, <2>5 DEF Fifo!Join
<1> QED BY <1>2, <1>5, <1>6, <1>7, <1>8 DEF Push

(* Taking an item serves the first of the line and moves the others up. *)
LEMMA AdvanceImplements ==
  ASSUME IInv, LineFacts, LineFacts', size > 0, Advance
  PROVE  Line # <<>> /\ Head(Line) = slots[head] /\ Line' = Tail(Line)
<1>1. TypeOK /\ NobodyWaitsInVain
  BY DEF IInv
<1>2. /\ size \in 1..Capacity /\ head \in 0..(Capacity - 1) /\ Capacity \in Nat \ {0}
      /\ blocked \in Seq(Items) /\ Len(blocked) \in Nat
      /\ slots \in [0..(Capacity - 1) -> Items \cup {Empty}]
  BY <1>1, BoundedQueueAssumption DEF TypeOK
<1>3. Line \in Seq(Items) /\ Len(Line) = size + Len(blocked)
  BY DEF LineFacts
<1>4. Line' \in Seq(Items) /\ Len(Line') = size' + Len(blocked')
  BY DEF LineFacts
<1>5. Line # <<>>
  BY <1>2, <1>3, EmptySeq
<1>6. Head(Line) = slots[head]
  <2>1. 1 \in 1..size /\ head + 1 - 1 = head
    BY <1>2
  <2>2. Line[1] = slots[At(head)] /\ At(head) = head
    BY <2>1 DEF LineFacts
  <2> QED BY <1>3, <1>5, <2>2
<1>7. /\ Tail(Line) \in Seq(Items) /\ Len(Tail(Line)) = Len(Line) - 1
      /\ \A i \in 1..(Len(Line) - 1) : Tail(Line)[i] = Line[i + 1]
  <2>1. Tail(Line) \in Seq(Items) /\ Len(Tail(Line)) = Len(Line) - 1
    BY <1>3, <1>5, HeadTailProperties
  <2> QED BY <1>3, <1>5, <2>1, HeadTailProperties
<1>8. head' = At(head + 1) /\ head' \in Nat
  BY <1>1, <1>2, BehindTheRing DEF Advance
<1>9. ASSUME NEW i \in 1..Capacity
      PROVE  /\ At(head' + i - 1) = At(head + i)
             /\ At(head + i) \in 0..(Capacity - 1)
  <2>1. i - 1 \in 0..(Capacity - 1) /\ head' + (i - 1) = head' + i - 1
        /\ (i - 1) + 1 = i /\ i \in 0..Capacity
    BY <1>2, <1>8
  <2> QED BY <1>1, <1>2, <1>8, <2>1, BehindTheRing, AtProperties
<1>10. ASSUME NEW i \in 1..(size - 1)
       PROVE  At(head + i) # head /\ Line[i + 1] = slots[At(head + i)]
  <2>1. i + 1 \in 1..size /\ head + (i + 1) - 1 = head + i
    BY <1>2
  <2>2. At(head + i) # head
    BY <1>1, BehindTheRing
  <2>3. Line[i + 1] = slots[At(head + i)]
    BY <2>1 DEF LineFacts
  <2> QED BY <2>2, <2>3
<1>11. CASE blocked = <<>>
  <2>1. /\ slots' = [slots EXCEPT ![head] = Empty] /\ size' = size - 1
        /\ UNCHANGED blocked
    BY <1>11 DEF Advance
  <2>2. Len(blocked) = 0
    BY <1>11, EmptySeq
  <2>3. Len(Line') = Len(Tail(Line))
    BY <1>2, <1>3, <1>4, <1>7, <2>1, <2>2
  <2>4. ASSUME NEW i \in 1..Len(Line') PROVE Line'[i] = Tail(Line)[i]
    <3>1. i \in 1..(size - 1) /\ i \in 1..Capacity /\ i \in 1..(Len(Line) - 1) /\ i \in 1..size'
      BY <1>2, <1>3, <1>4, <2>1, <2>2
    <3>2. Line'[i] = slots'[At(head' + i - 1)]
      BY <3>1 DEF LineFacts
    <3> QED BY <1>2, <1>7, <1>9, <1>10, <2>1, <3>1, <3>2
  <2>5. Line' = Tail(Line)
    BY <1>4, <1>7, <2>3, <2>4, SeqEqual
  <2> QED BY <1>5, <1>6, <2>5
<1>12. CASE blocked # <<>>
  <2>1. /\ slots' = [slots EXCEPT ![head] = Empty, ![At(head + size)] = Head(blocked)]
        /\ blocked' = Tail(blocked)
        /\ UNCHANGED size
    BY <1>12 DEF Advance
  <2>2. size = Capacity /\ At(head + size) = head
    BY <1>1, <1>12, BehindTheRing DEF NobodyWaitsInVain
  <2>3. /\ Head(blocked) = blocked[1] /\ Len(blocked) >= 1
        /\ Len(blocked') = Len(blocked) - 1
        /\ \A i \in 1..Len(blocked') : blocked'[i] = blocked[i + 1]
    BY <1>2, <1>12, <2>1, HeadTailProperties, EmptySeq
  <2>4. /\ slots'[head] = Head(blocked)
        /\ \A p \in 0..(Capacity - 1) : p # head => slots'[p] = slots[p]
    BY <1>2, <2>1, <2>2
  <2>5. Len(Line') = Len(Tail(Line))
    BY <1>2, <1>3, <1>4, <1>7, <2>1, <2>3
  <2>6. ASSUME NEW i \in 1..Len(Line') PROVE Line'[i] = Tail(Line)[i]
    <3>1. Len(Line') = size + Len(blocked) - 1 /\ i \in 1..(Len(Line) - 1)
      BY <1>2, <1>3, <1>4, <2>1, <2>3
    <3>2. Tail(Line)[i] = Line[i + 1]
      BY <1>7, <3>1
    <3>3. CASE i \in 1..size
      <4>1. Line'[i] = slots'[At(head' + i - 1)]
        BY <2>1, <3>3 DEF LineFacts
      <4>2. i \in 1..Capacity
        BY <2>2, <3>3
      <4>3. CASE i = size
        <5>1. Line'[i] = blocked[1]
          BY <1>9, <2>2, <2>3, <2>4, <4>1, <4>2, <4>3
        <5>2. 1 \in 1..Len(blocked) /\ size + 1 = i + 1
          BY <1>2, <2>3, <4>3
        <5>3. Line[i + 1] = blocked[1]
          BY <5>2 DEF LineFacts
        <5> QED BY <3>2, <5>1, <5>3
      <4>4. CASE i # size
        <5>1. i \in 1..(size - 1)
          BY <1>2, <3>3, <4>4
        <5> QED BY <1>9, <1>10, <2>4, <3>2, <4>1, <4>2, <5>1
      <4> QED BY <4>3, <4>4
    <3>4. CASE i \notin 1..size
      <4>1. i - size \in 1..Len(blocked') /\ size + (i - size) = i
            /\ (i - size) + 1 \in 1..Len(blocked) /\ size + ((i - size) + 1) = i + 1
        BY <1>2, <2>3, <3>1, <3>4
      <4>2. Line'[i] = blocked'[i - size]
        BY <2>1, <4>1 DEF LineFacts
      <4>3. Line[i + 1] = blocked[(i - size) + 1]
        BY <4>1 DEF LineFacts
      <4> QED BY <2>3, <3>2, <4>1, <4>2, <4>3
    <3> QED BY <3>3, <3>4
  <2>7. Line' = Tail(Line)
    BY <1>4, <1>7, <2>5, <2>6, SeqEqual
  <2> QED BY <1>5, <1>6, <2>7
<1> QED BY <1>11, <1>12

LEMMA NextItemImplements ==
  IInv /\ LineFacts /\ LineFacts' /\ NextItem => Fifo!Serve \/ Fifo!Await
<1> SUFFICES ASSUME IInv, LineFacts, LineFacts', NextItem PROVE Fifo!Serve \/ Fifo!Await
  OBVIOUS
<1>1. ~waiting /\ ~ended /\ UNCHANGED <<policy, finished, pushed>>
  BY DEF NextItem
<1>2. CASE size > 0 /\ served' = Append(served, slots[head]) /\ Advance
           /\ UNCHANGED <<waiting, ended>>
  <2>1. Line # <<>> /\ Head(Line) = slots[head] /\ Line' = Tail(Line)
    BY <1>2, AdvanceImplements
  <2> QED BY <1>1, <1>2, <2>1 DEF Fifo!Serve
<1>3. ASSUME size = 0 PROVE Line = <<>>
  <2>1. blocked = <<>>
    BY <1>3, BoundedQueueAssumption DEF IInv, NobodyWaitsInVain
  <2>2. Len(Line) = 0
    BY <1>3, <2>1, EmptySeq DEF LineFacts
  <2> QED BY <2>2, EmptySeq DEF LineFacts
<1>4. CASE /\ size = 0 /\ finished /\ ended' = TRUE
           /\ UNCHANGED <<slots, head, size, blocked, waiting, pending, served>>
  BY <1>1, <1>3, <1>4, SameLine DEF Fifo!Await
<1>5. CASE /\ size = 0 /\ ~finished /\ waiting' = TRUE
           /\ UNCHANGED <<slots, head, size, blocked, pending, served, ended>>
  BY <1>1, <1>3, <1>5, SameLine DEF Fifo!Await
<1> QED BY <1>2, <1>4, <1>5 DEF NextItem

(* Releasing the blocked producers leaves the line the items of the ring. *)
LEMMA ReleaseImplements ==
  ASSUME IInv, LineFacts, LineFacts', Release, UNCHANGED <<slots, head, size>>
  PROVE  Line' = IF finished THEN Line ELSE SubSeq(Line, 1, Fifo!Kept)
<1>1. TypeOK /\ NobodyWaitsInVain
  BY DEF IInv
<1>2. /\ size \in 0..Capacity /\ Capacity \in Nat \ {0}
      /\ blocked \in Seq(Items) /\ Len(blocked) \in Nat
  BY <1>1, BoundedQueueAssumption DEF TypeOK
<1>3. Line \in Seq(Items) /\ Len(Line) = size + Len(blocked)
  BY DEF LineFacts
<1>4. Line' \in Seq(Items) /\ Len(Line') = size
  <2>1. Len(blocked') = 0
    BY EmptySeq DEF Release
  <2> QED BY <1>2, <2>1 DEF LineFacts
<1>5. CASE blocked = <<>>
  <2>1. Line' = Line
    BY <1>5, SameLine DEF Release
  <2>2. Fifo!Kept = Len(Line)
    BY <1>2, <1>3, <1>5, EmptySeq DEF Fifo!Kept
  <2> QED BY <1>3, <2>1, <2>2, SubSeqFull
<1>6. CASE blocked # <<>>
  <2>1. size = Capacity /\ ~finished
    BY <1>1, <1>6 DEF NobodyWaitsInVain
  <2>2. Fifo!Kept = size
    BY <1>2, <1>3, <2>1 DEF Fifo!Kept
  <2>3. \A i \in 1..size : Line[i] \in Items
    BY <1>2, <1>3, ElementOfSeq
  <2>4. /\ SubSeq(Line, 1, size) \in Seq(Items)
        /\ Len(SubSeq(Line, 1, size)) = size
        /\ \A i \in 1..size : SubSeq(Line, 1, size)[i] = Line[i]
    <3>1. 1 \in Int /\ size \in Int /\ 1 <= size /\ size - 1 + 1 = size
      BY <1>2, <2>1
    <3>2. /\ SubSeq(Line, 1, size) \in Seq(Items)
          /\ Len(SubSeq(Line, 1, size)) = IF 1 <= size THEN size - 1 + 1 ELSE 0
          /\ \A i \in 1..(size - 1 + 1) : SubSeq(Line, 1, size)[i] = Line[1 + i - 1]
      BY <2>3, <3>1, SubSeqProperties
    <3>3. \A i \in 1..size : 1 + i - 1 = i
      BY <1>2
    <3> QED BY <3>1, <3>2, <3>3
  <2>5. \A i \in 1..size : Line'[i] = Line[i]
    BY DEF LineFacts
  <2>6. Line' = SubSeq(Line, 1, size)
    BY <1>4, <2>4, <2>5, SeqEqual
  <2> QED BY <2>1, <2>2, <2>6
<1> QED BY <1>5, <1>6

LEMMA FinishImplements ==
  IInv /\ LineFacts /\ LineFacts' /\ Finish => Fifo!Close(FALSE)
BY ReleaseImplements DEF Finish, Fifo!Close

LEMMA ReturnImplements ==
  IInv /\ LineFacts /\ LineFacts' /\ Return => Fifo!Close(TRUE)
<1> SUFFICES ASSUME IInv, LineFacts, LineFacts', Return PROVE Fifo!Close(TRUE)
  OBVIOUS
<1>1. waiting = FALSE /\ waiting' = FALSE
  BY DEF Return, IInv, TypeOK
<1> QED BY <1>1, ReleaseImplements DEF Return, Fifo!Close

(* The ring, its blocked producers and its parked consumer implement the    *)
(* closable line, for every capacity.                                       *)
THEOREM RingServesInTurn == Spec => ServesInTurn
<1>1. IInv /\ LineFacts /\ LineFacts' /\ [Next]_vars => [Fifo!Next]_(Fifo!vars)
  <2> SUFFICES ASSUME IInv, LineFacts, LineFacts', [Next]_vars
               PROVE  [Fifo!Next]_(Fifo!vars)
    OBVIOUS
  <2>1. CASE Push
    BY <2>1, PushImplements DEF Fifo!Next
  <2>2. CASE NextItem
    BY <2>2, NextItemImplements DEF Fifo!Next
  <2>3. CASE Finish
    BY <2>3, FinishImplements DEF Fifo!Next
  <2>4. CASE Return
    BY <2>4, ReturnImplements DEF Fifo!Next
  <2>5. CASE UNCHANGED vars
    BY <2>5, SameLine DEF vars, Fifo!vars
  <2> QED BY <2>1, <2>2, <2>3, <2>4, <2>5 DEF Next
<1> QED BY <1>1, Invariance, InitImplements, LineProperties, PTL DEF Spec, ServesInTurn, Fifo!Spec

-----------------------------------------------------------------------------
(* SessionNamer.  Of the namers started since a session rested, all but the  *)
(* one that runs have failed, so failures bounds them.                       *)

(* The cardinality an instance speaks of is the one there is. *)
LEMMA NamerCardinality ==
  ASSUME NEW S
  PROVE  Namer!Cardinality(S) = Cardinality(S)
BY DEF Namer!Cardinality, Cardinality

(* What a namer that runs was started with. *)
StartedWith == {h \in Namer!History : h.kept}

NamerTyped ==
  /\ naming \in {"off", "agent"}
  /\ DOMAIN origin = Sessions /\ origin = [s \in Sessions |-> origin[s]]
  /\ histories \in [Sessions -> Namer!History]
  /\ asking \in [Sessions -> {Namer!Idle} \cup {{h} : h \in StartedWith}]
  /\ asked \in [Sessions -> Nat]

(* Of the namers started since a session rested all but one that is running *)
(* have failed; or the last of them found a name, and failures is 0, with   *)
(* which no other starts.  The history they are counted in is not lost.     *)
Counted(s) ==
  /\ asked[s] <= MaxAttempts
  /\ s \in rested => asked[s] = 0
  /\ Namer!Accepts(s) /\ asked[s] > 0 =>
       /\ histories[s].kept
       /\ IF asking[s] = Namer!Idle
          THEN /\ histories[s].tried
               /\ histories[s].failures = 0 \/ asked[s] <= histories[s].failures
          ELSE asked[s] <= histories[s].failures + 1

FewInFlight == IsFiniteSet(Namer!InFlight) /\ Cardinality(Namer!InFlight) <= MaxNamers

NamerInv == NamerTyped /\ (\A s \in Sessions : Counted(s)) /\ FewInFlight

-----------------------------------------------------------------------------
(* The histories. *)

LEMMA HistoriesAreTyped ==
  ASSUME Namer!SessionNamerAssumption
  PROVE  /\ Namer!NoHistory \in Namer!History /\ Namer!NoHistory.kept = FALSE
         /\ Namer!EmptyHistory \in StartedWith /\ Namer!EmptyHistory.failures = 0 /\ Namer!EmptyHistory.tried = FALSE
<1>1. 0 \in 0..MaxPrompts /\ 0 \in 0..MaxAttempts
  BY DEF Namer!SessionNamerAssumption
<1>2. Namer!NoHistory \in Namer!History /\ Namer!NoHistory.failures = 0 /\ ~Namer!NoHistory.tried /\ ~Namer!NoHistory.kept
  BY <1>1 DEF Namer!NoHistory, Namer!History
<1>3. Namer!EmptyHistory \in StartedWith /\ Namer!EmptyHistory.failures = 0 /\ ~Namer!EmptyHistory.tried
  BY <1>2 DEF Namer!EmptyHistory, StartedWith, Namer!History
<1>4. QED
  BY <1>2, <1>3 DEF Namer!NoHistory, Namer!EmptyHistory

LEMMA RememberedIsTyped ==
  ASSUME Namer!SessionNamerAssumption, NEW h \in Namer!History, h.substantive < MaxPrompts
  PROVE  /\ Namer!Remembered(h) \in Namer!History
         /\ Namer!Remembered(h).kept = h.kept /\ Namer!Remembered(h).tried = h.tried
         /\ Namer!Remembered(h).failures = h.failures
BY DEF Namer!Remembered, Namer!History, Namer!SessionNamerAssumption

LEMMA RecordedIsTyped ==
  ASSUME Namer!SessionNamerAssumption, NEW h \in Namer!History, NEW after \in 0..MaxPrompts,
         NEW named \in BOOLEAN
  PROVE  /\ Namer!Recorded(h, after, named) \in Namer!History
         /\ Namer!Recorded(h, after, named).kept = h.kept /\ Namer!Recorded(h, after, named).tried
         /\ named => Namer!Recorded(h, after, named).failures = 0
         /\ ~named => \/ Namer!Recorded(h, after, named).failures = h.failures + 1
                      \/ Namer!Recorded(h, after, named).failures = MaxAttempts
<1>1. h.failures \in 0..MaxAttempts /\ MaxAttempts \in Nat
  BY DEF Namer!History, Namer!SessionNamerAssumption
<1>2. PICK f \in 0..MaxAttempts :
        f = IF named THEN 0 ELSE IF h.failures < MaxAttempts THEN h.failures + 1 ELSE h.failures
  <2>1. CASE named
    BY <2>1, <1>1
  <2>2. CASE ~named
    BY <2>2, <1>1
  <2>3. QED
    BY <2>1, <2>2
<1>3. Namer!Recorded(h, after, named) = [[[h EXCEPT !.failures = f] EXCEPT !.last = after] EXCEPT !.tried = TRUE]
  BY <1>2 DEF Namer!Recorded, Namer!History
<1>4. /\ Namer!Recorded(h, after, named) \in Namer!History
      /\ Namer!Recorded(h, after, named).kept = h.kept /\ Namer!Recorded(h, after, named).tried
      /\ Namer!Recorded(h, after, named).failures = f
  BY <1>3 DEF Namer!History
<1>5. named => f = 0
  BY <1>2
<1>6. ~named => f = h.failures + 1 \/ f = MaxAttempts
  BY <1>1, <1>2
<1>7. QED
  BY <1>4, <1>5, <1>6

LEMMA WithPromptIsTyped ==
  ASSUME Namer!SessionNamerAssumption, NamerTyped, NEW s \in Sessions, NEW b \in BOOLEAN,
         histories[s].substantive < MaxPrompts
  PROVE  /\ Namer!WithPrompt(s, b) \in StartedWith
         /\ histories[s].kept => /\ Namer!WithPrompt(s, b).tried = histories[s].tried
                                 /\ Namer!WithPrompt(s, b).failures = histories[s].failures
         /\ ~histories[s].kept => ~Namer!WithPrompt(s, b).tried /\ Namer!WithPrompt(s, b).failures = 0
<1>1. histories[s] \in Namer!History
  BY DEF NamerTyped
<1>2. PICK h \in Namer!History : h = IF histories[s].kept THEN histories[s] ELSE Namer!EmptyHistory
  BY <1>1, HistoriesAreTyped DEF StartedWith
<1>3. h.substantive < MaxPrompts \/ h = Namer!EmptyHistory
  BY <1>2
<1>4. h \in StartedWith
  BY <1>2, HistoriesAreTyped DEF StartedWith
<1>5. /\ histories[s].kept => h.tried = histories[s].tried /\ h.failures = histories[s].failures
      /\ ~histories[s].kept => h.tried = FALSE /\ h.failures = 0
  BY <1>2, HistoriesAreTyped
<1>6. h.substantive < MaxPrompts
  <2>1. CASE histories[s].kept
    BY <2>1, <1>2
  <2>2. CASE ~histories[s].kept
    <3>1. h.substantive = 0
      BY <2>2, <1>2 DEF Namer!EmptyHistory, Namer!NoHistory
    <3>2. histories[s].substantive \in Nat
      BY <1>1 DEF Namer!History
    <3>3. QED
      BY <3>1, <3>2 DEF Namer!SessionNamerAssumption
  <2>3. QED
    BY <2>1, <2>2
<1>7. Namer!WithPrompt(s, b) = IF b THEN Namer!Remembered(h) ELSE h
  BY <1>2 DEF Namer!WithPrompt
<1>8. /\ Namer!Remembered(h) \in StartedWith /\ Namer!Remembered(h).tried = h.tried
      /\ Namer!Remembered(h).failures = h.failures
  BY <1>4, <1>6, RememberedIsTyped DEF StartedWith
<1>9. QED
  BY <1>4, <1>5, <1>7, <1>8

-----------------------------------------------------------------------------
LEMMA NamerInitInv == Namer!SessionNamerAssumption /\ Namer!Init => NamerInv
<1> SUFFICES ASSUME Namer!SessionNamerAssumption, Namer!Init PROVE NamerInv
  OBVIOUS
<1>1. NamerTyped
  <2>1. histories \in [Sessions -> Namer!History]
    BY HistoriesAreTyped DEF Namer!Init
  <2>2. asking \in [Sessions -> {Namer!Idle} \cup {{h} : h \in StartedWith}]
    BY DEF Namer!Init
  <2>3. origin = [s \in Sessions |-> origin[s]]
    BY DEF Namer!Init
  <2>4. QED
    BY <2>1, <2>2, <2>3 DEF Namer!Init, NamerTyped
<1>2. \A s \in Sessions : Counted(s)
  BY DEF Namer!Init, Counted, Namer!SessionNamerAssumption
<1>3. Namer!InFlight = {}
  BY DEF Namer!Init, Namer!InFlight
<1>4. QED
  BY <1>1, <1>2, <1>3, FS_EmptySet DEF NamerInv, FewInFlight, Namer!SessionNamerAssumption

(* What the proof uses of a namer that starts. *)
Starts(s, h) ==
  /\ Namer!Accepts(s) /\ Namer!NamingDue(h, origin[s], s \in rested)
  /\ asking[s] = Namer!Idle /\ Cardinality(Namer!InFlight) < MaxNamers

LEMMA PromptKeepsInv ==
  ASSUME Namer!SessionNamerAssumption, NamerInv, NEW s \in Sessions, NEW b \in BOOLEAN,
         Namer!PromptSubmitted(s, b)
  PROVE  NamerInv'
<1>1. PICK h : h = Namer!WithPrompt(s, b)
  OBVIOUS
<1>2. /\ h \in StartedWith
      /\ histories[s].kept => h.tried = histories[s].tried /\ h.failures = histories[s].failures
      /\ ~histories[s].kept => ~h.tried /\ h.failures = 0
  BY <1>1, WithPromptIsTyped DEF Namer!PromptSubmitted, NamerInv
<1>3. /\ histories' = IF Namer!Accepts(s) THEN [Namer!AfterForgetting EXCEPT ![s] = h] ELSE Namer!AfterForgetting
      /\ asking' = IF Starts(s, h) THEN [asking EXCEPT ![s] = {h}] ELSE asking
      /\ rested' = IF Starts(s, h) THEN rested \ {s} ELSE rested
      /\ asked' = IF Starts(s, h) THEN [asked EXCEPT ![s] = @ + 1] ELSE asked
      /\ naming' = naming /\ origin' = origin
  BY <1>1, NamerCardinality DEF Namer!PromptSubmitted, Starts
<1>4. NamerTyped /\ (\A u \in Sessions : Counted(u)) /\ FewInFlight
  BY DEF NamerInv
<1>5. Namer!AfterForgetting \in [Sessions -> Namer!History]
  BY <1>4, HistoriesAreTyped DEF Namer!AfterForgetting, NamerTyped
<1>6. histories' \in [Sessions -> Namer!History]
  BY <1>2, <1>3, <1>5 DEF StartedWith
<1>7. asking' \in [Sessions -> {Namer!Idle} \cup {{g} : g \in StartedWith}]
  BY <1>2, <1>3, <1>4 DEF NamerTyped
<1>8. asked' \in [Sessions -> Nat]
  BY <1>3, <1>4 DEF NamerTyped
<1>9. NamerTyped'
  BY <1>3, <1>4, <1>6, <1>7, <1>8 DEF NamerTyped
<1>10. ASSUME NEW u \in Sessions PROVE Counted(u)'
  <2>1. Namer!Accepts(u)' <=> Namer!Accepts(u)
    BY <1>3 DEF Namer!Accepts
  <2>2. Counted(u) /\ asked[u] \in Nat /\ MaxAttempts \in Nat \ {0}
    BY <1>4 DEF NamerTyped, Namer!SessionNamerAssumption
  <2>3. CASE u # s
    <3>1. asked'[u] = asked[u] /\ asking'[u] = asking[u] /\ (u \in rested' <=> u \in rested)
      BY <1>3, <1>4, <2>3 DEF NamerTyped
    <3>2. Namer!Accepts(u) => histories'[u] = histories[u]
      BY <1>3, <1>5, <2>3 DEF Namer!AfterForgetting
    <3>3. QED
      BY <2>1, <2>2, <3>1, <3>2 DEF Counted
  <2>4. CASE u = s /\ ~Starts(s, h)
    <3>1. asked'[u] = asked[u] /\ asking'[u] = asking[u] /\ rested' = rested
      BY <1>3, <2>4
    <3>2. Namer!Accepts(u) => histories'[u] = h
      BY <1>3, <1>5, <2>4
    <3>3. h.kept
      BY <1>2 DEF StartedWith
    <3>4. ASSUME Namer!Accepts(u), asked[u] > 0, asking[u] = Namer!Idle
          PROVE  h.kept /\ h.tried /\ (h.failures = 0 \/ asked[u] <= h.failures)
      BY <3>3, <3>4, <1>2, <2>2, <2>4 DEF Counted
    <3>5. ASSUME Namer!Accepts(u), asked[u] > 0, asking[u] # Namer!Idle
          PROVE  asked[u] <= h.failures + 1
      BY <3>5, <1>2, <2>2, <2>4 DEF Counted
    <3>6. QED
      BY <2>1, <2>2, <3>1, <3>2, <3>3, <3>4, <3>5 DEF Counted
  <2>5. CASE u = s /\ Starts(s, h)
    <3>1. asked'[u] = asked[u] + 1 /\ asking'[u] = {h} /\ u \notin rested'
      BY <1>3, <1>4, <2>5 DEF NamerTyped
    <3>2. histories'[u] = h /\ h.kept /\ h.failures \in 0..MaxAttempts
      BY <1>2, <1>3, <1>5, <2>5 DEF Starts, StartedWith, Namer!History
    <3>3. asked[u] = 0 \/ (asked[u] <= h.failures /\ h.failures < MaxAttempts)
      <4>1. SUFFICES ASSUME asked[u] > 0 PROVE asked[u] <= h.failures /\ h.failures < MaxAttempts
        BY <2>2
      <4>2. u \notin rested
        BY <4>1, <2>2 DEF Counted
      <4>3. /\ histories[u].kept /\ histories[u].tried
            /\ histories[u].failures = 0 \/ asked[u] <= histories[u].failures
        BY <4>1, <2>2, <2>5 DEF Counted, Starts
      <4>4. h.tried /\ (h.failures = 0 \/ asked[u] <= h.failures)
        BY <4>3, <1>2, <2>5
      <4>5. h.failures \in 1..MaxAttempts - 1
        BY <4>2, <4>4, <2>5 DEF Starts, Namer!NamingDue
      <4>6. QED
        BY <4>4, <4>5, <2>2
    <3>4. asked'[u] <= MaxAttempts /\ asked'[u] <= h.failures + 1
      BY <3>1, <3>2, <3>3, <2>2
    <3>5. QED
      BY <3>1, <3>2, <3>4 DEF Counted, Namer!Idle
  <2>6. QED
    BY <2>3, <2>4, <2>5
<1>11. FewInFlight'
  <2>1. CASE Starts(s, h)
    <3>1. Namer!InFlight' = Namer!InFlight \cup {s} /\ s \notin Namer!InFlight
      BY <2>1, <1>3, <1>4 DEF Namer!InFlight, Starts, NamerTyped, Namer!Idle
    <3>2. Cardinality(Namer!InFlight) \in Nat
      BY <1>4, FS_CardinalityType DEF FewInFlight
    <3>3. /\ IsFiniteSet(Namer!InFlight \cup {s})
          /\ Cardinality(Namer!InFlight \cup {s}) = Cardinality(Namer!InFlight) + 1
      BY <3>1, <1>4, FS_AddElement DEF FewInFlight
    <3>4. Cardinality(Namer!InFlight) < MaxNamers /\ MaxNamers \in Nat
      BY <2>1 DEF Starts, Namer!SessionNamerAssumption
    <3>5. QED
      BY <3>1, <3>2, <3>3, <3>4 DEF FewInFlight
  <2>2. CASE ~Starts(s, h)
    BY <2>2, <1>3, <1>4 DEF FewInFlight, Namer!InFlight
  <2>3. QED
    BY <2>1, <2>2
<1>12. QED
  BY <1>9, <1>10, <1>11 DEF NamerInv

LEMMA FewerInFlight ==
  ASSUME Namer!SessionNamerAssumption, FewInFlight, Namer!InFlight' \subseteq Namer!InFlight
  PROVE  FewInFlight'
<1>1. /\ IsFiniteSet(Namer!InFlight') /\ Cardinality(Namer!InFlight') <= Cardinality(Namer!InFlight)
      /\ Cardinality(Namer!InFlight) \in Nat /\ Cardinality(Namer!InFlight') \in Nat
  BY FS_Subset, FS_CardinalityType DEF FewInFlight
<1>2. QED
  BY <1>1 DEF FewInFlight, Namer!SessionNamerAssumption

LEMMA AnsweredKeepsInv ==
  ASSUME Namer!SessionNamerAssumption, NamerInv, NEW s \in Sessions, NEW named \in BOOLEAN,
         Namer!Answered(s, named)
  PROVE  NamerInv'
<1>1. NamerTyped /\ (\A u \in Sessions : Counted(u)) /\ FewInFlight
  BY DEF NamerInv
<1>2. PICK h \in asking[s] :
        /\ histories' = [histories EXCEPT ![s] =
             Namer!Recorded(IF histories[s].kept THEN histories[s] ELSE h, h.substantive, named)]
        /\ asking' = [asking EXCEPT ![s] = Namer!Idle]
        /\ \/ origin' = origin
           \/ named /\ Namer!Accepts(s) /\ origin' = [origin EXCEPT ![s] = "automatic"]
        /\ UNCHANGED <<naming, rested, asked>>
  BY DEF Namer!Answered
<1>3. h \in StartedWith /\ h \in Namer!History /\ asking[s] # Namer!Idle
  BY <1>1 DEF NamerTyped, Namer!Idle, StartedWith
<1>4. PICK latest \in Namer!History : /\ latest = IF histories[s].kept THEN histories[s] ELSE h
                                /\ latest.kept
  BY <1>1, <1>3 DEF NamerTyped, StartedWith
<1>5. PICK new : new = Namer!Recorded(latest, h.substantive, named)
  OBVIOUS
<1>6. /\ new \in Namer!History /\ new.kept /\ new.tried
      /\ named => new.failures = 0
      /\ ~named => new.failures = latest.failures + 1 \/ new.failures = MaxAttempts
  <2>1. h.substantive \in 0..MaxPrompts
    BY <1>3 DEF Namer!History
  <2>2. QED
    BY <2>1, <1>4, <1>5, RecordedIsTyped
<1>7. histories' = [histories EXCEPT ![s] = new]
  BY <1>2, <1>4, <1>5
<1>8. NamerTyped'
  <2>1. histories' \in [Sessions -> Namer!History]
    BY <1>1, <1>6, <1>7 DEF NamerTyped
  <2>2. asking' \in [Sessions -> {Namer!Idle} \cup {{g} : g \in StartedWith}]
    BY <1>1, <1>2 DEF NamerTyped
  <2>3. DOMAIN origin' = Sessions /\ origin' = [u \in Sessions |-> origin'[u]]
    BY <1>1, <1>2 DEF NamerTyped
  <2>4. QED
    BY <2>1, <2>2, <2>3, <1>1, <1>2 DEF NamerTyped
<1>9. ASSUME NEW u \in Sessions PROVE Counted(u)'
  <2>1. Namer!Accepts(u)' => Namer!Accepts(u)
    BY <1>1, <1>2 DEF Namer!Accepts, NamerTyped
  <2>2. asked' = asked /\ rested' = rested /\ Counted(u) /\ asked[u] \in Nat
    BY <1>1, <1>2 DEF NamerTyped
  <2>3. CASE u # s
    <3>1. histories'[u] = histories[u] /\ asking'[u] = asking[u]
      BY <1>1, <1>2, <1>7, <2>3 DEF NamerTyped
    <3>2. QED
      BY <2>1, <2>2, <3>1 DEF Counted
  <2>4. CASE u = s
    <3>1. histories'[u] = new /\ asking'[u] = Namer!Idle
      BY <1>1, <1>2, <1>7, <2>4 DEF NamerTyped
    <3>2. ASSUME Namer!Accepts(u), asked[u] > 0
          PROVE  asked[u] <= latest.failures + 1
      BY <3>2, <2>2, <2>4, <1>3, <1>4 DEF Counted
    <3>3. asked[u] <= MaxAttempts
      BY <2>2 DEF Counted
    <3>4. ASSUME Namer!Accepts(u), asked[u] > 0
          PROVE  new.failures = 0 \/ asked[u] <= new.failures
      BY <3>2, <3>3, <3>4, <1>6
    <3>5. QED
      BY <2>1, <2>2, <3>1, <3>4, <1>6 DEF Counted
  <2>5. QED
    BY <2>3, <2>4
<1>10. Namer!InFlight' \subseteq Namer!InFlight
  BY <1>1, <1>2 DEF Namer!InFlight, NamerTyped
<1>11. QED
  BY <1>1, <1>8, <1>9, <1>10, FewerInFlight DEF NamerInv

LEMMA OthersKeepInv ==
  ASSUME Namer!SessionNamerAssumption, NamerInv,
         \/ \E s \in Sessions : Namer!Renamed(s) \/ Namer!Rest(s)
         \/ \E next \in {"off", "agent"} : Namer!Configure(next)
         \/ UNCHANGED Namer!vars
  PROVE  NamerInv'
<1>1. NamerTyped /\ (\A u \in Sessions : Counted(u)) /\ FewInFlight
  BY DEF NamerInv
<1>2. asking' = asking
  BY DEF Namer!Renamed, Namer!Rest, Namer!Configure, Namer!vars
<1>3. FewInFlight'
  BY <1>1, <1>2 DEF FewInFlight, Namer!InFlight
<1>4. CASE \E s \in Sessions : Namer!Renamed(s)
  <2>1. PICK s \in Sessions, who \in {"user", "gone"} :
          /\ origin' = [origin EXCEPT ![s] = who]
          /\ UNCHANGED <<naming, histories, asking, rested, asked>>
    BY <1>4 DEF Namer!Renamed
  <2>2. NamerTyped'
    BY <2>1, <1>1 DEF NamerTyped
  <2>3. ASSUME NEW u \in Sessions PROVE Counted(u)'
    <3>1. Namer!Accepts(u)' => Namer!Accepts(u)
      BY <2>1, <1>1 DEF Namer!Accepts, NamerTyped
    <3>2. QED
      BY <3>1, <2>1, <1>1 DEF Counted
  <2>4. QED
    BY <2>2, <2>3, <1>3 DEF NamerInv
<1>5. CASE \E s \in Sessions : Namer!Rest(s)
  <2>1. PICK s \in Sessions : /\ rested' = rested \cup {s}
                              /\ asked' = [asked EXCEPT ![s] = 0]
                              /\ UNCHANGED <<naming, origin, histories, asking>>
    BY <1>5 DEF Namer!Rest
  <2>2. NamerTyped'
    BY <2>1, <1>1 DEF NamerTyped
  <2>3. ASSUME NEW u \in Sessions PROVE Counted(u)'
    <3>1. Namer!Accepts(u)' <=> Namer!Accepts(u)
      BY <2>1 DEF Namer!Accepts
    <3>2. CASE u = s
      <4>1. asked'[u] = 0
        BY <3>2, <2>1, <1>1 DEF NamerTyped
      <4>2. QED
        BY <4>1 DEF Counted, Namer!SessionNamerAssumption
    <3>3. CASE u # s
      <4>1. asked'[u] = asked[u] /\ (u \in rested' <=> u \in rested)
        BY <3>3, <2>1, <1>1 DEF NamerTyped
      <4>2. QED
        BY <4>1, <3>1, <2>1, <1>1 DEF Counted
    <3>4. QED
      BY <3>2, <3>3
  <2>4. QED
    BY <2>2, <2>3, <1>3 DEF NamerInv
<1>6. CASE \E next \in {"off", "agent"} : Namer!Configure(next)
  <2>1. PICK next \in {"off", "agent"} : Namer!Configure(next)
    BY <1>6
  <2>2. NamerTyped'
    <3>1. histories' \in [Sessions -> Namer!History]
      BY <2>1, <1>1, HistoriesAreTyped DEF Namer!Configure, NamerTyped
    <3>2. QED
      BY <3>1, <2>1, <1>1 DEF Namer!Configure, NamerTyped
  <2>3. \A u \in Sessions : Counted(u)'
    BY <2>1 DEF Namer!Configure, Counted, Namer!SessionNamerAssumption
  <2>4. QED
    BY <2>2, <2>3, <1>3 DEF NamerInv
<1>7. CASE UNCHANGED Namer!vars
  BY <1>7 DEF Namer!vars, NamerInv, NamerTyped, Counted, Namer!Accepts, FewInFlight, Namer!InFlight
<1>8. QED
  BY <1>4, <1>5, <1>6, <1>7

LEMMA NamerNextInv == Namer!SessionNamerAssumption /\ NamerInv /\ [Namer!Next]_(Namer!vars) => NamerInv'
BY PromptKeepsInv, AnsweredKeepsInv, OthersKeepInv DEF Namer!Next

LEMMA NamerInvariance == Namer!SessionNamerAssumption => (Namer!Spec => []NamerInv)
<1>1. SUFFICES ASSUME Namer!SessionNamerAssumption PROVE Namer!Spec => []NamerInv
  OBVIOUS
<1>2. Namer!Init => NamerInv
  BY <1>1, NamerInitInv
<1>3. NamerInv /\ [Namer!Next]_(Namer!vars) => NamerInv'
  BY <1>1, NamerNextInv
<1>4. QED
  BY <1>2, <1>3, PTL DEF Namer!Spec

(* The histories, and those the namers run with, keep their types.          *)
(* (session-namer.ts).                                                      *)
THEOREM NamerTypeCorrect == Namer!SessionNamerAssumption => (Namer!Spec => []Namer!TypeOK)
<1>1. NamerInv => Namer!TypeOK
  BY DEF NamerInv, NamerTyped, Namer!TypeOK, StartedWith, Namer!Idle
<1>2. QED
  BY <1>1, NamerInvariance, PTL

(* Until a session has rested it costs at most MAX_FIRST_NAME_ATTEMPTS runs  *)
(* of the agent, and no more than MAX_CONCURRENT_NAMERS run at a time        *)
(* (session-namer.ts, session-naming-policy.ts).                             *)
THEOREM NamersStayFew == Namer!SessionNamerAssumption => (Namer!Spec => []Namer!AsksAreRare)
<1>1. NamerInv => Namer!AsksAreRare
  BY NamerCardinality DEF NamerInv, Counted, FewInFlight, Namer!AsksAreRare
<1>2. QED
  BY <1>1, NamerInvariance, PTL

-----------------------------------------------------------------------------
(* FrameDecoder.  The frames decoded are the frames sent, for any number of  *)
(* frames of any lengths and however their bytes are cut into chunks.        *)

(* The cardinality an instance speaks of is the one there is. *)
LEMMA DecoderCardinality ==
  ASSUME NEW S
  PROVE  Decoder!Cardinality(S) = Cardinality(S)
BY DEF Decoder!Cardinality, Cardinality


(* A non-empty set of natural numbers has a least element. *)
LEMMA LeastNatural ==
  ASSUME NEW S \in SUBSET Nat, S # {}
  PROVE  \E n \in S : \A m \in S : n <= m
<1> DEFINE Below == {0..n : n \in S}
<1>1. \A n \in S : 0..n \in FiniteSubsetsOf(Nat)
  BY FS_Interval DEF FiniteSubsetsOf
<1>2. Below \subseteq FiniteSubsetsOf(Nat) /\ Below # {}
  BY <1>1
<1>3. PICK least \in Below : \A other \in Below : <<other, least>> \notin StrictSubsetOrdering(Nat)
  <2> HIDE DEF Below
  <2> QED BY <1>2, FS_StrictSubsetOrderingWellFounded, WFMin
<1>4. PICK n \in S : least = 0..n
  OBVIOUS
<1>5. ASSUME NEW m \in S, m < n PROVE FALSE
  <2>1. 0..m \subseteq 0..n /\ n \in 0..n /\ n \notin 0..m
    BY <1>5
  <2>2. 0..m \in Below
    OBVIOUS
  <2>3. 0..m \subseteq least /\ 0..m # least /\ least \in SUBSET Nat /\ 0..m \in SUBSET Nat
    BY <2>1, <1>4
  <2>4. <<0..m, least>> \in StrictSubsetOrdering(Nat)
    BY <2>3 DEF StrictSubsetOrdering
  <2>5. QED
    BY <2>2, <2>4, <1>3
<1>6. QED
  BY <1>5

-----------------------------------------------------------------------------
(* Where the frames end. *)

Lengths == [1..FrameCount -> 0..MaxPayload]

(* The equation of EndOf, up to frame n. *)
AreEnds(ends, n, of) ==
  ends = [i \in 0..n |-> IF i = 0 THEN 0 ELSE ends[i - 1] + (HeaderLength + of[i])]

LEMMA EndsExist ==
  ASSUME NEW of, NEW n \in Nat
  PROVE  \E ends : AreEnds(ends, n, of)
<1> DEFINE Bad == {k \in Nat : ~ \E ends : AreEnds(ends, k, of)}
<1>1. SUFFICES ASSUME NEW k \in Bad, \A m \in Bad : k <= m PROVE FALSE
  BY LeastNatural
<1>2. CASE k = 0
  <2>1. AreEnds([i \in 0..0 |-> 0], 0, of)
    BY DEF AreEnds
  <2>2. QED
    BY <2>1, <1>2
<1>3. CASE k # 0
  <2>1. k - 1 \in Nat /\ k - 1 \notin Bad
    BY <1>1, <1>3
  <2>2. PICK g : AreEnds(g, k - 1, of)
    BY <2>1
  <2> DEFINE h == [i \in 0..k |-> IF i = k THEN g[k - 1] + (HeaderLength + of[k]) ELSE g[i]]
  <2>3. \A i \in 0..(k - 1) : h[i] = g[i]
    OBVIOUS
  <2>4. \A i \in 0..k : h[i] = IF i = 0 THEN 0 ELSE h[i - 1] + (HeaderLength + of[i])
    <3> SUFFICES ASSUME NEW i \in 0..k
                 PROVE  h[i] = IF i = 0 THEN 0 ELSE h[i - 1] + (HeaderLength + of[i])
      OBVIOUS
    <3>1. CASE i = k
      <4>1. h[k - 1] = g[k - 1]
        BY <2>1, <2>3
      <4>2. QED
        BY <4>1, <3>1, <1>3
    <3>2. CASE i # k
      <4>1. i \in 0..(k - 1) /\ h[i] = g[i]
        BY <3>2, <2>3
      <4>2. g[i] = IF i = 0 THEN 0 ELSE g[i - 1] + (HeaderLength + of[i])
        BY <4>1, <2>2 DEF AreEnds
      <4>3. i # 0 => h[i - 1] = g[i - 1]
        BY <4>1, <2>3
      <4>4. QED
        BY <4>1, <4>2, <4>3
    <3>3. QED
      BY <3>1, <3>2
  <2>5. h = [i \in 0..k |-> h[i]]
    OBVIOUS
  <2>6. AreEnds(h, k, of)
    <3> HIDE DEF h
    <3> QED BY <2>4, <2>5 DEF AreEnds
  <2>7. QED
    BY <2>6
<1>4. QED
  BY <1>2, <1>3

LEMMA EndOfAreEnds == Decoder!FrameDecoderAssumption => AreEnds(Decoder!EndOf, FrameCount, lengths)
<1> SUFFICES ASSUME Decoder!FrameDecoderAssumption PROVE AreEnds(Decoder!EndOf, FrameCount, lengths)
  OBVIOUS
<1>1. \E ends : AreEnds(ends, FrameCount, lengths)
  BY EndsExist DEF Decoder!FrameDecoderAssumption
<1>2. AreEnds(CHOOSE ends : AreEnds(ends, FrameCount, lengths), FrameCount, lengths)
  BY <1>1
<1>3. Decoder!EndOf = CHOOSE ends : AreEnds(ends, FrameCount, lengths)
  BY DEF Decoder!EndOf, AreEnds, Decoder!Total
<1>4. QED
  BY <1>2, <1>3

LEMMA EndsAreUnique ==
  ASSUME NEW of, NEW n \in Nat, NEW f, NEW g, AreEnds(f, n, of), AreEnds(g, n, of)
  PROVE  f = g
<1> DEFINE Bad == {i \in 0..n : f[i] # g[i]}
<1>1. Bad \in SUBSET Nat
  OBVIOUS
<1>2. ASSUME Bad # {} PROVE FALSE
  <2>1. PICK i \in Bad : \A j \in Bad : i <= j
    <3> HIDE DEF Bad
    <3> QED BY <1>1, <1>2, LeastNatural
  <2>2. /\ i \in 0..n /\ f[i] # g[i]
        /\ f[i] = IF i = 0 THEN 0 ELSE f[i - 1] + (HeaderLength + of[i])
        /\ g[i] = IF i = 0 THEN 0 ELSE g[i - 1] + (HeaderLength + of[i])
    BY DEF AreEnds
  <2>3. i # 0
    BY <2>2
  <2>4. i - 1 \in 0..n /\ i - 1 \notin Bad
    BY <2>1, <2>2, <2>3
  <2>5. f[i - 1] = g[i - 1]
    BY <2>4
  <2>6. QED
    BY <2>2, <2>3, <2>5
<1>3. \A i \in 0..n : f[i] = g[i]
  BY <1>2
<1>4. f = [i \in 0..n |-> f[i]] /\ g = [i \in 0..n |-> g[i]]
  BY DEF AreEnds
<1>5. QED
  BY <1>3, <1>4

LEMMA EndOfStays == Decoder!FrameDecoderAssumption /\ UNCHANGED lengths => Decoder!EndOf' = Decoder!EndOf
<1>1. (Decoder!FrameDecoderAssumption => AreEnds(Decoder!EndOf, FrameCount, lengths))'
  BY EndOfAreEnds, PTL
<1>2. Decoder!FrameDecoderAssumption => AreEnds(Decoder!EndOf', FrameCount, lengths')
  BY <1>1 DEF Decoder!FrameDecoderAssumption
<1>3. SUFFICES ASSUME Decoder!FrameDecoderAssumption, lengths' = lengths PROVE Decoder!EndOf' = Decoder!EndOf
  OBVIOUS
<1>4. AreEnds(Decoder!EndOf, FrameCount, lengths) /\ AreEnds(Decoder!EndOf', FrameCount, lengths) /\ FrameCount \in Nat
  BY <1>2, <1>3, EndOfAreEnds DEF Decoder!FrameDecoderAssumption
<1>5. QED
  BY <1>4, EndsAreUnique

(* The facts about EndOf that the rest is about. *)
LEMMA Ends ==
  ASSUME Decoder!FrameDecoderAssumption, lengths \in Lengths
  PROVE  /\ HeaderLength \in Nat \ {0} /\ FrameCount \in Nat
         /\ \A i \in 0..FrameCount : Decoder!EndOf[i] \in Nat
         /\ Decoder!EndOf[0] = 0
         /\ \A i \in 1..FrameCount : /\ lengths[i] \in Nat /\ Decoder!Total(i) = HeaderLength + lengths[i]
                                     /\ Decoder!Total(i) \in Nat /\ Decoder!Total(i) >= HeaderLength
                                     /\ Decoder!EndOf[i] = Decoder!EndOf[i - 1] + Decoder!Total(i)
<1>1. HeaderLength \in Nat \ {0} /\ FrameCount \in Nat /\ MaxPayload \in Nat
  BY DEF Decoder!FrameDecoderAssumption
<1>2. \A i \in 1..FrameCount : /\ lengths[i] \in Nat /\ Decoder!Total(i) = HeaderLength + lengths[i]
                               /\ Decoder!Total(i) \in Nat /\ Decoder!Total(i) >= HeaderLength
  BY <1>1 DEF Lengths, Decoder!Total
<1>3. \A i \in 0..FrameCount :
        Decoder!EndOf[i] = IF i = 0 THEN 0 ELSE Decoder!EndOf[i - 1] + (HeaderLength + lengths[i])
  BY EndOfAreEnds DEF AreEnds
<1> DEFINE Bad == {i \in 0..FrameCount : Decoder!EndOf[i] \notin Nat}
<1>4. ASSUME Bad # {} PROVE FALSE
  <2>1. PICK i \in Bad : \A j \in Bad : i <= j
    <3>1. Bad \in SUBSET Nat
      OBVIOUS
    <3> HIDE DEF Bad
    <3> QED BY <3>1, <1>4, LeastNatural
  <2>2. i \in 0..FrameCount /\ Decoder!EndOf[i] \notin Nat /\ i # 0
    BY <1>3
  <2>3. i - 1 \in 0..FrameCount /\ i - 1 \notin Bad /\ i \in 1..FrameCount
    BY <1>1, <2>1, <2>2
  <2>4. Decoder!EndOf[i - 1] \in Nat
    BY <2>3
  <2>5. QED
    BY <1>1, <1>2, <1>3, <2>2, <2>3, <2>4
<1>5. Decoder!EndOf[0] = 0
  BY <1>1, <1>3
<1>6. \A i \in 1..FrameCount : Decoder!EndOf[i] = Decoder!EndOf[i - 1] + Decoder!Total(i)
  BY <1>1, <1>2, <1>3
<1>7. QED
  BY <1>1, <1>2, <1>4, <1>5, <1>6

LEMMA EndsGrow ==
  ASSUME Decoder!FrameDecoderAssumption, lengths \in Lengths,
         NEW i \in 0..FrameCount, NEW j \in 0..FrameCount, i <= j
  PROVE  Decoder!EndOf[i] <= Decoder!EndOf[j]
<1> DEFINE Bad == {k \in 0..FrameCount : i <= k /\ ~(Decoder!EndOf[i] <= Decoder!EndOf[k])}
<1>1. Bad \in SUBSET Nat
  OBVIOUS
<1>2. SUFFICES ASSUME Bad # {} PROVE FALSE
  OBVIOUS
<1>3. PICK k \in Bad : \A m \in Bad : k <= m
  <2> HIDE DEF Bad
  <2> QED BY <1>1, <1>2, LeastNatural
<1>4. k \in 0..FrameCount /\ i <= k /\ ~(Decoder!EndOf[i] <= Decoder!EndOf[k]) /\ i \in Nat
  OBVIOUS
<1>5. Decoder!EndOf[i] \in Nat /\ Decoder!EndOf[k] \in Nat /\ FrameCount \in Nat
  BY <1>4, Ends
<1>6. k # i
  BY <1>4, <1>5
<1>7. k - 1 \in 0..FrameCount /\ k \in 1..FrameCount /\ i <= k - 1 /\ k - 1 \notin Bad
  BY <1>3, <1>4, <1>5, <1>6
<1>8. Decoder!EndOf[i] <= Decoder!EndOf[k - 1] /\ Decoder!EndOf[k] = Decoder!EndOf[k - 1] + Decoder!Total(k)
      /\ Decoder!Total(k) \in Nat /\ Decoder!EndOf[k - 1] \in Nat
  BY <1>7, Ends
<1>9. QED
  BY <1>4, <1>5, <1>8

(* The frame a byte of the stream is of. *)
LEMMA FrameOf ==
  ASSUME Decoder!FrameDecoderAssumption, lengths \in Lengths, NEW n \in Nat, n <= Decoder!Sent
  PROVE  /\ n # 0 => \E i \in 1..FrameCount : Decoder!EndOf[i - 1] < n /\ n <= Decoder!EndOf[i]
         /\ \E i \in 0..FrameCount : Decoder!EndOf[i] <= n /\ (i < FrameCount => n < Decoder!EndOf[i + 1])
<1>1. FrameCount \in Nat /\ FrameCount \in 0..FrameCount /\ Decoder!EndOf[FrameCount] = Decoder!Sent
      /\ Decoder!EndOf[0] = 0 /\ \A i \in 0..FrameCount : Decoder!EndOf[i] \in Nat
  BY Ends DEF Decoder!Sent
<1> DEFINE Reach == {i \in 0..FrameCount : n <= Decoder!EndOf[i]}
           Beyond == {i \in 0..FrameCount : i = FrameCount \/ n < Decoder!EndOf[i + 1]}
<1>2. Reach \in SUBSET Nat /\ Reach # {} /\ Beyond \in SUBSET Nat /\ Beyond # {}
  BY <1>1
<1>3. n # 0 => \E i \in 1..FrameCount : Decoder!EndOf[i - 1] < n /\ n <= Decoder!EndOf[i]
  <2>1. SUFFICES ASSUME n # 0
                 PROVE  \E i \in 1..FrameCount : Decoder!EndOf[i - 1] < n /\ n <= Decoder!EndOf[i]
    OBVIOUS
  <2>2. PICK i \in Reach : \A j \in Reach : i <= j
    <3> HIDE DEF Reach
    <3> QED BY <1>2, LeastNatural
  <2>3. i # 0 /\ i \in 1..FrameCount /\ i - 1 \in 0..FrameCount /\ n <= Decoder!EndOf[i]
    BY <1>1, <2>1, <2>2
  <2>4. i - 1 \notin Reach /\ Decoder!EndOf[i - 1] \in Nat
    BY <1>1, <2>2, <2>3
  <2>5. QED
    BY <2>3, <2>4
<1>4. \E i \in 0..FrameCount : Decoder!EndOf[i] <= n /\ (i < FrameCount => n < Decoder!EndOf[i + 1])
  <2>1. PICK i \in Beyond : \A j \in Beyond : i <= j
    <3> HIDE DEF Beyond
    <3> QED BY <1>2, LeastNatural
  <2>2. CASE i = 0
    BY <1>1, <2>1, <2>2
  <2>3. CASE i # 0
    <3>1. i - 1 \in 0..FrameCount /\ i - 1 \notin Beyond /\ (i - 1) + 1 = i /\ Decoder!EndOf[i] \in Nat
      BY <1>1, <2>1, <2>3
    <3>2. Decoder!EndOf[i] <= n
      BY <3>1
    <3>3. QED
      BY <1>1, <2>1, <3>2
  <2>4. QED
    BY <2>2, <2>3
<1>5. QED
  BY <1>3, <1>4

(* The stream is the frames, each byte in its place. *)
LEMMA ByteOfFrame ==
  ASSUME Decoder!FrameDecoderAssumption, lengths \in Lengths, NEW d \in 1..FrameCount, NEW n \in Nat,
         Decoder!EndOf[d - 1] < n, n <= Decoder!EndOf[d]
  PROVE  Decoder!ByteAt(n) = <<d, n - Decoder!EndOf[d - 1] - 1>>
<1>1. FrameCount \in Nat /\ \A i \in 0..FrameCount : Decoder!EndOf[i] \in Nat
  BY Ends
<1>2. ASSUME NEW i \in 1..FrameCount, Decoder!EndOf[i - 1] < n, n <= Decoder!EndOf[i] PROVE i = d
  <2>1. /\ i \in 0..FrameCount /\ i - 1 \in 0..FrameCount /\ d \in 0..FrameCount /\ d - 1 \in 0..FrameCount
        /\ i \in Nat /\ d \in Nat
    BY <1>1
  <2>2. CASE i < d
    <3>1. Decoder!EndOf[i] <= Decoder!EndOf[d - 1]
      <4>1. i <= d - 1
        BY <2>1, <2>2
      <4>2. QED
        BY <4>1, <2>1, EndsGrow
    <3>2. QED
      BY <3>1, <1>1, <1>2, <2>1
  <2>3. CASE d < i
    <3>1. Decoder!EndOf[d] <= Decoder!EndOf[i - 1]
      <4>1. d <= i - 1
        BY <2>1, <2>3
      <4>2. QED
        BY <4>1, <2>1, EndsGrow
    <3>2. QED
      BY <3>1, <1>1, <1>2, <2>1
  <2>4. QED
    BY <2>1, <2>2, <2>3
<1>3. (CHOOSE i \in 1..FrameCount : Decoder!EndOf[i - 1] < n /\ n <= Decoder!EndOf[i]) = d
  BY <1>2
<1>4. QED
  BY <1>3 DEF Decoder!ByteAt

-----------------------------------------------------------------------------
(* Chunks, which are stretches of the stream. *)

(* The bytes that come after the first `before` of the stream. *)
IsChunk(chunk, before, n) ==
  /\ n \in Nat /\ before \in Nat /\ before + n <= Decoder!Sent
  /\ chunk = [k \in 0..n - 1 |-> Decoder!ByteAt(before + k + 1)]

IsArray(bytes, length) == length \in Nat /\ DOMAIN bytes = 0..length - 1

LEMMA SizeOfArray ==
  ASSUME NEW bytes, NEW length, IsArray(bytes, length)
  PROVE  Decoder!Size(bytes) = length
<1>1. Cardinality(0..length - 1) = length
  BY FS_Interval DEF IsArray
<1>2. QED
  BY <1>1, DecoderCardinality DEF IsArray, Decoder!Size

LEMMA ChunkIsArray ==
  ASSUME NEW chunk, NEW before, NEW n, IsChunk(chunk, before, n)
  PROVE  IsArray(chunk, n) /\ Decoder!Size(chunk) = n
<1>1. IsArray(chunk, n)
  BY DEF IsChunk, IsArray
<1>2. QED
  BY <1>1, SizeOfArray

(* The bytes of frame d lie in the chunk one after another, from `at` on. *)
LEMMA BytesInChunk ==
  ASSUME Decoder!FrameDecoderAssumption, lengths \in Lengths,
         NEW chunk, NEW before, NEW n, IsChunk(chunk, before, n),
         NEW d \in 1..FrameCount, NEW k \in 0..n - 1,
         Decoder!EndOf[d - 1] <= before + k, before + k < Decoder!EndOf[d]
  PROVE  chunk[k] = <<d, before + k - Decoder!EndOf[d - 1]>>
<1>1. Decoder!EndOf[d - 1] \in Nat /\ Decoder!EndOf[d] \in Nat
  BY Ends
<1>2. PICK m \in Nat : m = before + k + 1
  BY DEF IsChunk
<1>3. Decoder!ByteAt(m) = <<d, m - Decoder!EndOf[d - 1] - 1>>
  <2>1. Decoder!EndOf[d - 1] < m /\ m <= Decoder!EndOf[d]
    BY <1>1, <1>2 DEF IsChunk
  <2>2. QED
    BY <2>1, ByteOfFrame
<1>4. chunk[k] = Decoder!ByteAt(m)
  BY <1>2 DEF IsChunk
<1>5. m - Decoder!EndOf[d - 1] - 1 = before + k - Decoder!EndOf[d - 1]
  BY <1>1, <1>2 DEF IsChunk
<1>6. QED
  BY <1>3, <1>4, <1>5

(* Bytes that are the header of frame d tell its length. *)
LEMMA HeaderTells ==
  ASSUME Decoder!FrameDecoderAssumption, NEW bytes, NEW at \in Nat, NEW d,
         \A j \in 0..HeaderLength - 1 : bytes[at + j] = <<d, j>>
  PROVE  Decoder!TotalAt(bytes, at) = Decoder!Total(d)
<1>1. 0 \in 0..HeaderLength - 1 /\ at + 0 = at
  BY DEF Decoder!FrameDecoderAssumption
<1>2. bytes[at] = <<d, 0>>
  BY <1>1
<1>3. bytes[at][1] = d
  BY <1>2
<1>4. QED
  BY <1>3 DEF Decoder!TotalAt

(* A frame that is in the chunk from `at` on, and is not the last one begun. *)
LEMMA FrameInChunk ==
  ASSUME Decoder!FrameDecoderAssumption, lengths \in Lengths,
         NEW chunk, NEW before, NEW n, IsChunk(chunk, before, n),
         NEW d \in 1..FrameCount, NEW at \in Nat, before + at = Decoder!EndOf[d - 1],
         at + HeaderLength <= n
  PROVE  /\ Decoder!TotalAt(chunk, at) = Decoder!Total(d)
         /\ at + Decoder!Total(d) <= n => Decoder!Fits(chunk, at) /\ Decoder!PayloadAt(chunk, at) = Decoder!Payload(d)
         /\ ~(at + Decoder!Total(d) <= n) => ~Decoder!Fits(chunk, at)
<1>1. /\ Decoder!EndOf[d - 1] \in Nat /\ Decoder!EndOf[d] = Decoder!EndOf[d - 1] + Decoder!Total(d) /\ Decoder!Total(d) \in Nat
      /\ Decoder!Total(d) >= HeaderLength /\ HeaderLength \in Nat \ {0} /\ Decoder!Total(d) = HeaderLength + lengths[d]
      /\ lengths[d] \in Nat
  BY Ends
<1>2. n \in Nat /\ before \in Nat
  BY DEF IsChunk
<1>3. ASSUME NEW j \in 0..Decoder!Total(d) - 1, at + j < n PROVE chunk[at + j] = <<d, j>>
  <2>1. PICK k \in 0..n - 1 : k = at + j
    BY <1>1, <1>2, <1>3
  <2>2. Decoder!EndOf[d - 1] <= before + k /\ before + k < Decoder!EndOf[d] /\ before + k - Decoder!EndOf[d - 1] = j
    BY <1>1, <1>2, <2>1
  <2>3. chunk[k] = <<d, before + k - Decoder!EndOf[d - 1]>>
    BY <2>2, BytesInChunk
  <2>4. QED
    BY <2>1, <2>2, <2>3
<1>4. \A j \in 0..HeaderLength - 1 : chunk[at + j] = <<d, j>>
  BY <1>1, <1>2, <1>3
<1>5. Decoder!TotalAt(chunk, at) = Decoder!Total(d)
  BY <1>4, HeaderTells
<1>6. Decoder!Size(chunk) = n
  BY ChunkIsArray
<1>7. ASSUME at + Decoder!Total(d) <= n PROVE Decoder!PayloadAt(chunk, at) = Decoder!Payload(d)
  <2>1. Decoder!PayloadAt(chunk, at)
          = [j \in 1..((at + Decoder!Total(d)) - (at + HeaderLength)) |-> chunk[at + HeaderLength + j - 1]]
    BY <1>5 DEF Decoder!PayloadAt, Decoder!Slice
  <2>2. (at + Decoder!Total(d)) - (at + HeaderLength) = lengths[d]
    BY <1>1
  <2>3. ASSUME NEW j \in 1..lengths[d]
        PROVE  chunk[at + HeaderLength + j - 1] = <<d, HeaderLength + j - 1>>
    <3>1. PICK i \in 0..Decoder!Total(d) - 1 : i = HeaderLength + j - 1
      BY <1>1
    <3>2. at + i < n /\ at + i = at + HeaderLength + j - 1
      BY <1>1, <1>2, <1>7, <3>1
    <3>3. QED
      BY <1>3, <3>1, <3>2
  <2>4. QED
    BY <2>1, <2>2, <2>3 DEF Decoder!Payload
<1>8. QED
  BY <1>5, <1>6, <1>7 DEF Decoder!Fits

-----------------------------------------------------------------------------
(* The frames that lie whole in a chunk. *)

(* The equation of Whole's function, from `low` on. *)
AreNext(next, chunk, low, length) ==
  next = [at \in low..length |->
            IF Decoder!Fits(chunk, at)
            THEN [at |-> next[at + Decoder!TotalAt(chunk, at)].at,
                  frames |-> <<Decoder!PayloadAt(chunk, at)>> \o next[at + Decoder!TotalAt(chunk, at)].frames]
            ELSE [at |-> at, frames |-> <<>>]]

(* Any bytes that could be a header tell of some length, which is not 0. *)
LEMMA LengthsInChunk ==
  ASSUME Decoder!FrameDecoderAssumption, lengths \in Lengths,
         NEW chunk, NEW before, NEW n, IsChunk(chunk, before, n),
         NEW at \in 0..n, Decoder!Fits(chunk, at)
  PROVE  at + Decoder!TotalAt(chunk, at) \in (at + 1)..n
<1>1. HeaderLength \in Nat \ {0} /\ n \in Nat /\ before \in Nat /\ before + n <= Decoder!Sent /\ Decoder!Sent \in Nat
  BY Ends DEF IsChunk, Decoder!Sent
<1>2. Decoder!Size(chunk) = n
  BY ChunkIsArray
<1>3. at + HeaderLength <= n /\ at + Decoder!TotalAt(chunk, at) <= n
  BY <1>2 DEF Decoder!Fits
<1>4. PICK m \in Nat : m = before + at + 1
  BY <1>1
<1>5. PICK i \in 1..FrameCount : Decoder!EndOf[i - 1] < m /\ m <= Decoder!EndOf[i]
  <2>1. m # 0 /\ m <= Decoder!Sent
    BY <1>1, <1>3, <1>4
  <2>2. QED
    BY <2>1, FrameOf
<1>6. chunk[at][1] = i
  <2>1. at \in 0..n - 1
    BY <1>1, <1>3
  <2>2. chunk[at] = Decoder!ByteAt(m)
    BY <2>1, <1>4 DEF IsChunk
  <2>3. Decoder!ByteAt(m) = <<i, m - Decoder!EndOf[i - 1] - 1>>
    BY <1>5, ByteOfFrame
  <2>4. QED
    BY <2>2, <2>3
<1>7. Decoder!TotalAt(chunk, at) = Decoder!Total(i) \/ Decoder!TotalAt(chunk, at) = Decoder!Sent + 1
  BY <1>6 DEF Decoder!TotalAt
<1>8. Decoder!TotalAt(chunk, at) \in Nat \ {0}
  BY <1>1, <1>7, Ends
<1>9. QED
  BY <1>1, <1>3, <1>8

LEMMA NextExists ==
  ASSUME Decoder!FrameDecoderAssumption, lengths \in Lengths,
         NEW chunk, NEW before, NEW n, IsChunk(chunk, before, n)
  PROVE  \E next : AreNext(next, chunk, 0, n)
<1>1. n \in Nat
  BY DEF IsChunk
<1> DEFINE Bad == {m \in Nat : m <= n /\ ~ \E next : AreNext(next, chunk, n - m, n)}
<1>2. ASSUME NEW m \in Bad, \A k \in Bad : m <= k PROVE FALSE
  <2>1. PICK low \in 0..n : low = n - m
    BY <1>1
  <2>2. PICK g : \/ low = n /\ g = [at \in (low + 1)..n |-> at]
                 \/ low < n /\ AreNext(g, chunk, low + 1, n)
    <3>1. CASE low = n
      BY <3>1
    <3>2. CASE low # n
      <4>1. m - 1 \in Nat /\ m - 1 <= n /\ n - (m - 1) = low + 1 /\ m - 1 \notin Bad
        BY <1>1, <1>2, <2>1, <3>2
      <4>2. \E next : AreNext(next, chunk, n - (m - 1), n)
        BY <4>1
      <4>3. QED
        BY <4>1, <4>2, <3>2, <1>1
    <3>3. QED
      BY <3>1, <3>2
  <2> DEFINE Of(next, at) ==
               IF Decoder!Fits(chunk, at)
               THEN [at |-> next[at + Decoder!TotalAt(chunk, at)].at,
                     frames |-> <<Decoder!PayloadAt(chunk, at)>> \o next[at + Decoder!TotalAt(chunk, at)].frames]
               ELSE [at |-> at, frames |-> <<>>]
             h == [at \in low..n |-> IF at = low THEN Of(g, low) ELSE g[at]]
  <2>3. \A at \in (low + 1)..n : h[at] = g[at]
    BY <1>1
  <2>4. ASSUME NEW at \in low..n PROVE h[at] = Of(h, at)
    <3>1. at \in 0..n
      BY <1>1
    <3>2. Of(h, at) = Of(g, at)
      <4>1. CASE Decoder!Fits(chunk, at)
        <5>1. at + Decoder!TotalAt(chunk, at) \in (at + 1)..n
          BY <3>1, <4>1, LengthsInChunk
        <5>2. at + Decoder!TotalAt(chunk, at) \in (low + 1)..n
          BY <5>1, <1>1
        <5>3. h[at + Decoder!TotalAt(chunk, at)] = g[at + Decoder!TotalAt(chunk, at)]
          BY <5>2, <2>3
        <5>4. QED
          BY <5>3
      <4>2. CASE ~Decoder!Fits(chunk, at)
        BY <4>2
      <4>3. QED
        BY <4>1, <4>2
    <3>3. CASE at = low
      BY <3>2, <3>3
    <3>4. CASE at # low
      <4>1. at \in (low + 1)..n /\ low < n
        BY <1>1, <3>4
      <4>2. AreNext(g, chunk, low + 1, n)
        BY <4>1, <2>2
      <4>3. g = [to \in (low + 1)..n |-> Of(g, to)]
        BY <4>2 DEF AreNext
      <4>4. g[at] = Of(g, at)
        <5> HIDE DEF Of
        <5> QED BY <4>1, <4>3
      <4>5. QED
        BY <4>1, <4>4, <3>2, <2>3
    <3>5. QED
      BY <3>3, <3>4
  <2>5. h = [at \in low..n |-> h[at]]
    OBVIOUS
  <2>6. AreNext(h, chunk, low, n)
    <3>1. h = [at \in low..n |-> Of(h, at)]
      <4> HIDE DEF h, Of
      <4> QED BY <2>4, <2>5
    <3> HIDE DEF h
    <3> QED BY <3>1 DEF AreNext
  <2>7. QED
    BY <2>1, <2>6, <1>2
<1>3. Bad = {}
  <2>1. Bad \in SUBSET Nat
    OBVIOUS
  <2> HIDE DEF Bad
  <2> QED BY <2>1, <1>2, LeastNatural
<1>4. n \notin Bad /\ n - n = 0
  BY <1>1, <1>3
<1>5. QED
  BY <1>1, <1>4

(* Whole, one frame further. *)
LEMMA WholeUnfolds ==
  ASSUME Decoder!FrameDecoderAssumption, lengths \in Lengths,
         NEW chunk, NEW before, NEW n, IsChunk(chunk, before, n), NEW at \in 0..n
  PROVE  Decoder!Whole(chunk, at)
           = IF Decoder!Fits(chunk, at)
             THEN [at |-> Decoder!Whole(chunk, at + Decoder!TotalAt(chunk, at)).at,
                   frames |-> <<Decoder!PayloadAt(chunk, at)>> \o Decoder!Whole(chunk, at + Decoder!TotalAt(chunk, at)).frames]
             ELSE [at |-> at, frames |-> <<>>]
<1>1. Decoder!Size(chunk) = n
  BY ChunkIsArray
<1>2. PICK f : f = CHOOSE next : AreNext(next, chunk, 0, n)
  OBVIOUS
<1>3. AreNext(f, chunk, 0, n)
  BY <1>2, NextExists
<1>4. ASSUME NEW to PROVE Decoder!Whole(chunk, to) = f[to]
  BY <1>1, <1>2 DEF Decoder!Whole, AreNext
<1>5. f[at] = IF Decoder!Fits(chunk, at)
              THEN [at |-> f[at + Decoder!TotalAt(chunk, at)].at,
                    frames |-> <<Decoder!PayloadAt(chunk, at)>> \o f[at + Decoder!TotalAt(chunk, at)].frames]
              ELSE [at |-> at, frames |-> <<>>]
  BY <1>3 DEF AreNext
<1>6. QED
  BY <1>4, <1>5

(* The payloads of the frames after frame d, as far as frame e. *)
Payloads(d, e) == [k \in 1..e - d |-> Decoder!Payload(d + k)]

LEMMA PayloadsAreJoined ==
  ASSUME NEW d \in Nat, NEW e \in Nat, d < e
  PROVE  /\ Payloads(d, e) = <<Decoder!Payload(d + 1)>> \o Payloads(d + 1, e)
         /\ Len(Payloads(d, e)) = e - d
<1> DEFINE S == {Decoder!Payload(i) : i \in Nat}
           s == Payloads(d, e)
           t == Payloads(d + 1, e)
           h == <<Decoder!Payload(d + 1)>>
<1>1. s \in Seq(S) /\ Len(s) = e - d /\ \A k \in 1..e - d : s[k] = Decoder!Payload(d + k)
  BY DEF Payloads
<1>2. t \in Seq(S) /\ Len(t) = e - d - 1 /\ \A k \in 1..e - d - 1 : t[k] = Decoder!Payload(d + 1 + k)
  BY DEF Payloads
<1>3. h \in Seq(S) /\ Len(h) = 1 /\ h[1] = Decoder!Payload(d + 1)
  OBVIOUS
<1>4. /\ h \o t \in Seq(S) /\ Len(h \o t) = e - d
      /\ \A k \in 1..e - d : (h \o t)[k] = IF k <= 1 THEN h[k] ELSE t[k - 1]
  <2>1. 1 + (e - d - 1) = e - d
    OBVIOUS
  <2> HIDE DEF h, t, S
  <2>2. /\ h \o t \in Seq(S) /\ Len(h \o t) = Len(h) + Len(t)
        /\ \A k \in 1..Len(h) + Len(t) : (h \o t)[k] = IF k <= Len(h) THEN h[k] ELSE t[k - Len(h)]
    BY <1>2, <1>3, ConcatProperties
  <2>3. QED
    BY <2>1, <2>2, <1>2, <1>3
<1>5. ASSUME NEW k \in 1..e - d PROVE (h \o t)[k] = s[k]
  <2>1. CASE k = 1
    <3> HIDE DEF h, t, s, S
    <3> QED BY <2>1, <1>1, <1>3, <1>4
  <2>2. CASE k # 1
    <3>1. k - 1 \in 1..e - d - 1 /\ d + 1 + (k - 1) = d + k
      BY <2>2
    <3> HIDE DEF h, t, s, S
    <3> QED BY <2>2, <3>1, <1>1, <1>2, <1>4
  <2>3. QED
    BY <2>1, <2>2
<1>6. s = h \o t
  <2> HIDE DEF h, t, s, S
  <2> QED BY <1>1, <1>4, <1>5, SeqEqual
<1>7. QED
  BY <1>1, <1>6

(* From where frame d ended, the whole frames of a chunk are those to frame *)
(* e, the last one that ended in it.                                        *)
LEMMA WholeIs ==
  ASSUME Decoder!FrameDecoderAssumption, lengths \in Lengths,
         NEW chunk, NEW before, NEW n, IsChunk(chunk, before, n),
         NEW d \in 0..FrameCount, NEW e \in 0..FrameCount, d <= e, before <= Decoder!EndOf[d],
         Decoder!EndOf[e] <= before + n, e < FrameCount => before + n < Decoder!EndOf[e + 1]
  PROVE  Decoder!Whole(chunk, Decoder!EndOf[d] - before) = [at |-> Decoder!EndOf[e] - before, frames |-> Payloads(d, e)]
<1>1. /\ FrameCount \in Nat /\ HeaderLength \in Nat \ {0} /\ n \in Nat /\ before \in Nat
      /\ before + n <= Decoder!EndOf[FrameCount] /\ \A i \in 0..FrameCount : Decoder!EndOf[i] \in Nat
  BY Ends DEF IsChunk, Decoder!Sent
<1> DEFINE WholeFrom(i) ==
             Decoder!Whole(chunk, Decoder!EndOf[i] - before) = [at |-> Decoder!EndOf[e] - before, frames |-> Payloads(i, e)]
           Bad == {m \in Nat : m <= e - d /\ ~WholeFrom(e - m)}
<1>2. ASSUME NEW m \in Bad, \A k \in Bad : m <= k PROVE FALSE
  <2>1. PICK i \in d..e : i = e - m /\ ~WholeFrom(i)
    BY <1>1
  <2>2. i \in 0..FrameCount /\ i \in Nat /\ Decoder!EndOf[i] \in Nat /\ Decoder!EndOf[d] <= Decoder!EndOf[i]
    <3>1. i \in 0..FrameCount /\ d <= i
      BY <1>1, <2>1
    <3>2. QED
      BY <3>1, <1>1, EndsGrow
  <2>3. PICK at \in 0..n : at = Decoder!EndOf[i] - before
    <3>1. Decoder!EndOf[i] <= Decoder!EndOf[e]
      BY <2>1, <2>2, EndsGrow
    <3>2. QED
      BY <3>1, <2>2, <1>1
  <2>4. before + at = Decoder!EndOf[i] /\ at \in Nat
    BY <2>3, <2>2, <1>1
  <2>5. CASE i = e
    <3>1. ~Decoder!Fits(chunk, at)
      <4>1. Decoder!Size(chunk) = n
        BY ChunkIsArray
      <4>2. CASE at + HeaderLength <= n
        <5>1. e < FrameCount
          BY <4>2, <2>4, <2>5, <1>1
        <5>2. PICK next \in 1..FrameCount : next = e + 1
          BY <5>1, <1>1
        <5>3. /\ before + at = Decoder!EndOf[next - 1] /\ Decoder!EndOf[next] = Decoder!EndOf[next - 1] + Decoder!Total(next)
              /\ Decoder!Total(next) \in Nat /\ before + n < Decoder!EndOf[next]
          BY <5>1, <5>2, <2>4, <2>5, Ends
        <5>4. ~(at + Decoder!Total(next) <= n)
          BY <5>3, <1>1, <2>4
        <5>5. QED
          BY <5>3, <5>4, <4>2, <2>4, FrameInChunk
      <4>3. CASE ~(at + HeaderLength <= n)
        BY <4>1, <4>3 DEF Decoder!Fits
      <4>4. QED
        BY <4>2, <4>3
    <3>2. Decoder!Whole(chunk, at) = [at |-> at, frames |-> <<>>]
      BY <3>1, WholeUnfolds
    <3>3. Payloads(e, e) = <<>>
      BY <1>1 DEF Payloads
    <3>4. QED
      BY <3>2, <3>3, <2>1, <2>3, <2>5
  <2>6. CASE i # e
    <3>1. PICK next \in 1..FrameCount : next = i + 1
      BY <2>1, <2>6, <1>1
    <3>2. next \in 0..FrameCount /\ next <= e /\ next - 1 = i /\ next \in Nat
      BY <2>1, <2>2, <2>6, <3>1, <1>1
    <3>3. /\ before + at = Decoder!EndOf[next - 1] /\ Decoder!EndOf[next] = Decoder!EndOf[next - 1] + Decoder!Total(next)
          /\ Decoder!Total(next) \in Nat /\ Decoder!Total(next) >= HeaderLength /\ Decoder!EndOf[next] <= Decoder!EndOf[e]
      BY <3>2, <2>4, Ends, EndsGrow
    <3>4. at + HeaderLength <= n /\ at + Decoder!Total(next) <= n /\ at + Decoder!Total(next) = Decoder!EndOf[next] - before
      BY <3>2, <3>3, <2>4, <1>1
    <3>5. /\ Decoder!TotalAt(chunk, at) = Decoder!Total(next) /\ Decoder!Fits(chunk, at)
          /\ Decoder!PayloadAt(chunk, at) = Decoder!Payload(next)
      BY <3>3, <3>4, <2>4, FrameInChunk
    <3>6. WholeFrom(next)
      <4>1. m - 1 \in Nat /\ m - 1 <= e - d /\ e - (m - 1) = next /\ ~(m <= m - 1)
        BY <2>1, <3>1, <3>2, <1>1
      <4>2. m - 1 \notin Bad
        BY <4>1, <1>2
      <4>3. QED
        <5> HIDE DEF WholeFrom
        <5> QED BY <4>1, <4>2
    <3>7. Decoder!Whole(chunk, at) = [at |-> Decoder!Whole(chunk, at + Decoder!Total(next)).at,
                              frames |-> <<Decoder!Payload(next)>> \o Decoder!Whole(chunk, at + Decoder!Total(next)).frames]
      BY <3>5, WholeUnfolds
    <3>8. Decoder!Whole(chunk, at + Decoder!Total(next)) = [at |-> Decoder!EndOf[e] - before, frames |-> Payloads(next, e)]
      BY <3>4, <3>6
    <3>9. Payloads(i, e) = <<Decoder!Payload(next)>> \o Payloads(next, e)
      <4>1. i < e /\ e \in Nat
        BY <3>1, <3>2, <1>1
      <4>2. QED
        BY <4>1, <2>2, <3>1, PayloadsAreJoined
    <3>10. Decoder!Whole(chunk, at) = [at |-> Decoder!EndOf[e] - before, frames |-> Payloads(i, e)]
      <4>1. PICK w : w = Decoder!Whole(chunk, at + Decoder!Total(next))
        OBVIOUS
      <4>2. w.at = Decoder!EndOf[e] - before /\ w.frames = Payloads(next, e)
        BY <4>1, <3>8
      <4>3. Decoder!Whole(chunk, at) = [at |-> w.at, frames |-> <<Decoder!Payload(next)>> \o w.frames]
        BY <4>1, <3>7
      <4>4. QED
        BY <4>2, <4>3, <3>9
    <3>11. QED
      BY <3>10, <2>1, <2>3
  <2>7. QED
    BY <2>5, <2>6
<1>3. Bad = {}
  <2>1. Bad \in SUBSET Nat
    OBVIOUS
  <2> HIDE DEF Bad
  <2> QED BY <2>1, <1>2, LeastNatural
<1>4. e - d \in Nat /\ e - d <= e - d /\ e - (e - d) = d
  BY <1>1
<1>5. WholeFrom(d)
  <2>1. e - d \notin Bad
    BY <1>3
  <2> HIDE DEF WholeFrom
  <2> QED BY <1>4, <2>1
<1>6. QED
  BY <1>5

-----------------------------------------------------------------------------
(* What the decoder holds between pushes: a prefix of the next frame, with   *)
(* room for all of it once its length is known.                              *)

Holds(bytes, kept, total, d) ==
  \E length \in Nat :
    /\ IsArray(bytes, length) /\ kept <= length
    /\ kept > 0 => HeaderLength <= length
    /\ kept >= HeaderLength => total = Decoder!Total(d + 1) /\ total <= length
    /\ \A j \in 0..kept - 1 : bytes[j] = <<d + 1, j>>

After(count, bytes, kept, total, d, frames) ==
  /\ d \in 0..FrameCount /\ kept \in Nat /\ count \in Nat
  /\ count <= Decoder!Sent /\ count = Decoder!EndOf[d] + kept
  /\ d < FrameCount => kept < Decoder!Total(d + 1)
  /\ Holds(bytes, kept, total, d)
  /\ \E first \in 0..d : frames = Payloads(first, d)

DecoderInv == lengths \in Lengths /\ After(fed, buffer, heldBytes, expected, decoded, given)

LEMMA PutIsArray ==
  ASSUME NEW bytes, NEW length, IsArray(bytes, length), NEW chunk, NEW from, NEW count, NEW at
  PROVE  IsArray(Decoder!Put(bytes, chunk, from, count, at), length)
BY DEF IsArray, Decoder!Put

LEMMA PutBytes ==
  ASSUME NEW bytes, NEW length, IsArray(bytes, length), NEW chunk, NEW from \in Nat, NEW count \in Nat,
         NEW at \in Nat, at + count <= length, NEW j \in 0..length - 1
  PROVE  Decoder!Put(bytes, chunk, from, count, at)[j]
           = IF at <= j /\ j < at + count THEN chunk[from + j - at] ELSE bytes[j]
BY DEF IsArray, Decoder!Put

LEMMA FreshIsArray ==
  ASSUME NEW length \in Nat
  PROVE  IsArray(Decoder!Fresh(length), length)
BY DEF IsArray, Decoder!Fresh

LEMMA ReservedIsArray ==
  ASSUME Decoder!FrameDecoderAssumption, NEW bytes, NEW length, IsArray(bytes, length),
         NEW kept \in Nat, kept <= length, NEW needed \in Nat
  PROVE  \E room \in Nat : /\ room >= needed /\ kept <= room /\ IsArray(Decoder!Reserved(bytes, kept, needed), room)
                           /\ \A j \in 0..kept - 1 : Decoder!Reserved(bytes, kept, needed)[j] = bytes[j]
<1>1. Decoder!Size(bytes) = length /\ length \in Nat
  BY SizeOfArray DEF IsArray
<1>2. CASE length >= needed
  BY <1>1, <1>2 DEF Decoder!Reserved
<1>3. CASE ~(length >= needed)
  <2>1. PICK room : room = Decoder!Most(needed, Decoder!Fewest(2 * length, HeaderLength + MaxPayload))
    OBVIOUS
  <2>2. room \in Nat /\ room >= needed /\ kept <= room
    BY <2>1, <1>1, <1>3 DEF Decoder!Most, Decoder!Fewest, Decoder!FrameDecoderAssumption
  <2>3. Decoder!Reserved(bytes, kept, needed) = Decoder!Put(Decoder!Fresh(room), bytes, 0, kept, 0)
    BY <2>1, <1>1, <1>3 DEF Decoder!Reserved
  <2>4. IsArray(Decoder!Fresh(room), room) /\ IsArray(Decoder!Reserved(bytes, kept, needed), room)
    BY <2>2, <2>3, FreshIsArray, PutIsArray
  <2>5. ASSUME NEW j \in 0..kept - 1 PROVE Decoder!Reserved(bytes, kept, needed)[j] = bytes[j]
    <3>1. j \in 0..room - 1 /\ 0 + kept <= room /\ 0 <= j /\ j < 0 + kept /\ 0 + j - 0 = j
      BY <2>2
    <3>2. Decoder!Put(Decoder!Fresh(room), bytes, 0, kept, 0)[j] = bytes[0 + j - 0]
      <4>1. PICK array : array = Decoder!Fresh(room)
        OBVIOUS
      <4>2. IsArray(array, room) /\ 0 \in Nat
        BY <4>1, <2>4
      <4>3. Decoder!Put(array, bytes, 0, kept, 0)[j]
              = IF 0 <= j /\ j < 0 + kept THEN bytes[0 + j - 0] ELSE array[j]
        BY <4>2, <3>1, <2>2, PutBytes
      <4>4. QED
        BY <4>1, <4>3, <3>1
    <3>3. QED
      BY <3>1, <3>2, <2>3
  <2>6. QED
    BY <2>2, <2>4, <2>5
<1>4. QED
  BY <1>2, <1>3

(* The end of a push that has taken whole frames up to frame d. *)
LEMMA ReturnsKeeps ==
  ASSUME Decoder!FrameDecoderAssumption, DecoderInv, NEW chunk, NEW n, IsChunk(chunk, fed, n),
         NEW bytes, NEW length, IsArray(bytes, length), NEW viewed \in 0..length,
         NEW d \in 0..FrameCount, NEW from \in 0..n, fed + from = Decoder!EndOf[d],
         \/ viewed = 0 /\ d = decoded
         \/ viewed # 0 /\ d = decoded + 1 /\ viewed = Decoder!Total(d)
            /\ (\A j \in 0..viewed - 1 : bytes[j] = <<d, j>>),
         Decoder!Returns(bytes, viewed, chunk, from)
  PROVE  After(fed + n, buffer', heldBytes', expected', decoded', given')
<1>1. /\ FrameCount \in Nat /\ HeaderLength \in Nat \ {0} /\ n \in Nat /\ fed \in Nat /\ length \in Nat
      /\ fed + n <= Decoder!Sent /\ Decoder!Sent = Decoder!EndOf[FrameCount] /\ \A i \in 0..FrameCount : Decoder!EndOf[i] \in Nat
      /\ lengths \in Lengths /\ decoded \in 0..FrameCount
  BY Ends DEF DecoderInv, After, IsChunk, IsArray, Decoder!Sent
<1>2. Decoder!Size(chunk) = n /\ Decoder!Size(bytes) = length
  BY ChunkIsArray, SizeOfArray
<1>3. PICK count \in Nat : count = fed + n
  BY <1>1
<1>4. PICK e \in 0..FrameCount : Decoder!EndOf[e] <= count /\ (e < FrameCount => count < Decoder!EndOf[e + 1])
  BY <1>1, <1>3, FrameOf
<1>5. d <= e
  <2>1. CASE e < d
    <3>1. e < FrameCount /\ e + 1 \in 0..FrameCount /\ e + 1 <= d
      BY <1>1, <2>1
    <3>2. Decoder!EndOf[e + 1] <= Decoder!EndOf[d]
      BY <3>1, <1>1, EndsGrow
    <3>3. QED
      BY <3>1, <3>2, <1>1, <1>3, <1>4
  <2>2. QED
    BY <2>1, <1>1
<1>6. PICK at \in 0..n : at = Decoder!EndOf[e] - fed
  <2>1. Decoder!EndOf[d] <= Decoder!EndOf[e]
    BY <1>1, <1>5, EndsGrow
  <2>2. QED
    BY <2>1, <1>1, <1>3, <1>4
<1>7. Decoder!Whole(chunk, from) = [at |-> at, frames |-> Payloads(d, e)]
  <2>1. from = Decoder!EndOf[d] - fed /\ fed <= Decoder!EndOf[d]
    BY <1>1
  <2>2. QED
    BY <2>1, <1>1, <1>3, <1>4, <1>5, <1>6, WholeIs
<1>8. PICK rest \in 0..n : rest = n - at
  BY <1>1
<1>9. count = Decoder!EndOf[e] + rest /\ fed + at = Decoder!EndOf[e] /\ count <= Decoder!Sent
  BY <1>1, <1>3, <1>6, <1>8
<1>10. PICK total : total = IF rest < HeaderLength THEN 0 ELSE Decoder!TotalAt(chunk, at)
  OBVIOUS
<1>11. ASSUME rest # 0
       PROVE  /\ e < FrameCount /\ e + 1 \in 1..FrameCount /\ rest < Decoder!Total(e + 1)
              /\ \A j \in 0..rest - 1 : chunk[at + j] = <<e + 1, j>>
              /\ rest >= HeaderLength => total = Decoder!Total(e + 1)
  <2>1. e < FrameCount /\ e \in Nat
    BY <1>1, <1>9, <1>11
  <2>2. PICK next \in 1..FrameCount : next = e + 1 /\ next - 1 = e
    BY <2>1, <1>1
  <2>3. Decoder!EndOf[next] = Decoder!EndOf[next - 1] + Decoder!Total(next) /\ Decoder!Total(next) \in Nat /\ rest < Decoder!Total(next)
    <3>1. Decoder!EndOf[next] = Decoder!EndOf[next - 1] + Decoder!Total(next) /\ Decoder!Total(next) \in Nat
      BY <1>1, Ends
    <3>2. QED
      BY <3>1, <2>1, <2>2, <1>1, <1>4, <1>9
  <2>4. ASSUME NEW j \in 0..rest - 1 PROVE chunk[at + j] = <<next, j>>
    <3>1. PICK k \in 0..n - 1 : k = at + j
      BY <1>1, <1>8
    <3>2. Decoder!EndOf[next - 1] <= fed + k /\ fed + k < Decoder!EndOf[next] /\ fed + k - Decoder!EndOf[next - 1] = j
      BY <1>1, <1>9, <2>2, <2>3, <3>1
    <3>3. QED
      BY <3>1, <3>2, <1>1, BytesInChunk
  <2>5. ASSUME rest >= HeaderLength PROVE total = Decoder!Total(next)
    <3>1. at + HeaderLength <= n /\ ~(rest < HeaderLength) /\ at \in Nat
      BY <1>1, <1>8, <2>5
    <3>2. Decoder!TotalAt(chunk, at) = Decoder!Total(next)
      BY <3>1, <2>2, <1>1, <1>9, FrameInChunk
    <3>3. QED
      BY <3>1, <3>2, <1>10
  <2>6. QED
    BY <2>1, <2>2, <2>3, <2>4, <2>5
<1>12. PICK needed : needed = Decoder!Most(HeaderLength, total)
  OBVIOUS
<1>13. PICK array : array = CASE ~Decoder!Replaced(bytes, viewed # 0, needed) -> bytes
                              [] viewed # 0 -> Decoder!Fresh(needed)
                              [] OTHER -> Decoder!Reserved(bytes, 0, needed)
  OBVIOUS
<1>14. PICK after : after = IF rest = 0 THEN bytes ELSE Decoder!Put(array, chunk, at, rest, 0)
  OBVIOUS
<1>15. PICK frames : frames = IF viewed = 0 THEN Payloads(d, e)
                              ELSE <<Decoder!Slice(bytes, HeaderLength, viewed)>> \o Payloads(d, e)
  OBVIOUS
<1>16. /\ buffer' = after /\ heldBytes' = rest /\ expected' = total
       /\ given' = frames /\ decoded' = decoded + Len(frames)
  <2>1. Decoder!Whole(chunk, from).at = at /\ Decoder!Whole(chunk, from).frames = Payloads(d, e)
    BY <1>7
  <2>2. viewed # 0 => Decoder!Replaced(bytes, viewed # 0, needed)
    BY DEF Decoder!Replaced
  <2>3. QED
    BY <2>1, <2>2, <1>2, <1>8, <1>10, <1>12, <1>13, <1>14, <1>15 DEF Decoder!Returns
<1>17. /\ decoded' = e
       /\ \E first \in 0..e : frames = Payloads(first, e)
  <2>1. CASE viewed = 0
    <3>1. frames = Payloads(d, e) /\ d = decoded
      BY <2>1, <1>15
    <3>2. Len(Payloads(d, e)) = e - d
      BY <1>1, <1>5 DEF Payloads
    <3>3. QED
      BY <3>1, <3>2, <1>1, <1>5, <1>16
  <2>2. CASE viewed # 0
    <3>1. /\ frames = <<Decoder!Slice(bytes, HeaderLength, viewed)>> \o Payloads(d, e) /\ d = decoded + 1
          /\ viewed = Decoder!Total(d) /\ \A j \in 0..viewed - 1 : bytes[j] = <<d, j>>
      BY <2>2, <1>15
    <3>2. d \in 1..FrameCount
      BY <3>1, <1>1
    <3>3. Decoder!Total(d) = HeaderLength + lengths[d] /\ lengths[d] \in Nat /\ Decoder!Total(d) \in Nat
      BY <3>2, <1>1, Ends
    <3>4. Decoder!Slice(bytes, HeaderLength, viewed) = Decoder!Payload(d)
      <4>1. Decoder!Slice(bytes, HeaderLength, viewed)
              = [j \in 1..lengths[d] |-> bytes[HeaderLength + j - 1]]
        <5>1. viewed - HeaderLength = lengths[d]
          BY <3>1, <3>3, <1>1, SMTT(30)
        <5>2. QED
          BY <5>1 DEF Decoder!Slice
      <4>2. ASSUME NEW j \in 1..lengths[d]
            PROVE  bytes[HeaderLength + j - 1] = <<d, HeaderLength + j - 1>>
        <5>1. HeaderLength \in Nat /\ viewed = HeaderLength + lengths[d] /\ lengths[d] \in Nat
          BY <3>1, <3>3, <1>1
        <5>2. PICK i \in 0..viewed - 1 : i = HeaderLength + j - 1
          BY <5>1
        <5>3. bytes[i] = <<d, i>>
          BY <3>1, <5>2
        <5>4. QED
          BY <5>2, <5>3
      <4>3. QED
        BY <4>1, <4>2 DEF Decoder!Payload
    <3>5. decoded \in Nat /\ e \in Nat /\ decoded < e /\ decoded + 1 = d
      BY <3>1, <1>1, <1>5
    <3>6. Payloads(decoded, e) = <<Decoder!Payload(d)>> \o Payloads(d, e) /\ Len(Payloads(decoded, e)) = e - decoded
      BY <3>5, PayloadsAreJoined
    <3>7. frames = Payloads(decoded, e) /\ Len(frames) = e - decoded
      BY <3>1, <3>4, <3>6
    <3>8. QED
      BY <3>5, <3>7, <1>16
  <2>3. QED
    BY <2>1, <2>2
<1>18. Holds(after, rest, total, e)
  <2>1. CASE rest = 0
    <3>1. after = bytes /\ IsArray(after, length)
      BY <2>1, <1>14
    <3>2. QED
      BY <3>1, <2>1, <1>1 DEF Holds
  <2>2. CASE rest # 0
    <3>1. needed \in Nat /\ rest <= needed /\ HeaderLength <= needed
          /\ (rest >= HeaderLength => total <= needed /\ total = Decoder!Total(e + 1))
      <4>1. Decoder!Total(e + 1) \in Nat /\ Decoder!Total(e + 1) >= HeaderLength
        BY <2>2, <1>1, <1>11, Ends
      <4>2. CASE rest < HeaderLength
        <5>1. total = 0 /\ needed = HeaderLength
          BY <4>2, <1>1, <1>10, <1>12 DEF Decoder!Most
        <5>2. QED
          BY <5>1, <4>2, <1>1, <1>8
      <4>3. CASE ~(rest < HeaderLength)
        BY <4>1, <4>3, <2>2, <1>1, <1>8, <1>11, <1>12 DEF Decoder!Most
      <4>4. QED
        BY <4>2, <4>3
    <3>2. PICK room \in Nat : room >= needed /\ IsArray(array, room)
      <4>1. CASE ~Decoder!Replaced(bytes, viewed # 0, needed)
        <5>1. array = bytes /\ length >= needed
          BY <4>1, <1>1, <1>2, <1>13, <3>1 DEF Decoder!Replaced
        <5>2. QED
          BY <5>1, <1>1
      <4>2. CASE Decoder!Replaced(bytes, viewed # 0, needed) /\ viewed # 0
        <5>1. array = Decoder!Fresh(needed)
          BY <4>2, <1>13
        <5>2. QED
          BY <5>1, <3>1, FreshIsArray
      <4>3. CASE Decoder!Replaced(bytes, viewed # 0, needed) /\ viewed = 0
        <5>1. array = Decoder!Reserved(bytes, 0, needed)
          BY <4>3, <1>13
        <5>2. 0 \in Nat /\ 0 <= length
          BY <1>1
        <5>3. QED
          BY <5>1, <5>2, <3>1, ReservedIsArray
      <4>4. QED
        BY <4>1, <4>2, <4>3
    <3>3. after = Decoder!Put(array, chunk, at, rest, 0) /\ IsArray(after, room)
      BY <2>2, <3>2, <1>14, PutIsArray
    <3>4. ASSUME NEW j \in 0..rest - 1 PROVE after[j] = <<e + 1, j>>
      <4>1. /\ j \in 0..room - 1 /\ 0 \in Nat /\ 0 + rest <= room /\ 0 <= j /\ j < 0 + rest
            /\ at + j - 0 = at + j /\ at \in Nat /\ rest \in Nat
        BY <1>1, <1>8, <3>1, <3>2
      <4>2. Decoder!Put(array, chunk, at, rest, 0)[j]
              = IF 0 <= j /\ j < 0 + rest THEN chunk[at + j - 0] ELSE array[j]
        <5>1. IsArray(array, room)
          BY <3>2
        <5>2. QED
          BY <5>1, <4>1 DEF IsArray, Decoder!Put
      <4>3. QED
        BY <4>1, <4>2, <3>3, <2>2, <1>11
    <3>5. rest <= room /\ HeaderLength <= room /\ (rest >= HeaderLength => total <= room)
      <4>1. rest >= HeaderLength => total \in Nat
        BY <3>1, <2>2, <1>1, <1>11, Ends
      <4>2. QED
        BY <4>1, <3>1, <3>2, <1>1
    <3>6. QED
      BY <3>1, <3>2, <3>3, <3>4, <3>5 DEF Holds
  <2>3. QED
    BY <2>1, <2>2
<1>19. e < FrameCount => rest < Decoder!Total(e + 1)
  <2>1. CASE rest # 0
    BY <2>1, <1>11
  <2>2. CASE rest = 0
    <3>1. e < FrameCount => e + 1 \in 1..FrameCount
      BY <1>1
    <3>2. e < FrameCount => Decoder!Total(e + 1) \in Nat /\ Decoder!Total(e + 1) >= HeaderLength
      BY <3>1, <1>1, Ends
    <3>3. QED
      BY <2>2, <3>2, <1>1
  <2>3. QED
    BY <2>1, <2>2
<1>20. After(count, after, rest, total, e, frames)
  BY <1>9, <1>17, <1>18, <1>19 DEF After
<1>21. QED
  BY <1>20, <1>3, <1>16, <1>17

(* The rest of a frame begun before, whose length is known. *)
LEMMA ContinuesKeeps ==
  ASSUME Decoder!FrameDecoderAssumption, DecoderInv, NEW chunk, NEW n, IsChunk(chunk, fed, n),
         NEW bytes, NEW length, IsArray(bytes, length), decoded < FrameCount,
         NEW total, total = Decoder!Total(decoded + 1), total <= length,
         NEW kept \in Nat, HeaderLength <= kept, kept <= total,
         \A j \in 0..kept - 1 : bytes[j] = <<decoded + 1, j>>,
         NEW from \in 0..n, fed + from = Decoder!EndOf[decoded] + kept,
         Decoder!Continues(bytes, kept, total, chunk, from)
  PROVE  After(fed + n, buffer', heldBytes', expected', decoded', given')
<1>1. /\ FrameCount \in Nat /\ HeaderLength \in Nat \ {0} /\ n \in Nat /\ fed \in Nat /\ length \in Nat
      /\ fed + n <= Decoder!Sent /\ lengths \in Lengths /\ decoded \in 0..FrameCount /\ Decoder!EndOf[decoded] \in Nat
  BY Ends DEF DecoderInv, After, IsChunk, IsArray, Decoder!Sent
<1>2. PICK d \in 1..FrameCount : d = decoded + 1 /\ d - 1 = decoded
  BY <1>1
<1>3. /\ Decoder!EndOf[d] \in Nat /\ Decoder!EndOf[d] = Decoder!EndOf[decoded] + total /\ total \in Nat
      /\ total = Decoder!Total(d) /\ total >= HeaderLength
  BY <1>1, <1>2, Ends
<1>4. Decoder!Size(chunk) = n
  BY ChunkIsArray
<1>5. PICK take \in Nat : take = Decoder!Fewest(total - kept, n - from) /\ kept + take <= total /\ from + take <= n
  BY <1>1, <1>3 DEF Decoder!Fewest
<1>6. PICK filled : filled = Decoder!Put(bytes, chunk, from, take, kept)
  OBVIOUS
<1>7. IsArray(filled, length)
  BY <1>6, PutIsArray
<1>8. ASSUME NEW j \in 0..(kept + take) - 1 PROVE filled[j] = <<d, j>>
  <2>1. j \in 0..length - 1 /\ j \in Nat
    BY <1>1, <1>3, <1>5
  <2>2. filled[j] = IF kept <= j /\ j < kept + take THEN chunk[from + j - kept] ELSE bytes[j]
    BY <2>1, <1>5, <1>6 DEF IsArray, Decoder!Put
  <2>3. CASE j < kept
    BY <2>1, <2>2, <2>3, <1>2
  <2>4. CASE ~(j < kept)
    <3>1. PICK k \in 0..n - 1 : k = from + j - kept
      BY <2>1, <2>4, <1>1, <1>5
    <3>2. Decoder!EndOf[d - 1] <= fed + k /\ fed + k < Decoder!EndOf[d] /\ fed + k - Decoder!EndOf[d - 1] = j
      BY <3>1, <2>1, <2>4, <1>1, <1>2, <1>3, <1>5
    <3>3. chunk[k] = <<d, j>>
      BY <3>2, <1>1, BytesInChunk
    <3>4. filled[j] = chunk[k]
      BY <3>1, <2>1, <2>2, <2>4, <1>5
    <3>5. QED
      BY <3>3, <3>4
  <2>5. QED
    BY <2>3, <2>4
<1>9. CASE kept + take < total
  <2>1. take = n - from
    BY <1>1, <1>3, <1>5, <1>9 DEF Decoder!Fewest
  <2>2. PICK reached \in Nat : reached = kept + take
    BY <1>5
  <2>3. PICK count \in Nat : count = fed + n
    BY <1>1
  <2>4. count = Decoder!EndOf[decoded] + reached /\ count <= Decoder!Sent /\ reached < total /\ reached >= HeaderLength
    BY <2>1, <2>2, <2>3, <1>1, <1>3, <1>5, <1>9
  <2>5. /\ buffer' = filled /\ heldBytes' = reached /\ expected' = total
        /\ given' = <<>> /\ decoded' = decoded
    BY <2>2, <1>4, <1>5, <1>6, <1>9 DEF Decoder!Continues, Decoder!ReturnsNothing
  <2>6. Holds(filled, reached, total, decoded)
    <3>1. /\ reached <= length /\ HeaderLength <= length /\ total = Decoder!Total(decoded + 1)
          /\ \A j \in 0..reached - 1 : filled[j] = <<decoded + 1, j>>
      BY <2>2, <2>4, <1>1, <1>2, <1>3, <1>8
    <3>2. QED
      BY <3>1, <1>1, <1>7 DEF Holds
  <2>7. <<>> = Payloads(decoded, decoded)
    BY <1>1 DEF Payloads
  <2>8. After(count, filled, reached, total, decoded, <<>>)
    <3>1. \E first \in 0..decoded : <<>> = Payloads(first, decoded)
      BY <2>7, <1>1
    <3>2. QED
      BY <3>1, <2>4, <2>6, <1>1 DEF After
  <2>9. QED
    BY <2>3, <2>5, <2>8
<1>10. CASE ~(kept + take < total)
  <2>1. PICK at \in 0..n : at = from + take
    BY <1>1, <1>5
  <2>2. fed + at = Decoder!EndOf[d] /\ total \in 0..length /\ total # 0 /\ kept + take = total
    BY <2>1, <1>1, <1>3, <1>5, <1>10
  <2>3. Decoder!Returns(filled, total, chunk, at)
    BY <2>1, <1>4, <1>5, <1>6, <1>10 DEF Decoder!Continues
  <2>4. \A j \in 0..total - 1 : filled[j] = <<d, j>>
    BY <2>2, <1>8
  <2>5. d \in 0..FrameCount
    BY <1>1
  <2>6. QED
    BY <2>2, <2>3, <2>4, <2>5, <1>2, <1>3, <1>7, ReturnsKeeps
<1>11. QED
  BY <1>9, <1>10

-----------------------------------------------------------------------------
(* A push, whatever its chunk. *)
LEMMA PushKeeps ==
  ASSUME Decoder!FrameDecoderAssumption, DecoderInv, NEW chunk, NEW n, IsChunk(chunk, fed, n), Decoder!Push(chunk)
  PROVE  After(fed + n, buffer', heldBytes', expected', decoded', given')
<1>1. /\ FrameCount \in Nat /\ HeaderLength \in Nat \ {0} /\ n \in Nat /\ fed \in Nat /\ heldBytes \in Nat
      /\ fed + n <= Decoder!Sent /\ lengths \in Lengths /\ decoded \in 0..FrameCount /\ Decoder!EndOf[decoded] \in Nat
      /\ fed = Decoder!EndOf[decoded] + heldBytes /\ Decoder!Sent = Decoder!EndOf[FrameCount]
  BY Ends DEF DecoderInv, After, IsChunk, Decoder!Sent
<1>2. PICK length \in Nat :
        /\ IsArray(buffer, length) /\ heldBytes <= length
        /\ heldBytes > 0 => HeaderLength <= length
        /\ heldBytes >= HeaderLength => expected = Decoder!Total(decoded + 1) /\ expected <= length
        /\ \A j \in 0..heldBytes - 1 : buffer[j] = <<decoded + 1, j>>
  BY DEF DecoderInv, After, Holds
<1>3. Decoder!Size(chunk) = n
  BY ChunkIsArray
<1>4. CASE heldBytes = 0 /\ Decoder!Returns(buffer, 0, chunk, 0)
  <2>1. fed + 0 = Decoder!EndOf[decoded] /\ 0 \in 0..n /\ 0 \in 0..length
    BY <1>1, <1>2, <1>4
  <2>2. QED
    BY <2>1, <1>1, <1>2, <1>4, ReturnsKeeps
<1>5. ASSUME heldBytes # 0
      PROVE  /\ decoded < FrameCount /\ heldBytes < Decoder!Total(decoded + 1)
             /\ Decoder!Total(decoded + 1) \in Nat /\ Decoder!Total(decoded + 1) >= HeaderLength
  <2>1. decoded < FrameCount
    BY <1>1, <1>5
  <2>2. decoded + 1 \in 1..FrameCount
    BY <2>1, <1>1
  <2>3. QED
    BY <2>1, <2>2, <1>1, Ends DEF DecoderInv, After
<1>6. CASE heldBytes >= HeaderLength /\ Decoder!Continues(buffer, heldBytes, expected, chunk, 0)
  <2>1. /\ heldBytes # 0 /\ fed + 0 = Decoder!EndOf[decoded] + heldBytes /\ 0 \in 0..n /\ HeaderLength <= heldBytes
        /\ expected = Decoder!Total(decoded + 1) /\ expected <= length
    BY <1>1, <1>2, <1>6
  <2>2. heldBytes <= expected /\ decoded < FrameCount
    BY <2>1, <1>1, <1>5
  <2>3. QED
    BY <2>1, <2>2, <1>1, <1>2, <1>6, ContinuesKeeps
<1>7. CASE heldBytes \in 1..HeaderLength - 1 /\ ~(heldBytes >= HeaderLength)
  <2>1. /\ heldBytes # 0 /\ HeaderLength <= length /\ heldBytes < HeaderLength
        /\ \A j \in 0..heldBytes - 1 : buffer[j] = <<decoded + 1, j>>
    BY <1>1, <1>2, <1>7
  <2>2. PICK d \in 1..FrameCount : d = decoded + 1 /\ d - 1 = decoded
    BY <2>1, <1>1, <1>5
  <2>3. Decoder!EndOf[d] = Decoder!EndOf[decoded] + Decoder!Total(d) /\ Decoder!Total(d) \in Nat /\ Decoder!Total(d) >= HeaderLength
    BY <2>2, <1>1, Ends
  <2>4. PICK take \in Nat : take = Decoder!Fewest(HeaderLength - heldBytes, n) /\ take <= n
                            /\ heldBytes + take <= HeaderLength
    <3>1. PICK m \in Nat : m = HeaderLength - heldBytes
      BY <2>1, <1>1
    <3>2. Decoder!Fewest(m, n) \in Nat /\ Decoder!Fewest(m, n) <= n /\ Decoder!Fewest(m, n) <= m
      BY <1>1 DEF Decoder!Fewest
    <3>3. QED
      BY <3>1, <3>2, <1>1
  <2>5. PICK kept \in Nat : kept = heldBytes + take
    BY <2>4, <1>1
  <2>6. PICK bytes : bytes = Decoder!Put(buffer, chunk, 0, take, heldBytes)
    OBVIOUS
  <2>7. IsArray(bytes, length)
    BY <2>6, <1>2, PutIsArray
  <2>8. ASSUME NEW j \in 0..kept - 1 PROVE bytes[j] = <<d, j>>
    <3>1. j \in 0..length - 1 /\ j \in Nat
      BY <2>1, <2>4, <2>5, <1>1, <1>2
    <3>2. bytes[j] = IF heldBytes <= j /\ j < heldBytes + take THEN chunk[0 + j - heldBytes] ELSE buffer[j]
      BY <3>1, <2>4, <2>6, <1>1, <1>2 DEF IsArray, Decoder!Put
    <3>3. CASE j < heldBytes
      BY <3>1, <3>2, <3>3, <2>1, <2>2, <1>1
    <3>4. CASE ~(j < heldBytes)
      <4>1. PICK k \in 0..n - 1 : k = 0 + j - heldBytes
        BY <3>1, <3>4, <2>4, <2>5, <1>1
      <4>2. Decoder!EndOf[d - 1] <= fed + k /\ fed + k < Decoder!EndOf[d] /\ fed + k - Decoder!EndOf[d - 1] = j
        BY <4>1, <3>1, <3>4, <2>2, <2>3, <2>4, <2>5, <1>1
      <4>3. chunk[k] = <<d, j>>
        BY <4>2, <1>1, BytesInChunk
      <4>4. bytes[j] = chunk[k]
        BY <4>1, <3>1, <3>2, <3>4, <2>4, <2>5, <1>1
      <4>5. QED
        BY <4>3, <4>4
    <3>5. QED
      BY <3>3, <3>4
  <2>9. PICK total : total = Decoder!TotalAt(bytes, 0)
    OBVIOUS
  <2>10. IF kept < HeaderLength THEN Decoder!ReturnsNothing(bytes, kept, expected)
         ELSE Decoder!Continues(Decoder!Reserved(bytes, kept, total), kept, total, chunk, take)
    <3>1. ~(heldBytes = 0)
      BY <2>1
    <3>2. QED
      BY <3>1, <2>4, <2>5, <2>6, <2>9, <1>3, <1>7 DEF Decoder!Push
  <2>11. CASE kept < HeaderLength
    <3>1. take = n
      BY <2>1, <2>4, <2>5, <2>11, <1>1 DEF Decoder!Fewest
    <3>2. PICK count \in Nat : count = fed + n
      BY <1>1
    <3>3. count = Decoder!EndOf[decoded] + kept /\ count <= Decoder!Sent /\ kept < Decoder!Total(decoded + 1)
      BY <3>1, <3>2, <2>1, <2>2, <2>3, <2>5, <2>11, <1>1
    <3>4. /\ buffer' = bytes /\ heldBytes' = kept /\ expected' = expected
          /\ given' = <<>> /\ decoded' = decoded
      BY <2>10, <2>11 DEF Decoder!ReturnsNothing
    <3>5. Holds(bytes, kept, expected, decoded)
      <4>1. kept <= length /\ ~(kept >= HeaderLength)
        BY <2>1, <2>11, <1>1, <1>2
      <4>2. QED
        BY <4>1, <2>1, <2>2, <2>7, <2>8 DEF Holds
    <3>6. \E first \in 0..decoded : <<>> = Payloads(first, decoded)
      <4>1. <<>> = Payloads(decoded, decoded)
        BY <1>1 DEF Payloads
      <4>2. QED
        BY <4>1, <1>1
    <3>7. After(count, bytes, kept, expected, decoded, <<>>)
      BY <3>3, <3>5, <3>6, <1>1 DEF After
    <3>8. QED
      BY <3>2, <3>4, <3>7
  <2>12. CASE ~(kept < HeaderLength)
    <3>1. kept = HeaderLength
      BY <2>4, <2>5, <2>12, <1>1
    <3>2. total = Decoder!Total(d)
      <4>1. \A j \in 0..HeaderLength - 1 : bytes[0 + j] = <<d, j>>
        BY <3>1, <2>8
      <4>2. QED
        BY <4>1, <2>9, HeaderTells
    <3>3. PICK room \in Nat :
            /\ room >= total /\ kept <= room /\ IsArray(Decoder!Reserved(bytes, kept, total), room)
            /\ \A j \in 0..kept - 1 : Decoder!Reserved(bytes, kept, total)[j] = bytes[j]
      <4>1. total \in Nat /\ kept <= length
        BY <3>1, <3>2, <2>1, <2>3
      <4>2. QED
        BY <4>1, <2>7, ReservedIsArray, ZenonT(40)
    <3>4. /\ total <= room /\ total = Decoder!Total(decoded + 1) /\ HeaderLength <= kept /\ kept <= total
          /\ take \in 0..n /\ fed + take = Decoder!EndOf[decoded] + kept /\ decoded < FrameCount
      BY <3>1, <3>2, <3>3, <2>1, <2>2, <2>3, <2>4, <2>5, <1>1, <1>5
    <3>5. \A j \in 0..kept - 1 : Decoder!Reserved(bytes, kept, total)[j] = <<decoded + 1, j>>
      BY <3>3, <2>2, <2>8
    <3>6. Decoder!Continues(Decoder!Reserved(bytes, kept, total), kept, total, chunk, take)
      BY <2>10, <2>12
    <3>7. QED
      BY <3>3, <3>4, <3>5, <3>6, ContinuesKeeps
  <2>13. QED
    BY <2>11, <2>12
<1>8. QED
  <2>1. heldBytes = 0 \/ heldBytes >= HeaderLength \/ (heldBytes \in 1..HeaderLength - 1 /\ ~(heldBytes >= HeaderLength))
    BY <1>1
  <2>2. CASE heldBytes = 0
    BY <2>2, <1>1, <1>4 DEF Decoder!Push
  <2>3. CASE heldBytes >= HeaderLength
    BY <2>3, <1>1, <1>6 DEF Decoder!Push
  <2>4. QED
    BY <2>1, <2>2, <2>3, <1>7

-----------------------------------------------------------------------------
LEMMA DecoderInitInv == Decoder!FrameDecoderAssumption /\ Decoder!Init => DecoderInv
<1> SUFFICES ASSUME Decoder!FrameDecoderAssumption, Decoder!Init PROVE DecoderInv
  OBVIOUS
<1>1. lengths \in Lengths
  BY DEF Decoder!Init, Lengths
<1>2. /\ FrameCount \in Nat /\ HeaderLength \in Nat \ {0} /\ Decoder!EndOf[0] = 0
      /\ \A i \in 0..FrameCount : Decoder!EndOf[i] \in Nat
  BY <1>1, Ends
<1>3. fed = 0 /\ fed <= Decoder!Sent /\ fed = Decoder!EndOf[0] + 0 /\ decoded = 0 /\ decoded \in 0..FrameCount
  BY <1>2 DEF Decoder!Init, Decoder!Sent
<1>4. decoded < FrameCount => 0 < Decoder!Total(decoded + 1)
  <2>1. decoded < FrameCount => decoded + 1 \in 1..FrameCount
    BY <1>2, <1>3
  <2>2. QED
    BY <2>1, <1>1, <1>2, Ends
<1>5. Holds(buffer, 0, expected, decoded)
  <2>1. buffer = <<>>
    BY DEF Decoder!Init
  <2>2. IsArray(buffer, 0)
    BY <2>1 DEF IsArray
  <2>3. QED
    BY <2>2, <1>2 DEF Holds
<1>6. \E first \in 0..decoded : given = Payloads(first, decoded)
  BY <1>3 DEF Decoder!Init, Payloads
<1>7. QED
  BY <1>1, <1>3, <1>4, <1>5, <1>6 DEF DecoderInv, After, Decoder!Init

LEMMA DecoderNextInv == Decoder!FrameDecoderAssumption /\ DecoderInv /\ [Decoder!Next]_(Decoder!vars) => DecoderInv'
<1> SUFFICES ASSUME Decoder!FrameDecoderAssumption, DecoderInv, [Decoder!Next]_(Decoder!vars) PROVE DecoderInv'
  OBVIOUS
<1>1. lengths' = lengths /\ After(fed', buffer', heldBytes', expected', decoded', given')
  <2>1. CASE Decoder!Next
    <3>1. PICK n \in 1..Decoder!Sent : Decoder!Receive(n)
      BY <2>1 DEF Decoder!Next
    <3>2. PICK chunk : chunk = [k \in 0..n - 1 |-> Decoder!ByteAt(fed + k + 1)]
      OBVIOUS
    <3>3. fed + n <= Decoder!Sent /\ fed' = fed + n /\ Decoder!Push(chunk) /\ lengths' = lengths
      BY <3>1, <3>2 DEF Decoder!Receive
    <3>4. IsChunk(chunk, fed, n)
      <4>1. fed \in Nat /\ n \in Nat
        BY Ends DEF DecoderInv, After, Decoder!Sent
      <4>2. QED
        BY <4>1, <3>2, <3>3 DEF IsChunk
    <3>5. QED
      BY <3>3, <3>4, PushKeeps
  <2>2. CASE UNCHANGED Decoder!vars
    BY <2>2 DEF DecoderInv, Decoder!vars
  <2>3. QED
    BY <2>1, <2>2
<1>2. Decoder!EndOf' = Decoder!EndOf
  BY <1>1, EndOfStays
<1>3. lengths' \in Lengths
  BY <1>1 DEF DecoderInv
<1>4. QED
  BY <1>1, <1>2, <1>3 DEF DecoderInv, After, Holds, Payloads, Decoder!Payload, Decoder!Total, Decoder!Sent

LEMMA DecoderInvariance == Decoder!FrameDecoderAssumption => (Decoder!Spec => []DecoderInv)
<1> SUFFICES ASSUME Decoder!FrameDecoderAssumption PROVE Decoder!Spec => []DecoderInv
  OBVIOUS
<1>1. Decoder!Init => DecoderInv
  BY DecoderInitInv
<1>2. DecoderInv /\ [Decoder!Next]_(Decoder!vars) => DecoderInv'
  BY DecoderNextInv
<1>3. QED
  BY <1>1, <1>2, PTL DEF Decoder!Spec

(* However the stream is cut into chunks, the frames that push has returned  *)
(* are those that have come in whole, in their order, and the views it       *)
(* returned last still show the payloads of those when it has returned: the  *)
(* decoder never writes over an array it has just handed out.                *)
THEOREM FramesAreKept == Decoder!FrameDecoderAssumption => (Decoder!Spec => []Decoder!DecodedIsSent)
<1> SUFFICES ASSUME Decoder!FrameDecoderAssumption PROVE Decoder!Spec => []Decoder!DecodedIsSent
  OBVIOUS
<1>1. DecoderInv => Decoder!DecodedIsSent
  <2> SUFFICES ASSUME DecoderInv PROVE Decoder!DecodedIsSent
    OBVIOUS
  <2>1. FrameCount \in Nat /\ decoded \in 0..FrameCount /\ Decoder!EndOf[decoded] \in Nat
    BY Ends DEF DecoderInv, After
  <2>2. decoded <= FrameCount /\ fed = Decoder!EndOf[decoded] + heldBytes
    BY <2>1 DEF DecoderInv, After
  <2>3. decoded < FrameCount => fed < Decoder!EndOf[decoded + 1]
    <3>1. ASSUME decoded < FrameCount PROVE fed < Decoder!EndOf[decoded + 1]
      <4>1. PICK d \in 1..FrameCount : d = decoded + 1 /\ d - 1 = decoded
        BY <3>1, <2>1
      <4>2. Decoder!EndOf[d] = Decoder!EndOf[decoded] + Decoder!Total(d) /\ Decoder!Total(d) \in Nat
        BY <4>1, Ends DEF DecoderInv
      <4>3. heldBytes < Decoder!Total(d) /\ heldBytes \in Nat
        BY <4>1, <3>1 DEF DecoderInv, After
      <4>4. QED
        BY <4>1, <4>2, <4>3, <2>1, <2>2
    <3>2. QED
      BY <3>1
  <2>4. PICK first \in 0..decoded : given = Payloads(first, decoded)
    BY DEF DecoderInv, After
  <2>5. Len(given) = decoded - first
    BY <2>1, <2>4 DEF Payloads
  <2>6. given = [k \in 1..Len(given) |-> Decoder!Payload(decoded - Len(given) + k)]
    <3>1. decoded - Len(given) = first
      BY <2>1, <2>5
    <3>2. QED
      BY <3>1, <2>4, <2>5 DEF Payloads
  <2>7. QED
    BY <2>2, <2>3, <2>6 DEF Decoder!DecodedIsSent
<1>2. QED
  BY <1>1, DecoderInvariance, PTL

-----------------------------------------------------------------------------
(* The components side by side: a behaviour stays with the component that    *)
(* part names, and is one of that component.                                 *)

LEMMA PartStays ==
  ASSUME [ComponentsNext]_componentsVars
  PROVE  part' = part
BY DEF ComponentsNext, componentsVars

LEMMA RowsAlone == ComponentsSpec => Rows!Spec \/ []~(part = "rows")
<1>1. ComponentsInit /\ part = "rows" => Rows!Init
  BY DEF ComponentsInit
<1>2. part = "rows" /\ [ComponentsNext]_componentsVars
        => [Rows!Next]_(Rows!vars) /\ (part = "rows")'
  BY DEF ComponentsNext, componentsVars, screenVars, Rows!vars, Rows!emulator
<1>3. ~(part = "rows") /\ [ComponentsNext]_componentsVars => ~(part = "rows")'
  BY PartStays
<1>4. QED
  BY <1>1, <1>2, <1>3, PTL DEF ComponentsSpec, Rows!Spec

LEMMA ModesAlone == ComponentsSpec => Modes!Spec \/ []~(part = "modes")
<1>1. ComponentsInit /\ part = "modes" => Modes!Init
  BY DEF ComponentsInit
<1>2. part = "modes" /\ [ComponentsNext]_componentsVars
        => [Modes!Next]_(Modes!vars) /\ (part = "modes")'
  BY DEF ComponentsNext, componentsVars, screenVars, Modes!vars, Modes!emulator
<1>3. ~(part = "modes") /\ [ComponentsNext]_componentsVars => ~(part = "modes")'
  BY PartStays
<1>4. QED
  BY <1>1, <1>2, <1>3, PTL DEF ComponentsSpec, Modes!Spec

LEMMA LayoutAlone == ComponentsSpec => Layout!Spec \/ []~(part = "layout")
<1>1. ComponentsInit /\ part = "layout" => Layout!Init
  BY DEF ComponentsInit
<1>2. part = "layout" /\ [ComponentsNext]_componentsVars
        => [Layout!Next]_(Layout!vars) /\ (part = "layout")'
  BY DEF ComponentsNext, componentsVars, layoutVars, Layout!vars
<1>3. ~(part = "layout") /\ [ComponentsNext]_componentsVars => ~(part = "layout")'
  BY PartStays
<1>4. QED
  BY <1>1, <1>2, <1>3, PTL DEF ComponentsSpec, Layout!Spec

LEMMA NamerAlone == ComponentsSpec => Namer!Spec \/ []~(part = "namer")
<1>1. ComponentsInit /\ part = "namer" => Namer!Init
  BY DEF ComponentsInit
<1>2. part = "namer" /\ [ComponentsNext]_componentsVars
        => [Namer!Next]_(Namer!vars) /\ (part = "namer")'
  BY DEF ComponentsNext, componentsVars, namerVars, Namer!vars
<1>3. ~(part = "namer") /\ [ComponentsNext]_componentsVars => ~(part = "namer")'
  BY PartStays
<1>4. QED
  BY <1>1, <1>2, <1>3, PTL DEF ComponentsSpec, Namer!Spec

LEMMA DecoderAlone == ComponentsSpec => Decoder!Spec \/ []~(part = "decoder")
<1>1. ComponentsInit /\ part = "decoder" => Decoder!Init
  BY DEF ComponentsInit
<1>2. part = "decoder" /\ [ComponentsNext]_componentsVars
        => [Decoder!Next]_(Decoder!vars) /\ (part = "decoder")'
  BY DEF ComponentsNext, componentsVars, decoderVars, Decoder!vars
<1>3. ~(part = "decoder") /\ [ComponentsNext]_componentsVars => ~(part = "decoder")'
  BY PartStays
<1>4. QED
  BY <1>1, <1>2, <1>3, PTL DEF ComponentsSpec, Decoder!Spec

LEMMA Link1Alone == ComponentsSpec => Link1!Spec \/ []~(part = "bridge1")
<1>1. ComponentsInit /\ part = "bridge1" => Link1!Init
  BY DEF ComponentsInit
<1>2. part = "bridge1" /\ [ComponentsNext]_componentsVars
        => [Link1!Next]_(Link1!vars) /\ (part = "bridge1")'
  BY DEF ComponentsNext, componentsVars, bridgeVars, Link1!vars
<1>3. ~(part = "bridge1") /\ [ComponentsNext]_componentsVars => ~(part = "bridge1")'
  BY PartStays
<1>4. QED
  BY <1>1, <1>2, <1>3, PTL DEF ComponentsSpec, Link1!Spec

LEMMA Link2Alone == ComponentsSpec => Link2!Spec \/ []~(part = "bridge2")
<1>1. ComponentsInit /\ part = "bridge2" => Link2!Init
  BY DEF ComponentsInit
<1>2. part = "bridge2" /\ [ComponentsNext]_componentsVars
        => [Link2!Next]_(Link2!vars) /\ (part = "bridge2")'
  BY DEF ComponentsNext, componentsVars, bridgeVars, Link2!vars
<1>3. ~(part = "bridge2") /\ [ComponentsNext]_componentsVars => ~(part = "bridge2")'
  BY PartStays
<1>4. QED
  BY <1>1, <1>2, <1>3, PTL DEF ComponentsSpec, Link2!Spec

(* A client's screen is the library's, whichever revision it was repainted   *)
(* from (terminal-emulator.ts): ScreenFollows of both screens, whatever      *)
(* their height, contents, ring and modes.                                   *)
THEOREM ScreensAreMirrored == ComponentsSpec => []ScreenIsMirrored
<1>1. Rows!Spec => []Rows!TypeOK /\ []Rows!ScreenIsMirrored
  BY RowsAssumption, Rows!TypeCorrect, Rows!ScreenFollows
<1>2. Modes!Spec => []Modes!TypeOK /\ []Modes!ScreenIsMirrored
  BY ModesAssumption, Modes!TypeCorrect, Modes!ScreenFollows
<1>3. QED
  BY <1>1, <1>2, RowsAlone, ModesAlone, PTL DEF ScreenIsMirrored

(* So is its cursor, which no row tells of (terminal-emulator.ts).            *)
THEOREM CursorsAreMirrored == ComponentsSpec => []CursorIsMirrored
<1>1. Rows!Spec => []Rows!CursorIsMirrored
  BY RowsAssumption, Rows!CursorFollowsScreen
<1>2. Modes!Spec => []Modes!CursorIsMirrored
  BY ModesAssumption, Modes!CursorFollowsScreen
<1>3. QED
  BY <1>1, <1>2, RowsAlone, ModesAlone, PTL DEF CursorIsMirrored

(* And the modes whose sequences the emulator notices (terminal-emulator.ts). *)
THEOREM ModesAreMirrored == ComponentsSpec => []NoticedModesAreMirrored
<1>1. Rows!Spec => []Rows!NoticedModesAreMirrored
  BY RowsAssumption, Rows!NoticedModesFollow
<1>2. Modes!Spec => []Modes!NoticedModesAreMirrored
  BY ModesAssumption, Modes!NoticedModesFollow
<1>3. QED
  BY <1>1, <1>2, RowsAlone, ModesAlone, PTL DEF NoticedModesAreMirrored

(* The layout shows each of a session's terminals once, in trees of any       *)
(* allowed depth, whatever was done to it (session-layout.ts).               *)
THEOREM TerminalsAreShownOnce == ComponentsSpec => []EachTerminalOnce
<1>1. Layout!Spec => []Layout!EachTerminalOnce
  BY LayoutAssumption, Layout!ShowsEachOnce
<1>2. QED
  BY <1>1, LayoutAlone, PTL DEF EachTerminalOnce

(* Repair leaves a sound layout as it is and makes a damaged one sound,      *)
(* whatever part of the terminals was read with it (session-layout.ts,       *)
(* repairLayout).                                                            *)
THEOREM LayoutsAreMended == ComponentsSpec => []RepairMends
<1>1. Layout!Spec => []Layout!RepairMends
  BY LayoutAssumption, Layout!RepairsMend
<1>2. QED
  BY <1>1, LayoutAlone, PTL DEF RepairMends

(* Moving tabs and closing other terminals leaves the focus on its terminal  *)
(* (session-layout.ts).                                                      *)
THEOREM FocusIsKept == ComponentsSpec => FocusStays
<1>1. Layout!Spec => [][Layout!FocusKept]_(Layout!vars)
  BY LayoutAssumption, Layout!KeepsFocus
<1>2. [Layout!FocusKept]_(Layout!vars) => [part = "layout" => Layout!FocusKept]_layoutVars
  BY DEF layoutVars, Layout!vars
<1>3. ~(part = "layout") => [part = "layout" => Layout!FocusKept]_layoutVars
  OBVIOUS
<1>4. QED
  BY <1>1, <1>2, <1>3, LayoutAlone, PTL DEF FocusStays

(* However many prompts come and however the agent fails, few namers run     *)
(* until the session has rested, and few at a time (session-namer.ts).       *)
THEOREM AsksStayRare == ComponentsSpec => []AsksAreRare
<1>1. Namer!Spec => []Namer!TypeOK /\ []Namer!AsksAreRare
  BY NamerTypeCorrect, NamersStayFew, NamerAssumption
<1>2. QED
  BY <1>1, NamerAlone, PTL DEF AsksAreRare

(* However the stream is cut, the frames decoded are the frames sent, under   *)
(* views that still show them (frame.ts).                                    *)
THEOREM FramesAreDecoded == ComponentsSpec => []DecodedIsSent
<1>1. Decoder!Spec => []Decoder!DecodedIsSent
  BY DecoderAssumption, FramesAreKept
<1>2. QED
  BY <1>1, DecoderAlone, PTL DEF DecodedIsSent

(* No frame the bridge took is skipped, and no poll sleeps on one            *)
(* (bridge-connection.ts).                                                   *)
THEOREM BridgesWithholdNothing == ComponentsSpec => []NothingIsWithheld
<1>1. Link1!Spec => []Link1!TypeOK /\ []Link1!NothingIsWithheld
  BY Link1Assumption, Link1!TypeCorrect, Link1!WithholdsNothing
<1>2. Link2!Spec => []Link2!TypeOK /\ []Link2!NothingIsWithheld
  BY Link2Assumption, Link2!TypeCorrect, Link2!WithholdsNothing
<1>3. QED
  BY <1>1, <1>2, Link1Alone, Link2Alone, PTL DEF NothingIsWithheld
=============================================================================
