---------------------------- MODULE BlocksProofs ----------------------------
(***************************************************************************)
(* Proofs about the building blocks.  Module UvQueue, for every word set,  *)
(* depth and pointer width: the ring registers stay consistent, the ready  *)
(* outputs keep their promise, and the ring implements the abstract queue  *)
(* of module Fifo.  Module ArbRr, for every number of lines: the bit       *)
(* arithmetic is the round-robin choice, and no line waits for ever.       *)
(***************************************************************************)
EXTENDS UvQueue, ArbRr, SequenceTheorems, WellFoundedInduction, TLAPS

-----------------------------------------------------------------------------
(* The queue.                                                              *)

\* Moving a pointer by one slot keeps it on the ring and wraps at its end.
LEMMA PtrNxtLemma ==
    ASSUME NEW p \in Slots
    PROVE  /\ ptr_nxt(p) \in Slots
           /\ ptr_nxt(p) = IF p + 1 < QUE_DEPTH THEN p + 1 ELSE 0
  BY QueueAssumption DEF ptr_nxt, ptr_add, Slots

\* The inductive invariant: the pointers are only known to stay apart
\* because they agree with the length, and the length only stays in range
\* because the writes of a full and the reads of an empty queue are ignored.
IInv == TypeOK /\ PointersAgree

\* Every clock edge preserves the invariant, one register at a time.
LEMMA StepInv == ASSUME IInv, Next PROVE IInv'
<1> USE QueueAssumption DEF Next, Clock, wr_fire, rd_fire, wr_only, rd_only
<1>0. TypeOK /\ PointersAgree
  BY DEF IInv
<1>1. ptr_nxt(wr_ptr_r) = (IF wr_ptr_r + 1 < QUE_DEPTH THEN wr_ptr_r + 1 ELSE 0)
  BY <1>0, PtrNxtLemma DEF TypeOK
<1>2. ptr_nxt(rd_ptr_r) = (IF rd_ptr_r + 1 < QUE_DEPTH THEN rd_ptr_r + 1 ELSE 0)
  BY <1>0, PtrNxtLemma DEF TypeOK
<1>3. wr_ptr_r' \in Slots /\ rd_ptr_r' \in Slots
  BY <1>0, <1>1, <1>2 DEF UpdateWrPtr, UpdateRdPtr, TypeOK, Slots
<1>4. len_r' \in 0 .. QUE_DEPTH
  BY <1>0 DEF UpdateLen, TypeOK, full, empty
<1>5. que' \in [Slots -> Data] /\ rd_dat_r' \in Data
  BY <1>0 DEF WriteQue, ReadQue, TypeOK, Inputs, Slots
<1>6. in' \in Inputs
  OBVIOUS
<1>7. PointersAgree'
  BY <1>0, <1>1, <1>2 DEF UpdateWrPtr, UpdateRdPtr, UpdateLen,
                          PointersAgree, TypeOK, Slots, full, empty
<1> QED BY <1>3, <1>4, <1>5, <1>6, <1>7 DEF IInv, TypeOK

\* The invariant holds in every reachable state of the queue.
THEOREM Invariance == Spec => []IInv
<1>1. Init => IInv
  BY QueueAssumption DEF Init, IInv, TypeOK, PointersAgree, Slots
<1>2. IInv /\ [Next]_vars => IInv'
  <2>1. ASSUME IInv, Next PROVE IInv'
    BY <2>1, StepInv
  <2>2. ASSUME IInv, UNCHANGED vars PROVE IInv'
    BY <2>2 DEF vars, IInv, TypeOK, PointersAgree
  <2> QED BY <2>1, <2>2
<1> QED BY <1>1, <1>2, PTL DEF Spec

\* Every register of the queue keeps a value of its type.
THEOREM TypeCorrect == Spec => []TypeOK
BY Invariance, PTL DEF IInv

\* The write pointer, read pointer and length registers always agree.
THEOREM PointersCorrect == Spec => []PointersAgree
BY Invariance, PTL DEF IInv

\* A ready output is never given for a cycle that ends without room or data.
THEOREM ReadyCorrect == Spec => ReadyLooksAhead
<1>1. ASSUME IInv, Next PROVE wr_rdy => len_r' < QUE_DEPTH
  BY <1>1, QueueAssumption DEF IInv, TypeOK, Inputs, Next, Clock, UpdateLen, wr_rdy,
                               wr_fire, rd_fire, wr_only, rd_only, full, empty
<1>2. ASSUME IInv, Next PROVE rd_rdy => len_r' > 0
  BY <1>2, QueueAssumption DEF IInv, TypeOK, Inputs, Next, Clock, UpdateLen, rd_rdy,
                               wr_fire, rd_fire, wr_only, rd_only, full, empty
<1>3. IInv /\ [Next]_vars => [ReadyKept]_vars
  BY <1>1, <1>2 DEF ReadyKept
<1> QED BY <1>3, Invariance, PTL DEF Spec, ReadyLooksAhead

-----------------------------------------------------------------------------
\* A function on 1..n is a sequence of length n.
LEMMA FunctionIsSeq ==
    ASSUME NEW S, NEW n \in Nat, NEW f \in [1 .. n -> S]
    PROVE  f \in Seq(S) /\ Len(f) = n
<1>1. f \in Seq(S)
  BY SeqDef
<1>2. Len(f) \in Nat /\ DOMAIN f = 1 .. Len(f) /\ DOMAIN f = 1 .. n
  BY <1>1, LenProperties
<1> QED BY <1>1, <1>2

\* The abstract contents of the ring: a sequence of words, len_r long.
LEMMA QueuedIsSeq ==
    ASSUME IInv
    PROVE  Queued \in Seq(Data) /\ Len(Queued) = len_r
<1>1. len_r \in Nat
  BY QueueAssumption DEF IInv, TypeOK
<1>2. ASSUME NEW i \in 1 .. len_r PROVE Slot(i) \in Slots
  BY QueueAssumption DEF IInv, TypeOK, Slot, Slots
<1>3. Queued \in [1 .. len_r -> Data]
  BY <1>1, <1>2 DEF IInv, TypeOK, Queued
<1> HIDE DEF Queued
<1> QED BY <1>1, <1>3, FunctionIsSeq

\* Every clock edge of the ring is a cycle of the abstract queue with the
\* same inputs.
LEMMA ClockRefines == ASSUME IInv, IInv', Next PROVE AbstractQueue!Next
<1> DEFINE kept  == AbstractQueue!Kept
           taken == AbstractQueue!Taken
           clr    == in.clr
           wr_dat == in.wr_dat
<1> USE QueueAssumption DEF Next, Clock, wr_fire, rd_fire, wr_only, rd_only
<1>0. TypeOK /\ PointersAgree /\ TypeOK'
  BY DEF IInv
<1>1. /\ Queued \in Seq(Data) /\ Len(Queued) = len_r
      /\ Queued' \in Seq(Data) /\ Len(Queued') = len_r'
  <2>1. Queued \in Seq(Data) /\ Len(Queued) = len_r
    BY QueuedIsSeq
  <2>2. IInv' => (Queued \in Seq(Data) /\ Len(Queued) = len_r)'
    BY QueuedIsSeq, PTL
  <2> QED BY <2>1, <2>2
<1>2. (AbstractQueue!CanWrite <=> ~full) /\ (AbstractQueue!CanRead <=> ~empty)
  BY <1>0, <1>1 DEF AbstractQueue!CanWrite, AbstractQueue!CanRead, full, empty, TypeOK
<1>3. /\ kept = IF clr THEN << >> ELSE IF rd_fire THEN Tail(Queued) ELSE Queued
      /\ taken = IF wr_fire THEN <<wr_dat>> ELSE << >>
  BY <1>2 DEF AbstractQueue!Kept, AbstractQueue!Taken
<1>4. rd_fire => Queued # << >>
  BY <1>0, <1>1 DEF empty, TypeOK
<1>5. /\ kept \in Seq(Data)
      /\ Len(kept) = IF clr THEN 0 ELSE IF rd_fire THEN len_r - 1 ELSE len_r
      /\ \A i \in 1 .. Len(kept) : kept[i] = que[Slot(IF rd_fire THEN i + 1 ELSE i)]
  <2>1. CASE clr
    <3>1. kept = << >>
      BY <2>1, <1>3
    <3>2. kept \in Seq(Data) /\ Len(kept) = 0
      BY <3>1, EmptySeq
    <3>3. \A i \in 1 .. Len(kept) : FALSE
      BY <3>2
    <3> QED BY <2>1, <3>2, <3>3
  <2>2. CASE ~clr /\ rd_fire
    <3>1. kept = Tail(Queued)
      BY <2>2, <1>3
    <3>2. /\ Tail(Queued) \in Seq(Data) /\ Len(Tail(Queued)) = len_r - 1
          /\ \A i \in 1 .. Len(Tail(Queued)) : Tail(Queued)[i] = Queued[i + 1]
      BY <2>2, <1>1, <1>4, HeadTailProperties
    <3>3. \A i \in 1 .. (len_r - 1) : Queued[i + 1] = que[Slot(i + 1)]
      BY <1>0 DEF Queued, TypeOK
    <3> QED BY <2>2, <3>1, <3>2, <3>3
  <2>3. CASE ~clr /\ ~rd_fire
    <3>1. kept = Queued
      BY <2>3, <1>3
    <3>2. \A i \in 1 .. len_r : Queued[i] = que[Slot(i)]
      BY DEF Queued
    <3> QED BY <2>3, <1>1, <3>1, <3>2
  <2> QED BY <2>1, <2>2, <2>3
<1>6. /\ taken \in Seq(Data)
      /\ Len(taken) = IF wr_fire THEN 1 ELSE 0
      /\ wr_fire => taken[1] = wr_dat
  BY <1>0, <1>3 DEF TypeOK, Inputs
<1> HIDE DEF kept, taken
<1>7. Len(kept) + Len(taken) = len_r'
  BY <1>0, <1>5, <1>6 DEF UpdateLen, TypeOK, full, empty
<1>8. ASSUME NEW i \in 1 .. len_r' PROVE Queued'[i] = (kept \o taken)[i]
  <2>1. Queued'[i] = que'[Slot(i)']
    BY DEF Queued, Slot
  <2>2. (kept \o taken)[i] = IF i <= Len(kept) THEN kept[i] ELSE taken[i - Len(kept)]
    BY <1>5, <1>6, <1>7, ConcatProperties
  <2>3. CASE i <= Len(kept)
    <3>1. ~clr
      BY <2>3, <1>5
    <3> DEFINE j == IF rd_fire THEN i + 1 ELSE i
    <3>2. j \in 1 .. len_r
      BY <2>3, <3>1, <1>0, <1>5 DEF TypeOK
    <3>3. rd_ptr_r' = IF rd_fire THEN (IF rd_ptr_r + 1 < QUE_DEPTH THEN rd_ptr_r + 1 ELSE 0)
                                 ELSE rd_ptr_r
      BY <3>1, <1>0, PtrNxtLemma DEF UpdateRdPtr, TypeOK
    <3>4. Slot(i)' = Slot(j)
      BY <3>2, <3>3, <1>0 DEF Slot, TypeOK, Slots
    <3>5. Slot(j) \in Slots /\ (wr_fire => Slot(j) # wr_ptr_r)
      BY <3>2, <1>0 DEF Slot, PointersAgree, TypeOK, Slots, full
    <3>6. que'[Slot(j)] = que[Slot(j)]
      BY <3>1, <3>5, <1>0 DEF WriteQue, TypeOK
    <3> QED BY <2>1, <2>2, <2>3, <3>4, <3>6, <1>5
  <2>4. CASE ~(i <= Len(kept))
    <3>1. wr_fire /\ i = Len(kept) + 1
      BY <2>4, <1>0, <1>5, <1>6, <1>7 DEF TypeOK
    <3>2. (kept \o taken)[i] = wr_dat
      BY <2>2, <2>4, <3>1, <1>0, <1>5, <1>6 DEF TypeOK
    <3>3. CASE clr
      <4>1. Slot(i)' = 0
        BY <3>1, <3>3, <1>5 DEF UpdateRdPtr, Slot
      <4>2. que'[0] = wr_dat
        BY <3>1, <3>3, <1>0 DEF WriteQue, TypeOK, Slots
      <4> QED BY <2>1, <3>2, <4>1, <4>2
    <3>4. CASE ~clr
      <4>1. rd_ptr_r' = IF rd_fire THEN (IF rd_ptr_r + 1 < QUE_DEPTH THEN rd_ptr_r + 1 ELSE 0)
                                   ELSE rd_ptr_r
        BY <3>4, <1>0, PtrNxtLemma DEF UpdateRdPtr, TypeOK
      <4>2. i = IF rd_fire THEN len_r ELSE len_r + 1
        BY <3>1, <3>4, <1>0, <1>5 DEF TypeOK
      <4>3. Slot(i)' = wr_ptr_r
        <5>1. /\ rd_ptr_r \in 0 .. (QUE_DEPTH - 1) /\ len_r \in 0 .. (QUE_DEPTH - 1)
              /\ rd_fire => len_r > 0
          BY <3>1, <1>0 DEF TypeOK, Slots, full, empty
        <5>2. CASE rd_fire
          BY <5>1, <5>2, <4>1, <4>2, <1>0 DEF Slot, PointersAgree
        <5>3. CASE ~rd_fire
          BY <5>1, <5>3, <4>1, <4>2, <1>0 DEF Slot, PointersAgree
        <5> QED BY <5>2, <5>3
      <4>4. que'[wr_ptr_r] = wr_dat
        BY <3>1, <3>4, <1>0 DEF WriteQue, TypeOK
      <4> QED BY <2>1, <3>2, <4>3, <4>4
    <3> QED BY <3>3, <3>4
  <2> QED BY <2>3, <2>4
<1>9. Queued' = kept \o taken
  <2>1. kept \o taken \in Seq(Data) /\ Len(kept \o taken) = len_r'
    BY <1>5, <1>6, <1>7, ConcatProperties
  <2> QED BY <1>1, <1>8, <2>1, SeqEqual
<1>10. rd_dat_r' = IF in.rd_vld /\ AbstractQueue!CanRead THEN Head(Queued) ELSE rd_dat_r
  <2>1. rd_fire => Head(Queued) = que[rd_ptr_r]
    <3>1. rd_fire => Head(Queued) = Queued[1]
      BY <1>1, <1>4
    <3>2. rd_fire => Queued[1] = que[Slot(1)] /\ Slot(1) = rd_ptr_r
      BY <1>0 DEF Queued, Slot, TypeOK, Slots, empty
    <3> QED BY <3>1, <3>2
  <2> QED BY <2>1, <1>2 DEF ReadQue
<1> QED BY <1>9, <1>10 DEF AbstractQueue!Next, AbstractQueue!Inputs, Inputs, kept, taken

\* The ring buffer implements the bounded queue: whatever is written, read
\* and cleared, and in whatever cycle, words leave in the order they were
\* accepted, once each, and only a full queue refuses one.
THEOREM QueueImplementsFifo == Spec => ImplementsFifo
<1>1. Init => AbstractQueue!Init
  <2>1. ASSUME Init PROVE Queued = << >>
    BY <2>1 DEF Init, Queued
  <2> QED BY <2>1 DEF Init, AbstractQueue!Init, AbstractQueue!Inputs, Inputs
<1>2. IInv /\ IInv' /\ [Next]_vars => [AbstractQueue!Next]_(AbstractQueue!vars)
  <2>1. ASSUME IInv, IInv', Next PROVE AbstractQueue!Next
    BY <2>1, ClockRefines
  <2>2. ASSUME UNCHANGED vars PROVE UNCHANGED AbstractQueue!vars
    BY <2>2 DEF vars, AbstractQueue!vars, Queued, Slot
  <2> QED BY <2>1, <2>2
<1> QED BY <1>1, <1>2, Invariance, PTL DEF Spec, ImplementsFifo, AbstractQueue!Spec

-----------------------------------------------------------------------------
(* The arbiters.                                                           *)

\* A set of numbers has a least one.
LEMMA Least == ASSUME NEW S \in SUBSET Nat, S # {} PROVE \E m \in S : \A k \in S : m <= k
<1>1. PICK m \in S : \A k \in S : <<k, m>> \notin OpToRel(<, Nat)
  BY NatLessThanWellFounded, WFMin
<1>2. \A k \in S : ~(k < m)
  BY <1>1 DEF OpToRel
<1> QED BY <1>2

\* What the subtraction of a one-hot vector does: from its bit on, everything
\* up to and including the first one of a is inverted.
LEMMA MinusOneHot ==
    ASSUME NEW a \in SUBSET Doubles, NEW k \in Lines, NEW i \in a
    PROVE  i \notin Minus(a, {k}) <=> i >= k /\ \A j \in a : j < k \/ i <= j
<1> USE ArbAssumption
<1>1. i \in Nat /\ k \in Nat /\ i \in Doubles /\ a \subseteq Nat
  BY DEF Lines, Doubles
<1>2. Borrow(a, {k}, i) <=> i > k /\ k \notin a /\ \A l \in k + 1 .. i - 1 : l \notin a
  BY <1>1 DEF Borrow
<1>3. Borrow(a, {k}, i) <=> i > k /\ \A j \in a : j < k \/ i <= j
  BY <1>1, <1>2
<1>4. i \notin Minus(a, {k}) <=> ~(i = k <=> Borrow(a, {k}, i))
  BY <1>1 DEF Minus
<1>5. CASE i = k
  BY <1>1, <1>3, <1>4, <1>5
<1>6. CASE i # k
  BY <1>1, <1>3, <1>4, <1>6
<1> QED BY <1>5, <1>6

\* The arithmetic on the doubled vector chooses the nearest requester.
LEMMA WinnerNearest ==
    ASSUME NEW r \in SUBSET Lines, NEW p \in Lines
    PROVE  Winner(r, {p}) = RR!Grant(p, r)
<1> USE ArbAssumption
<1> DEFINE d == Doubled(r)
<1>1. d \in SUBSET Doubles
  <2>1. \A i \in r : i \in Doubles /\ i + WIDTH \in Doubles
    BY DEF Lines, Doubles
  <2> QED BY <2>1 DEF Doubled
<1>2. \A j \in Lines : (j \in d <=> j \in r) /\ (j + WIDTH \in d <=> j \in r)
  BY DEF Doubled, Lines
<1>3. ASSUME NEW i \in Lines
      PROVE  i \in Winner(r, {p}) <=> \/ i \in d /\ i \notin Minus(d, {p})
                                      \/ i + WIDTH \in d /\ i + WIDTH \notin Minus(d, {p})
  BY DEF Winner
<1>4. \A j \in d : j \in r \/ (j - WIDTH \in r /\ j - WIDTH \in Lines)
  BY DEF Doubled, Lines
<1>5. ASSUME NEW i \in r
      PROVE  i \in Winner(r, {p}) <=> \A k \in r : RR!Behind(p, i) <= RR!Behind(p, k)
  <2>1. i \in Lines /\ i \in d /\ i + WIDTH \in d
    BY <1>2
  <2>2. i \notin Minus(d, {p}) <=> i >= p /\ \A j \in d : j < p \/ i <= j
    BY <1>1, <2>1, MinusOneHot
  <2>3. i + WIDTH \notin Minus(d, {p}) <=> i + WIDTH >= p /\ \A j \in d : j < p \/ i + WIDTH <= j
    BY <1>1, <2>1, MinusOneHot
  <2> HIDE DEF d
  <2>4. CASE i >= p
    <3>1. i \in Winner(r, {p}) <=> \A j \in d : j < p \/ i <= j
      BY <1>3, <2>1, <2>2, <2>3, <2>4 DEF Lines
    <3>2. (\A j \in d : j < p \/ i <= j) <=> (\A k \in r : k < p \/ i <= k)
      BY <1>2, <1>4, <2>1, <2>4 DEF Lines
    <3>3. (\A k \in r : k < p \/ i <= k) <=> \A k \in r : RR!Behind(p, i) <= RR!Behind(p, k)
      BY <2>1, <2>4 DEF Lines, RR!Behind
    <3> QED BY <3>1, <3>2, <3>3
  <2>5. CASE i < p
    <3>1. i \in Winner(r, {p}) <=> \A j \in d : j < p \/ i + WIDTH <= j
      BY <1>3, <2>1, <2>2, <2>3, <2>5 DEF Lines
    <3>2. (\A j \in d : j < p \/ i + WIDTH <= j) <=> (\A k \in r : k < p /\ i <= k)
      <4>1. ASSUME \A j \in d : j < p \/ i + WIDTH <= j, NEW k \in r
            PROVE  k < p /\ i <= k
        BY <1>2, <2>1, <2>5, <4>1 DEF Lines
      <4>2. ASSUME \A k \in r : k < p /\ i <= k, NEW j \in d
            PROVE  j < p \/ i + WIDTH <= j
        BY <1>4, <2>1, <2>5, <4>2 DEF Lines
      <4> QED BY <4>1, <4>2
    <3>3. (\A k \in r : k < p /\ i <= k) <=> \A k \in r : RR!Behind(p, i) <= RR!Behind(p, k)
      BY <2>1, <2>5 DEF Lines, RR!Behind
    <3> QED BY <3>1, <3>2, <3>3
  <2> QED BY <2>1, <2>4, <2>5 DEF Lines
<1>6. \A i \in Lines : i \in Winner(r, {p}) => i \in r
  BY <1>2, <1>3
<1>7. Winner(r, {p}) \subseteq Lines
  BY DEF Winner
<1> HIDE DEF d
<1> QED BY <1>5, <1>6, <1>7 DEF RR!Grant

\* There is one nearest requester, and the next priority is the line behind it.
LEMMA OneWinner ==
    ASSUME NEW r \in SUBSET Lines, r # {}, NEW p \in Lines
    PROVE  \E g \in r : /\ RR!Grant(p, r) = {g}
                        /\ \A k \in r : RR!Behind(p, g) <= RR!Behind(p, k)
                        /\ RR!NextPrio(p, r) = IF g + 1 < WIDTH THEN g + 1 ELSE 0
<1> USE ArbAssumption
<1>1. PICK g \in r : \A k \in r : RR!Behind(p, g) <= RR!Behind(p, k)
  <2> DEFINE S == {RR!Behind(p, k) : k \in r}
  <2>1. S \in SUBSET Nat /\ S # {}
    <3>1. \A k \in r : RR!Behind(p, k) \in Nat
      BY DEF Lines, RR!Behind
    <3> QED BY <3>1
  <2>2. PICK m \in S : \A k \in S : m <= k
    BY <2>1, Least
  <2> QED BY <2>2
<1>2. \A k \in r : RR!Behind(p, k) = RR!Behind(p, g) => k = g
  BY DEF Lines, RR!Behind
<1>3. \A k \in r : RR!Behind(p, k) \in Int
  BY DEF Lines, RR!Behind
<1>4. RR!Grant(p, r) = {g}
  BY <1>1, <1>2, <1>3 DEF RR!Grant
<1> QED BY <1>1, <1>4 DEF RR!NextPrio

\* The priority is on one line, and a line has lost fewer arbitrations than
\* lines were between it and the priority.
ArbInv == /\ req \in SUBSET Lines /\ lost \in [Lines -> Nat]
          /\ \E p \in Lines : /\ prio_r = {p}
                              /\ \A i \in Lines : lost[i] + RR!Behind(p, i) < WIDTH

\* A line that loses comes nearer to the priority.
LEMMA LoserNearer ==
    ASSUME NEW p \in Lines, NEW g \in Lines, NEW i \in Lines, i # g,
           RR!Behind(p, g) <= RR!Behind(p, i)
    PROVE  RR!Behind(IF g + 1 < WIDTH THEN g + 1 ELSE 0, i) < RR!Behind(p, i)
  BY ArbAssumption DEF Lines, RR!Behind

\* A clock edge keeps the priority on one line and brings the losers nearer.
LEMMA ArbStep == ASSUME ArbInv, ArbNext PROVE ArbInv'
<1> USE ArbAssumption
<1>1. PICK p \in Lines : prio_r = {p} /\ \A i \in Lines : lost[i] + RR!Behind(p, i) < WIDTH
  BY DEF ArbInv
<1>2. req \in SUBSET Lines /\ lost \in [Lines -> Nat] /\ req' \in SUBSET Lines
  BY DEF ArbInv, ArbNext
<1>3. lost' \in [Lines -> Nat]
  BY <1>2 DEF ArbNext, Track
<1>4. CASE req = {}
  <2>1. prio_r' = {p} /\ lost' = lost
    BY <1>1, <1>2, <1>4 DEF ArbNext, UpdatePrio, Track
  <2> QED BY <1>1, <1>2, <2>1 DEF ArbInv
<1>5. CASE req # {}
  <2>1. PICK g \in req : /\ RR!Grant(p, req) = {g}
                         /\ \A k \in req : RR!Behind(p, g) <= RR!Behind(p, k)
    BY <1>2, <1>5, OneWinner
  <2> DEFINE q == IF g + 1 < WIDTH THEN g + 1 ELSE 0
  <2>2. grant = {g}
    BY <1>1, <1>2, <2>1, WinnerNearest DEF grant
  <2>3. prio_r' = {q} /\ q \in Lines
    BY <1>2, <1>5, <2>2 DEF ArbNext, UpdatePrio, RotateLeft, Lines
  <2>4. ASSUME NEW i \in Lines PROVE lost'[i] + RR!Behind(q, i) < WIDTH
    <3>1. CASE i \in req \ {g}
      <4>1. lost'[i] = lost[i] + 1
        BY <1>5, <2>2, <3>1 DEF ArbNext, Track
      <4>2. RR!Behind(q, i) < RR!Behind(p, i)
        BY <1>2, <2>1, <3>1, LoserNearer
      <4>3. RR!Behind(q, i) \in Int /\ RR!Behind(p, i) \in Int /\ lost[i] \in Int
        BY <1>2, <2>3 DEF RR!Behind, Lines
      <4> QED BY <1>1, <4>1, <4>2, <4>3
    <3>2. CASE i \notin req \ {g}
      <4>1. lost'[i] = 0
        BY <1>5, <2>2, <3>2 DEF ArbNext, Track
      <4>2. RR!Behind(q, i) < WIDTH /\ RR!Behind(q, i) \in Int
        BY <2>3 DEF RR!Behind, Lines
      <4> QED BY <4>1, <4>2
    <3> QED BY <3>1, <3>2
  <2> HIDE DEF q
  <2> QED BY <1>2, <1>3, <2>3, <2>4 DEF ArbInv
<1> QED BY <1>4, <1>5

\* The arbiter's invariant, for every number of lines.
THEOREM ArbInvariance == ArbSpec => []ArbInv
<1>1. ArbInit => ArbInv
  BY ArbAssumption DEF ArbInit, ArbInv, Lines, RR!Behind
<1>2. ArbInv /\ [ArbNext]_arbvars => ArbInv'
  <2>1. ASSUME ArbInv, UNCHANGED arbvars PROVE ArbInv'
    BY <2>1 DEF ArbInv, arbvars
  <2> QED BY <2>1, ArbStep
<1> QED BY <1>1, <1>2, PTL DEF ArbSpec

\* The borrow on the doubled request vector of uv_arb_rr.v and uv_arb_fp.v
\* finds the nearest requester, for every number of lines.
THEOREM GrantsNearestHolds == ArbSpec => []GrantsNearest
<1>1. ASSUME ArbInv PROVE GrantsNearest
  <2>1. PICK p \in Lines : prio_r = {p}
    BY <1>1 DEF ArbInv
  <2>2. req \in SUBSET Lines /\ 0 \in Lines
    BY <1>1, ArbAssumption DEF ArbInv, Lines
  <2>3. grant = RR!Grant(p, req) /\ grant_fp = RR!Grant(0, req)
    BY <2>1, <2>2, WinnerNearest DEF grant, grant_fp
  <2>4. ASSUME req # {} PROVE RotateLeft(grant) = {RR!NextPrio(p, req)}
    <3>1. PICK g \in req : /\ RR!Grant(p, req) = {g}
                           /\ RR!NextPrio(p, req) = IF g + 1 < WIDTH THEN g + 1 ELSE 0
      BY <2>2, <2>4, OneWinner
    <3> QED BY <2>2, <2>3, <3>1, ArbAssumption DEF RotateLeft, Lines
  <2> QED BY <2>1, <2>3, <2>4 DEF GrantsNearest
<1> QED BY <1>1, ArbInvariance, PTL

\* A line that takes part in every arbitration wins within WIDTH of them.
THEOREM BoundedWaitingHolds == ArbSpec => []BoundedWaiting
<1>1. ASSUME ArbInv PROVE BoundedWaiting
  <2>1. PICK p \in Lines : \A i \in Lines : lost[i] + RR!Behind(p, i) < WIDTH
    BY <1>1 DEF ArbInv
  <2>2. \A i \in Lines : lost[i] \in Nat /\ RR!Behind(p, i) \in Nat
    BY <1>1, ArbAssumption DEF ArbInv, Lines, RR!Behind
  <2> QED BY <2>1, <2>2, ArbAssumption DEF BoundedWaiting
<1> QED BY <1>1, ArbInvariance, PTL

=============================================================================
