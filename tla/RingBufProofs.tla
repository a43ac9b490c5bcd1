---------------------------- MODULE RingBufProofs ----------------------------
(***************************************************************************)
(* That the ring buffer is a sequence: for every size of the first array,  *)
(* however often it has grown and wherever its contents lie in it.         *)
(***************************************************************************)
EXTENDS RingBuf, TLAPS

\* The rings over a set A of elements: no array, or one in which head and tail are
\* slots.
Ring(A) ==
    { rb \in [nalloc : Nat, head : Nat, tail : Nat,
             els : UNION { [0 .. n - 1 -> A] : n \in Nat }] :
        /\ rb.els \in [0 .. rb.nalloc - 1 -> A]
        /\ IF rb.nalloc = 0 THEN rb.head = 0 /\ rb.tail = 0
           ELSE rb.nalloc >= 2 /\ rb.head < rb.nalloc /\ rb.tail < rb.nalloc }

-----------------------------------------------------------------------------
\* Indices run past the end of the array at most once.
LEMMA ModInside ==
    ASSUME NEW n \in Nat, NEW x \in Nat, x < n
    PROVE  x % n = x
BY SMTT(20)

\* The modulus of a number below twice the divisor takes one subtraction.
LEMMA ModOnce ==
    ASSUME NEW n \in Nat, NEW x \in Nat, n <= x, x < 2 * n
    PROVE  x % n = x - n
BY SMTT(20)

\* The slot of the i-th element.
Slot(rb, i) ==
    IF rb.tail + i <= rb.nalloc THEN rb.tail + i - 1 ELSE rb.tail + i - 1 - rb.nalloc

\* ringbuf_count is below the size of the array: one slot stays free.
LEMMA RingCountBound ==
    ASSUME NEW A, NEW rb \in Ring(A)
    PROVE  /\ RingCount(rb) \in Nat
           /\ rb.nalloc # 0 => RingCount(rb) < rb.nalloc
           /\ rb.nalloc = 0 => RingCount(rb) = 0
BY DEF Ring, RingCount

\* The sequence a ring stands for, element by element.
LEMMA RingSeqAt ==
    ASSUME NEW A, NEW rb \in Ring(A)
    PROVE  /\ RingSeq(rb) \in Seq(A)
           /\ Len(RingSeq(rb)) = RingCount(rb)
           /\ \A i \in 1 .. RingCount(rb) :
                /\ RingSeq(rb)[i] = rb.els[Slot(rb, i)]
                /\ Slot(rb, i) \in 0 .. rb.nalloc - 1
<1>1. RingCount(rb) \in Nat /\ (rb.nalloc # 0 => RingCount(rb) < rb.nalloc)
        /\ (rb.nalloc = 0 => RingCount(rb) = 0)
  BY RingCountBound, Zenon
<1>2. ASSUME NEW i \in 1 .. RingCount(rb)
      PROVE  /\ (rb.tail + i - 1) % rb.nalloc = Slot(rb, i)
             /\ Slot(rb, i) \in 0 .. rb.nalloc - 1
  <2>1. /\ rb.nalloc \in Nat /\ rb.tail \in Nat /\ i \in Nat /\ i >= 1
        /\ rb.tail < rb.nalloc /\ i < rb.nalloc
    BY <1>1 DEF Ring
  <2> DEFINE x == rb.tail + i - 1
  <2>2. x \in Nat /\ x < 2 * rb.nalloc
    BY <2>1
  <2>3. CASE x < rb.nalloc
    <3>1. x % rb.nalloc = x
      BY <2>1, <2>2, <2>3, ModInside, Zenon
    <3> QED BY <3>1, <2>1, <2>2, <2>3 DEF Slot
  <2>4. CASE ~(x < rb.nalloc)
    <3>1. x % rb.nalloc = x - rb.nalloc
      BY <2>1, <2>2, <2>4, ModOnce
    <3> QED BY <3>1, <2>1, <2>2, <2>4 DEF Slot
  <2> QED BY <2>3, <2>4, Zenon
<1>3. ASSUME NEW i \in 1 .. RingCount(rb)
      PROVE  rb.els[(rb.tail + i - 1) % rb.nalloc] \in A
  BY <1>2, Zenon DEF Ring
<1>4. RingSeq(rb) \in [1 .. RingCount(rb) -> A]
  BY <1>3, Zenon DEF RingSeq
<1>5. RingSeq(rb) \in Seq(A) /\ Len(RingSeq(rb)) = RingCount(rb)
  BY <1>1, <1>4
<1>6. ASSUME NEW i \in 1 .. RingCount(rb)
      PROVE  RingSeq(rb)[i] = rb.els[Slot(rb, i)]
  BY <1>2, Zenon DEF RingSeq
<1> QED BY <1>2, <1>5, <1>6, Zenon

\* Sequences with the same elements are equal.
LEMMA EqualSeqs ==
    ASSUME NEW A, NEW s \in Seq(A), NEW t \in Seq(A), Len(s) = Len(t),
           \A i \in 1 .. Len(t) : s[i] = t[i]
    PROVE  s = t
OBVIOUS

-----------------------------------------------------------------------------
\* ringbuf_add to an array that is not full adds one element at the end.
LEMMA AddToRoom ==
    ASSUME NEW A, NEW rb \in Ring(A), NEW el \in A, ~RingFull(rb)
    PROVE  /\ RingPut(rb, el) \in Ring(A)
           /\ RingSeq(RingPut(rb, el)) = Append(RingSeq(rb), el)
<1> DEFINE n == rb.nalloc
           new == RingPut(rb, el)
<1>1. /\ n \in Nat /\ n >= 2 /\ rb.head \in Nat /\ rb.tail \in Nat
      /\ rb.head < n /\ rb.tail < n /\ rb.els \in [0 .. n - 1 -> A]
  BY Zenon DEF Ring, RingFull
<1>2. (rb.head + 1) % n = IF rb.head + 1 < n THEN rb.head + 1 ELSE 0
  <2>1. CASE rb.head + 1 < n
    <3>1. (rb.head + 1) % n = rb.head + 1
      BY <1>1, <2>1, ModInside
    <3> QED BY <3>1, <2>1, Zenon
  <2>2. CASE ~(rb.head + 1 < n)
    <3>1. rb.head + 1 \in Nat /\ n <= rb.head + 1 /\ rb.head + 1 < 2 * n
      BY <1>1, <2>2
    <3>2. (rb.head + 1) % n = rb.head + 1 - n
      BY <1>1, <3>1, ModOnce
    <3> QED BY <3>2, <1>1, <2>2
  <2> QED BY <2>1, <2>2, Zenon
<1>3. /\ new.nalloc = n /\ new.tail = rb.tail
      /\ new.head = IF rb.head + 1 < n THEN rb.head + 1 ELSE 0
      /\ new.els = [rb.els EXCEPT ![rb.head] = el]
  BY <1>2, Zenon DEF RingPut
<1> HIDE DEF new
<1>4. new.els \in [0 .. n - 1 -> A]
  BY <1>1, <1>3, Zenon
<1>5. new \in Ring(A)
  <2>1. new \in [nalloc : Nat, head : Nat, tail : Nat,
                 els : UNION { [0 .. m - 1 -> A] : m \in Nat }]
    <3>1. new.els \in UNION { [0 .. m - 1 -> A] : m \in Nat }
      BY <1>1, <1>4, Zenon
    <3> QED BY <3>1, <1>1, <1>2, <1>3, SMTT(30) DEF RingPut, new
  <2> QED BY <2>1, <1>1, <1>3, <1>4 DEF Ring
<1>6. new.head # rb.tail
  BY <1>2, <1>3, Zenon DEF Ring, RingFull
<1>7. /\ RingCount(rb) \in Nat
      /\ RingCount(rb) = IF rb.head >= rb.tail THEN rb.head - rb.tail
                         ELSE n - (rb.tail - rb.head)
      /\ RingCount(new) = RingCount(rb) + 1
  <2>1. new.head \in Nat /\ (new.head = rb.head + 1 \/ (new.head = 0 /\ rb.head = n - 1))
    BY <1>1, <1>3
  <2>2. RingCount(new) = IF new.head >= rb.tail THEN new.head - rb.tail
                         ELSE n - (rb.tail - new.head)
    BY <1>3, Zenon DEF RingCount
  <2>3. RingCount(rb) = IF rb.head >= rb.tail THEN rb.head - rb.tail
                        ELSE n - (rb.tail - rb.head)
    BY Zenon DEF RingCount
  <2>4. RingCount(rb) \in Nat
    BY <2>3, <1>1
  <2>5. CASE new.head = rb.head + 1
    <3>1. CASE rb.head >= rb.tail
      BY <2>2, <2>3, <2>4, <2>5, <3>1, <1>1
    <3>2. CASE ~(rb.head >= rb.tail)
      <4>1. ~(new.head >= rb.tail)
        BY <2>5, <3>2, <1>1, <1>6
      <4> QED BY <4>1, <2>2, <2>3, <2>4, <2>5, <3>2, <1>1
    <3> QED BY <3>1, <3>2, Zenon
  <2>6. CASE new.head = 0 /\ rb.head = n - 1
    BY <2>2, <2>3, <2>6, <1>1, <1>6, SMTT(30)
  <2> QED BY <2>1, <2>3, <2>4, <2>5, <2>6, Zenon
<1>8. ASSUME NEW i \in 1 .. RingCount(rb) + 1
      PROVE  RingSeq(new)[i] = Append(RingSeq(rb), el)[i]
  <2>1. RingSeq(new)[i] = new.els[Slot(new, i)] /\ Slot(new, i) \in 0 .. n - 1
    BY <1>3, <1>5, <1>7, RingSeqAt, ZenonT(30)
  <2>2. Slot(new, i) = Slot(rb, i)
    BY <1>3, Zenon DEF Slot
  <2>3. CASE i \in 1 .. RingCount(rb)
    <3>1. RingSeq(rb)[i] = rb.els[Slot(rb, i)]
      BY <2>3, RingSeqAt, Zenon
    <3>2. Slot(rb, i) # rb.head
      BY <2>3, <1>1, <1>7, SMTT(30) DEF Slot
    <3>3. Append(RingSeq(rb), el)[i] = RingSeq(rb)[i]
      BY <2>3, RingSeqAt, RingCountBound
    <3> QED BY <3>1, <3>2, <3>3, <2>1, <2>2, <1>1, <1>3, Zenon
  <2>4. CASE i = RingCount(rb) + 1
    <3>1. Slot(rb, i) = rb.head
      <4>1. CASE rb.head >= rb.tail
        <5>1. i = rb.head - rb.tail + 1
          BY <4>1, <2>4, <1>1, <1>7, Zenon
        <5>2. rb.tail + i = rb.head + 1
          BY <5>1, <1>1
        <5> QED BY <5>1, <5>2, <1>1, SMTT(30) DEF Slot
      <4>2. CASE ~(rb.head >= rb.tail)
        <5>1. i = n - (rb.tail - rb.head) + 1
          BY <4>2, <2>4, <1>1, <1>7, Zenon
        <5>2. rb.tail + i = n + rb.head + 1
          BY <5>1, <1>1, SMTT(30)
        <5> QED BY <5>1, <5>2, <1>1, SMTT(30) DEF Slot
      <4> QED BY <4>1, <4>2, Zenon
    <3>2. Append(RingSeq(rb), el)[i] = el
      BY <2>4, RingSeqAt, RingCountBound
    <3> QED BY <3>1, <3>2, <2>1, <2>2, <1>1, <1>3, Zenon
  <2>5. RingCount(rb) \in Nat
    BY <1>7, Zenon
  <2>6. i \in 1 .. RingCount(rb) \/ i = RingCount(rb) + 1
    BY <2>5
  <2> QED BY <2>3, <2>4, <2>6, Zenon
<1>9. /\ RingSeq(new) \in Seq(A) /\ Len(RingSeq(new)) = RingCount(rb) + 1
      /\ Append(RingSeq(rb), el) \in Seq(A)
      /\ Len(Append(RingSeq(rb), el)) = RingCount(rb) + 1
  BY <1>5, <1>7, RingSeqAt
<1>10. RingSeq(new) = Append(RingSeq(rb), el)
  BY <1>8, <1>9, EqualSeqs, Zenon
<1> QED BY <1>5, <1>10, Zenon DEF new
-----------------------------------------------------------------------------
\* A larger array holds what the smaller one held, in the same order, and has room.
LEMMA GrownKeeps ==
    ASSUME NEW A, None \in A, NEW rb \in Ring(A)
    PROVE  /\ RingGrown(rb) \in Ring(A)
           /\ ~RingFull(RingGrown(rb))
           /\ RingSeq(RingGrown(rb)) = RingSeq(rb)
<1> DEFINE n == rb.nalloc
           big == RingGrown(rb)
<1>1. CASE n = 0
  <2>1. /\ big \in [nalloc : Nat, head : Nat, tail : Nat, els : [0 .. RingInit - 1 -> A]]
        /\ big.nalloc = RingInit /\ big.head = 0 /\ big.tail = 0
    BY <1>1, RingInitAssumption, Zenon DEF Ring, RingGrown
  <2> HIDE DEF big
  <2>2. big \in Ring(A)
    <3>1. big.els \in UNION { [0 .. m - 1 -> A] : m \in Nat }
      BY <2>1, RingInitAssumption, Zenon
    <3> QED BY <3>1, <2>1, RingInitAssumption DEF Ring
  <2>3. (big.head + 1) % big.nalloc = 1
    BY <2>1, RingInitAssumption, ModInside
  <2>4. ~RingFull(big)
    BY <2>1, <2>3, RingInitAssumption DEF RingFull
  <2>5. RingCount(rb) = 0 /\ RingCount(big) = 0
    BY <1>1, <2>1 DEF RingCount, Ring
  <2>6. RingSeq(big) = RingSeq(rb)
    BY <2>2, <2>5, RingSeqAt, EqualSeqs
  <2> QED BY <2>2, <2>4, <2>6, Zenon DEF big
<1>2. CASE n # 0
  <2>1. /\ n \in Nat /\ n >= 2 /\ rb.head \in Nat /\ rb.tail \in Nat
        /\ rb.head < n /\ rb.tail < n
    BY <1>2, Zenon DEF Ring
  <2>12. rb.els \in [0 .. n - 1 -> A]
    BY Zenon DEF Ring
  <2>2. /\ big.nalloc = 2 * n
        /\ IF rb.head >= rb.tail THEN big.head = rb.head - rb.tail /\ big.tail = 0
           ELSE big.head = rb.head /\ big.tail = rb.tail + n
    BY <1>2, Zenon DEF RingGrown
  <2>3. ASSUME NEW j \in 0 .. 2 * n - 1
        PROVE  big.els[j] =
                 IF rb.head >= rb.tail
                 THEN IF j <= rb.head - rb.tail THEN rb.els[rb.tail + j] ELSE None
                 ELSE IF j <= rb.head THEN rb.els[j]
                 ELSE IF j >= n + rb.tail THEN rb.els[j - n] ELSE None
    BY <1>2, Zenon DEF RingGrown
  <2>4. big.els \in [0 .. 2 * n - 1 -> A]
    <3>1. CASE rb.head >= rb.tail
      <4>1. big.els = [j \in 0 .. 2 * n - 1 |->
                         IF j <= rb.head - rb.tail THEN rb.els[rb.tail + j] ELSE None]
        BY <1>2, <3>1, Zenon DEF RingGrown
      <4>2. ASSUME NEW j \in 0 .. 2 * n - 1, j <= rb.head - rb.tail
            PROVE  rb.els[rb.tail + j] \in A
        <5>1. rb.tail + j \in Nat /\ rb.tail + j <= rb.head
          BY <4>2, <3>1, <2>1
        <5>2. rb.tail + j \in 0 .. n - 1
          BY <5>1, <2>1
        <5> QED BY <5>2, <2>12, Zenon
      <4> QED BY <4>1, <4>2, Zenon
    <3>2. CASE ~(rb.head >= rb.tail)
      <4>1. big.els = [j \in 0 .. 2 * n - 1 |->
                         IF j <= rb.head THEN rb.els[j]
                         ELSE IF j >= n + rb.tail THEN rb.els[j - n] ELSE None]
        BY <1>2, <3>2, Zenon DEF RingGrown
      <4>2. ASSUME NEW j \in 0 .. 2 * n - 1, j <= rb.head
            PROVE  rb.els[j] \in A
        <5>1. j \in 0 .. n - 1
          BY <4>2, <2>1
        <5> QED BY <5>1, <2>12, Zenon
      <4>3. ASSUME NEW j \in 0 .. 2 * n - 1, j >= n + rb.tail
            PROVE  rb.els[j - n] \in A
        <5>1. j - n \in 0 .. n - 1
          BY <4>3, <2>1
        <5> QED BY <5>1, <2>12, Zenon
      <4> QED BY <4>1, <4>2, <4>3, Zenon
    <3> QED BY <3>1, <3>2, Zenon
  <2>5. big \in [nalloc : Nat, head : Nat, tail : Nat, els : [0 .. 2 * n - 1 -> A]]
    <3>1. CASE rb.head >= rb.tail
      <4>1. rb.head - rb.tail \in Nat /\ 2 * n \in Nat
        BY <3>1, <2>1
      <4> QED BY <4>1, <3>1, <2>4, <1>2, Zenon DEF RingGrown
    <3>2. CASE ~(rb.head >= rb.tail)
      <4>1. rb.tail + n \in Nat /\ 2 * n \in Nat
        BY <2>1
      <4> QED BY <4>1, <3>2, <2>1, <2>4, <1>2, Zenon DEF RingGrown
    <3> QED BY <3>1, <3>2, Zenon
  <2> HIDE DEF big
  <2>6. big \in Ring(A)
    <3>1. 2 * n \in Nat
      BY <2>1
    <3>2. big.els \in UNION { [0 .. m - 1 -> A] : m \in Nat }
      <4> DEFINE m == 2 * n
      <4>1. m \in Nat /\ big.els \in [0 .. m - 1 -> A]
        BY <3>1, <2>4, Zenon
      <4> HIDE DEF m
      <4> QED BY <4>1, Zenon
    <3> QED BY <3>2, <2>1, <2>2, <2>4, <2>5, SMTT(30) DEF Ring
  <2>7. ~RingFull(big)
    <3>1. /\ big.head + 1 \in Nat /\ 2 * n \in Nat /\ big.head + 1 < 2 * n
          /\ big.head + 1 # big.tail /\ 2 * n # 0
      <4>1. CASE rb.head >= rb.tail
        <5>1. big.head = rb.head - rb.tail /\ big.tail = 0
          BY <4>1, <2>2, Zenon
        <5>2. rb.head - rb.tail \in Nat /\ rb.head - rb.tail < n
          BY <4>1, <2>1
        <5> QED BY <5>1, <5>2, <2>1
      <4>2. CASE ~(rb.head >= rb.tail)
        <5>1. big.head = rb.head /\ big.tail = rb.tail + n
          BY <4>2, <2>2, Zenon
        <5> QED BY <5>1, <4>2, <2>1
      <4> QED BY <4>1, <4>2, Zenon
    <3>2. (big.head + 1) % (2 * n) = big.head + 1
      BY <3>1, ModInside, Zenon
    <3> QED BY <3>1, <3>2, <2>2, Zenon DEF RingFull
  <2>8. RingCount(big) = RingCount(rb)
    BY <2>1, <2>2 DEF RingCount
  <2>9. ASSUME NEW i \in 1 .. RingCount(rb)
        PROVE  big.els[Slot(big, i)] = rb.els[Slot(rb, i)]
    <3>1. i \in Nat /\ i >= 1
      BY RingCountBound
    <3>2. CASE rb.head >= rb.tail
      <4>1. i <= rb.head - rb.tail
        BY <3>2, <2>1 DEF RingCount
      <4>2. Slot(big, i) = i - 1 /\ Slot(rb, i) = rb.tail + i - 1
        BY <4>1, <3>1, <3>2, <2>1, <2>2 DEF Slot
      <4>3. i - 1 \in 0 .. 2 * n - 1 /\ i - 1 <= rb.head - rb.tail
              /\ rb.tail + (i - 1) = rb.tail + i - 1
        BY <4>1, <3>1, <2>1
      <4> QED BY <4>2, <4>3, <3>2, <2>3, Zenon
    <3>3. CASE ~(rb.head >= rb.tail)
      <4>1. i <= n - (rb.tail - rb.head)
        BY <3>3, <2>1 DEF RingCount
      <4>2. CASE rb.tail + i <= n
        <5>1. Slot(big, i) = rb.tail + n + i - 1 /\ Slot(rb, i) = rb.tail + i - 1
          BY <4>2, <3>1, <3>3, <2>1, <2>2 DEF Slot
        <5> DEFINE j == rb.tail + n + i - 1
        <5>2. j \in 0 .. 2 * n - 1
          BY <4>2, <3>1, <2>1
        <5>3. big.els[j] = IF j <= rb.head THEN rb.els[j]
                           ELSE IF j >= n + rb.tail THEN rb.els[j - n] ELSE None
          BY <5>2, <3>3, <2>3, Zenon
        <5>4. big.els[j] = rb.els[rb.tail + i - 1]
          <6>1. ~(j <= rb.head) /\ j >= n + rb.tail
            BY <3>1, <2>1
          <6>2. j - n = rb.tail + i - 1
            BY <3>1, <2>1
          <6> HIDE DEF j
          <6> QED BY <6>1, <6>2, <5>3, Zenon
        <5> QED BY <5>1, <5>4, Zenon
      <4>3. CASE ~(rb.tail + i <= n)
        <5>1. Slot(big, i) = rb.tail + i - 1 - n /\ Slot(rb, i) = rb.tail + i - 1 - n
          BY <4>3, <3>1, <3>3, <2>1, <2>2 DEF Slot
        <5>2. rb.tail + i - 1 - n \in 0 .. 2 * n - 1 /\ rb.tail + i - 1 - n <= rb.head
          <6>1. rb.tail + i <= n + rb.head
            BY <4>1, <3>1, <2>1
          <6>2. rb.tail + i - 1 - n <= rb.head /\ rb.tail + i - 1 - n >= 0
            BY <6>1, <4>3, <3>1, <2>1
          <6> QED BY <6>2, <3>1, <2>1
        <5> QED BY <5>1, <5>2, <3>3, <2>3
      <4> QED BY <4>2, <4>3, Zenon
    <3> QED BY <3>2, <3>3, Zenon
  <2>10. RingSeq(big) = RingSeq(rb)
    BY <2>6, <2>8, <2>9, RingSeqAt, EqualSeqs
  <2> QED BY <2>6, <2>7, <2>10, Zenon DEF big
<1> QED BY <1>1, <1>2, Zenon
-----------------------------------------------------------------------------
\* ringbuf_add appends: whether or not it had to make a larger array, and whatever
\* the place of head and tail in the old one, the ring then iterates over what it
\* held before, followed by the new element.
THEOREM RingAddAppends ==
    ASSUME NEW A, None \in A, NEW rb \in Ring(A), NEW el \in A
    PROVE  /\ RingAdd(rb, el) \in Ring(A)
           /\ RingSeq(RingAdd(rb, el)) = Append(RingSeq(rb), el)
<1>1. CASE RingFull(rb)
  <2>1. RingAdd(rb, el) = RingPut(RingGrown(rb), el)
    BY <1>1, Zenon DEF RingAdd
  <2> QED BY <2>1, GrownKeeps, AddToRoom
<1>2. CASE ~RingFull(rb)
  <2>1. RingAdd(rb, el) = RingPut(rb, el)
    BY <1>2, Zenon DEF RingAdd
  <2> QED BY <1>2, <2>1, AddToRoom, Zenon
<1> QED BY <1>1, <1>2, Zenon

\* ringbuf_get_head: an offset from 1 to the count is the element that far from the
\* end of what the ring iterates over, so a relative index of an instruction names the
\* entry that many insertions back, wherever the array wraps.
THEOREM RingGetHeadFromLast ==
    ASSUME NEW A, NEW rb \in Ring(A), NEW off \in 1 .. RingCount(rb)
    PROVE  RingGetHead(rb, off) = RingSeq(rb)[Len(RingSeq(rb)) + 1 - off]
<1> DEFINE n == rb.nalloc
           i == RingCount(rb) + 1 - off
           x == n + rb.head - off
<1>1. RingCount(rb) \in Nat /\ off \in Nat /\ off >= 1 /\ off <= RingCount(rb)
  BY RingCountBound
<1>2. n # 0 /\ RingCount(rb) < n
  BY <1>1, RingCountBound
<1>3. /\ n \in Nat /\ rb.head \in Nat /\ rb.tail \in Nat
      /\ rb.head < n /\ rb.tail < n
  BY <1>2, Zenon DEF Ring
<1>4. i \in 1 .. RingCount(rb)
  BY <1>1
<1>5. RingSeq(rb)[Len(RingSeq(rb)) + 1 - off] = rb.els[Slot(rb, i)]
  BY <1>4, RingSeqAt, Zenon
<1>6. x \in Nat /\ x < 2 * n
  BY <1>1, <1>2, <1>3
<1>7. RingCount(rb) = IF rb.head >= rb.tail THEN rb.head - rb.tail
                      ELSE n - (rb.tail - rb.head)
  BY Zenon DEF RingCount
<1>8. Slot(rb, i) = IF x < n THEN x ELSE x - n
  <2>1. CASE rb.head >= rb.tail
    <3>1. i = rb.head - rb.tail + 1 - off /\ off <= rb.head
      BY <2>1, <1>1, <1>3, <1>7
    <3>2. rb.tail + i = rb.head + 1 - off
      BY <3>1, <1>1, <1>3
    <3> QED BY <3>1, <3>2, <1>1, <1>3 DEF Slot
  <2>2. CASE ~(rb.head >= rb.tail)
    <3>1. i = n - (rb.tail - rb.head) + 1 - off
      BY <2>2, <1>1, <1>3, <1>7, Zenon
    <3>2. rb.tail + i = n + rb.head + 1 - off
      BY <3>1, <1>1, <1>3
    <3> QED BY <3>1, <3>2, <1>1, <1>3 DEF Slot
  <2> QED BY <2>1, <2>2, Zenon
<1>9. x % n = IF x < n THEN x ELSE x - n
  <2>1. CASE x < n
    BY <2>1, <1>3, <1>6, ModInside, Zenon
  <2>2. CASE ~(x < n)
    <3>1. n <= x
      BY <2>2, <1>3, <1>6
    <3>2. x % n = x - n
      BY <3>1, <1>3, <1>6, ModOnce, Zenon
    <3> QED BY <2>2, <3>2, Zenon
  <2> QED BY <2>1, <2>2, Zenon
<1> QED BY <1>5, <1>8, <1>9, Zenon DEF RingGetHead

\* ringbuf_advance_tail, called k times, takes the k oldest elements out and leaves
\* the others as they are: eviction is first in, first out.
THEOREM RingAdvancedDrops ==
    ASSUME NEW A, NEW rb \in Ring(A), NEW k \in 0 .. RingCount(rb)
    PROVE  /\ RingAdvanced(rb, k) \in Ring(A)
           /\ RingSeq(RingAdvanced(rb, k)) =
                SubSeq(RingSeq(rb), k + 1, Len(RingSeq(rb)))
<1> DEFINE n == rb.nalloc
           new == RingAdvanced(rb, k)
           cnt == RingCount(rb)
<1>1. cnt \in Nat /\ k \in Nat /\ k <= cnt
  BY RingCountBound
<1>2. CASE k = 0
  BY <1>1, <1>2, RingSeqAt DEF RingAdvanced
<1>3. CASE k # 0
  <2>1. n # 0 /\ cnt < n
    BY <1>1, <1>3, RingCountBound
  <2>2. /\ n \in Nat /\ n >= 2 /\ rb.head \in Nat /\ rb.tail \in Nat
        /\ rb.head < n /\ rb.tail < n /\ rb.els \in [0 .. n - 1 -> A]
    BY <2>1, Zenon DEF Ring
  <2>3. rb.tail + k \in Nat /\ rb.tail + k < 2 * n
    BY <1>1, <2>1, <2>2
  <2>4. (rb.tail + k) % n = IF rb.tail + k < n THEN rb.tail + k ELSE rb.tail + k - n
    <3>1. CASE rb.tail + k < n
      <4>1. (rb.tail + k) % n = rb.tail + k
        BY <3>1, <2>2, <2>3, ModInside, Zenon
      <4> QED BY <4>1, <3>1, Zenon
    <3>2. CASE ~(rb.tail + k < n)
      <4>1. n <= rb.tail + k
        BY <3>2, <2>2, <2>3
      <4>2. (rb.tail + k) % n = rb.tail + k - n
        BY <4>1, <2>2, <2>3, ModOnce, SMTT(30)
      <4> QED BY <4>2, <3>2, Zenon
    <3> QED BY <3>1, <3>2, Zenon
  <2>5. /\ new.nalloc = n /\ new.head = rb.head /\ new.els = rb.els
        /\ new.tail = IF rb.tail + k < n THEN rb.tail + k ELSE rb.tail + k - n
    BY <1>3, <2>4, Zenon DEF RingAdvanced
  <2>6. new.tail \in Nat /\ new.tail < n
    BY <2>2, <2>3, <2>5, SMTT(30)
  <2>7. new \in Ring(A)
    <3>1. new = [nalloc |-> n, head |-> rb.head, tail |-> new.tail, els |-> rb.els]
      BY <1>3, Zenon DEF RingAdvanced
    <3> HIDE DEF new
    <3>2. rb.els \in UNION { [0 .. m - 1 -> A] : m \in Nat }
      BY <2>2, Zenon
    <3>3. new \in [nalloc : Nat, head : Nat, tail : Nat,
                   els : UNION { [0 .. m - 1 -> A] : m \in Nat }]
      BY <3>1, <3>2, <2>2, <2>6
    <3> QED BY <3>3, <2>2, <2>5, <2>6, SMTT(30) DEF Ring
  <2> HIDE DEF new
  <2>8. RingCount(new) = cnt - k
    <3>1. RingCount(new) = IF rb.head >= new.tail THEN rb.head - new.tail
                           ELSE n - (new.tail - rb.head)
      BY <2>5, Zenon DEF RingCount
    <3>2. cnt = IF rb.head >= rb.tail THEN rb.head - rb.tail
                ELSE n - (rb.tail - rb.head)
      BY Zenon DEF RingCount
    <3> HIDE DEF cnt
    <3>3. CASE rb.tail + k < n
      <4>1. new.tail = rb.tail + k
        BY <3>3, <2>5, Zenon
      <4>2. CASE rb.head >= rb.tail
        <5>1. cnt = rb.head - rb.tail /\ rb.head >= new.tail
          BY <4>1, <4>2, <3>2, <1>1, <2>2
        <5> QED BY <5>1, <4>1, <3>1, <1>1, <2>2, SMTT(30)
      <4>3. CASE ~(rb.head >= rb.tail)
        <5>1. cnt = n - (rb.tail - rb.head) /\ ~(rb.head >= new.tail)
          BY <4>1, <4>3, <3>2, <1>1, <2>2
        <5> QED BY <5>1, <4>1, <3>1, <1>1, <2>2, SMTT(30)
      <4> QED BY <4>2, <4>3, Zenon
    <3>4. CASE ~(rb.tail + k < n)
      <4>1. new.tail = rb.tail + k - n
        BY <3>4, <2>5, Zenon
      <4>2. ~(rb.head >= rb.tail)
        BY <3>2, <3>4, <1>1, <2>2
      <4>3. cnt = n - (rb.tail - rb.head) /\ rb.head >= new.tail
        BY <4>1, <4>2, <3>2, <1>1, <2>2, SMTT(30)
      <4> QED BY <4>1, <4>3, <3>1, <1>1, <2>2, SMTT(30)
    <3> QED BY <3>3, <3>4, Zenon
  <2>9. ASSUME NEW j \in 1 .. cnt - k
        PROVE  Slot(new, j) = Slot(rb, j + k)
    <3> HIDE DEF cnt
    <3>1. j \in Nat /\ j >= 1 /\ j + k <= cnt
      BY <1>1
    <3>2. CASE rb.tail + k < n
      BY <3>1, <3>2, <1>1, <2>1, <2>2, <2>5, SMTT(30) DEF Slot
    <3>3. CASE ~(rb.tail + k < n)
      <4>1. new.tail = rb.tail + k - n /\ new.nalloc = n
        BY <3>3, <2>5, Zenon
      <4>2. new.tail + j <= n /\ ~(rb.tail + (j + k) <= n)
        BY <4>1, <3>1, <3>3, <1>1, <2>1, <2>2, SMTT(30)
      <4> QED BY <4>1, <4>2, <3>1, <1>1, <2>2, SMTT(30) DEF Slot
    <3> QED BY <3>2, <3>3, Zenon
  <2> DEFINE rest == SubSeq(RingSeq(rb), k + 1, Len(RingSeq(rb)))
  <2>10. /\ RingSeq(rb) \in Seq(A) /\ Len(RingSeq(rb)) = cnt
         /\ RingSeq(new) \in Seq(A) /\ Len(RingSeq(new)) = cnt - k
    BY <2>7, <2>8, RingSeqAt, Zenon
  <2>11. rest \in Seq(A) /\ Len(rest) = cnt - k
    BY <2>10, <1>1
  <2>12. ASSUME NEW j \in 1 .. cnt - k
         PROVE  RingSeq(new)[j] = rest[j]
    <3>1. j + k \in 1 .. cnt
      BY <1>1
    <3>2. RingSeq(new)[j] = new.els[Slot(new, j)]
      BY <2>7, <2>8, RingSeqAt, Zenon
    <3>3. RingSeq(rb)[j + k] = rb.els[Slot(rb, j + k)]
      BY <3>1, RingSeqAt, Zenon
    <3>4. rest[j] = RingSeq(rb)[j + k]
      BY <3>1, <2>10, <1>1
    <3> QED BY <3>2, <3>3, <3>4, <2>5, <2>9, Zenon
  <2> HIDE DEF rest
  <2>13. RingSeq(new) = rest
    BY <2>10, <2>11, <2>12, EqualSeqs, Zenon
  <2> QED BY <2>7, <2>13, Zenon DEF new, rest
<1> QED BY <1>2, <1>3, Zenon
=============================================================================
