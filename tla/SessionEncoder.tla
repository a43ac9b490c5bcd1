--------------------------- MODULE SessionEncoder ---------------------------
(***************************************************************************)
(* What the inductive invariant of Session, SInv, says of wrapped IDs, of  *)
(* the two tables and of what is in flight; the encoder's instructions and *)
(* header blocks keep it.                                                  *)
(***************************************************************************)
EXTENDS Session, LibraryFacts, TLAPS

-----------------------------------------------------------------------------
(***************************************************************************)
(* IDs that wrap around.                                                   *)
(***************************************************************************)

M == 2 * MaxEntries

\* The modulus of the IDs.
LEMMA MType == M \in Nat /\ M >= 2 /\ M = MaxEntries + MaxEntries /\ MaxEntries \in Nat \ {0}
BY DecoderAssumption DEF M

\* A remainder is below the modulus.
LEMMA ModRange ==
    ASSUME Facts, NEW x \in Int
    PROVE  x % M \in 0 .. M - 1
BY MType DEF Facts, DivisionFact

\* The ID of an entry is below the modulus; IDs move along with the entries.
LEMMA IdShift ==
    ASSUME Facts, NEW a \in Int, NEW d \in Int
    PROVE  /\ IdOf(a) \in 0 .. M - 1
           /\ IdMinus(IdOf(a), d) = IdOf(a - d)
           /\ IdPlus(IdOf(a), d) = IdOf(a + d)
<1> DEFINE x == a + M - 1
<1>1. IdOf(a) = x % M /\ x \in Int /\ M \in Nat \ {0}
  BY MType DEF IdOf, M
<1>2. IdOf(a) \in 0 .. M - 1
  BY <1>1, Zenon DEF Facts, DivisionFact
<1>3. IdPlus(IdOf(a), d) = IdOf(a + d)
  <2>1. ((x % M) + d) % M = (x + d) % M
    BY <1>1, Zenon DEF Facts, SumModFact
  <2>2. x + d = (a + d) + M - 1
    BY <1>1
  <2> QED BY <1>1, <2>1, <2>2, Zenon DEF IdPlus, IdOf, M
<1>4. IdMinus(IdOf(a), d) = IdOf(a - d)
  <2>1. M - d \in Int
    BY <1>1
  <2>2. ((x % M) + (M - d)) % M = (x + (M - d)) % M
    BY <1>1, <2>1, Zenon DEF Facts, SumModFact
  <2>3. x + (M - d) = (x - d) + M
    BY <1>1
  <2>4. (M % M) = 0 /\ ((x - d) + M) % M = (x - d) % M
    <3>1. (M + (x - d)) % M = ((M % M) + (x - d)) % M
      <4> DEFINE z == x - d
      <4>1. z \in Int /\ M \in Int
        BY <1>1
      <4> HIDE DEF z
      <4>2. ((M % M) + z) % M = (M + z) % M
        BY <1>1, <4>1, Zenon DEF Facts, SumModFact
      <4> QED BY <4>2, Zenon DEF z
    <3>2. M % M = 0
      <4>1. M \in M .. 2 * M - 1 /\ M \in Nat \ {0} /\ M \in Int
        BY MType
      <4>2. M % M = M - M
        BY <4>1, Zenon DEF Facts, NearModFact
      <4> QED BY <4>1, <4>2
    <3> QED BY <1>1, <3>1, <3>2
  <2>5. (x % M) + (M - d) = (x % M) + M - d
    BY <1>1, <1>2, Zenon
  <2>6. x - d = (a - d) + M - 1
    BY <1>1
  <2>7. IdMinus(IdOf(a), d) = ((x % M) + M - d) % M
    BY <1>1, Zenon DEF IdMinus, M
  <2>8. IdOf(a - d) = (x - d) % M
    BY <2>6, Zenon DEF IdOf, M
  <2> QED BY <2>2, <2>3, <2>4, <2>5, <2>7, <2>8, Zenon
<1> QED BY <1>2, <1>3, <1>4, Zenon

\* The distance of two IDs is that of the entries.
LEMMA IdDistance ==
    ASSUME Facts, NEW a \in Int, NEW b \in Int
    PROVE  /\ a - b \in 0 .. M - 1 => IdMinus(IdOf(a), IdOf(b)) = a - b
           /\ a - b \in 1 - M .. -1 => IdMinus(IdOf(a), IdOf(b)) = a - b + M
<1> DEFINE y == b + M - 1
<1>1. IdOf(b) = y % M /\ y \in Int /\ M \in Nat \ {0} /\ IdOf(b) \in Int
  BY MType, IdShift DEF IdOf, M
<1>2. IdMinus(IdOf(a), IdOf(b)) = IdOf(a - IdOf(b))
  BY <1>1, IdShift, Zenon
<1>3. IdOf(a - IdOf(b)) = ((a + M - 1) - (y % M)) % M
  <2>1. (a - (y % M)) + M - 1 = (a + M - 1) - (y % M)
    BY <1>1
  <2> QED BY <1>1, <2>1, Zenon DEF IdOf, M
<1>4. ((a + M - 1) - (y % M)) % M = ((a + M - 1) - y) % M
  BY <1>1, a + M - 1 \in Int, Zenon DEF Facts, DifferenceModFact
<1>5. (a + M - 1) - y = a - b
  BY <1>1
<1>6. IdMinus(IdOf(a), IdOf(b)) = (a - b) % M
  BY <1>2, <1>3, <1>4, <1>5, Zenon
<1>7. a - b \in Int
  OBVIOUS
<1>8. a - b \in 0 .. M - 1 => (a - b) % M = a - b
  BY <1>1, <1>7, Zenon DEF Facts, NearModFact
<1>9. a - b \in -M .. -1 => (a - b) % M = (a - b) + M
  BY <1>1, <1>7, Zenon DEF Facts, NearModFact
<1>10. a - b \in 1 - M .. -1 => a - b \in -M .. -1
  BY <1>1, <1>7
<1> QED BY <1>6, <1>8, <1>9, <1>10, Zenon

\* The Required Insert Count gives back the ID of the newest entry referred to.
LEMMA LargestRefIs ==
    ASSUME Facts, NEW w, NEW n \in Nat, w.ric = (n % M) + 1
    PROVE  LargestRef(w) = IdOf(n)
<1>1. n % M \in 0 .. M - 1 /\ M \in Nat \ {0}
  BY MType DEF Facts, DivisionFact
<1>2. LargestRef(w) = ((n % M) + (M - 1)) % M
  <2>1. (n % M) + 1 + M - 2 = (n % M) + (M - 1)
    BY <1>1
  <2> QED BY <2>1, Zenon DEF LargestRef, IdMinus, M
<1>3. ((n % M) + (M - 1)) % M = (n + (M - 1)) % M
  <2> DEFINE z == M - 1
  <2>1. z \in Int /\ n \in Int
    BY <1>1
  <2> HIDE DEF z
  <2>2. ((n % M) + z) % M = (n + z) % M
    BY <1>1, <2>1, Zenon DEF Facts, SumModFact
  <2> QED BY <2>2, Zenon DEF z
<1>4. n + (M - 1) = n + M - 1
  BY <1>1, Zenon
<1> QED BY <1>2, <1>3, <1>4, Zenon DEF IdOf, M

-----------------------------------------------------------------------------
(***************************************************************************)
(* Counting.                                                               *)
(***************************************************************************)

\* Positions of a sequence can be counted.
LEMMA CountType ==
    ASSUME Facts, NEW n \in Nat, NEW S \in SUBSET (1 .. n)
    PROVE  IsFiniteSet(S) /\ Cardinality(S) \in Nat
<1>1. IsFiniteSet(1 .. n)
  BY DEF Facts, IntervalFact
<1>2. IsFiniteSet(S)
  BY <1>1, Zenon DEF Facts, SubsetFact
<1> QED BY <1>2, Zenon DEF Facts, SizeFact

\* One more position at the end counts one more.
LEMMA CountAppend ==
    ASSUME Facts, NEW n \in Nat, NEW S \in SUBSET (1 .. n)
    PROVE  Cardinality(S \cup {n + 1}) = Cardinality(S) + 1
<1>1. n + 1 \notin S
  OBVIOUS
<1> QED BY <1>1, CountType, Zenon DEF Facts, AddFact

\* A position at the front that goes counts one less.
LEMMA CountTail ==
    ASSUME Facts, NEW n \in Nat, NEW S \in SUBSET (1 .. n),
           NEW T, T = { j \in 1 .. n - 1 : j + 1 \in S }
    PROVE  Cardinality(T) = Cardinality(S) - (IF 1 \in S THEN 1 ELSE 0)
<1> DEFINE f == [j \in T |-> j + 1]
           R == S \ {1}
<1>1. IsFiniteSet(T) /\ IsFiniteSet(S)
  <2>1. T \in SUBSET (1 .. n)
    OBVIOUS
  <2> QED BY <2>1, CountType, Zenon
<1>2. Cardinality(R) = Cardinality(T)
  <2>1. f \in [T -> R]
    OBVIOUS
  <2>2. \A x, y \in T : f[x] = f[y] => x = y
    OBVIOUS
  <2>3. \A z \in R : \E x \in T : f[x] = z
    <3>1. TAKE z \in R
    <3>2. z - 1 \in T /\ f[z - 1] = z
      OBVIOUS
    <3> QED BY <3>2, Zenon
  <2> HIDE DEF f, R
  <2> QED BY <1>1, <2>1, <2>2, <2>3 DEF Facts, BijectionFact
<1>3. Cardinality(R) = IF 1 \in S THEN Cardinality(S) - 1 ELSE Cardinality(S)
  BY <1>1, Zenon DEF Facts, RemoveFact
<1>4. Cardinality(S) \in Nat
  BY CountType, Zenon
<1> QED BY <1>2, <1>3, <1>4

\* Positions counted up to one that counts are at least one.
LEMMA CountOne ==
    ASSUME Facts, NEW n \in Nat, NEW S \in SUBSET (1 .. n), NEW x \in S
    PROVE  Cardinality(S) >= 1
<1>1. IsFiniteSet(S) /\ Cardinality(S) \in Nat
  BY CountType, Zenon
<1>2. Cardinality(S) # 0
  BY <1>1, Zenon DEF Facts, EmptyFact
<1> QED BY <1>1, <1>2

-----------------------------------------------------------------------------
(***************************************************************************)
(* What the invariant says of the two tables.                              *)
(***************************************************************************)

\* An element of a sequence.
LEMMA SeqElem ==
    ASSUME NEW S, NEW s \in Seq(S), NEW k \in DOMAIN s
    PROVE  s[k] \in S
OBVIOUS

\* How the counts and the oldest entries of the two ends compare.
LEMMA Bounds ==
    ASSUME Facts, SInv
    PROVE  /\ received \in Nat /\ peer.ins \in Nat /\ peer.acked \in Nat
           /\ Oldest \in Nat \ {0} /\ DecOldest \in Nat \ {0} /\ Known \in Nat
           /\ DecOldest <= Oldest /\ Oldest <= peer.acked + 1
           /\ peer.acked <= Known /\ Known <= received /\ received <= peer.ins
           /\ peer.ins < Oldest + MaxEntries
           /\ largest_known_id = IdOf(Known)
           /\ Live = Oldest .. peer.ins
\* qpd_largest_known_id is the ID of the newest entry that was reported.
<1>KnownIs. ASSUME received \in Nat, last_id = IdOf(received), largest_known_id \in 0 .. M - 1
            PROVE  /\ Known \in Int
                   /\ received - Known \in 0 .. M - 1
                   /\ largest_known_id = IdOf(Known)
  <2> USE <1>KnownIs
  <2> DEFINE q == last_id
             g == largest_known_id
             d == IdMinus(q, g)
             x == q + M - g
  <2>1. q \in 0 .. M - 1 /\ g \in 0 .. M - 1 /\ M \in Nat \ {0} /\ x \in Int
    BY IdShift, MType, SMTT(30)
  <2>2. d = x % M /\ d \in 0 .. M - 1
    BY <2>1, Zenon DEF Facts, DivisionFact, IdMinus, M
  <2>3. Known = received - d
    BY Zenon DEF Known
  <2> HIDE DEF d, x
  <2>4. IdOf(Known) = ((q + M) - (x % M)) % M
    <3>1. IdOf(received - d) = IdMinus(q, d)
      BY <2>2, IdShift
    <3>2. IdMinus(q, d) = (q + M - d) % M
      BY Zenon DEF IdMinus, M
    <3>3. IdOf(Known) = IdOf(received - d)
      BY <2>3, Zenon
    <3>4. d = x % M
      BY <2>2, Zenon
    <3>5. (q + M - d) % M = ((q + M) - (x % M)) % M
      <4>1. PICK y : y = x % M
        BY Zenon
      <4> QED BY <2>1, <2>2, <3>4, <4>1
    <3> QED BY <3>1, <3>2, <3>3, <3>5, Zenon
  <2>5. ((q + M) - (x % M)) % M = ((q + M) - x) % M
    <3> DEFINE a == q + M
    <3>1. a \in Int
      BY <2>1
    <3> HIDE DEF a
    <3>2. (a - (x % M)) % M = (a - x) % M
      BY <2>1, <3>1, Zenon DEF Facts, DifferenceModFact
    <3> QED BY <3>2, Zenon DEF a
  <2>6. (q + M) - x = g
    BY <2>1 DEF x
  <2>7. g % M = g
    BY <2>1 DEF Facts, NearModFact
  <2> QED BY <2>1, <2>2, <2>3, <2>4, <2>5, <2>6, <2>7
<1>1. EncoderInv /\ DecoderInv /\ StreamInv
  BY Zenon DEF SInv
<1>2. /\ received \in Nat /\ peer.ins \in Nat /\ peer.acked \in Nat
      /\ Oldest \in Nat \ {0} /\ Oldest <= peer.acked + 1
      /\ peer.cap \in 0 .. MaxEntries /\ peer.ins - Oldest < peer.cap
      /\ Live = Oldest .. peer.ins
  BY <1>1 DEF EncoderInv, DecoderInv, Live
<1>3. Len(dyn_table) \in Nat /\ Len(dyn_table) <= received /\ peer.acked <= Known
  BY <1>1 DEF DecoderInv
<1>4. DecOldest \in Nat \ {0}
  BY <1>2, <1>3 DEF DecOldest
<1>5. Known \in Int /\ Known <= received /\ largest_known_id = IdOf(Known)
  BY <1>1, <1>KnownIs, MType DEF DecoderInv, M
<1>6. DecOldest <= Oldest /\ received <= peer.ins
  <2>1. CASE 1 \in DOMAIN enc_stream
    <3>1. /\ enc_stream[1].at = DecNow
          /\ \A r \in 1 .. Len(enc_stream) + 1 :
                /\ enc_stream[1].at.ins <= StateAt(r).ins
                /\ enc_stream[1].at.low <= StateAt(r).low
      BY <1>1, <2>1, Zenon DEF StreamInv, StateAt
    <3>2. Len(enc_stream) + 1 \in 1 .. Len(enc_stream) + 1
          /\ Len(enc_stream) + 1 \notin DOMAIN enc_stream
      BY <1>1 DEF StreamInv
    <3>3. StateAt(Len(enc_stream) + 1) = Now
      BY <3>2, Zenon DEF StateAt
    <3>4. DecNow.ins <= Now.ins /\ DecNow.low <= Now.low
      BY <3>1, <3>2, <3>3, Zenon
    <3> QED BY <3>4, Zenon DEF DecNow, Now
  <2>2. CASE 1 \notin DOMAIN enc_stream
    <3>1. DecNow = Now
      BY <1>1, <2>2, Zenon DEF StreamInv, StateAt
    <3> QED BY <1>2, <1>4, <3>1 DEF DecNow, Now
  <2> QED BY <2>1, <2>2, Zenon
<1> QED BY <1>2, <1>3, <1>4, <1>5, <1>6, MType, SMTT(30)

\* A block in transit refers to entries the encoder holds.
NeedsLive(w) ==
    /\ w \in Wires /\ WireOk(w) /\ WireHeld(w)
    /\ w.needs # 0 => w.needs \in Oldest .. peer.ins
    /\ \A n \in DOMAIN w.ids : w.ids[n] # 0 => w.needs # 0 /\ w.ids[n] \in Oldest .. w.needs

\* The positions of acknowledgements, and of blocks that refer to entries.
LEMMA PositionSets ==
    ASSUME Facts, SInv, NEW b \in Hblocks
    PROVE  /\ Len(dec_stream) \in Nat /\ AcksOf(b) \subseteq 1 .. Len(dec_stream)
           /\ Len(transit[b]) \in Nat /\ DOMAIN transit[b] = 1 .. Len(transit[b])
           /\ Len(outstanding[b]) \in Nat /\ DOMAIN outstanding[b] = 1 .. Len(outstanding[b])
           /\ Cardinality(AcksOf(b)) \in Nat
           /\ \A i \in 0 .. Len(transit[b]) :
                 /\ RefBlocks(b, i) \subseteq 1 .. i
                 /\ Cardinality(RefBlocks(b, i)) \in Nat
                 /\ Cardinality(RefBlocks(b, i)) <= Cardinality(RefBlocks(b, Len(transit[b])))
\* More positions count more.
<1>CountMono. ASSUME NEW n \in Nat, NEW T \in SUBSET (1 .. n), NEW S \in SUBSET T
              PROVE  Cardinality(S) <= Cardinality(T)
  BY <1>CountMono, CountType, Zenon DEF Facts, SubsetFact
<1>1. /\ dec_stream \in Seq(Report) /\ transit \in [Hblocks -> Seq(Wires)]
      /\ outstanding \in [Hblocks -> Seq([min_id : Nat, max_id : Nat])]
  BY Zenon DEF SInv, ReportsInv, TransitInv, OutstandingInv
<1>2. /\ Len(dec_stream) \in Nat /\ DOMAIN dec_stream = 1 .. Len(dec_stream)
      /\ Len(transit[b]) \in Nat /\ DOMAIN transit[b] = 1 .. Len(transit[b])
      /\ Len(outstanding[b]) \in Nat /\ DOMAIN outstanding[b] = 1 .. Len(outstanding[b])
  BY <1>1
<1>3. AcksOf(b) \subseteq 1 .. Len(dec_stream)
  BY <1>2, Zenon DEF AcksOf
<1>4. Cardinality(AcksOf(b)) \in Nat
  BY <1>2, <1>3, CountType, Zenon
<1>5. ASSUME NEW i \in 0 .. Len(transit[b])
      PROVE  /\ RefBlocks(b, i) \subseteq 1 .. i
             /\ Cardinality(RefBlocks(b, i)) \in Nat
             /\ Cardinality(RefBlocks(b, i)) <= Cardinality(RefBlocks(b, Len(transit[b])))
  <2> DEFINE l == Len(transit[b])
             S == RefBlocks(b, i)
             T == RefBlocks(b, l)
  <2>1. S \subseteq 1 .. i /\ T \subseteq 1 .. l /\ S \subseteq T /\ i \in Nat /\ l \in Nat
    BY <1>2, <1>5 DEF RefBlocks
  <2> HIDE DEF S, T, l
  <2>2. Cardinality(S) \in Nat
    BY <2>1, CountType, Zenon
  <2>3. Cardinality(S) <= Cardinality(T)
    BY <2>1, <1>CountMono, Zenon
  <2> QED BY <2>1, <2>2, <2>3, Zenon DEF S, T, l
<1> QED BY <1>2, <1>3, <1>4, <1>5, Zenon

\* Which header info a block in transit has, and what it refers to.
LEMMA TransitFacts ==
    ASSUME Facts, SInv, NEW b \in Hblocks, NEW i \in DOMAIN transit[b]
    PROVE  LET w == transit[b][i]
               k == Cardinality(AcksOf(b)) + Cardinality(RefBlocks(b, i))
           IN  /\ b \notin closed
               /\ NeedsLive(w)
               /\ w.needs # 0 => /\ Cardinality(RefBlocks(b, i)) >= 1
                                 /\ k \in DOMAIN outstanding[b]
                                 /\ outstanding[b][k].max_id = w.needs
                                 /\ \A n \in RefsOf(w.ids) : outstanding[b][k].min_id <= n
<1> DEFINE w == transit[b][i]
           A == Cardinality(AcksOf(b))
           R == Cardinality(RefBlocks(b, i))
           k == A + R
<1>1. b \notin closed
  BY PositionSets DEF SInv, TransitInv
<1>2. CountOk(b) /\ BlockOk(w, Info(b, i)) /\ WireHeld(w)
  BY <1>1, Zenon DEF SInv, TransitInv
<1>3. w \in Wires
  BY PositionSets DEF SInv, TransitInv
<1>4. i \in 1 .. Len(transit[b]) /\ Len(transit[b]) \in Nat
  BY PositionSets, Zenon
<1>5. A \in Nat /\ R \in Nat /\ RefBlocks(b, i) \subseteq 1 .. i /\ i \in Nat
      /\ DOMAIN outstanding[b] = 1 .. Len(outstanding[b])
      /\ R <= Cardinality(RefBlocks(b, Len(transit[b])))
      /\ Cardinality(RefBlocks(b, Len(transit[b]))) \in Nat
  <2>1. i \in 0 .. Len(transit[b]) /\ Len(transit[b]) \in 0 .. Len(transit[b])
    BY <1>4
  <2> QED BY <1>4, <2>1, PositionSets
<1>6. ASSUME w.needs # 0
      PROVE  R >= 1 /\ k \in DOMAIN outstanding[b]
             /\ outstanding[b][k].max_id = w.needs
             /\ \A n \in RefsOf(w.ids) : outstanding[b][k].min_id <= n
  <2>1. i \in RefBlocks(b, i)
    BY <1>4, <1>6 DEF RefBlocks
  <2>2. R >= 1
    BY <1>5, <2>1, CountOne, Zenon
  <2>3. Len(outstanding[b]) = A + Cardinality(RefBlocks(b, Len(transit[b])))
    BY <1>2, Zenon DEF CountOk
  <2>4. k \in DOMAIN outstanding[b]
    BY <1>5, <2>2, <2>3
  <2>5. Info(b, i) = outstanding[b][k]
    BY Zenon DEF Info
  <2> QED BY <1>2, <1>6, <2>2, <2>4, <2>5, Zenon DEF BlockOk
<1>7. ASSUME w.needs # 0
      PROVE  w.needs \in Oldest .. peer.ins /\ \A n \in RefsOf(w.ids) : Oldest <= n
  <2>1. /\ Oldest <= outstanding[b][k].min_id
        /\ outstanding[b][k].min_id <= outstanding[b][k].max_id
        /\ outstanding[b][k].max_id <= peer.ins
    BY <1>6, <1>7, Zenon DEF SInv, OutstandingInv
  <2>2. outstanding[b] \in Seq([min_id : Nat, max_id : Nat])
    BY Zenon DEF SInv, OutstandingInv
  <2>3. /\ outstanding[b][k].min_id \in Nat /\ outstanding[b][k].max_id = w.needs
        /\ w.needs \in Nat /\ RefsOf(w.ids) \subseteq Nat
    <3>1. k \in DOMAIN outstanding[b] /\ outstanding[b][k].max_id = w.needs
      BY <1>6, <1>7, Zenon
    <3>2. outstanding[b][k] \in [min_id : Nat, max_id : Nat]
      <4> DEFINE s == outstanding[b]
      <4>1. s \in Seq([min_id : Nat, max_id : Nat]) /\ k \in DOMAIN s
        BY <2>2, <3>1, Zenon
      <4> HIDE DEF k, s
      <4>2. s[k] \in [min_id : Nat, max_id : Nat]
        BY <4>1, SeqElem, Zenon
      <4> QED BY <4>2, Zenon DEF s
    <3>3. w.needs \in Nat /\ w.ids \in Seq(Nat)
      BY <1>3, Zenon DEF Wires
    <3> HIDE DEF w, k
    <3>4. RefsOf(w.ids) \subseteq Nat
      BY <3>3 DEF RefsOf
    <3> QED BY <3>1, <3>2, <3>3, <3>4, Zenon
  <2>4. Oldest \in Nat /\ peer.ins \in Nat
    BY Bounds, Zenon
  <2> HIDE DEF w, k
  <2> QED BY <1>6, <1>7, <2>1, <2>3, <2>4
<1>8. ASSUME NEW n \in DOMAIN w.ids, w.ids[n] # 0
      PROVE  w.needs # 0 /\ w.ids[n] \in Oldest .. w.needs
  <2>1. w.ids[n] \in RefsOf(w.ids)
    BY <1>8, Zenon DEF RefsOf
  <2>2. w.needs # 0 /\ w.ids[n] <= w.needs
    <3>1. w.needs \in RefsOf(w.ids) /\ w.ids[n] <= w.needs
      BY <1>2, <2>1, Zenon DEF BlockOk, WireOk
    <3> QED BY <3>1, Zenon DEF RefsOf
  <2>3. Oldest <= w.ids[n] /\ Oldest \in Nat
    BY <1>7, <2>1, <2>2, Bounds, Zenon
  <2>4. w.ids[n] \in Nat /\ w.needs \in Nat
    BY <1>3, <1>8, SMTT(30) DEF Wires
  <2> QED BY <2>2, <2>3, <2>4
<1>9. NeedsLive(w)
  BY <1>2, <1>3, <1>7, <1>8, Zenon DEF NeedsLive, BlockOk
<1> QED BY <1>1, <1>6, <1>9, Zenon

-----------------------------------------------------------------------------
(***************************************************************************)
(* Parts of the invariant that a step leaves alone.                        *)
(***************************************************************************)

\* Reports, when neither they nor what they are about change.
LEMMA FrameReports ==
    ASSUME ReportsInv, UNCHANGED <<dec_stream, outstanding, closed>>,
           Known' = Known, peer'.last_ici = peer.last_ici
    PROVE  ReportsInv'
<1>1. Icis' = Icis /\ \A b : AcksOf(b)' = AcksOf(b) /\ CancelsOf(b)' = CancelsOf(b)
  BY Zenon DEF Icis, AcksOf, CancelsOf
<1>2. \A b \in Hblocks : AcksOk(b)'
  BY <1>1, Zenon DEF ReportsInv, AcksOk
<1>3. \A u : IcisOk(u) => IcisOk(u)'
  BY <1>1, Zenon DEF IcisOk
<1> QED BY <1>1, <1>2, <1>3, Zenon DEF ReportsInv

\* Blocks in transit, when what they refer to is still held.
LEMMA FrameTransit ==
    ASSUME Facts, SInv, UNCHANGED <<transit, closed, outstanding, dec_stream>>,
           \A k \in Nat : k >= Oldest => Held(k) \subseteq Held(k)'
    PROVE  TransitInv'
<1>1. \A b : /\ AcksOf(b)' = AcksOf(b)
             /\ \A i : RefBlocks(b, i)' = RefBlocks(b, i)
  BY Zenon DEF AcksOf, RefBlocks
<1>2. \A b, i : CountOk(b)' = CountOk(b) /\ Info(b, i)' = Info(b, i)
  BY <1>1, Zenon DEF CountOk, Info
<1>3. ASSUME NEW b \in Hblocks, NEW i \in DOMAIN transit[b]
      PROVE  WireHeld(transit[b][i])'
  <2>2. PICK w : w = transit[b][i]
    BY Zenon
  <2>1. NeedsLive(w)
    BY <2>2, TransitFacts, Zenon
  <2>3. ASSUME NEW n \in DOMAIN w.ids, w.ids[n] # 0 PROVE w.means[n] \in Held(w.ids[n])'
    <3>1. w.ids[n] \in Oldest .. w.needs /\ w.means[n] \in Held(w.ids[n])
      BY <2>1, <2>3, Zenon DEF NeedsLive, WireHeld
    <3>2. Oldest \in Nat /\ w.needs \in Nat
      BY <2>1, Bounds, Zenon DEF NeedsLive, Wires
    <3>3. w.ids[n] \in Nat /\ w.ids[n] >= Oldest
      BY <3>1, <3>2
    <3> QED BY <3>1, <3>3, Zenon
  <2>4. WireHeld(w)'
    BY <2>3, Zenon DEF WireHeld
  <2>5. transit'[b][i] = w
    BY <2>2, Zenon
  <2> QED BY <2>4, <2>5, Zenon
<1>4. TransitInv
  BY Zenon DEF SInv
<1> QED BY <1>2, <1>3, <1>4, Zenon DEF TransitInv

\* Contexts.
LEMMA FrameContexts ==
    ASSUME ContextsInv, UNCHANGED <<hbrcs, transit, n_blocked, received>>
    PROVE  ContextsInv'
BY Zenon DEF ContextsInv, BlockedExact

-----------------------------------------------------------------------------
(***************************************************************************)
(* The encoder sends a header block.                                       *)
(***************************************************************************)

\* Both tables and the instructions between them, when they do not change.
LEMMA FrameTables ==
    ASSUME SInv, UNCHANGED <<peer, contents, enc_stream, received, max_cap, dyn_table,
                             last_id, largest_known_id>>
    PROVE  /\ EncoderInv' /\ DecoderInv' /\ StreamInv' /\ ContentsInv'
           /\ Oldest' = Oldest /\ Known' = Known /\ \A k : Held(k)' = Held(k)
<1>1. Oldest' = Oldest /\ Known' = Known /\ DecOldest' = DecOldest /\ Live' = Live
      /\ Now' = Now /\ DecNow' = DecNow
  BY Zenon DEF Oldest, Known, DecOldest, Live, Now, DecNow
<1>2. \A k : Held(k)' = Held(k)
  BY <1>1, Zenon DEF Held
<1>3. \A p : StateAt(p)' = StateAt(p)
  BY <1>1, Zenon DEF StateAt
<1>4. \A i : SourceOk(i)' <=> SourceOk(i)
  BY <1>2, Zenon DEF SourceOk
<1>5. EncoderInv' /\ DecoderInv'
  BY <1>1, Zenon DEF SInv, EncoderInv, DecoderInv
<1>6. StreamInv'
  BY <1>1, <1>3, Zenon DEF SInv, StreamInv
<1>7. ContentsInv'
  BY <1>1, <1>2, <1>4, Zenon DEF SInv, ContentsInv
<1> QED BY <1>1, <1>2, <1>5, <1>6, <1>7, Zenon

\* The bases lsqpack_enc_end_header may have used.
Bases == { x \in {peer.ins, peer.ins - 1} : x >= 0 }

\* A header block the encoder sends keeps the invariant.
LEMMA PeerBlockInv ==
    ASSUME Facts, SInv,
           \E b \in Hblocks, n \in 1 .. MaxLines :
               \E ids \in [1 .. n -> Live \cup {0}], base \in Bases : PeerBlock(b, ids, base)
    PROVE  SInv'
\* A set of naturals with a bound has a greatest element.
<1>MaxExists. ASSUME NEW n \in Nat, NEW S \in SUBSET (0 .. n), S # {}
              PROVE  MaxOf(S) \in S /\ \A y \in S : y <= MaxOf(S)
  <2> USE <1>MaxExists
  <2> DEFINE T == { t \in 0 .. n : n - t \in S }
  <2>1. \A y \in S : n - y \in T
    OBVIOUS
  <2>2. T \in SUBSET Nat /\ T # {}
    <3>1. T \subseteq Nat
      OBVIOUS
    <3>2. PICK y : y \in S
      BY Zenon
    <3>3. n - y \in T
      BY <2>1, <3>2, Zenon
    <3> QED BY <3>1, <3>3, Zenon
  <2>3. PICK t \in T : \A y \in T : t <= y
    BY <2>2, Zenon DEF Facts, LeastFact
  <2>4. n - t \in S /\ \A y \in S : y <= n - t
    BY <2>1, <2>3
  <2>5. \E z \in S : \A y \in S : y <= z
    BY <2>4, Zenon
  <2> QED BY <2>5, Zenon DEF MaxOf
\* A set of naturals has a least element.
<1>MinExists. ASSUME NEW S \in SUBSET Nat, S # {}
              PROVE  MinOf(S) \in S /\ \A y \in S : MinOf(S) <= y
  <2> USE <1>MinExists
  <2>1. \E z \in S : \A y \in S : z <= y
    BY Zenon DEF Facts, LeastFact
  <2> QED BY <2>1, Zenon DEF MinOf
\* A function on the first numbers is a sequence.
<1>SeqMake. ASSUME NEW S, NEW n \in Nat, NEW f \in [1 .. n -> S]
            PROVE  f \in Seq(S) /\ Len(f) = n
  BY <1>SeqMake
\* The decoder computes from the prefix the base, and from a line the ID.
<1>LinesIs. ASSUME NEW w, NEW max \in Nat, NEW base \in Nat, NEW i, NEW id \in Nat,
                   w.ric = (max % M) + 1,
                   w.sign <=> base < max,
                   w.delta = IF base >= max THEN base - max ELSE max - base - 1,
                   w.lines[i] = IF id > base THEN [kind |-> "post", idx |-> id - base - 1]
                                             ELSE [kind |-> "rel", idx |-> base - id]
            PROVE  LineId(w, i) = IdOf(id)
  <2> USE <1>LinesIs
  <2>1. LargestRef(w) = IdOf(max)
    BY LargestRefIs, Zenon
  <2>2. RefSet(w)
    <3>1. max % M \in 0 .. M - 1
      BY MType DEF Facts, DivisionFact
    <3> QED BY <3>1, MType DEF RefSet
  <2>3. BaseIndex(w) = IdOf(base)
    <3>1. CASE base >= max
      <4>1. BaseIndex(w) = IdPlus(IdOf(max), base - max)
        <5>1. ~w.sign /\ w.delta = base - max
          BY <3>1
        <5> QED BY <2>1, <2>2, <5>1, Zenon DEF BaseIndex
      <4>2. base - max \in Int /\ max + (base - max) = base
        OBVIOUS
      <4> QED BY <4>1, <4>2, IdShift
    <3>2. CASE base < max
      <4>1. BaseIndex(w) = IdMinus(IdOf(max), w.delta + 1) /\ w.delta = max - base - 1
        <5>1. w.sign /\ w.delta = max - base - 1
          BY <3>2
        <5> QED BY <2>1, <2>2, <5>1, Zenon DEF BaseIndex
      <4>2. max - base \in Int /\ max - (max - base) = base /\ w.delta + 1 = max - base
        BY <4>1
      <4> QED BY <4>1, <4>2, IdShift
    <3> QED BY <3>1, <3>2
  <2>4. CASE id > base
    <3>1. w.lines[i].kind = "post" /\ w.lines[i].idx = id - base - 1
      BY <2>4
    <3>2. LineId(w, i) = IdPlus(IdOf(base), id - base - 1 + 1)
      BY <2>3, <3>1, Zenon DEF LineId, PostId
    <3>3. id - base \in Int /\ id - base - 1 + 1 = id - base /\ base + (id - base) = id
      OBVIOUS
    <3> QED BY <3>2, <3>3, IdShift
  <2>5. CASE ~(id > base)
    <3>1. w.lines[i].kind = "rel" /\ w.lines[i].idx = base - id
      BY <2>5
    <3>2. LineId(w, i) = IdMinus(IdOf(base), base - id)
      BY <2>3, <3>1, Zenon DEF LineId, RelId
    <3>3. base - id \in Int /\ base - (base - id) = id
      OBVIOUS
    <3> QED BY <3>2, <3>3, IdShift
  <2> QED BY <2>4, <2>5, Zenon
\* What a block on the wire says.
<1>WireIs. ASSUME NEW n \in Nat \ {0}, NEW ids \in [1 .. n -> Live \cup {0}], NEW base \in Bases
           PROVE  LET w == Wire(ids, base)
                      refs == RefsOf(ids)
                  IN  /\ w \in Wires /\ WireOk(w) /\ WireHeld(w) /\ w.ids = ids
                      /\ refs \subseteq Oldest .. peer.ins
                      /\ w.needs = 0 <=> refs = {}
                      /\ refs # {} => w.needs = MaxOf(refs)
  <2> USE <1>WireIs
  <2> DEFINE w == Wire(ids, base)
             refs == RefsOf(ids)
             max == IF refs = {} THEN 0 ELSE MaxOf(refs)
  <2>1. Live = Oldest .. peer.ins /\ Oldest \in Nat \ {0} /\ peer.ins \in Nat /\ base \in Nat
    BY Bounds DEF Bases
  <2>2. DOMAIN ids = 1 .. n /\ ids \in Seq(Nat) /\ Len(ids) = n /\ ids # << >>
    BY <2>1
  <2>3. refs \subseteq Oldest .. peer.ins /\ refs \subseteq 0 .. peer.ins /\ 0 \notin refs
    BY <2>1, <2>2, SMTT(30) DEF RefsOf
  <2>4. refs # {} => MaxOf(refs) \in refs /\ \A y \in refs : y <= MaxOf(refs)
    BY <2>1, <2>3, <1>MaxExists, Zenon
  <2>5. max \in Nat /\ (max = 0 <=> refs = {})
    BY <2>1, <2>3, <2>4
  <2>6. max % M \in 0 .. M - 1 /\ M \in Nat
    <3>1. max \in Int
      BY <2>5
    <3> HIDE DEF max
    <3> QED BY <3>1, MType, ModRange, Zenon
  <2>7. /\ w.ric = IF refs = {} THEN 0 ELSE (max % M) + 1
        /\ w.sign \in BOOLEAN /\ (w.sign <=> (refs # {} /\ base < max))
        /\ w.delta = IF refs = {} THEN 0 ELSE IF base >= max THEN base - max ELSE max - base - 1
        /\ w.lines = [i \in 1 .. n |-> IF ids[i] = 0 THEN [kind |-> "lit", idx |-> 0]
                                       ELSE IF ids[i] > base
                                       THEN [kind |-> "post", idx |-> ids[i] - base - 1]
                                       ELSE [kind |-> "rel", idx |-> base - ids[i]]]
        /\ w.needs = max /\ w.ids = ids
        /\ w.means = [i \in 1 .. n |-> IF ids[i] = 0 THEN << >> ELSE contents[ids[i]]]
        /\ w = [ric |-> w.ric, sign |-> w.sign, delta |-> w.delta, lines |-> w.lines,
                needs |-> w.needs, ids |-> w.ids, means |-> w.means]
    BY <2>2, Zenon DEF Wire, M
  <2> HIDE DEF w, max, refs
  <2>8. /\ w.ric \in Nat /\ w.sign \in BOOLEAN /\ w.delta \in Nat /\ w.needs \in Nat
        /\ w.ids \in Seq(Nat)
    <3>1. w.ric \in Nat
      BY <2>6, <2>7
    <3>2. w.delta \in Nat
      BY <2>1, <2>5, <2>7
    <3> QED BY <2>2, <2>5, <2>7, <3>1, <3>2, Zenon
  <2>9. w.lines \in Seq([kind : {"lit", "rel", "post"}, idx : Nat]) /\ Len(w.lines) = n
    <3>1. \A i \in 1 .. n : w.lines[i] \in [kind : {"lit", "rel", "post"}, idx : Nat]
      BY <2>1, <2>2, <2>7
    <3>2. w.lines \in [1 .. n -> [kind : {"lit", "rel", "post"}, idx : Nat]]
      BY <2>7, <3>1, Zenon
    <3>3. n \in Nat
      BY Zenon
    <3>4. PICK S : S = [kind : {"lit", "rel", "post"}, idx : Nat]
      BY Zenon
    <3>5. w.lines \in [1 .. n -> S]
      BY <3>2, <3>4, Zenon
    <3>6. w.lines \in Seq(S) /\ Len(w.lines) = n
      BY <3>3, <3>5, <1>SeqMake, Zenon
    <3> QED BY <3>4, <3>6, Zenon
  <2>10. w.means \in Seq(Content \cup {<< >>}) /\ Len(w.means) = n
    <3>1. contents \in [Oldest .. peer.ins -> Content]
      BY Zenon DEF SInv, EncoderInv
    <3>2. \A i \in 1 .. n : w.means[i] \in Content \cup {<< >>}
      BY <2>1, <2>2, <2>7, <3>1
    <3>3. w.means \in [1 .. n -> Content \cup {<< >>}]
      BY <2>7, <3>2, Zenon
    <3>4. n \in Nat
      BY Zenon
    <3> QED BY <3>3, <3>4, <1>SeqMake, Zenon
  <2>11. w \in Wires
    BY <2>7, <2>8, <2>9, <2>10, Zenon DEF Wires
  <2>12. WireHeld(w)
    <3>1. ASSUME NEW i \in 1 .. n, ids[i] # 0 PROVE w.means[i] \in Held(ids[i])
      <4>1. ids[i] \in Live /\ w.means[i] = contents[ids[i]]
        BY <2>7, <3>1, Zenon
      <4> QED BY <4>1, Zenon DEF SInv, ContentsInv
    <3> QED BY <2>2, <2>7, <3>1, Zenon DEF WireHeld
  <2>13. WireOk(w)
    <3>1. IF refs = {} THEN w.needs = 0 /\ w.ric = 0
          ELSE /\ w.needs \in refs
               /\ \A k \in refs : k <= w.needs
               /\ w.ric = (w.needs % M) + 1
      BY <2>4, <2>7, Zenon DEF max
    <3>2. ASSUME NEW i \in 1 .. n PROVE w.lines[i].kind = "lit" <=> ids[i] = 0
      BY <2>7
    <3>3. ASSUME NEW i \in 1 .. n, ids[i] # 0 PROVE LineId(w, i) = IdOf(ids[i])
      <4>1. ids[i] \in refs /\ ids[i] \in Nat
        BY <2>1, <2>2, <3>3 DEF refs, RefsOf
      <4>2. refs # {}
        BY <4>1, Zenon
      <4>3. /\ w.ric = (max % M) + 1
            /\ w.sign <=> base < max
            /\ w.delta = IF base >= max THEN base - max ELSE max - base - 1
        BY <2>7, <4>2, Zenon
      <4>4. w.lines[i] = IF ids[i] > base THEN [kind |-> "post", idx |-> ids[i] - base - 1]
                                          ELSE [kind |-> "rel", idx |-> base - ids[i]]
        BY <2>7, <3>3, Zenon
      <4>5. PICK id : id = ids[i]
        BY Zenon
      <4>6. /\ id \in Nat /\ base \in Nat /\ max \in Nat
            /\ w.lines[i] = IF id > base THEN [kind |-> "post", idx |-> id - base - 1]
                                         ELSE [kind |-> "rel", idx |-> base - id]
        BY <2>1, <2>5, <4>1, <4>4, <4>5, Zenon
      <4>7. LineId(w, i) = IdOf(id)
        BY <4>3, <4>6, <1>LinesIs, Zenon
      <4> QED BY <4>5, <4>7, Zenon
    <3>4. Len(w.lines) = Len(w.ids) /\ Len(w.means) = Len(w.ids) /\ w.ids # << >>
      BY <2>2, <2>7, <2>9, <2>10, Zenon
    <3>5. RefsOf(w.ids) = refs /\ DOMAIN w.ids = 1 .. n /\ w.ids = ids
      BY <2>2, <2>7, Zenon DEF refs
    <3> QED BY <3>1, <3>2, <3>3, <3>4, <3>5, Zenon DEF WireOk, M
  <2>14. (w.needs = 0 <=> refs = {}) /\ (refs # {} => w.needs = MaxOf(refs))
    BY <2>5, <2>7, Zenon DEF max
  <2> QED BY <2>3, <2>7, <2>11, <2>12, <2>13, <2>14, Zenon DEF w, refs
\* Sending a block keeps the invariant.
<1>BlockSent. ASSUME NEW b \in Hblocks, NEW n \in 1 .. MaxLines,
                     NEW ids \in [1 .. n -> Live \cup {0}], NEW base \in Bases, PeerBlock(b, ids, base)
              PROVE  SInv'
  <2> USE <1>BlockSent
  <2> DEFINE refs == RefsOf(ids)
             Infos == [min_id : Nat, max_id : Nat]
  <2>1. PICK w : w = Wire(ids, base)
    BY Zenon
  <2>2. /\ w \in Wires /\ WireOk(w) /\ WireHeld(w) /\ w.ids = ids
        /\ refs \subseteq Oldest .. peer.ins
        /\ w.needs = 0 <=> refs = {}
        /\ refs # {} => w.needs = MaxOf(refs)
    <3>1. n \in Nat \ {0}
      BY SessionAssumption
    <3> QED BY <2>1, <3>1, <1>WireIs, Zenon
  <2>3. PICK o : o = [min_id |-> MinOf(refs), max_id |-> MaxOf(refs)]
    BY Zenon
  <2>4. peer.ins \in Nat /\ Oldest \in Nat \ {0} /\ peer.acked \in Nat
    BY Bounds, Zenon
  <2>5. ASSUME refs # {}
        PROVE  /\ o \in Infos /\ Oldest <= o.min_id /\ o.min_id <= o.max_id /\ o.max_id <= peer.ins
               /\ o.max_id = w.needs /\ o.max_id \in refs /\ \A k \in refs : o.min_id <= k
    <3>1. MaxOf(refs) \in refs /\ \A k \in refs : k <= MaxOf(refs)
      <4>1. refs \in SUBSET (0 .. peer.ins)
        BY <2>2, <2>4
      <4> HIDE DEF refs
      <4> QED BY <2>4, <2>5, <4>1, <1>MaxExists, Zenon
    <3>2. MinOf(refs) \in refs /\ \A k \in refs : MinOf(refs) <= k
      <4>1. refs \in SUBSET Nat
        BY <2>2, <2>4
      <4> HIDE DEF refs
      <4> QED BY <2>5, <4>1, <1>MinExists, Zenon
    <3> HIDE DEF refs
    <3>3. PICK lo : lo = MinOf(refs)
      BY Zenon
    <3>4. PICK hi : hi = MaxOf(refs)
      BY Zenon
    <3>5. /\ lo \in refs /\ hi \in refs /\ hi = w.needs
          /\ \A k \in refs : lo <= k /\ k <= hi
      BY <2>2, <2>5, <3>1, <3>2, <3>3, <3>4, Zenon
    <3>6. lo \in Oldest .. peer.ins /\ hi \in Oldest .. peer.ins /\ lo <= hi
      BY <2>2, <3>5, Zenon
    <3>7. lo \in Nat /\ hi \in Nat /\ Oldest <= lo /\ hi <= peer.ins
      BY <2>4, <3>6
    <3>8. o = [min_id |-> lo, max_id |-> hi]
      BY <2>3, <3>3, <3>4, Zenon
    <3>9. o \in Infos /\ o.min_id = lo /\ o.max_id = hi
      BY <3>7, <3>8
    <3> QED BY <3>5, <3>6, <3>7, <3>9, Zenon
  <2>6. /\ outstanding' = IF refs = {} THEN outstanding
                          ELSE [outstanding EXCEPT ![b] = Append(@, o)]
        /\ transit' = IF b \in closed THEN transit
                      ELSE [transit EXCEPT ![b] = Append(@, w)]
        /\ (\E k \in refs : k > peer.acked) => CanRisk(b)
        /\ UNCHANGED <<dvars, peer, contents, enc_stream, closed, received, misread, refused>>
    BY <2>1, <2>3, Zenon DEF PeerBlock
  <2> HIDE DEF refs
  <2>7. /\ EncoderInv' /\ DecoderInv' /\ StreamInv' /\ ContentsInv'
        /\ Oldest' = Oldest /\ Known' = Known /\ \A k : Held(k)' = Held(k)
    BY <2>6, FrameTables, Zenon DEF dvars
  <2>8. outstanding \in [Hblocks -> Seq(Infos)] /\ transit \in [Hblocks -> Seq(Wires)]
    BY Zenon DEF SInv, OutstandingInv, TransitInv
  <2>9. /\ outstanding' \in [Hblocks -> Seq(Infos)]
        /\ \A x \in Hblocks : x # b \/ refs = {} => outstanding'[x] = outstanding[x]
        /\ refs # {} => /\ Len(outstanding'[b]) = Len(outstanding[b]) + 1
                        /\ \A i \in DOMAIN outstanding[b] : outstanding'[b][i] = outstanding[b][i]
                        /\ outstanding'[b][Len(outstanding[b]) + 1] = o
                        /\ DOMAIN outstanding'[b] = 1 .. Len(outstanding[b]) + 1
    <3>1. CASE refs = {}
      BY <2>6, <2>8, <3>1, Zenon
    <3>2. CASE refs # {}
      <4>1. PICK s : s = outstanding[b]
        BY Zenon
      <4>2. s \in Seq(Infos) /\ o \in Infos
        BY <2>5, <2>8, <3>2, <4>1, Zenon
      <4> HIDE DEF Infos
      <4>3. /\ Append(s, o) \in Seq(Infos) /\ Len(Append(s, o)) = Len(s) + 1
            /\ \A i \in DOMAIN s : Append(s, o)[i] = s[i]
            /\ Append(s, o)[Len(s) + 1] = o
            /\ DOMAIN Append(s, o) = 1 .. Len(s) + 1
        BY <4>2
      <4>4. outstanding' = [outstanding EXCEPT ![b] = Append(s, o)]
        BY <2>6, <3>2, <4>1, Zenon
      <4> QED BY <2>8, <3>2, <4>1, <4>3, <4>4, Zenon
    <3> QED BY <3>1, <3>2, Zenon
  <2>10. OutstandingInv'
    <3>1. \A x \in Hblocks : \A i \in DOMAIN outstanding'[x] :
            /\ Oldest <= outstanding'[x][i].min_id
            /\ outstanding'[x][i].min_id <= outstanding'[x][i].max_id
            /\ outstanding'[x][i].max_id <= peer.ins
      <4>1. TAKE x \in Hblocks
      <4>2. TAKE i \in DOMAIN outstanding'[x]
      <4>3. \/ i \in DOMAIN outstanding[x] /\ outstanding'[x][i] = outstanding[x][i]
            \/ refs # {} /\ outstanding'[x][i] = o
        <5>1. CASE x # b \/ refs = {}
          BY <2>9, <5>1, Zenon
        <5>2. CASE x = b /\ refs # {}
          <6>1. DOMAIN outstanding[b] = 1 .. Len(outstanding[b]) /\ Len(outstanding[b]) \in Nat
            BY PositionSets, Zenon
          <6>2. i \in 1 .. Len(outstanding[b]) \/ i = Len(outstanding[b]) + 1
            <7>1. i \in 1 .. Len(outstanding[b]) + 1
              BY <2>9, <5>2, Zenon
            <7> QED BY <6>1, <7>1
          <6> QED BY <2>9, <5>2, <6>1, <6>2, Zenon
        <5> QED BY <5>1, <5>2, Zenon
      <4> QED BY <2>5, <4>3, Zenon DEF SInv, OutstandingInv
    <3>2. Cardinality(StreamsAtRisk') <= MaxBlockedStreams
      <4>1. \A x \in Hblocks : x # b => (x \in StreamsAtRisk' <=> x \in StreamsAtRisk)
        BY <2>6, <2>9, Zenon DEF StreamsAtRisk
      <4>2. b \in StreamsAtRisk' => b \in StreamsAtRisk \/ (refs # {} /\ o.max_id > peer.acked)
        <5>1. SUFFICES ASSUME b \in StreamsAtRisk'
                       PROVE  b \in StreamsAtRisk \/ (refs # {} /\ o.max_id > peer.acked)
          BY Zenon
        <5>2. PICK i \in DOMAIN outstanding'[b] : outstanding'[b][i].max_id > peer.acked
          BY <2>6, <5>1, Zenon DEF StreamsAtRisk
        <5>3. CASE refs = {}
          BY <2>9, <5>2, <5>3, Zenon DEF StreamsAtRisk
        <5>4. CASE refs # {}
          <6>1. DOMAIN outstanding[b] = 1 .. Len(outstanding[b]) /\ Len(outstanding[b]) \in Nat
            BY PositionSets, Zenon
          <6>2. i \in DOMAIN outstanding[b] \/ i = Len(outstanding[b]) + 1
            <7>1. i \in 1 .. Len(outstanding[b]) + 1
              BY <2>9, <5>2, <5>4, Zenon
            <7> QED BY <6>1, <7>1
          <6>3. CASE i \in DOMAIN outstanding[b]
            BY <2>9, <5>2, <5>4, <6>3, Zenon DEF StreamsAtRisk
          <6>4. CASE i = Len(outstanding[b]) + 1
            BY <2>9, <5>2, <5>4, <6>4, Zenon
          <6> QED BY <6>2, <6>3, <6>4, Zenon
        <5> QED BY <5>3, <5>4, Zenon
      <4>3. /\ StreamsAtRisk \subseteq Hblocks /\ StreamsAtRisk' \subseteq Hblocks
            /\ IsFiniteSet(Hblocks)
        BY DecoderAssumption, Zenon DEF StreamsAtRisk
      <4> DEFINE S == StreamsAtRisk
                 T == StreamsAtRisk'
      <4>4. Cardinality(S) <= MaxBlockedStreams /\ MaxBlockedStreams \in Nat
        BY DecoderAssumption, Zenon DEF SInv, OutstandingInv
      <4>5. IsFiniteSet(S) /\ Cardinality(S) \in Nat
        BY <4>3, Zenon DEF Facts, SubsetFact, SizeFact
      <4>6. CASE b \in S \/ b \notin T
        <5>1. T \subseteq S
          BY <4>1, <4>3, <4>6, Zenon
        <5> HIDE DEF S, T
        <5>2. Cardinality(T) <= Cardinality(S) /\ IsFiniteSet(T)
          BY <4>5, <5>1, Zenon DEF Facts, SubsetFact
        <5>3. Cardinality(T) \in Nat
          BY <5>2, Zenon DEF Facts, SizeFact
        <5>4. Cardinality(T) <= MaxBlockedStreams
          BY <4>4, <4>5, <5>2, <5>3
        <5> QED BY <5>4, Zenon DEF T
      <4>7. CASE b \notin S /\ b \in T
        <5>1. CanRisk(b)
          BY <2>5, <2>6, <4>2, <4>7, Zenon
        <5>2. Cardinality(S) < MaxBlockedStreams
          BY <4>7, <5>1, Zenon DEF CanRisk
        <5>3. T \subseteq S \cup {b}
          BY <4>1, <4>3, Zenon
        <5> HIDE DEF S, T
        <5>4. IsFiniteSet(S \cup {b}) /\ Cardinality(S \cup {b}) = Cardinality(S) + 1
          BY <4>5, <4>7, Zenon DEF Facts, AddFact
        <5>5. Cardinality(T) <= Cardinality(S \cup {b}) /\ IsFiniteSet(T)
          BY <5>3, <5>4, Zenon DEF Facts, SubsetFact
        <5>6. Cardinality(T) \in Nat
          BY <5>5, Zenon DEF Facts, SizeFact
        <5>7. Cardinality(T) <= MaxBlockedStreams
          BY <4>4, <4>5, <5>2, <5>4, <5>5, <5>6
        <5> QED BY <5>7, Zenon DEF T
      <4> QED BY <4>6, <4>7, Zenon
    <3> QED BY <2>6, <2>7, <2>9, <3>1, <3>2, Zenon DEF OutstandingInv
  <2>11. \A x : AcksOf(x)' = AcksOf(x) /\ CancelsOf(x)' = CancelsOf(x)
    BY <2>6, Zenon DEF dvars, AcksOf, CancelsOf
  <2>12. ReportsInv'
    <3>1. ASSUME NEW x \in Hblocks PROVE AcksOk(x)'
      <4>1. AcksOk(x)
        BY Zenon DEF SInv, ReportsInv
      <4>2. /\ Len(outstanding[x]) \in Nat /\ DOMAIN outstanding[x] = 1 .. Len(outstanding[x])
            /\ Cardinality(AcksOf(x)) \in Nat
        BY PositionSets, Zenon
      <4>3. /\ Len(outstanding[x]) <= Len(outstanding'[x])
            /\ \A i \in DOMAIN outstanding[x] : outstanding'[x][i] = outstanding[x][i]
        <5>1. CASE x # b \/ refs = {}
          BY <2>9, <4>2, <5>1, SMTT(30)
        <5>2. CASE x = b /\ refs # {}
          BY <2>9, <4>2, <5>2, SMTT(30)
        <5> QED BY <5>1, <5>2, Zenon
      <4>4. /\ Cardinality(AcksOf(x)) <= Len(outstanding'[x])
            /\ \A i \in 1 .. Cardinality(AcksOf(x)) : outstanding'[x][i].max_id <= Known
        <5>1. Cardinality(AcksOf(x)) <= Len(outstanding[x])
              /\ \A i \in 1 .. Cardinality(AcksOf(x)) : outstanding[x][i].max_id <= Known
          BY <4>1, Zenon DEF AcksOk
        <5>2. 1 .. Cardinality(AcksOf(x)) \subseteq DOMAIN outstanding[x]
          BY <4>2, <5>1
        <5>3. Len(outstanding'[x]) \in Nat
          BY <2>9
        <5> QED BY <4>2, <4>3, <5>1, <5>2, <5>3, SMTT(90)
      <4> QED BY <2>6, <2>7, <2>11, <4>1, <4>4, Zenon DEF AcksOk
    <3>2. Icis' = Icis /\ dec_stream' = dec_stream
      BY <2>6, Zenon DEF dvars, Icis
    <3>3. \A u : IcisOk(u) => IcisOk(u)'
      BY <2>6, <3>2, Zenon DEF IcisOk
    <3> QED BY <2>7, <3>1, <3>2, <3>3, Zenon DEF SInv, ReportsInv
  <2>13. \A x \in Hblocks : /\ x # b \/ b \in closed => transit'[x] = transit[x]
                            /\ x = b /\ b \notin closed => transit'[x] = Append(transit[x], w)
    BY <2>6, <2>8, Zenon
  <2>14. TransitInv'
    <3>1. transit' \in [Hblocks -> Seq(Wires)]
      <4>1. \A x \in Hblocks : Append(transit[x], w) \in Seq(Wires)
        BY <2>2, <2>8
      <4> QED BY <2>6, <2>8, <4>1, Zenon
    <3>2. ASSUME NEW x \in Hblocks \ closed, NEW i \in Nat,
                 \A j \in 1 .. i : transit'[x][j] = transit[x][j]
          PROVE  RefBlocks(x, i)' = RefBlocks(x, i)
      BY <3>2, Zenon DEF RefBlocks
    <3>3. ASSUME NEW v PROVE WireHeld(v)' <=> WireHeld(v)
      BY <2>7, Zenon DEF WireHeld
    <3>4. ASSUME NEW x \in Hblocks \ closed, x # b
          PROVE  /\ CountOk(x)'
                 /\ \A i \in DOMAIN transit'[x] : /\ BlockOk(transit'[x][i], Info(x, i)')
                                                  /\ WireHeld(transit[x][i])'
      <4>1. transit'[x] = transit[x] /\ outstanding'[x] = outstanding[x]
        BY <2>9, <2>13, <3>4, Zenon
      <4>2. \A i : RefBlocks(x, i)' = RefBlocks(x, i)
        BY <4>1, Zenon DEF RefBlocks
      <4>3. CountOk(x)' /\ \A i : Info(x, i)' = Info(x, i)
        BY <2>11, <3>4, <4>1, <4>2, Zenon DEF CountOk, Info, SInv, TransitInv
      <4>4. ASSUME NEW i \in DOMAIN transit[x]
            PROVE  WireHeld(transit[x][i]) /\ BlockOk(transit[x][i], Info(x, i))
        BY <3>4, Zenon DEF SInv, TransitInv
      <4>5. ASSUME NEW i \in DOMAIN transit[x] PROVE WireHeld(transit[x][i])'
        <5>1. PICK v : v = transit[x][i]
          BY Zenon
        <5>2. WireHeld(v)' /\ transit'[x][i] = v
          BY <3>3, <4>1, <4>4, <5>1, Zenon
        <5> QED BY <5>2, Zenon
      <4> QED BY <4>1, <4>3, <4>4, <4>5, Zenon
    <3>5. ASSUME b \notin closed
          PROVE  /\ CountOk(b)'
                 /\ \A i \in DOMAIN transit'[b] : /\ BlockOk(transit'[b][i], Info(b, i)')
                                                  /\ WireHeld(transit[b][i])'
      <4>1. PICK l : l = Len(transit[b])
        BY Zenon
      <4>2. /\ l \in Nat /\ DOMAIN transit[b] = 1 .. l /\ transit'[b] = Append(transit[b], w)
            /\ transit[b] \in Seq(Wires)
        BY <2>8, <2>13, <3>5, <4>1
      <4>3. /\ DOMAIN transit'[b] = 1 .. l + 1 /\ Len(transit'[b]) = l + 1
            /\ \A j \in 1 .. l : transit'[b][j] = transit[b][j]
            /\ transit'[b][l + 1] = w
        BY <2>2, <4>1, <4>2
      <4>4. \A i \in 0 .. l : RefBlocks(b, i)' = RefBlocks(b, i)
        <5>1. TAKE i \in 0 .. l
        <5>2. i \in Nat /\ \A j \in 1 .. i : transit'[b][j] = transit[b][j]
          BY <4>2, <4>3
        <5> QED BY <3>2, <3>5, <5>2, Zenon
      <4>5. RefBlocks(b, l + 1)' = RefBlocks(b, l) \cup (IF refs = {} THEN {} ELSE {l + 1})
        <5>1. RefBlocks(b, l + 1)' = { j \in 1 .. l + 1 : transit'[b][j].needs # 0 }
          BY Zenon DEF RefBlocks
        <5>2. RefBlocks(b, l) = { j \in 1 .. l : transit[b][j].needs # 0 }
          BY Zenon DEF RefBlocks
        <5>3. \A j \in 1 .. l + 1 : j \in 1 .. l \/ (j = l + 1 /\ j \notin 1 .. l)
          BY <4>2
        <5>4. l + 1 \in 1 .. l + 1 /\ 1 .. l \subseteq 1 .. l + 1
          BY <4>2
        <5> QED BY <2>2, <4>3, <5>1, <5>2, <5>3, <5>4, Zenon
      <4> DEFINE A == Cardinality(AcksOf(b))
                 R(i) == Cardinality(RefBlocks(b, i))
      <4>6. A \in Nat /\ \A i \in 0 .. l : R(i) \in Nat /\ RefBlocks(b, i) \subseteq 1 .. i
        BY <4>1, PositionSets, Zenon
      <4>7. Len(outstanding[b]) = A + R(l) /\ Len(outstanding[b]) \in Nat
            /\ DOMAIN outstanding[b] = 1 .. Len(outstanding[b])
        BY <3>5, <4>1, PositionSets, Zenon DEF SInv, TransitInv, CountOk
      <4>8. Cardinality(RefBlocks(b, l + 1)') = R(l) + (IF refs = {} THEN 0 ELSE 1)
        <5>1. PICK S : S = RefBlocks(b, l)
          BY Zenon
        <5>2. l \in 0 .. l
          BY <4>2
        <5>3. S \in SUBSET (1 .. l) /\ Cardinality(S) \in Nat
          BY <4>6, <5>1, <5>2, Zenon
        <5>4. CASE refs = {}
          <6>1. RefBlocks(b, l + 1)' = S
            BY <4>5, <5>1, <5>4, Zenon
          <6> QED BY <5>1, <5>3, <5>4, <6>1
        <5>5. CASE refs # {}
          <6>1. RefBlocks(b, l + 1)' = S \cup {l + 1}
            BY <4>5, <5>1, <5>5, Zenon
          <6>2. Cardinality(S \cup {l + 1}) = Cardinality(S) + 1
            BY <4>2, <5>3, CountAppend, Zenon
          <6> QED BY <5>1, <5>5, <6>1, <6>2, Zenon
        <5> QED BY <5>4, <5>5, Zenon
      <4>9. CountOk(b)'
        <5>1. Len(transit[b])' = l + 1
          BY <4>3, Zenon
        <5>2. RefBlocks(b, Len(transit[b]))' = RefBlocks(b, l + 1)'
          BY <5>1, Zenon DEF RefBlocks
        <5>3. Len(outstanding'[b]) = Len(outstanding[b]) + (IF refs = {} THEN 0 ELSE 1)
          BY <2>9, <4>7, SMTT(30)
        <5>4. R(l) \in Nat
          BY <4>2, <4>6
        <5>5. Len(outstanding'[b]) = A + Cardinality(RefBlocks(b, l + 1)')
          <6> HIDE DEF A, R
          <6> QED BY <4>6, <4>7, <4>8, <5>3, <5>4
        <5> QED BY <2>11, <5>2, <5>5, Zenon DEF CountOk
      <4>10. ASSUME NEW i \in 1 .. l
             PROVE  BlockOk(transit'[b][i], Info(b, i)') /\ WireHeld(transit[b][i])'
        <5>1. PICK v : v = transit[b][i]
          BY Zenon
        <5>2. i \in DOMAIN transit[b] /\ transit'[b][i] = v
          BY <4>2, <4>3, <5>1, Zenon
        <5>3. BlockOk(v, Info(b, i)) /\ WireHeld(v)
          <6>1. \A j \in DOMAIN transit[b] :
                    BlockOk(transit[b][j], Info(b, j)) /\ WireHeld(transit[b][j])
            BY <3>5, Zenon DEF SInv, TransitInv
          <6> QED BY <5>1, <5>2, <6>1, Zenon
        <5>4. v.needs # 0 => A + R(i) \in DOMAIN outstanding[b]
          BY <5>1, <5>2, TransitFacts, Zenon
        <5>5. Info(b, i) = outstanding[b][A + R(i)] /\ Info(b, i)' = outstanding'[b][A + R(i)]
          BY <2>11, <4>2, <4>4, <4>10 DEF Info
        <5>6. v.needs # 0 => Info(b, i)' = Info(b, i)
          BY <2>9, <5>4, <5>5, Zenon
        <5>7. BlockOk(v, Info(b, i)')
          BY <5>3, <5>6, Zenon DEF BlockOk
        <5>8. WireHeld(v)'
          BY <3>3, <5>3, Zenon
        <5> QED BY <5>2, <5>7, <5>8, Zenon
      <4>11. BlockOk(w, Info(b, l + 1)') /\ WireHeld(w)'
        <5>1. WireHeld(w)'
          BY <2>2, <3>3, Zenon
        <5>2. ASSUME w.needs # 0 PROVE Info(b, l + 1)' = o
          <6>1. refs # {} /\ l \in 0 .. l
            BY <2>2, <4>2, <5>2
          <6>2. Info(b, l + 1)' = outstanding'[b][A + Cardinality(RefBlocks(b, l + 1)')]
            BY <2>11, Zenon DEF Info
          <6>3. A + Cardinality(RefBlocks(b, l + 1)') = Len(outstanding[b]) + 1
            <7>1. R(l) \in Nat /\ A \in Nat
              BY <4>6, <6>1, Zenon
            <7> HIDE DEF A, R
            <7> QED BY <4>7, <4>8, <6>1, <7>1
          <6> QED BY <2>9, <6>1, <6>2, <6>3, Zenon
        <5>3. w.needs # 0 => /\ o.max_id = w.needs
                             /\ \A k \in RefsOf(w.ids) : o.min_id <= k
          BY <2>2, <2>5, Zenon DEF refs
        <5> QED BY <2>2, <5>1, <5>2, <5>3, Zenon DEF BlockOk
      <4>12. \A i \in 1 .. l + 1 : i \in 1 .. l \/ i = l + 1
        BY <4>2
      <4> QED BY <4>3, <4>9, <4>10, <4>11, <4>12, Zenon
    <3>6. \A x \in closed : transit'[x] = << >>
      <4>1. \A x \in closed : x \in Hblocks /\ transit[x] = << >>
        BY Zenon DEF SInv, TransitInv
      <4> QED BY <2>13, <4>1, Zenon
    <3>7. closed' = closed /\ closed \subseteq Hblocks
      BY <2>6, Zenon DEF SInv, TransitInv
    <3> QED BY <3>1, <3>4, <3>5, <3>6, <3>7, Zenon DEF TransitInv
  <2>15. ContextsInv'
    <3>1. ASSUME NEW x \in Hblocks, transit[x] # << >>
          PROVE  transit'[x] # << >> /\ Head(transit'[x]) = Head(transit[x])
      <4>1. transit[x] \in Seq(Wires) /\ w \in Wires
        BY <2>2, <2>8, Zenon
      <4>2. transit'[x] = transit[x] \/ transit'[x] = Append(transit[x], w)
        BY <2>13, Zenon
      <4> QED BY <3>1, <4>1, <4>2, SMTT(30)
    <3>2. hbrcs' = hbrcs /\ n_blocked' = n_blocked /\ received' = received
      BY <2>6, Zenon DEF dvars
    <3>3. /\ DOMAIN hbrcs \subseteq Hblocks
          /\ \A x \in DOMAIN hbrcs : transit[x] # << >> /\ ContextOk(hbrcs[x], Head(transit[x]))
          /\ BlockedExact
      BY Zenon DEF SInv, ContextsInv
    <3>4. BlockedExact'
      BY <3>1, <3>2, <3>3, Zenon DEF BlockedExact
    <3> QED BY <3>1, <3>2, <3>3, <3>4, Zenon DEF ContextsInv
  <2> QED BY <2>6, <2>7, <2>10, <2>12, <2>14, <2>15, Zenon DEF SInv, NoError, NoMisread, dvars
<1> QED BY <1>BlockSent, Zenon

-----------------------------------------------------------------------------
(***************************************************************************)
(* The encoder changes its table and says so.                              *)
(***************************************************************************)

\* What the encoder's instructions say of its table.
LEMMA NowType ==
    ASSUME Facts, SInv
    PROVE  /\ Now \in TableState
           /\ Now.ins = peer.ins /\ Now.low = Oldest /\ Now.cap = peer.cap
           /\ peer.cap \in 0 .. MaxEntries
           /\ peer \in [ins : Nat, acked : Nat, last_ici : Nat, cap : 0 .. MaxEntries]
<1>1. peer \in [ins : Nat, acked : Nat, last_ici : Nat, cap : 0 .. MaxEntries]
  BY Zenon DEF SInv, EncoderInv
<1>2. Oldest \in Nat \ {0}
  BY Bounds, Zenon
<1> QED BY <1>1, <1>2, Zenon DEF Now, TableState

\* The encoder's inserts, duplicates and capacity changes keep the invariant.
LEMMA PeerTableInv ==
    ASSUME Facts, SInv,
           \/ PeerInsert
           \/ \E k \in Live : PeerInsertNameRef(k) \/ PeerDuplicate(k)
           \/ \E c \in Caps : PeerSetCapacity(c)
    PROVE  SInv'
\* The steps that insert or evict entries, by what they do to the table.
<1> DEFINE TableStep(i) ==
               /\ i \in Instruction /\ i.at = Now /\ SourceOk(i)
               /\ enc_stream' = Append(enc_stream, i)
               /\ peer' \in [ins : Nat, acked : Nat, last_ici : Nat, cap : 0 .. MaxEntries]
               /\ peer'.acked = peer.acked /\ peer'.last_ici = peer.last_ici
               /\ peer'.ins = After(i).ins /\ peer'.cap = After(i).cap
               /\ contents' \in [After(i).low .. After(i).ins -> Content]
               /\ After(i).low <= After(i).ins + 1
               /\ CanEvict(Oldest .. After(i).low - 1)
               /\ \A k \in Live' : IF k \in Live THEN contents'[k] = contents[k]
                                   ELSE k = peer.ins + 1 /\ i.op # "capacity" /\ contents'[k] = i.entry
               /\ UNCHANGED <<outstanding, dvars, transit, closed, received, misread, refused>>
<1> HIDE DEF TableStep
\* The number of integers in an interval.
<1>CountInterval. ASSUME NEW a \in Int, NEW b \in Int, a <= b + 1
                  PROVE  Cardinality(a .. b) = b - a + 1
  BY <1>CountInterval DEF Facts, IntervalFact
\* What the instruction does to the table.
<1>AfterIs. ASSUME NEW i \in Instruction, i.at = Now
            PROVE  /\ After(i) \in [ins : Nat, low : Nat \ {0}, cap : 0 .. MaxEntries]
                   /\ Oldest <= After(i).low /\ peer.ins <= After(i).ins
                   /\ After(i).ins - After(i).low < After(i).cap
  <2> USE <1>AfterIs
  <2>1. /\ peer.ins \in Nat /\ peer.cap \in 0 .. MaxEntries /\ Oldest \in Nat \ {0}
        /\ peer.ins - Oldest < peer.cap
    BY Bounds, Zenon DEF SInv, EncoderInv
  <2>2. i.at.ins = peer.ins /\ i.at.low = Oldest /\ i.at.cap = peer.cap
    BY DEF Now
  <2>3. i.op = "capacity" => i.cap \in 0 .. MaxEntries
    BY Zenon DEF Instruction
  <2>4. MaxEntries \in Nat
    BY MType, Zenon
  <2>5. CASE i.op = "capacity"
    <3>1. After(i) = Shrunk(peer.ins, Oldest, i.cap)
      BY <2>2, <2>5, Zenon DEF After
    <3> QED BY <2>1, <2>3, <2>4, <2>5, <3>1 DEF Shrunk
  <2>6. CASE i.op # "capacity"
    <3>1. After(i) = Shrunk(peer.ins + 1, Oldest, peer.cap)
      BY <2>2, <2>6, Zenon DEF After
    <3> QED BY <2>1, <2>4, <3>1 DEF Shrunk
  <2> QED BY <2>5, <2>6, Zenon
\* Such a step keeps the invariant.
<1>TableStepInv. ASSUME NEW i, TableStep(i)
                 PROVE  SInv'
  <2> USE <1>TableStepInv
  <2> DEFINE L == After(i).low
             N == After(i).ins
  <2>1. /\ L \in Nat \ {0} /\ N \in Nat /\ Oldest <= L /\ peer.ins <= N
        /\ N - L < After(i).cap /\ After(i).cap \in 0 .. MaxEntries /\ L <= N + 1
        /\ After(i) = [ins |-> N, low |-> L, cap |-> After(i).cap]
    BY <1>AfterIs, Zenon DEF TableStep
  <2>2. /\ received \in Nat /\ peer.ins \in Nat /\ peer.acked \in Nat
        /\ Oldest \in Nat \ {0} /\ Oldest <= peer.acked + 1 /\ Live = Oldest .. peer.ins
    BY Bounds, Zenon
  <2>3. peer'.ins = N /\ contents' \in [L .. N -> Content] /\ Live' = L .. N
    BY Zenon DEF TableStep, Live
  <2> HIDE DEF L, N
  <2>4. Oldest' = L
    <3>1. Cardinality(L .. N) = N - L + 1
      BY <2>1, <1>CountInterval
    <3>2. Oldest' = peer'.ins - Cardinality(Live') + 1
      BY Zenon DEF Oldest
    <3> QED BY <2>1, <2>3, <3>1, <3>2
  <2>5. Now' = After(i)
    BY <2>1, <2>3, <2>4, Zenon DEF Now, TableStep, N
  <2>6. \A k \in Oldest .. L - 1 : k <= peer.acked /\ \A o \in OutstandingBlocks : k < o.min_id
    BY Zenon DEF TableStep, CanEvict, L
  <2>7. EncoderInv'
    <3>1. L <= peer.acked + 1
      <4>1. CASE L = Oldest
        BY <2>2, <4>1, Zenon
      <4>2. CASE L # Oldest
        <5>1. L - 1 \in Oldest .. L - 1
          BY <2>1, <2>2, <4>2, SMTT(30)
        <5> QED BY <2>1, <2>2, <2>6, <5>1
      <4> QED BY <4>1, <4>2, Zenon
    <3>2. peer'.acked = peer.acked /\ peer'.last_ici = peer.last_ici /\ peer'.cap = After(i).cap
          /\ peer' \in [ins : Nat, acked : Nat, last_ici : Nat, cap : 0 .. MaxEntries]
      BY Zenon DEF TableStep
    <3>3. peer.last_ici <= peer.acked
      BY Zenon DEF SInv, EncoderInv
    <3> QED BY <2>1, <2>2, <2>3, <2>4, <3>1, <3>2, <3>3 DEF EncoderInv
  <2>8. DecoderInv'
    BY Zenon DEF SInv, DecoderInv, TableStep, dvars, Known
  <2>9. OutstandingInv'
    <3>1. outstanding' = outstanding /\ peer'.acked = peer.acked
      BY Zenon DEF TableStep
    <3>2. OutstandingInv
      BY Zenon DEF SInv
    <3>3. StreamsAtRisk' = StreamsAtRisk
      BY <3>1, Zenon DEF StreamsAtRisk
    <3>4. ASSUME NEW b \in Hblocks, NEW n \in DOMAIN outstanding[b]
          PROVE  /\ L <= outstanding[b][n].min_id
                 /\ outstanding[b][n].min_id <= outstanding[b][n].max_id
                 /\ outstanding[b][n].max_id <= N
      <4> DEFINE o == outstanding[b][n]
      <4>1. o \in [min_id : Nat, max_id : Nat]
        BY <3>2, SeqElem, Zenon DEF OutstandingInv
      <4>2. Oldest <= o.min_id /\ o.min_id <= o.max_id /\ o.max_id <= peer.ins
        BY <3>2, Zenon DEF OutstandingInv
      <4>3. o \in OutstandingBlocks
        BY DEF OutstandingBlocks
      <4> HIDE DEF o
      <4>4. L <= o.min_id
        <5>1. CASE L = Oldest
          BY <4>2, <5>1, Zenon
        <5>2. CASE L # Oldest
          <6>1. L - 1 \in Oldest .. L - 1
            BY <2>1, <2>2, <5>2
          <6>2. L - 1 < o.min_id
            BY <2>6, <4>3, <6>1, Zenon
          <6> QED BY <2>1, <4>1, <6>2
        <5> QED BY <5>1, <5>2, Zenon
      <4>5. o.max_id <= N
        BY <2>1, <2>2, <4>1, <4>2
      <4> QED BY <4>2, <4>4, <4>5, Zenon DEF o
    <3> QED BY <2>3, <2>4, <3>1, <3>2, <3>3, <3>4, Zenon DEF OutstandingInv
  <2>10. StreamInv'
    <3> DEFINE q == enc_stream
    <3>0. PICK n : n = Len(enc_stream)
      BY Zenon
    <3>1. /\ q \in Seq(Instruction) /\ q' = Append(q, i) /\ i \in Instruction /\ i.at = Now
          /\ n \in Nat /\ DOMAIN q = 1 .. n
      BY <3>0, SMTT(30) DEF SInv, StreamInv, TableStep
    <3>2. /\ q' \in Seq(Instruction) /\ Len(q') = n + 1 /\ DOMAIN q' = 1 .. n + 1
          /\ \A p \in 1 .. n : q'[p] = q[p]
          /\ q'[n + 1] = i
      BY <3>0, <3>1
    <3>3. \A p \in 1 .. n + 1 : StateAt(p)' = StateAt(p)
      <4>1. TAKE p \in 1 .. n + 1
      <4>2. CASE p \in 1 .. n
        BY <3>1, <3>2, <4>2, Zenon DEF StateAt
      <4>3. CASE p = n + 1
        <5>1. StateAt(p)' = Now /\ p \notin DOMAIN q
          BY <3>1, <3>2, <4>3 DEF StateAt
        <5> QED BY <5>1, Zenon DEF StateAt
      <4> QED BY <3>1, <4>2, <4>3
    <3>4. StateAt(n + 2)' = After(i)
      <4>1. n + 2 \notin DOMAIN q'
        BY <3>1, <3>2
      <4> QED BY <2>5, <4>1, Zenon DEF StateAt
    <3>5. StateAt(1)' = DecNow'
      <4>1. DecNow' = DecNow /\ StateAt(1) = DecNow
        BY Zenon DEF SInv, StreamInv, TableStep, DecNow, DecOldest, dvars
      <4> QED BY <3>1, <3>3, <4>1
    <3>6. ASSUME NEW p \in 1 .. n + 1
          PROVE  /\ After(q'[p]) = StateAt(p + 1)'
                 /\ \A r \in p .. n + 2 : /\ q'[p].at.ins <= StateAt(r)'.ins
                                          /\ q'[p].at.low <= StateAt(r)'.low
      <4>1. CASE p = n + 1
        <5>1. q'[p] = i /\ StateAt(p)' = Now /\ StateAt(p + 1)' = After(i)
          <6>1. p \notin DOMAIN q
            BY <3>1, <4>1
          <6>2. StateAt(p)' = Now
            BY <3>1, <3>3, <4>1, <6>1, Zenon DEF StateAt
          <6>3. p + 1 = n + 2
            BY <3>1, <4>1
          <6> QED BY <3>2, <3>4, <4>1, <6>2, <6>3, Zenon
        <5>2. i.at.ins = peer.ins /\ i.at.low = Oldest
          BY <3>1 DEF Now
        <5>3. ASSUME NEW r \in p .. n + 2
              PROVE  i.at.ins <= StateAt(r)'.ins /\ i.at.low <= StateAt(r)'.low
          <6>1. r = p \/ r = p + 1
            BY <3>1, <4>1, <5>3
          <6>2. After(i).ins = N /\ After(i).low = L /\ Now.ins = peer.ins /\ Now.low = Oldest
            BY Zenon DEF N, L, Now
          <6> QED BY <2>1, <2>2, <5>1, <5>2, <6>1, <6>2, SMTT(30)
        <5> QED BY <5>1, <5>3, Zenon
      <4>2. CASE p \in 1 .. n
        <5>1. q'[p] = q[p] /\ p + 1 \in 1 .. n + 1 /\ p \in DOMAIN q
          BY <3>1, <3>2, <4>2
        <5>2. /\ After(q[p]) = StateAt(p + 1)
              /\ \A r \in p .. n + 1 : /\ q[p].at.ins <= StateAt(r).ins
                                       /\ q[p].at.low <= StateAt(r).low
          BY <3>0, <5>1, Zenon DEF SInv, StreamInv
        <5>3. q[p].at.ins <= After(i).ins /\ q[p].at.low <= After(i).low
          <6>1. n + 1 \in p .. n + 1 /\ n + 1 \notin DOMAIN q
            BY <3>1, <4>2
          <6>2. StateAt(n + 1) = Now
            BY <6>1, Zenon DEF StateAt
          <6>3. q[p].at.ins <= peer.ins /\ q[p].at.low <= Oldest
            BY <5>2, <6>1, <6>2 DEF Now
          <6>4. q[p].at \in TableState
            BY <3>1, <5>1, SeqElem DEF Instruction
          <6>5. q[p].at.ins \in Nat /\ q[p].at.low \in Nat
            BY <6>4, Zenon DEF TableState
          <6>6. N \in Nat /\ L \in Nat /\ Oldest <= L /\ peer.ins <= N
            BY <2>1, Zenon
          <6>7. q[p].at.ins <= N /\ q[p].at.low <= L
            <7> HIDE DEF q
            <7> QED BY <2>2, <6>3, <6>5, <6>6, SMTT(30)
          <6> QED BY <6>7, Zenon DEF N, L
        <5>4. ASSUME NEW r \in p .. n + 2
              PROVE  q[p].at.ins <= StateAt(r)'.ins /\ q[p].at.low <= StateAt(r)'.low
          <6>1. (r \in p .. n + 1 /\ r \in 1 .. n + 1) \/ r = n + 2
            BY <3>1, <4>2, <5>4
          <6> QED BY <3>3, <3>4, <5>2, <5>3, <6>1, Zenon
        <5> QED BY <3>3, <5>1, <5>2, <5>4, Zenon
      <4> QED BY <3>1, <4>1, <4>2, SMTT(30)
    <3>7. Len(q') + 1 = n + 2
      BY <3>1, <3>2
    <3> QED BY <3>2, <3>5, <3>6, <3>7, Zenon DEF StreamInv
  <2>11. \A k : Held(k) \subseteq Held(k)'
    <3>1. /\ enc_stream \in Seq(Instruction) /\ enc_stream' = Append(enc_stream, i)
          /\ dyn_table' = dyn_table /\ DecOldest' = DecOldest
      BY Zenon DEF SInv, StreamInv, TableStep, DecOldest, dvars
    <3>2. \A p \in DOMAIN enc_stream : p \in DOMAIN enc_stream' /\ enc_stream'[p] = enc_stream[p]
      BY <3>1
    <3> QED BY <3>1, <3>2, Zenon DEF Held
  <2>12. ContentsInv'
    <3>1. ASSUME NEW k \in Live' PROVE contents'[k] \in Held(k)'
      <4>1. CASE k \in Live
        BY <2>11, <3>1, <4>1, Zenon DEF SInv, ContentsInv, TableStep
      <4>2. CASE k \notin Live
        <5>1. k = peer.ins + 1 /\ i.op # "capacity" /\ contents'[k] = i.entry /\ i.at.ins = peer.ins
          BY <3>1, <4>2, SMTT(30) DEF TableStep, Now
        <5>2. Len(enc_stream) + 1 \in DOMAIN enc_stream' /\ enc_stream'[Len(enc_stream) + 1] = i
          BY SMTT(30) DEF SInv, StreamInv, TableStep
        <5> QED BY <5>1, <5>2, Zenon DEF Held
      <4> QED BY <4>1, <4>2, Zenon
    <3>2. \A j : SourceOk(j) => SourceOk(j)'
      BY <2>11, Zenon DEF SourceOk
    <3>3. ASSUME NEW p \in DOMAIN enc_stream' PROVE SourceOk(enc_stream'[p])
      <4>1. (p \in DOMAIN enc_stream /\ enc_stream'[p] = enc_stream[p]) \/ enc_stream'[p] = i
        BY <3>3, SMTT(30) DEF SInv, StreamInv, TableStep
      <4> QED BY <4>1, Zenon DEF SInv, ContentsInv, TableStep
    <3> QED BY <3>1, <3>2, <3>3, Zenon DEF ContentsInv
  <2>13. ReportsInv'
    BY FrameReports, Zenon DEF SInv, TableStep, dvars, Known
  <2>14. TransitInv'
    BY <2>11, FrameTransit, Zenon DEF TableStep, dvars
  <2>15. ContextsInv'
    BY FrameContexts, Zenon DEF SInv, TableStep, dvars
  <2> QED BY <2>7, <2>8, <2>9, <2>10, <2>12, <2>13, <2>14, <2>15, Zenon
          DEF SInv, NoError, NoMisread, TableStep, dvars
\* An insert.
<1>InsertIs. ASSUME NEW i \in Instruction, i.op # "capacity", i.at = Now, SourceOk(i),
                    i.entry \in Content, Insert(i.entry), enc_stream' = Append(enc_stream, i)
             PROVE  TableStep(i)
  <2> USE <1>InsertIs
  <2> DEFINE n == peer.ins
             cap == peer.cap
             L == After(i).low
             S == Staying(1, cap)
  <2>1. n \in Nat /\ Oldest \in Nat \ {0} /\ Live = Oldest .. n /\ cap \in 0 .. MaxEntries
        /\ Oldest <= n + 1
    BY Bounds, NowType, SMTT(30)
  <2>2. /\ cap > 0 /\ CanEvict(Live \ S) /\ peer' = [peer EXCEPT !.ins = n + 1]
        /\ contents' = [k \in S \cup {n + 1} |-> IF k = n + 1 THEN i.entry ELSE contents[k]]
        /\ UNCHANGED <<outstanding, dvars, transit, closed, received, misread, refused>>
    BY Zenon DEF Insert
  <2>3. After(i) = Shrunk(n + 1, Oldest, cap)
    <3>1. i.at.ins = n /\ i.at.low = Oldest /\ i.at.cap = cap
      BY NowType, Zenon
    <3> QED BY <3>1, Zenon DEF After
  <2>4. /\ After(i).ins = n + 1 /\ After(i).cap = cap
        /\ L = IF Oldest + cap <= n + 1 THEN n + 1 - cap + 1 ELSE Oldest
    BY <2>1, <2>3, SMTT(30) DEF Shrunk
  <2>5. MaxEntries \in Nat
    BY MType, Zenon
  <2>6. S = { k \in Oldest .. n : n - k + 1 + 1 <= cap }
    BY <2>1, Zenon DEF Staying
  <2> HIDE DEF n, cap, L, S
  <2>7. L \in Nat \ {0} /\ L <= n + 1 /\ Oldest <= L
    BY <2>1, <2>2, <2>4, <2>5
  <2>8. S \cup {n + 1} = L .. n + 1
    <3>1. \A k \in Oldest .. n : n - k + 1 + 1 <= cap <=> L <= k
      BY <2>1, <2>4, <2>5
    <3>2. S = { k \in Oldest .. n : L <= k }
      BY <2>6, <3>1, Zenon
    <3>3. \A k : k \in S \cup {n + 1} <=> k \in L .. n + 1
      BY <2>1, <2>7, <3>2
    <3> QED BY <3>3, Zenon
  <2>9. CanEvict(Oldest .. L - 1)
    <3>1. Oldest .. L - 1 \subseteq Live \ S
      BY <2>1, <2>4, <2>5, <2>6, <2>7
    <3> QED BY <2>2, <3>1, Zenon DEF CanEvict
  <2>10. contents' \in [L .. n + 1 -> Content]
         /\ \A k \in L .. n + 1 : IF k \in Live THEN contents'[k] = contents[k]
                                  ELSE k = n + 1 /\ contents'[k] = i.entry
    <3>1. contents \in [Oldest .. n -> Content]
      BY Zenon DEF SInv, EncoderInv, n
    <3>2. \A k \in L .. n + 1 : (k = n + 1 /\ k \notin Live) \/ (k # n + 1 /\ k \in Live)
      BY <2>1, <2>7
    <3>3. contents' = [k \in L .. n + 1 |-> IF k = n + 1 THEN i.entry ELSE contents[k]]
      BY <2>2, <2>8, Zenon
    <3> QED BY <2>1, <3>1, <3>2, <3>3, Zenon
  <2>11. /\ peer' \in [ins : Nat, acked : Nat, last_ici : Nat, cap : 0 .. MaxEntries]
         /\ peer'.acked = peer.acked /\ peer'.last_ici = peer.last_ici
         /\ peer'.ins = n + 1 /\ peer'.cap = cap
    BY <2>1, <2>2, NowType, SMTT(30) DEF n, cap
  <2>12. Live' = L .. n + 1
    BY <2>10, Zenon DEF Live
  <2>13. n + 1 <= n + 1 + 1 /\ L <= n + 1 + 1 /\ n = peer.ins
    BY <2>1, <2>7 DEF n
  <2>14. L = After(i).low
    BY Zenon DEF L
  <2> QED BY <2>2, <2>4, <2>9, <2>10, <2>11, <2>12, <2>13, <2>14, Zenon DEF TableStep
\* A new capacity.
<1>SetCapacityIs. ASSUME NEW c \in Caps, PeerSetCapacity(c)
                  PROVE  TableStep([op |-> "capacity", cap |-> c, at |-> Now])
  <2> USE <1>SetCapacityIs
  <2> DEFINE n == peer.ins
             i == [op |-> "capacity", cap |-> c, at |-> Now]
             L == After(i).low
             S == Staying(0, c)
  <2>1. n \in Nat /\ Oldest \in Nat \ {0} /\ Live = Oldest .. n /\ Oldest <= n + 1
    BY Bounds, SMTT(30) DEF SInv, EncoderInv
  <2>2. /\ CanEvict(Live \ S) /\ peer' = [peer EXCEPT !.cap = c]
        /\ contents' = [k \in S |-> contents[k]]
        /\ enc_stream' = Append(enc_stream, i)
        /\ UNCHANGED <<outstanding, dvars, transit, closed, received, misread, refused>>
    BY Zenon DEF PeerSetCapacity, Send
  <2>3. After(i) = Shrunk(n, Oldest, c)
    BY Zenon DEF After, Now
  <2>4. /\ After(i).ins = n /\ After(i).cap = c
        /\ L = IF Oldest + c <= n THEN n - c + 1 ELSE Oldest
    BY <2>3, SMTT(30) DEF Shrunk
  <2>5. MaxEntries \in Nat /\ c \in 0 .. MaxEntries
    BY MType, SessionAssumption, Zenon
  <2>6. S = { k \in Oldest .. n : n - k + 1 + 0 <= c }
    BY <2>1, Zenon DEF Staying
  <2>7. i \in Instruction /\ i.at = Now /\ SourceOk(i)
    BY <2>5, NowType, Zenon DEF Instruction, SourceOk
  <2> HIDE DEF n, L, S, i
  <2>8. L \in Nat \ {0} /\ L <= n + 1 /\ Oldest <= L
    BY <2>1, <2>4, <2>5
  <2>9. S = L .. n
    <3>1. \A k \in Oldest .. n : n - k + 1 + 0 <= c <=> L <= k
      BY <2>1, <2>4, <2>5
    <3>2. S = { k \in Oldest .. n : L <= k }
      BY <2>6, <3>1, Zenon
    <3>3. \A k : k \in S <=> k \in L .. n
      BY <2>1, <2>8, <3>2
    <3> QED BY <3>3, Zenon
  <2>10. CanEvict(Oldest .. L - 1)
    <3>1. Oldest .. L - 1 \subseteq Live \ S
      BY <2>1, <2>8, <2>9
    <3> QED BY <2>2, <3>1, Zenon DEF CanEvict
  <2>11. /\ contents' \in [L .. n -> Content]
         /\ \A k \in L .. n : k \in Live /\ contents'[k] = contents[k]
    <3>1. contents \in [Oldest .. n -> Content]
      BY Zenon DEF SInv, EncoderInv, n
    <3>2. L .. n \subseteq Oldest .. n
      BY <2>1, <2>8
    <3> QED BY <2>1, <2>2, <2>9, <3>1, <3>2, Zenon
  <2>12. /\ peer' \in [ins : Nat, acked : Nat, last_ici : Nat, cap : 0 .. MaxEntries]
         /\ peer'.acked = peer.acked /\ peer'.last_ici = peer.last_ici
         /\ peer'.ins = n /\ peer'.cap = c
    BY <2>2, <2>5, NowType, Zenon DEF n
  <2>13. Live' = L .. n
    BY <2>11, Zenon DEF Live
  <2>14. L = After(i).low
    BY Zenon DEF L
  <2>15. TableStep(i)
    BY <2>2, <2>4, <2>7, <2>8, <2>10, <2>11, <2>12, <2>13, <2>14, Zenon DEF TableStep
  <2> QED BY <2>15, Zenon DEF i
\* The inserts, with or without a reference, keep the invariant.
<1>PeerInsertInv. ASSUME PeerInsert
                  PROVE  SInv'
  <2> USE <1>PeerInsertInv
  <2> DEFINE e == [name |-> peer.ins + 1, val |-> peer.ins + 1]
             i == [op |-> "insert", entry |-> e, at |-> Now]
  <2>1. e \in Content
    BY Bounds, SMTT(30) DEF Content
  <2>2. i \in Instruction /\ SourceOk(i)
    BY <2>1, NowType, Zenon DEF Instruction, SourceOk
  <2>3. Insert(i.entry) /\ enc_stream' = Append(enc_stream, i)
    BY Zenon DEF PeerInsert, Send
  <2>4. i.op # "capacity" /\ i.at = Now /\ i.entry \in Content
    BY <2>1, Zenon
  <2> HIDE DEF i
  <2>5. TableStep(i)
    BY <2>2, <2>3, <2>4, <1>InsertIs, Zenon
  <2> QED BY <2>5, <1>TableStepInv, Zenon
\* Insert With Name Reference to entry k.
<1>PeerInsertNameRefInv. ASSUME NEW k \in Live, PeerInsertNameRef(k)
                         PROVE  SInv'
  <2> USE <1>PeerInsertNameRefInv
  <2> DEFINE e == [contents[k] EXCEPT !.val = peer.ins + 1]
             i == [op |-> "nameref", idx |-> peer.ins - k, val |-> peer.ins + 1,
                   entry |-> e, at |-> Now]
  <2>1. k \in Oldest .. peer.ins /\ peer.ins \in Nat /\ Oldest \in Nat
    BY Bounds, Zenon
  <2>2. contents[k] \in Content /\ contents[k] \in Held(k)
    BY Zenon DEF SInv, EncoderInv, ContentsInv, Live
  <2>3. e \in Content
    BY <2>1, <2>2 DEF Content
  <2>4. i \in Instruction
    BY <2>1, <2>3, NowType DEF Instruction
  <2>5. i.at.ins - i.idx = k /\ i.at.low + i.idx <= i.at.ins
    BY <2>1 DEF Now
  <2>6. SourceOk(i)
    BY <2>2, <2>5, Zenon DEF SourceOk
  <2>7. Insert(i.entry) /\ enc_stream' = Append(enc_stream, i)
    BY Zenon DEF PeerInsertNameRef, Send
  <2>8. i.op # "capacity" /\ i.at = Now /\ i.entry \in Content
    BY <2>3, Zenon
  <2> HIDE DEF i
  <2>9. TableStep(i)
    BY <2>4, <2>6, <2>7, <2>8, <1>InsertIs, Zenon
  <2> QED BY <2>9, <1>TableStepInv, Zenon
\* Duplicate of entry k.
<1>PeerDuplicateInv. ASSUME NEW k \in Live, PeerDuplicate(k)
                     PROVE  SInv'
  <2> USE <1>PeerDuplicateInv
  <2> DEFINE i == [op |-> "dup", idx |-> peer.ins - k, entry |-> contents[k], at |-> Now]
  <2>1. k \in Oldest .. peer.ins /\ peer.ins \in Nat /\ Oldest \in Nat
    BY Bounds, Zenon
  <2>2. contents[k] \in Content /\ contents[k] \in Held(k)
    BY Zenon DEF SInv, EncoderInv, ContentsInv, Live
  <2>3. i \in Instruction
    BY <2>1, <2>2, NowType, SMTT(30) DEF Instruction
  <2>4. i.at.ins - i.idx = k /\ i.at.low + i.idx <= i.at.ins
    BY <2>1, SMTT(30) DEF Now
  <2>5. SourceOk(i)
    BY <2>2, <2>4, Zenon DEF SourceOk
  <2>6. Insert(i.entry) /\ enc_stream' = Append(enc_stream, i)
    BY Zenon DEF PeerDuplicate, Send
  <2>7. i.op # "capacity" /\ i.at = Now /\ i.entry \in Content
    BY <2>2, Zenon
  <2> HIDE DEF i
  <2>8. TableStep(i)
    BY <2>3, <2>5, <2>6, <2>7, <1>InsertIs, Zenon
  <2> QED BY <2>8, <1>TableStepInv, Zenon
\* Set Dynamic Table Capacity.
<1>PeerSetCapacityInv. ASSUME NEW c \in Caps, PeerSetCapacity(c)
                       PROVE  SInv'
  <2> USE <1>PeerSetCapacityInv
  <2>1. PICK i : i = [op |-> "capacity", cap |-> c, at |-> Now]
    BY Zenon
  <2>2. TableStep(i)
    BY <2>1, <1>SetCapacityIs, Zenon
  <2> QED BY <2>2, <1>TableStepInv, Zenon
<1> QED BY <1>PeerInsertInv, <1>PeerInsertNameRefInv, <1>PeerDuplicateInv, <1>PeerSetCapacityInv, Zenon

=============================================================================
