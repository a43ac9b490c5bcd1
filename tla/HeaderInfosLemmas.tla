------------------------- MODULE HeaderInfosLemmas --------------------------
(***************************************************************************)
(* Every operation of HeaderInfos keeps its inductive invariant, and what the*)
(* invariant says.                                                         *)
(***************************************************************************)
EXTENDS HeaderInfos, LibraryFacts, TLAPS

-----------------------------------------------------------------------------
(***************************************************************************)
(* The operators of HeaderInfos: the rings of risked blocks, allocation    *)
(* and release of header infos, and what a step that leaves the risked     *)
(* list alone does to the invariant.                                       *)
(***************************************************************************)

\* A block alone on its ring is the only risked block of its stream.
LEMMA RingOfOne ==
    ASSUME NEW hs, NEW R, Rings(hs, R), NEW h \in R, hs[h].same = h
    PROVE  \A y \in R : hs[y].stream = hs[h].stream => y = h
<1>1. {h} \in SUBSET R /\ \A x \in {h} : hs[x].same \in {h}
  BY Zenon
<1> QED BY <1>1, Zenon DEF Rings

\* A block that is not alone has exactly one predecessor on its ring.
LEMMA RingPredecessor ==
    ASSUME NEW hs, NEW R, Rings(hs, R), NEW h \in R, hs[h].same # h
    PROVE  \E p \in R : p # h /\ hs[p].same = h /\ hs[p].stream = hs[h].stream
<1> DEFINE C == { x \in R : hs[x].stream = hs[h].stream /\ x # h }
<1>1. hs[h].same \in C
  BY Zenon DEF Rings
<1>2. ~ \A x \in C : hs[x].same \in C
  BY <1>1, Zenon DEF Rings
<1>3. PICK x \in C : hs[x].same \notin C
  BY <1>2, Zenon
<1>4. hs[x].same \in R /\ hs[hs[x].same].stream = hs[h].stream
  BY <1>3, Zenon DEF Rings
<1> QED BY <1>3, <1>4, Zenon

\* Taking a block out of its ring leaves rings.
LEMMA RingRemoval ==
    ASSUME NEW hs, NEW R, Rings(hs, R), NEW h \in R,
           NEW p \in R, p # h, hs[p].same = h,
           NEW new, 
           \A k \in R : new[k].stream = hs[k].stream,
           \A k \in R \ {h, p} : new[k].same = hs[k].same,
           new[p].same = hs[h].same
    PROVE  Rings(new, R \ {h})
<1>1. hs[h].same \in R \ {h}
  BY Zenon DEF Rings
<1>2. ASSUME NEW x \in R \ {h}
      PROVE  new[x].same \in R \ {h} /\ new[new[x].same].stream = new[x].stream
  BY <1>1 DEF Rings
<1>3. \A x, y \in R \ {h} : new[x].same = new[y].same => x = y
  BY DEF Rings
<1>4. ASSUME NEW C \in SUBSET (R \ {h}), \A x \in C : new[x].same \in C,
             NEW x \in C, NEW y \in R \ {h}, new[y].stream = new[x].stream
      PROVE  y \in C
  <2>1. CASE p \in C
    <3>1. C \cup {h} \in SUBSET R /\ \A z \in C \cup {h} : hs[z].same \in C \cup {h}
      BY <1>4, <2>1, Zenon
    <3>2. hs[y].stream = hs[x].stream
      BY <1>4, Zenon
    <3>3. x \in C \cup {h} /\ y \in R /\ y # h
      BY <1>4, Zenon
    <3>4. y \in C \cup {h}
      BY <3>1, <3>2, <3>3, Zenon DEF Rings
    <3> QED BY <3>3, <3>4, Zenon
  <2>2. CASE p \notin C
    <3>1. C \in SUBSET R /\ \A z \in C : hs[z].same \in C
      BY <1>4, <2>2, Zenon
    <3> QED BY <3>1, <1>4 DEF Rings
  <2> QED BY <2>1, <2>2, Zenon
<1> QED BY <1>2, <1>3, <1>4, Zenon DEF Rings

\* Dropping a block that is alone on its ring leaves rings.
LEMMA RingOfOneRemoval ==
    ASSUME NEW hs, NEW R, Rings(hs, R), NEW h \in R, hs[h].same = h
    PROVE  Rings(hs, R \ {h})
<1>1. \A x \in R \ {h} : hs[x].same \in R \ {h} /\ hs[hs[x].same].stream = hs[x].stream
  BY Zenon DEF Rings
<1>2. \A x, y \in R \ {h} : hs[x].same = hs[y].same => x = y
  BY Zenon DEF Rings
<1>3. ASSUME NEW C \in SUBSET (R \ {h}), \A x \in C : hs[x].same \in C,
             NEW x \in C, NEW y \in R \ {h}, hs[y].stream = hs[x].stream
      PROVE  y \in C
  <2>1. C \in SUBSET R
    BY Zenon
  <2> QED BY <2>1, <1>3, Zenon DEF Rings
<1> QED BY <1>1, <1>2, <1>3, Zenon DEF Rings

\* qenc_add_to_risked_list puts a block into the ring of its stream.
LEMMA RingInsertion ==
    ASSUME NEW hs, NEW R, Rings(hs, R), NEW o \in R, NEW n, n \notin R,
           hs[n].stream = hs[o].stream,
           NEW new,
           \A k \in R \cup {n} : new[k].stream = hs[k].stream,
           \A k \in R \ {o} : new[k].same = hs[k].same,
           new[n].same = hs[o].same, new[o].same = n
    PROVE  Rings(new, R \cup {n})
<1>1. \A x \in R \cup {n} : /\ new[x].same \in R \cup {n}
                           /\ new[new[x].same].stream = new[x].stream
  BY DEF Rings
<1>2. \A x, y \in R \cup {n} : new[x].same = new[y].same => x = y
  BY DEF Rings
<1>3. ASSUME NEW C \in SUBSET (R \cup {n}), \A x \in C : new[x].same \in C,
             NEW x \in C, NEW y \in R \cup {n}, new[y].stream = new[x].stream
      PROVE  y \in C
  <2> DEFINE D == C \ {n}
  <2>1. hs[o].same \in R /\ hs[hs[o].same].stream = hs[o].stream
    BY Zenon DEF Rings
  <2>2. D \in SUBSET R /\ \A z \in D : hs[z].same \in D
    <3>1. \A z \in D : z # o => hs[z].same \in C /\ hs[z].same \in R
      BY <1>3, Zenon DEF Rings
    <3>2. o \in D => hs[o].same \in C
      BY <1>3, Zenon
    <3> QED BY <3>1, <3>2, <2>1, Zenon
  <2>3. \A z \in D, w \in R : hs[w].stream = hs[z].stream => w \in D
    BY <2>2, Zenon DEF Rings
  <2>4. n \in C => hs[o].same \in D
    BY <1>3, <2>1, Zenon
  <2>5. n \in C => o \in D
    BY <2>1, <2>3, <2>4, Zenon
  <2>6. CASE x = n
    BY <1>3, <2>3, <2>5, <2>6
  <2>7. CASE x # n
    <3>1. x \in D /\ x \in R
      BY <2>7, Zenon
    <3>2. y \in R => y \in D
      BY <3>1, <1>3, <2>3
    <3>3. y = n => o \in D
      BY <3>1, <1>3, <2>3
    <3> QED BY <3>2, <3>3, <1>3
  <2> QED BY <2>6, <2>7, Zenon
<1> QED BY <1>1, <1>2, <1>3, Zenon DEF Rings

\* The first risked block of a stream is a ring of its own.
LEMMA RingOfOneInsertion ==
    ASSUME NEW hs, NEW R, Rings(hs, R), NEW n, n \notin R, hs[n].same = n,
           \A k \in R : hs[k].stream # hs[n].stream
    PROVE  Rings(hs, R \cup {n})
<1>1. \A x \in R \cup {n} : /\ hs[x].same \in R \cup {n}
                           /\ hs[hs[x].same].stream = hs[x].stream
  BY Zenon DEF Rings
<1>2. \A x, y \in R \cup {n} : hs[x].same = hs[y].same => x = y
  BY DEF Rings
<1>3. ASSUME NEW C \in SUBSET (R \cup {n}), \A x \in C : hs[x].same \in C,
             NEW x \in C, NEW y \in R \cup {n}, hs[y].stream = hs[x].stream
      PROVE  y \in C
  <2> DEFINE D == C \ {n}
  <2>1. D \in SUBSET R /\ \A z \in D : hs[z].same \in D
    BY <1>3, Zenon DEF Rings
  <2>2. \A z \in D, w \in R : hs[w].stream = hs[z].stream => w \in D
    BY <2>1, Zenon DEF Rings
  <2> QED BY <2>2, <1>3, Zenon
<1> QED BY <1>1, <1>2, <1>3, Zenon DEF Rings

\* Rings depend only on the streams and links of their blocks.
LEMMA RingsSame ==
    ASSUME NEW hs, NEW R, Rings(hs, R), NEW new,
           \A k \in R : new[k].stream = hs[k].stream /\ new[k].same = hs[k].same
    PROVE  Rings(new, R)
<1>1. \A x \in R : new[x].same \in R /\ new[new[x].same].stream = new[x].stream
  BY DEF Rings
<1>2. \A x, y \in R : new[x].same = new[y].same => x = y
  BY DEF Rings
<1>3. ASSUME NEW C \in SUBSET R, \A x \in C : new[x].same \in C,
             NEW x \in C, NEW y \in R, new[y].stream = new[x].stream
      PROVE  y \in C
  <2>1. \A z \in C : hs[z].same \in C
    BY <1>3, Zenon
  <2> QED BY <2>1, <1>3 DEF Rings
<1> QED BY <1>1, <1>2, <1>3, Zenon DEF Rings

\* Fewer arrays hold fewer header infos.
LEMMA MulMonotone ==
    \A a, m, n \in Nat : m <= n => a * m <= a * n
<1> SUFFICES ASSUME NEW a \in Nat, NEW m \in Nat, NEW n \in Nat, m <= n
             PROVE  a * m <= a * n
  BY Zenon
<1>1. n - m \in Nat /\ n = m + (n - m)
  OBVIOUS
<1>2. a * n = a * m + a * (n - m)
  BY <1>1
<1>3. a * (n - m) \in Nat
  BY <1>1
<1> QED BY <1>2, <1>3

\* Header infos in use lie in arrays that exist, hence among the slots.
LEMMA AllHinfosAreSlots ==
    ASSUME HTypeOK
    PROVE  /\ all_hinfos \subseteq Slots
           /\ 1 .. ArrSlots * arrs_count \subseteq Slots
<1>1. arrs_count \in Nat /\ arrs_count <= MaxArrs /\ ArrSlots \in Nat /\ MaxArrs \in Nat
  BY ArraysAssumption DEF HTypeOK
<1>2. ArrSlots * arrs_count <= ArrSlots * MaxArrs
  BY <1>1, MulMonotone, Zenon
<1>3. ArrSlots * arrs_count \in Nat /\ ArrSlots * MaxArrs \in Nat
  BY <1>1
<1>4. 1 .. ArrSlots * arrs_count \subseteq Slots
  BY <1>2, <1>3 DEF Slots
<1> QED BY <1>4, Zenon DEF HTypeOK

\* enc_alloc_hinfo returns NULL or a slot that is not in use, and the memory
\* guard keeps the number of arrays within bounds.
LEMMA AllocCorrect ==
    ASSUME HTypeOK, NEW h \in AllocResults, h # NULL,
           NEW n, n = IF FreeSlots = {} THEN arrs_count + 1 ELSE arrs_count
    PROVE  /\ h \in Slots \ all_hinfos
           /\ n \in 0 .. MaxArrs
           /\ h \in 1 .. ArrSlots * n
           /\ all_hinfos \subseteq 1 .. ArrSlots * n
<1>1. /\ arrs_count \in Nat /\ arrs_count <= MaxArrs
      /\ ArrSlots \in Nat /\ ArrSlots >= 1 /\ MaxArrs \in Nat
      /\ ArrBytes \in Nat /\ cur_max_capacity \in Nat
      /\ MemGuard => cur_max_capacity <= MaxArrs * ArrBytes
  BY ArraysAssumption, LimitsAssumption DEF HTypeOK
<1>2. CASE FreeSlots # {}
  BY <1>1, <1>2, AllHinfosAreSlots, Zenon DEF AllocResults, FreeSlots, HTypeOK
<1>3. CASE FreeSlots = {}
  <2>1. /\ h = ArrSlots * arrs_count + 1
        /\ IF MemGuard THEN arrs_count * ArrBytes < cur_max_capacity
                       ELSE arrs_count # MaxArrs
    <3>1. arrs_count * ArrBytes \in Nat
      BY <1>1
    <3> QED BY <1>1, <1>3, <3>1 DEF AllocResults, NULL
  <2>2. ASSUME MemGuard PROVE arrs_count < MaxArrs
    <3>1. ArrBytes * MaxArrs <= ArrBytes * arrs_count => FALSE
      <4>1. /\ ArrBytes * MaxArrs = MaxArrs * ArrBytes
            /\ ArrBytes * arrs_count = arrs_count * ArrBytes
            /\ MaxArrs * ArrBytes \in Nat /\ arrs_count * ArrBytes \in Nat
        BY <1>1
      <4> QED BY <4>1, <2>1, <2>2, <1>1
    <3>2. ~ MaxArrs <= arrs_count
      BY <3>1, <1>1, MulMonotone, Zenon
    <3> QED BY <3>2, <1>1
  <2>3. n = arrs_count + 1 /\ n \in Nat /\ n <= MaxArrs
    BY <1>1, <1>3, <2>1, <2>2
  <2>4. ArrSlots * n = ArrSlots * arrs_count + ArrSlots
    BY <1>1, <2>3
  <2>5. ArrSlots * n <= ArrSlots * MaxArrs
    BY <1>1, <2>3, MulMonotone, Zenon
  <2>6. ArrSlots * arrs_count \in Nat /\ ArrSlots * n \in Nat /\ ArrSlots * MaxArrs \in Nat
    BY <1>1, <2>3
  <2>7. h \in 1 .. ArrSlots * n /\ h \in Slots
    BY <1>1, <2>1, <2>4, <2>5, <2>6 DEF Slots
  <2>8. all_hinfos \subseteq 1 .. ArrSlots * n /\ h \notin all_hinfos
    BY <1>1, <2>1, <2>4, <2>6 DEF HTypeOK
  <2> QED BY <1>1, <2>3, <2>7, <2>8
<1> QED BY <1>2, <1>3, Zenon

\* enc_free_hinfo disturbs no slot but the one it frees, up to the list order.
LEMMA FreeCorrect ==
    ASSUME NEW STATE hs, hs \in [Slots -> Hinfo], NEW STATE h, h \in Slots
    PROVE  /\ WithoutHinfo(hs, h) \in [Slots -> Hinfo]
           /\ \A k \in Slots \ {h} :
                /\ WithoutHinfo(hs, h)[k].stream = hs[k].stream
                /\ WithoutHinfo(hs, h)[k].min_id = hs[k].min_id
                /\ WithoutHinfo(hs, h)[k].max_id = hs[k].max_id
                /\ WithoutHinfo(hs, h)[k].same = hs[k].same
           /\ WithoutHinfo(hs, h)[h].max_id \in {0, hs[h].max_id}
<1>1. BlankHinfo(h, NULL) \in Hinfo /\ BlankHinfo(h, NULL).max_id = 0
  BY Zenon DEF BlankHinfo, Hinfo
<1>2. ASSUME NEW k \in Slots
      PROVE  /\ [hs[k] EXCEPT !.older = @ \ {h}] \in Hinfo
             /\ [hs[k] EXCEPT !.older = @ \ {h}].stream = hs[k].stream
             /\ [hs[k] EXCEPT !.older = @ \ {h}].min_id = hs[k].min_id
             /\ [hs[k] EXCEPT !.older = @ \ {h}].max_id = hs[k].max_id
             /\ [hs[k] EXCEPT !.older = @ \ {h}].same = hs[k].same
  BY DEF Hinfo
<1> QED BY <1>1, <1>2, Zenon DEF WithoutHinfo

\* No slot is NULL.
LEMMA SlotsPositive == NULL \notin Slots /\ Slots \subseteq Nat
BY ArraysAssumption DEF NULL, Slots

\* A step that leaves the list, its links and its count alone.
LEMMA RiskedFrame ==
    ASSUME RiskedInv, UNCHANGED <<risked_hinfos, cur_streams_at_risk>>,
           \A k \in risked_hinfos : /\ hinfos'[k].stream = hinfos[k].stream
                                   /\ hinfos'[k].same = hinfos[k].same
    PROVE  /\ Rings(hinfos, risked_hinfos)'
           /\ StreamsAtRiskCounted'
           /\ (cur_streams_at_risk <= MaxRiskedStreams)'
<1>1. Rings(hinfos', risked_hinfos)
  BY RingsSame, Zenon DEF RiskedInv
<1>2. StreamsAtRisk' = StreamsAtRisk
  BY Zenon DEF StreamsAtRisk
<1> QED BY <1>1, <1>2 DEF RiskedInv, StreamsAtRiskCounted, Rings

\* qenc_maybe_update_hinfo_min_max only moves the block's bounds.
LEMMA NoteIdCorrect ==
    ASSUME NEW hi \in Hinfo, NEW id \in Ids
    PROVE  /\ NoteId(hi, id) \in Hinfo
           /\ NoteId(hi, id).stream = hi.stream
           /\ NoteId(hi, id).same = hi.same
           /\ NoteId(hi, id).max_id \in {hi.max_id, id}
BY Zenon DEF NoteId, Hinfo

\* A step that frees a block's header info, having made the slots' contents hs
\* by unlinking the block if it was on the list.
LEMMA FreeStep ==
    ASSUME HInv, NEW STATE hs, hs \in [Slots -> Hinfo],
           NEW STATE h, h \in all_hinfos,
           FreeHinfo(hs, h, TRUE),
           \A k \in Slots : /\ hs[k].stream = hinfos[k].stream
                           /\ hs[k].max_id = hinfos[k].max_id
    PROVE  /\ hinfos' \in [Slots -> Hinfo]
           /\ all_hinfos' = all_hinfos \ {h}
           /\ fault' = FALSE
           /\ \A k \in Slots \ {h} : /\ hinfos'[k].stream = hinfos[k].stream
                                     /\ hinfos'[k].max_id = hinfos[k].max_id
                                     /\ hinfos'[k].same = hs[k].same
           /\ \A k \in Slots : hinfos'[k].max_id <= ins_count
<1> USE DEF HInv
<1>1. h \in Slots
  BY AllHinfosAreSlots, Zenon
<1>2. hinfos' = WithoutHinfo(hs, h) /\ all_hinfos' = all_hinfos \ {h}
  BY Zenon DEF FreeHinfo
<1>3. fault' = FALSE
  BY Zenon DEF FreeHinfo, NoFault
<1>4. /\ hinfos' \in [Slots -> Hinfo]
      /\ \A k \in Slots \ {h} : /\ hinfos'[k].stream = hs[k].stream
                                /\ hinfos'[k].max_id = hs[k].max_id
                                /\ hinfos'[k].same = hs[k].same
      /\ hinfos'[h].max_id \in {0, hs[h].max_id}
  BY <1>1, <1>2, FreeCorrect
<1>5. \A k \in Slots : hinfos'[k].max_id <= ins_count
  <2>1. \A k \in Slots : hinfos[k].max_id <= ins_count
    BY Zenon DEF IdsInv
  <2>2. 0 <= ins_count
    BY LimitsAssumption DEF HTypeOK
  <2> QED BY <1>1, <1>4, <2>1, <2>2
<1> QED BY <1>1, <1>2, <1>3, <1>4, <1>5

-----------------------------------------------------------------------------
(***************************************************************************)
(* Encoding a header block keeps HInv: one lemma per action.               *)
(***************************************************************************)

\* Finitely many streams have blocks among a set of slots.
LEMMA StreamsOfFinite ==
    ASSUME Facts, NEW hs, NEW R \in SUBSET Slots
    PROVE  IsFiniteSet(StreamsOf(hs, R))
<1> DEFINE f == [h \in R |-> hs[h].stream]
<1>1. IsFiniteSet(R)
  <2>1. ArrSlots * MaxArrs \in Int
    BY ArraysAssumption
  <2>2. IsFiniteSet(Slots)
    BY <2>1 DEF Facts, IntervalFact, Slots
  <2> QED BY <2>2, Zenon DEF Facts, SubsetFact
<1>2. f \in [R -> StreamsOf(hs, R)] /\ \A s \in StreamsOf(hs, R) : \E h \in R : f[h] = s
  BY Zenon DEF StreamsOf
<1> HIDE DEF f
<1> QED BY <1>1, <1>2, Zenon DEF Facts, ImageFact

\* A freshly initialised encoder satisfies HInv.
LEMMA InitHInv ==
    ASSUME Facts
    PROVE  HInit => HInv
<1> SUFFICES ASSUME HInit PROVE HInv
  BY Zenon
<1>1. HTypeOK
  <2>1. \A h \in Slots : BlankHinfo(h, NULL) \in Hinfo
    BY Zenon DEF BlankHinfo, Hinfo
  <2>2. hinfos \in [Slots -> Hinfo]
    BY <2>1, Zenon DEF HInit
  <2>3. /\ cur_header \in [open : BOOLEAN, hinfo : {NULL} \cup Slots,
                           other_at_risk : {NULL} \cup Slots, base_idx : Nat,
                           bytes : Nat]
        /\ call \in [loop : {"none", "dup_draining", "ack", "ici", "cancel"},
                     hinfo : {NULL} \cup Slots]
    BY Zenon DEF HInit, NoHeader, NoCall
  <2>4. /\ ins_count \in 0 .. MaxAbsId /\ max_acked_id \in 0 .. MaxAbsId
        /\ last_ici \in 0 .. MaxAbsId /\ cur_max_capacity \in 0 .. RealMaxCapacity
        /\ arrs_count \in 0 .. MaxArrs /\ cur_streams_at_risk \in Nat
    BY LimitsAssumption, ArraysAssumption DEF HInit
  <2> QED BY <2>2, <2>3, <2>4, Zenon DEF HInit, HTypeOK
<1>2. IdsInv
  BY DEF HInit, IdsInv, AcksBounded, BlankHinfo
<1>3. RiskedInv
  <2>1. StreamsAtRisk = {}
    BY Zenon DEF HInit, StreamsAtRisk
  <2> QED BY <2>1, LimitsAssumption
          DEF Facts, EmptyFact, HInit, RiskedInv, Rings, StreamsAtRiskCounted
<1>4. CurHeaderInv /\ CallInv /\ NoFault
  BY Zenon DEF HInit, CurHeaderInv, CallInv, NoFault, NoHeader, NoCall
<1> QED BY <1>1, <1>2, <1>3, <1>4, Zenon DEF HInv

\* lsqpack_enc_start_header keeps HInv.
LEMMA StartHeaderHInv ==
    ASSUME HInv, NEW s \in Streams, NEW h \in {NULL} \cup Slots, StartHeader(s, h)
    PROVE  HInv'
<1> USE DEF HInv
<1>1. cur_header = NoHeader /\ cur_header.hinfo = NULL /\ risked_hinfos \subseteq all_hinfos
      /\ all_hinfos \subseteq Slots
  BY AllHinfosAreSlots DEF StartHeader, CurHeaderInv, NoHeader, RiskedInv
<1>2. PICK other \in IF s \in seen /\ h # NULL /\ RiskedOf(s) # {}
                    THEN First(RiskedOf(s)) ELSE {NULL} :
         cur_header' = [open |-> TRUE, hinfo |-> h, other_at_risk |-> other,
                        base_idx |-> ins_count, bytes |-> 0]
  BY Zenon DEF StartHeader
<1>3. other # NULL => other \in RiskedOf(s) /\ s \in seen /\ h # NULL
  BY <1>2, Zenon DEF First
<1>4. other \in {NULL} \cup Slots
  BY <1>1, <1>3, Zenon DEF RiskedOf
<1>5. other = NULL => RiskedOf(s) = {} \/ h = NULL
  BY <1>1, <1>2, SlotsPositive, Zenon DEF First, RiskedOf, RiskedInv
<1>6. CASE h = NULL
  <2>1. HTypeOK'
    BY <1>2, <1>4, <1>6 DEF StartHeader, HTypeOK
  <2>2. IdsInv' /\ NoFault'
    BY <1>6, Zenon DEF StartHeader, IdsInv, AcksBounded, NoFault
  <2>3. RiskedInv'
    <3>1. UNCHANGED <<risked_hinfos, cur_streams_at_risk, hinfos, all_hinfos,
                      max_acked_id, call>> /\ seen \subseteq seen'
      BY <1>6, Zenon DEF StartHeader
    <3> QED BY <1>1, <1>2, <1>6, <3>1, RiskedFrame, Zenon DEF RiskedInv, AtRisk
  <2>4. CurHeaderInv'
    BY <1>2, <1>3, <1>6, Zenon DEF CurHeaderInv
  <2>5. CallInv'
    BY <1>2, <1>6, Zenon DEF StartHeader, CallInv, NoCall
  <2> QED BY <2>1, <2>2, <2>3, <2>4, <2>5, Zenon
<1>7. CASE h # NULL
  <2> DEFINE new == [BlankHinfo(h, s) EXCEPT !.older = all_hinfos]
  <2>1. /\ h \in Slots \ all_hinfos
        /\ arrs_count' \in 0 .. MaxArrs
        /\ h \in 1 .. ArrSlots * arrs_count'
        /\ all_hinfos \subseteq 1 .. ArrSlots * arrs_count'
    BY <1>7, AllocCorrect, Zenon DEF StartHeader
  <2>2. /\ new \in Hinfo /\ new.stream = s /\ new.max_id = 0 /\ new.min_id = 0
        /\ new.same = h
    BY <1>1, <2>1, Zenon DEF BlankHinfo, Hinfo
  <2>3. /\ hinfos' = [hinfos EXCEPT ![h] = new]
        /\ all_hinfos' = all_hinfos \cup {h}
        /\ seen' = seen \cup {s}
        /\ UNCHANGED <<ins_count, max_acked_id, last_ici, cur_max_capacity,
                       risked_hinfos, cur_streams_at_risk, call, fault>>
    BY <1>7, Zenon DEF StartHeader
  <2>4. /\ hinfos' \in [Slots -> Hinfo] /\ hinfos'[h] = new
        /\ \A k \in Slots \ {h} : hinfos'[k] = hinfos[k]
    BY <2>1, <2>2, <2>3, Zenon DEF HTypeOK
  <2>5. HTypeOK'
    BY <1>2, <1>4, <2>1, <2>3, <2>4 DEF HTypeOK
  <2>6. IdsInv' /\ NoFault'
    BY <2>2, <2>3, <2>4 DEF IdsInv, AcksBounded, NoFault, HTypeOK
  <2>7. RiskedInv'
    <3>1. \A k \in all_hinfos : hinfos'[k] = hinfos[k]
      BY <1>1, <2>1, <2>4, Zenon
    <3>2. Rings(hinfos, risked_hinfos)' /\ StreamsAtRiskCounted'
          /\ (cur_streams_at_risk <= MaxRiskedStreams)'
      BY <1>1, <2>3, <3>1, RiskedFrame, Zenon
    <3>3. cur_header'.hinfo = h
      BY <1>2, Zenon
    <3>4. risked_hinfos' \subseteq all_hinfos' \ {h}
      BY <1>1, <2>1, <2>3, Zenon
    <3>5. \A k \in all_hinfos' \ {h} : hinfos'[k].max_id > max_acked_id' => k \in risked_hinfos'
      BY <1>1, <2>1, <2>3, <3>1, SlotsPositive DEF RiskedInv, AtRisk
    <3>6. call'.loop \notin {"ack", "ici"} =>
             \A k \in risked_hinfos' : hinfos'[k].max_id > max_acked_id'
      BY <1>1, <2>3, <3>1, Zenon DEF RiskedInv, AtRisk
    <3>7. \A k \in all_hinfos' : hinfos'[k].stream \in seen'
      BY <2>2, <2>3, <2>4, <3>1 DEF RiskedInv
    <3> QED BY <3>2, <3>3, <3>4, <3>5, <3>6, <3>7, Zenon DEF RiskedInv, AtRisk
  <2>8. CurHeaderInv'
    <3>1. \A k \in risked_hinfos : hinfos'[k] = hinfos[k]
      BY <1>1, <2>1, <2>4, Zenon
    <3>2. { k \in risked_hinfos' : hinfos'[k].stream = s } = RiskedOf(s)
      BY <2>3, <3>1, Zenon DEF RiskedOf
    <3>3. ~ hinfos'[h].max_id > max_acked_id'
      BY <2>2, <2>3, <2>4 DEF HTypeOK
    <3>4. OneBlockPerStream => other = NULL
      BY <1>3, Zenon DEF StartHeader
    <3>5. /\ cur_header'.open /\ cur_header'.hinfo = h
          /\ cur_header'.other_at_risk = other /\ hinfos'[h].stream = s
          /\ hinfos'[h].same = h /\ h \in all_hinfos'
      BY <1>2, <2>2, <2>3, <2>4, Zenon
    <3>6. cur_header'.hinfo # NULL => RiskedOf(hinfos[cur_header.hinfo].stream)' = RiskedOf(s)
      BY <3>2, <3>5, Zenon DEF RiskedOf
    <3> QED BY <1>3, <1>5, <1>7, <3>3, <3>4, <3>5, <3>6, Zenon DEF CurHeaderInv, AtRisk
  <2>9. CallInv'
    BY <2>3 DEF StartHeader, CallInv, NoCall
  <2> QED BY <2>5, <2>6, <2>7, <2>8, <2>9, Zenon
<1> QED BY <1>6, <1>7, Zenon

\* lsqpack_enc_encode keeps HInv.
LEMMA EncodeHInv ==
    ASSUME HInv, NEW size \in {0} \cup EntrySizes, NEW ref_new \in BOOLEAN,
           NEW found \in 0 .. ins_count, Encode(size, ref_new, found)
    PROVE  HInv'
<1> USE DEF HInv
<1> DEFINE h == cur_header.hinfo
           fst == IF ref_new THEN NoteId(hinfos[h], ins_count + 1) ELSE hinfos[h]
           snd == IF found # 0 THEN NoteId(fst, found) ELSE fst
           noted == ref_new \/ found # 0
<1>0. ins_count \in 0 .. MaxAbsId /\ MaxAbsId \in Nat /\ max_acked_id \in Nat
      /\ cur_streams_at_risk \in Nat /\ MaxRiskedStreams \in Nat /\ size \in Nat
  BY LimitsAssumption DEF HTypeOK
<1>1. /\ UNCHANGED <<max_acked_id, last_ici, cur_max_capacity, arrs_count,
                     all_hinfos, risked_hinfos, cur_streams_at_risk, seen>>
      /\ ins_count' = IF size = 0 THEN ins_count ELSE ins_count + 1
      /\ cur_header' = [cur_header EXCEPT !.bytes = @ + size]
      /\ call' = [loop |-> "dup_draining", hinfo |-> NULL]
      /\ call = NoCall /\ cur_header.open
  BY Zenon DEF Encode
<1>2. /\ cur_header'.open = cur_header.open /\ cur_header'.hinfo = h
      /\ cur_header'.other_at_risk = cur_header.other_at_risk
      /\ cur_header' \in [open : BOOLEAN, hinfo : {NULL} \cup Slots,
                          other_at_risk : {NULL} \cup Slots, base_idx : Nat,
                          bytes : Nat]
  <2>1. cur_header.bytes + size \in Nat
    BY <1>0 DEF HTypeOK
  <2> QED BY <1>1, <2>1, Zenon DEF HTypeOK
<1>3. ins_count' \in 0 .. MaxAbsId /\ ins_count <= ins_count'
      /\ (ref_new => ins_count' = ins_count + 1)
  BY <1>0, <1>1 DEF Encode
<1>4. hinfos' = IF noted THEN [hinfos EXCEPT ![h] = snd] ELSE hinfos
  BY Zenon DEF Encode
<1>5. ASSUME noted
      PROVE  /\ h \in all_hinfos /\ h \in Slots /\ hinfos[h] \in Hinfo
             /\ snd \in Hinfo /\ snd.stream = hinfos[h].stream
             /\ snd.same = hinfos[h].same
             /\ \/ snd.max_id = hinfos[h].max_id
                \/ ref_new /\ snd.max_id = ins_count + 1
                \/ found # 0 /\ snd.max_id = found
  <2>1. h # NULL
    BY <1>5, Zenon DEF Encode, UseDynTable
  <2>2. h \in all_hinfos /\ h \in Slots /\ hinfos[h] \in Hinfo
    BY <2>1, AllHinfosAreSlots, Zenon DEF CurHeaderInv, HTypeOK
  <2>3. ref_new => ins_count + 1 \in Ids
    BY <1>0, <1>3 DEF Ids
  <2>4. found # 0 => found \in Ids
    BY <1>0 DEF Ids
  <2>5. /\ fst \in Hinfo /\ fst.stream = hinfos[h].stream /\ fst.same = hinfos[h].same
        /\ fst.max_id = hinfos[h].max_id \/ (ref_new /\ fst.max_id = ins_count + 1)
    BY <2>2, <2>3, NoteIdCorrect, Zenon
  <2> QED BY <2>2, <2>4, <2>5, NoteIdCorrect, Zenon
<1>6. hinfos' \in [Slots -> Hinfo]
  BY <1>4, <1>5, Zenon DEF HTypeOK
<1>7. \A k \in Slots \ {h} : hinfos'[k] = hinfos[k]
  BY <1>4, <1>5, Zenon DEF HTypeOK
<1>8. noted => hinfos'[h] = snd
  BY <1>4, <1>5, Zenon DEF HTypeOK
<1>8a. \A k \in Slots : /\ hinfos'[k].stream = hinfos[k].stream
                       /\ hinfos'[k].same = hinfos[k].same
  BY <1>4, <1>5, <1>7, <1>8, Zenon
<1>9. all_hinfos \subseteq Slots /\ risked_hinfos \subseteq all_hinfos \ {h}
  BY AllHinfosAreSlots, Zenon DEF RiskedInv
<1>10. NoFault'
  <2>1. ref_new => ~ ins_count < hinfos[h].max_id
    BY <1>0, <1>5 DEF IdsInv, Hinfo, Ids
  <2> QED BY <2>1, Zenon DEF Encode, NoFault
<1>11. HTypeOK'
  <2>1. call' \in [loop : {"none", "dup_draining", "ack", "ici", "cancel"},
                  hinfo : {NULL} \cup Slots]
    BY <1>1, Zenon
  <2>2. fault' \in BOOLEAN
    BY Zenon DEF Encode
  <2> QED BY <1>1, <1>2, <1>3, <1>6, <2>1, <2>2, Zenon DEF HTypeOK
<1>12. IdsInv'
  <2>1. \A k \in Slots : hinfos[k].max_id \in Nat /\ hinfos[k].max_id <= ins_count
    BY <1>0 DEF IdsInv, HTypeOK, Hinfo, Ids
  <2>2. noted => snd.max_id <= ins_count'
    BY <1>0, <1>3, <1>5, <2>1
  <2>3. \A k \in Slots : hinfos'[k].max_id <= ins_count'
    BY <1>0, <1>3, <1>4, <1>7, <1>8, <2>1, <2>2
  <2>4. AcksBounded'
    BY <1>0, <1>1, <1>3 DEF IdsInv, AcksBounded, HTypeOK
  <2> QED BY <2>3, <2>4, Zenon DEF IdsInv
<1>13. RiskedInv'
  <2>1. \A k \in all_hinfos \ {h} : hinfos'[k] = hinfos[k]
    BY <1>7, <1>9, Zenon
  <2>2. Rings(hinfos, risked_hinfos)' /\ StreamsAtRiskCounted'
        /\ (cur_streams_at_risk <= MaxRiskedStreams)'
    BY <1>1, <1>9, <2>1, RiskedFrame, Zenon
  <2>3. \A k \in all_hinfos \ {h} : hinfos'[k].max_id > max_acked_id' => k \in risked_hinfos
    BY <1>1, <2>1, Zenon DEF RiskedInv, AtRisk
  <2>4. \A k \in risked_hinfos : hinfos'[k].max_id > max_acked_id'
    BY <1>1, <1>9, <2>1, Zenon DEF RiskedInv, AtRisk, NoCall
  <2>5. \A k \in all_hinfos : hinfos'[k].stream \in seen
    BY <1>8a, <1>9, Zenon DEF RiskedInv
  <2> QED BY <1>1, <1>2, <1>9, <2>2, <2>3, <2>4, <2>5, Zenon DEF RiskedInv, AtRisk
<1>14. CurHeaderInv'
  <2>1. ASSUME h # NULL
        PROVE  RiskedOf(hinfos[cur_header.hinfo].stream)' = RiskedOf(hinfos[h].stream)
    <3>1. h \in Slots
      BY <2>1, Zenon DEF HTypeOK
    <3> QED BY <1>1, <1>2, <1>8a, <1>9, <3>1, Zenon DEF RiskedOf
  <2>2. ASSUME h # NULL, cur_header.other_at_risk = NULL,
               hinfos'[h].max_id > max_acked_id'
        PROVE  cur_streams_at_risk' < MaxRiskedStreams
    <3>1. AtRisk(h) => cur_streams_at_risk < MaxRiskedStreams
      BY <2>2, Zenon DEF CurHeaderInv
    <3>2. CanRisk => cur_streams_at_risk < MaxRiskedStreams
      BY <2>2, <3>1, Zenon DEF CanRisk
    <3>3. CASE ~ noted \/ snd.max_id = hinfos[h].max_id
      BY <1>1, <1>4, <1>8, <2>2, <3>1, <3>3 DEF AtRisk
    <3>4. CASE ref_new
      BY <1>1, <3>2, <3>4, Zenon DEF Encode
    <3>5. CASE found # 0 /\ snd.max_id = found
      BY <1>0, <1>1, <1>8, <2>2, <3>2, <3>5 DEF Encode
    <3> QED BY <1>5, <3>3, <3>4, <3>5, Zenon
  <2>3. h # NULL => h \in all_hinfos' /\ hinfos'[h].same = h
    BY <1>1, <1>8a, <1>9, Zenon DEF CurHeaderInv
  <2> QED BY <1>1, <1>2, <2>1, <2>2, <2>3, Zenon DEF CurHeaderInv, AtRisk
<1>15. CallInv'
  BY <1>1, Zenon DEF CallInv
<1> QED BY <1>10, <1>11, <1>12, <1>13, <1>14, <1>15, Zenon

\* Steps that touch neither header infos nor the risked list.
LEMMA QuietHInv ==
    ASSUME HInv,
           UNCHANGED <<hinfos, arrs_count, all_hinfos, risked_hinfos,
                       cur_streams_at_risk, cur_header, seen, fault>>,
           \/ DupDraining
           \/ EncodeReturn
           \/ \E c \in Capacities : SetMaxCapacity(c)
           \/ \E n \in Ids : Ici(n)
    PROVE  HInv'
<1> USE DEF HInv
<1>0. ins_count \in 0 .. MaxAbsId /\ MaxAbsId \in Nat /\ max_acked_id \in 0 .. MaxAbsId
      /\ last_ici \in 0 .. MaxAbsId
  BY LimitsAssumption, Zenon DEF HTypeOK
<1>1. /\ ins_count' \in 0 .. MaxAbsId /\ ins_count <= ins_count'
      /\ max_acked_id' \in 0 .. MaxAbsId /\ max_acked_id <= max_acked_id'
      /\ last_ici' \in 0 .. MaxAbsId
      /\ last_ici' <= max_acked_id' /\ max_acked_id' <= ins_count'
      /\ cur_max_capacity' \in 0 .. RealMaxCapacity
  <2>1. CASE DupDraining
    BY <1>0, <2>1 DEF DupDraining, IdsInv, AcksBounded, HTypeOK
  <2>2. CASE EncodeReturn
    BY <1>0, <2>2 DEF EncodeReturn, IdsInv, AcksBounded, HTypeOK
  <2>3. CASE \E c \in Capacities : SetMaxCapacity(c)
    BY <1>0, <2>3, LimitsAssumption DEF SetMaxCapacity, IdsInv, AcksBounded
  <2>4. CASE \E n \in Ids : Ici(n)
    BY <1>0, <2>4 DEF Ici, Ids, IdsInv, AcksBounded, HTypeOK
  <2> QED BY <2>1, <2>2, <2>3, <2>4, Zenon
<1>2. \/ call' = NoCall /\ call.loop \notin {"ack", "ici"} /\ max_acked_id' = max_acked_id
      \/ call' = call /\ max_acked_id' = max_acked_id
      \/ /\ call' = [loop |-> "ici", hinfo |-> NULL]
         /\ cur_header.open => MidHeader # {}
  BY Zenon DEF DupDraining, EncodeReturn, SetMaxCapacity, Ici, Delivered
<1>3. HTypeOK'
  <2>1. call' \in [loop : {"none", "dup_draining", "ack", "ici", "cancel"},
                  hinfo : {NULL} \cup Slots]
    BY <1>2 DEF HTypeOK, NoCall
  <2> QED BY <1>1, <2>1, Zenon DEF HTypeOK
<1>4. IdsInv'
  BY <1>0, <1>1 DEF IdsInv, AcksBounded, HTypeOK, Hinfo, Ids
<1>5. \A k \in Slots : hinfos[k].max_id > max_acked_id' => hinfos[k].max_id > max_acked_id
  BY <1>0, <1>1 DEF HTypeOK, Hinfo, Ids
<1>6. all_hinfos \subseteq Slots
  BY AllHinfosAreSlots, Zenon
<1>7. RiskedInv'
  <2>1. Rings(hinfos, risked_hinfos)' /\ StreamsAtRiskCounted'
        /\ (cur_streams_at_risk <= MaxRiskedStreams)'
    BY RiskedFrame, Zenon
  <2>2. \A k \in all_hinfos \ {cur_header.hinfo} :
           hinfos[k].max_id > max_acked_id' => k \in risked_hinfos
    BY <1>5, <1>6, Zenon DEF RiskedInv, AtRisk
  <2>3. call'.loop \notin {"ack", "ici"} =>
           \A k \in risked_hinfos : hinfos[k].max_id > max_acked_id'
    BY <1>2 DEF RiskedInv, AtRisk, NoCall
  <2> QED BY <2>1, <2>2, <2>3, Zenon DEF RiskedInv, AtRisk
<1>8. CurHeaderInv'
  BY <1>5, <1>6, Zenon DEF CurHeaderInv, AtRisk, RiskedOf
<1>9. CallInv'
  BY <1>1, <1>2, <1>5, <1>6 DEF CallInv, NoCall, AtRisk
<1> QED BY <1>3, <1>4, <1>7, <1>8, <1>9, Zenon DEF NoFault

\* Ending or cancelling a block that references nothing.
LEMMA DropHInv ==
    ASSUME HInv, call = NoCall, cur_header.open, ~CurIdsSet, cur_header' = NoHeader,
           DropCurHinfo,
           UNCHANGED <<ins_count, max_acked_id, last_ici, cur_max_capacity,
                       arrs_count, seen, call>>
    PROVE  HInv'
<1> USE DEF HInv
<1> DEFINE h == cur_header.hinfo
<1>1. UNCHANGED <<risked_hinfos, cur_streams_at_risk>>
  BY Zenon DEF DropCurHinfo
<1>2. all_hinfos \subseteq Slots /\ risked_hinfos \subseteq all_hinfos \ {h}
  BY AllHinfosAreSlots, Zenon DEF RiskedInv
<1>3. /\ hinfos' \in [Slots -> Hinfo]
      /\ all_hinfos' = all_hinfos \ {h}
      /\ fault' = FALSE
      /\ \A k \in Slots \ {h} : /\ hinfos'[k].stream = hinfos[k].stream
                                /\ hinfos'[k].max_id = hinfos[k].max_id
                                /\ hinfos'[k].same = hinfos[k].same
      /\ \A k \in Slots : hinfos'[k].max_id <= ins_count
  <2>1. CASE h = NULL
    <3>1. hinfos' = hinfos /\ all_hinfos' = all_hinfos /\ fault' = fault
      BY <2>1, Zenon DEF DropCurHinfo
    <3>2. all_hinfos = all_hinfos \ {h}
      BY <1>2, <2>1, SlotsPositive, Zenon
    <3> QED BY <3>1, <3>2, Zenon DEF HTypeOK, NoFault, IdsInv
  <2>2. CASE h # NULL
    <3>1. h \in all_hinfos /\ FreeHinfo(hinfos, h, TRUE) /\ hinfos \in [Slots -> Hinfo]
      BY <2>2, Zenon DEF DropCurHinfo, CurHeaderInv, HTypeOK
    <3> QED BY <3>1, FreeStep, Zenon
  <2> QED BY <2>1, <2>2, Zenon
<1>4. HTypeOK'
  <2>1. NoHeader \in [open : BOOLEAN, hinfo : {NULL} \cup Slots,
                     other_at_risk : {NULL} \cup Slots, base_idx : Nat,
                     bytes : Nat]
    BY Zenon DEF NoHeader
  <2> QED BY <1>1, <1>3, <2>1, Zenon DEF HTypeOK
<1>5. IdsInv' /\ NoFault'
  BY <1>3, Zenon DEF IdsInv, AcksBounded, NoFault
<1>6. RiskedInv'
  <2>1. Rings(hinfos, risked_hinfos)' /\ StreamsAtRiskCounted'
        /\ (cur_streams_at_risk <= MaxRiskedStreams)'
    BY <1>1, <1>2, <1>3, RiskedFrame, Zenon
  <2>2. cur_header'.hinfo = NULL
    BY Zenon DEF NoHeader
  <2>3. \A k \in all_hinfos' : hinfos'[k].max_id > max_acked_id' => k \in risked_hinfos'
    BY <1>1, <1>2, <1>3, Zenon DEF RiskedInv, AtRisk
  <2>4. \A k \in risked_hinfos' : hinfos'[k].max_id > max_acked_id'
    BY <1>1, <1>2, <1>3, Zenon DEF RiskedInv, AtRisk, NoCall
  <2>5. \A k \in all_hinfos' : hinfos'[k].stream \in seen'
    BY <1>2, <1>3, Zenon DEF RiskedInv
  <2>6. risked_hinfos' \subseteq all_hinfos' \ {NULL}
    BY <1>1, <1>2, <1>3, SlotsPositive, SMTT(30)
  <2> QED BY <2>1, <2>2, <2>3, <2>4, <2>5, <2>6, Zenon DEF RiskedInv, AtRisk
<1>7. CurHeaderInv' /\ CallInv'
  BY Zenon DEF CurHeaderInv, CallInv, NoHeader, NoCall
<1> QED BY <1>4, <1>5, <1>6, <1>7, Zenon

\* lsqpack_enc_end_header keeps HInv: the block joins the ring of its stream.
LEMMA EndHeaderHInv ==
    ASSUME Facts, HInv, EndHeader
    PROVE  HInv'
<1> USE DEF HInv
<1> DEFINE h == cur_header.hinfo
           other == cur_header.other_at_risk
<1>1. /\ call = NoCall /\ cur_header.open /\ cur_header' = NoHeader
      /\ UNCHANGED <<ins_count, max_acked_id, last_ici, cur_max_capacity,
                     arrs_count, seen, call>>
  BY Zenon DEF EndHeader
<1>2. CASE ~CurIdsSet
  <2>1. DropCurHinfo
    BY <1>2, Zenon DEF EndHeader
  <2> QED BY <1>1, <1>2, <2>1, DropHInv, Zenon
<1>3. CASE CurIdsSet
  <2>1. /\ h # NULL /\ h \in all_hinfos /\ h \in Slots /\ hinfos[h].same = h
        /\ h \notin risked_hinfos /\ all_hinfos \subseteq Slots
        /\ risked_hinfos \subseteq all_hinfos /\ all_hinfos' = all_hinfos
    BY <1>3, AllHinfosAreSlots, Zenon DEF CurIdsSet, CurHeaderInv, RiskedInv, EndHeader
  <2>2. NoHeader \in [open : BOOLEAN, hinfo : {NULL} \cup Slots,
                     other_at_risk : {NULL} \cup Slots, base_idx : Nat,
                     bytes : Nat]
    BY Zenon DEF NoHeader
  <2>3. CurHeaderInv' /\ CallInv'
    BY <1>1, Zenon DEF CurHeaderInv, CallInv, NoHeader, NoCall
  <2>4. CASE ~AtRisk(h)
    <3>1. UNCHANGED <<hinfos, risked_hinfos, cur_streams_at_risk, fault>>
      BY <1>3, <2>4, Zenon DEF EndHeader
    <3>2. HTypeOK' /\ IdsInv' /\ NoFault'
      BY <1>1, <2>1, <2>2, <3>1, Zenon DEF HTypeOK, IdsInv, AcksBounded, NoFault
    <3>3. RiskedInv'
      <4>1. Rings(hinfos, risked_hinfos)' /\ StreamsAtRiskCounted'
            /\ (cur_streams_at_risk <= MaxRiskedStreams)'
        BY <3>1, RiskedFrame, Zenon
      <4>2. cur_header'.hinfo = NULL
        BY <1>1, Zenon DEF NoHeader
      <4> QED BY <1>1, <2>1, <2>4, <3>1, <4>1, <4>2, SlotsPositive, Zenon DEF RiskedInv, AtRisk
    <3> QED BY <2>3, <3>2, <3>3, Zenon
  <2>5. CASE AtRisk(h)
    <3>1. AddToRisked(h)
      BY <1>3, <2>5, Zenon DEF EndHeader
    <3> DEFINE S == StreamsAtRisk
    <3>2. /\ risked_hinfos' = risked_hinfos \cup {h}
          /\ IsFiniteSet(S) /\ cur_streams_at_risk = Cardinality(S)
          /\ cur_streams_at_risk \in Nat /\ MaxRiskedStreams \in Nat
      <4>1. S = StreamsOf(hinfos, risked_hinfos)
        BY Zenon DEF StreamsAtRisk, StreamsOf
      <4>2. IsFiniteSet(S)
        BY <2>1, <4>1, StreamsOfFinite, Zenon
      <4> QED BY <3>1, <4>2, LimitsAssumption, Zenon
              DEF AddToRisked, RiskedInv, StreamsAtRiskCounted, HTypeOK
    <3>3. /\ hinfos' \in [Slots -> Hinfo]
          /\ \A k \in Slots : /\ hinfos'[k].stream = hinfos[k].stream
                              /\ hinfos'[k].max_id = hinfos[k].max_id
          /\ Rings(hinfos', risked_hinfos')
          /\ cur_streams_at_risk' \in Nat
          /\ cur_streams_at_risk' <= MaxRiskedStreams
          /\ fault' = FALSE
          /\ cur_streams_at_risk' = Cardinality(StreamsAtRisk')
      <4>1. CASE other = NULL
        <5>1. /\ hinfos' = hinfos /\ cur_streams_at_risk' = cur_streams_at_risk + 1
              /\ cur_streams_at_risk < MaxRiskedStreams
              /\ RiskedOf(hinfos[h].stream) = {}
          BY <2>1, <2>5, <3>1, <4>1, Zenon DEF AddToRisked, CurHeaderInv
        <5>2. \A k \in risked_hinfos : hinfos[k].stream # hinfos[h].stream
          BY <5>1, Zenon DEF RiskedOf
        <5>3. Rings(hinfos, risked_hinfos \cup {h})
          BY <2>1, <5>2, RingOfOneInsertion, Zenon DEF RiskedInv
        <5>4. StreamsAtRisk' = S \cup {hinfos[h].stream} /\ hinfos[h].stream \notin S
          BY <3>2, <5>1, <5>2, Zenon DEF StreamsAtRisk
        <5>5. Cardinality(S \cup {hinfos[h].stream}) = cur_streams_at_risk + 1
          BY <3>2, <5>4, Zenon DEF Facts, AddFact
        <5>6. fault' = FALSE
          <6>1. ~ cur_streams_at_risk + 1 > MaxRiskedStreams
            BY <3>2, <5>1, SMTT(30)
          <6> QED BY <2>1, <3>1, <4>1, <6>1, Zenon DEF AddToRisked, NoFault
        <5> QED BY <3>2, <5>1, <5>3, <5>4, <5>5, <5>6 DEF HTypeOK
      <4>2. CASE other # NULL
        <5>1. /\ other \in risked_hinfos /\ other \in Slots /\ other # h
              /\ hinfos[other].stream = hinfos[h].stream
              /\ hinfos[other].same \in Slots
          BY <2>1, <4>2, Zenon DEF CurHeaderInv, RiskedOf, HTypeOK, Hinfo
        <5>2. /\ hinfos' = [hinfos EXCEPT ![h].same = hinfos[other].same,
                                         ![other].same = h]
              /\ cur_streams_at_risk' = cur_streams_at_risk
          BY <3>1, <4>2, Zenon DEF AddToRisked
        <5>3. /\ hinfos' \in [Slots -> Hinfo]
              /\ hinfos'[h].same = hinfos[other].same
              /\ hinfos'[other].same = h
              /\ \A k \in Slots : /\ hinfos'[k].stream = hinfos[k].stream
                                  /\ hinfos'[k].max_id = hinfos[k].max_id
                                  /\ k \notin {h, other} => hinfos'[k].same = hinfos[k].same
          <6>1. hinfos \in [Slots -> Hinfo] /\ h \in Slots
            BY <2>1, Zenon DEF HTypeOK
          <6> HIDE DEF h, other, HInv
          <6> QED BY <5>1, <5>2, <6>1, SMTT(30) DEF Hinfo
        <5>4. Rings(hinfos', risked_hinfos \cup {h})
          <6>1. Rings(hinfos, risked_hinfos) /\ \A k \in risked_hinfos : k \in Slots
            BY <2>1, Zenon DEF RiskedInv
          <6>2. h \notin risked_hinfos /\ h \in Slots /\ hinfos[h].same = h
            BY <2>1, Zenon
          <6> HIDE DEF h, other, HInv
          <6> QED BY <5>1, <5>3, <6>1, <6>2, RingInsertion
        <5>5. StreamsAtRisk' = S
          BY <2>1, <3>2, <5>1, <5>3 DEF StreamsAtRisk
        <5>6. fault' = FALSE
          BY <2>1, <3>1, <4>2, Zenon DEF AddToRisked, NoFault
        <5> QED BY <3>2, <5>2, <5>3, <5>4, <5>5, <5>6, Zenon DEF RiskedInv
      <4> QED BY <4>1, <4>2, Zenon
    <3>4. HTypeOK'
      BY <1>1, <2>1, <2>2, <3>2, <3>3, Zenon DEF HTypeOK
    <3>5. IdsInv' /\ NoFault'
      <4>1. \A k \in Slots : hinfos'[k].max_id = hinfos[k].max_id
        BY <3>3, Zenon
      <4>2. ins_count' = ins_count /\ max_acked_id' = max_acked_id
            /\ last_ici' = last_ici /\ fault' = FALSE
        BY <1>1, <3>3, Zenon
      <4> QED BY <4>1, <4>2, Zenon DEF IdsInv, AcksBounded, NoFault
    <3>6. RiskedInv'
      <4>1. cur_header'.hinfo = NULL /\ call' = NoCall /\ seen' = seen
            /\ max_acked_id' = max_acked_id /\ all_hinfos' = all_hinfos
            /\ risked_hinfos' = risked_hinfos \cup {h}
        BY <1>1, <2>1, <3>2, Zenon DEF NoHeader
      <4>2. risked_hinfos' \subseteq all_hinfos' \ {NULL}
        <5>1. NULL \notin all_hinfos
          BY <2>1, SlotsPositive, Zenon
        <5> QED BY <2>1, <4>1, <5>1, Zenon
      <4>3. \A k \in all_hinfos : /\ hinfos'[k].max_id = hinfos[k].max_id
                                  /\ hinfos'[k].stream = hinfos[k].stream
        BY <2>1, <3>3, Zenon
      <4>4. \A k \in all_hinfos : AtRisk(k)' <=> AtRisk(k)
        BY <4>1, <4>3, Zenon DEF AtRisk
      <4>5. \A k \in all_hinfos' : AtRisk(k)' => k \in risked_hinfos'
        <5>1. \A k \in all_hinfos \ {h} : AtRisk(k) => k \in risked_hinfos
          BY Zenon DEF RiskedInv
        <5> QED BY <4>1, <4>4, <5>1, Zenon
      <4>6. \A k \in risked_hinfos' : AtRisk(k)'
        <5>1. \A k \in risked_hinfos : AtRisk(k)
          BY <1>1, Zenon DEF RiskedInv, NoCall
        <5> QED BY <2>1, <2>5, <4>1, <4>4, <5>1, Zenon
      <4>7. \A k \in all_hinfos' : hinfos'[k].stream \in seen'
        <5>1. \A k \in all_hinfos : hinfos[k].stream \in seen
          BY Zenon DEF RiskedInv
        <5> QED BY <4>1, <4>3, <5>1, Zenon
      <4>8. Rings(hinfos, risked_hinfos)' /\ StreamsAtRiskCounted'
            /\ (cur_streams_at_risk <= MaxRiskedStreams)'
        BY <3>3, Zenon DEF StreamsAtRiskCounted, Rings
      <4> QED BY <4>1, <4>2, <4>5, <4>6, <4>7, <4>8, Zenon DEF RiskedInv
    <3> QED BY <2>3, <3>4, <3>5, <3>6, Zenon
  <2> QED BY <2>4, <2>5, Zenon
<1> QED BY <1>2, <1>3, Zenon

-----------------------------------------------------------------------------
(***************************************************************************)
(* The decoder stream: the actions of lsqpack_enc_decoder_in keep HInv.    *)
(***************************************************************************)

\* qenc_remove_from_risked_list on a block of the list: its assertions hold, its
\* loop ends at the block's predecessor, rings and count stay right, and
\* nothing but links between risked blocks changes.
LEMMA UnlinkCorrect ==
    ASSUME Facts, hinfos \in [Slots -> Hinfo], risked_hinfos \subseteq Slots,
           Rings(hinfos, risked_hinfos), StreamsAtRiskCounted,
           NEW h \in risked_hinfos
    PROVE  /\ UnlinkOk(h)
           /\ Unlinked(h) \in [Slots -> Hinfo]
           /\ \A k \in Slots : /\ Unlinked(h)[k].stream = hinfos[k].stream
                               /\ Unlinked(h)[k].min_id = hinfos[k].min_id
                               /\ Unlinked(h)[k].max_id = hinfos[k].max_id
                               /\ Unlinked(h)[k].older = hinfos[k].older
           /\ \A k \in Slots \ risked_hinfos : Unlinked(h)[k] = hinfos[k]
           /\ Rings(Unlinked(h), risked_hinfos \ {h})
           /\ CountWithout(h) = Cardinality(StreamsOf(Unlinked(h), risked_hinfos \ {h}))
           /\ CountWithout(h) \in Nat
           /\ CountWithout(h) <= cur_streams_at_risk
<1> DEFINE R == risked_hinfos
           S == StreamsOf(hinfos, R)
<1>1. IsFiniteSet(S) /\ cur_streams_at_risk = Cardinality(S) /\ hinfos[h].stream \in S
  <2>1. IsFiniteSet(S)
    BY StreamsOfFinite, Zenon
  <2>2. S = StreamsAtRisk
    BY Zenon DEF StreamsOf, StreamsAtRisk
  <2> QED BY <2>1, <2>2, Zenon DEF StreamsAtRiskCounted, StreamsOf
<1>2. cur_streams_at_risk \in Nat /\ cur_streams_at_risk > 0
  BY <1>1 DEF Facts, SizeFact, EmptyFact
<1>3. CASE hinfos[h].same = h
  <2>1. UnlinkOk(h) /\ Unlinked(h) = hinfos /\ CountWithout(h) = cur_streams_at_risk - 1
    BY <1>2, <1>3, Zenon DEF UnlinkOk, Unlinked, CountWithout
  <2>2. Rings(hinfos, R \ {h})
    BY <1>3, RingOfOneRemoval, Zenon
  <2>3. StreamsOf(hinfos, R \ {h}) = S \ {hinfos[h].stream}
    <3>1. \A y \in R : hinfos[y].stream = hinfos[h].stream => y = h
      BY <1>3, RingOfOne, Zenon
    <3> QED BY <3>1, Zenon DEF StreamsOf
  <2>4. Cardinality(S \ {hinfos[h].stream}) = cur_streams_at_risk - 1
    BY <1>1, Zenon DEF Facts, RemoveFact
  <2>5. CountWithout(h) = Cardinality(StreamsOf(Unlinked(h), R \ {h}))
    BY <2>1, <2>3, <2>4, Zenon
  <2>6. CountWithout(h) \in Nat /\ CountWithout(h) <= cur_streams_at_risk
    BY <1>2, <2>1
  <2>7. Rings(Unlinked(h), R \ {h})
    BY <2>1, <2>2, Zenon
  <2> QED BY <2>1, <2>5, <2>6, <2>7, Zenon
<1>4. CASE hinfos[h].same # h
  <2> DEFINE n == hinfos[h].same
             orbit == Orbit(n)
  <2>1. PICK p \in R : p # h /\ hinfos[p].same = h /\ hinfos[p].stream = hinfos[h].stream
    BY <1>4, RingPredecessor
  <2>2. n \in R /\ hinfos[n].stream = hinfos[h].stream
    BY Zenon DEF Rings
  <2>3. orbit \subseteq R
    <3>1. SameClosed(R)
      BY Zenon DEF SameClosed, Rings
    <3> QED BY <3>1, <2>2, Zenon DEF Orbit
  <2>4. h \in orbit /\ p \in orbit
    <3>1. ASSUME NEW T \in SUBSET Slots, n \in T, SameClosed(T)
          PROVE  h \in T /\ p \in T
      <4>1. T \cap R \in SUBSET R /\ \A x \in T \cap R : hinfos[x].same \in T \cap R
        BY <3>1, Zenon DEF SameClosed, Rings
      <4>2. \A y \in R : hinfos[y].stream = hinfos[n].stream => y \in T \cap R
        BY <4>1, <3>1, <2>2, Zenon DEF Rings
      <4> QED BY <4>2, <2>1, <2>2, Zenon
    <3>2. h \in Slots /\ p \in Slots
      BY Zenon
    <3> QED BY <3>1, <3>2, Zenon DEF Orbit
  <2>5. (CHOOSE q \in orbit : hinfos[q].same = h) = p
    <3>1. \A q \in orbit : hinfos[q].same = h => q = p
      BY <2>1, <2>3, Zenon DEF Rings
    <3> QED BY <3>1, <2>1, <2>4, Zenon
  <2>6. Unlinked(h) = [hinfos EXCEPT ![p].same = n, ![h].same = h]
    BY <1>4, <2>4, <2>5, Zenon DEF Unlinked
  <2>7. UnlinkOk(h) /\ CountWithout(h) = cur_streams_at_risk
    BY <1>4, <2>4, Zenon DEF UnlinkOk, CountWithout
  <2>8. n \in Slots /\ p \in Slots /\ h \in Slots
    BY <2>2, Zenon
  <2>9. Unlinked(h) \in [Slots -> Hinfo]
    BY <2>6, <2>8 DEF Hinfo
  <2>10. \A k \in Slots : /\ Unlinked(h)[k].stream = hinfos[k].stream
                          /\ Unlinked(h)[k].min_id = hinfos[k].min_id
                          /\ Unlinked(h)[k].max_id = hinfos[k].max_id
                          /\ Unlinked(h)[k].older = hinfos[k].older
    BY <2>6, <2>8 DEF Hinfo
  <2>11. \A k \in Slots \ {p, h} : Unlinked(h)[k] = hinfos[k]
    BY <2>6, <2>8, Zenon
  <2>12. Unlinked(h)[p].same = n
    BY <2>1, <2>6, <2>8 DEF Hinfo
  <2>13. Rings(Unlinked(h), R \ {h})
    BY <2>1, <2>10, <2>11, <2>12, RingRemoval
  <2>14. StreamsOf(Unlinked(h), R \ {h}) = S
    <3>1. n \in R \ {h}
      BY <1>4, <2>2, Zenon
    <3> QED BY <3>1, <2>2, <2>10 DEF StreamsOf
  <2> QED BY <1>1, <1>2, <2>7, <2>9, <2>10, <2>11, <2>13, <2>14
<1> QED BY <1>3, <1>4, Zenon

\* A step that takes one block off the list.
LEMMA RiskedRemoval ==
    ASSUME Facts, HTypeOK, RiskedInv, NEW h \in risked_hinfos, RemoveFromRisked(h),
           \A k \in risked_hinfos \ {h} :
              /\ hinfos'[k].stream = Unlinked(h)[k].stream
              /\ hinfos'[k].same = Unlinked(h)[k].same
    PROVE  /\ Rings(hinfos, risked_hinfos)'
           /\ StreamsAtRiskCounted'
           /\ cur_streams_at_risk' \in Nat
           /\ cur_streams_at_risk' <= cur_streams_at_risk
           /\ (cur_streams_at_risk <= MaxRiskedStreams)'
<1>1. /\ Rings(Unlinked(h), risked_hinfos \ {h})
      /\ CountWithout(h) = Cardinality(StreamsOf(Unlinked(h), risked_hinfos \ {h}))
      /\ CountWithout(h) \in Nat
      /\ CountWithout(h) <= cur_streams_at_risk
  BY UnlinkCorrect, Zenon DEF HTypeOK, RiskedInv
<1>2. Rings(hinfos', risked_hinfos \ {h})
  BY <1>1, RingsSame, Zenon
<1>3. StreamsAtRisk' = StreamsOf(Unlinked(h), risked_hinfos \ {h})
  BY Zenon DEF StreamsAtRisk, StreamsOf, RemoveFromRisked
<1>4. cur_streams_at_risk' \in Nat /\ cur_streams_at_risk' <= cur_streams_at_risk
  BY <1>1, Zenon DEF RemoveFromRisked
<1>5. cur_streams_at_risk' <= MaxRiskedStreams
  BY <1>4, LimitsAssumption DEF RiskedInv, HTypeOK
<1> QED BY <1>1, <1>2, <1>3, <1>4, <1>5, Zenon DEF StreamsAtRiskCounted, RemoveFromRisked, Rings

\* So does finding the first block of a cancelled stream.
LEMMA StreamCancelHInv ==
    ASSUME HInv, Disciplined, NEW s \in Streams, StreamCancel(s)
    PROVE  HInv'
<1> USE DEF HInv
<1>1. /\ UNCHANGED <<ins_count, max_acked_id, last_ici, cur_max_capacity, hinfos,
                     arrs_count, all_hinfos, risked_hinfos, cur_streams_at_risk,
                     cur_header, seen, fault>>
      /\ call = NoCall /\ ~cur_header.open
  BY UsageAssumption, Zenon DEF StreamCancel, Delivered, Disciplined
<1>2. PICK h \in all_hinfos : call' = [loop |-> "cancel", hinfo |-> h]
  BY Zenon DEF StreamCancel, First, BlocksOf
<1>3. h \in Slots
  BY AllHinfosAreSlots, Zenon
<1>4. HTypeOK'
  BY <1>1, <1>2, <1>3, Zenon DEF HTypeOK
<1>5. IdsInv' /\ NoFault'
  BY <1>1, Zenon DEF IdsInv, AcksBounded, NoFault
<1>6. RiskedInv'
  <2>1. Rings(hinfos, risked_hinfos)' /\ StreamsAtRiskCounted'
        /\ (cur_streams_at_risk <= MaxRiskedStreams)'
    BY <1>1, RiskedFrame, Zenon
  <2> QED BY <1>1, <2>1, Zenon DEF RiskedInv, AtRisk, NoCall
<1>7. CurHeaderInv' /\ CallInv'
  BY <1>1, <1>2, Zenon DEF CurHeaderInv, CallInv, AtRisk, RiskedOf
<1> QED BY <1>4, <1>5, <1>6, <1>7, Zenon

\* A decoder instruction that leaves the current block's header info alone
\* preserves what is known of the current block, provided it keeps the block
\* that other_at_risk points to: a disciplined application has none then.
LEMMA CurHeaderFrame ==
    ASSUME HInv, Disciplined, UNCHANGED cur_header,
           cur_header.open => MidHeader # {},
           max_acked_id' \in Nat, max_acked_id <= max_acked_id',
           cur_streams_at_risk' \in Nat, cur_streams_at_risk' <= cur_streams_at_risk,
           risked_hinfos' \subseteq risked_hinfos,
           \A k \in risked_hinfos' : hinfos'[k].stream = hinfos[k].stream,
           cur_header.hinfo # NULL =>
              /\ cur_header.hinfo \in all_hinfos'
              /\ hinfos'[cur_header.hinfo].stream = hinfos[cur_header.hinfo].stream
              /\ hinfos'[cur_header.hinfo].max_id = hinfos[cur_header.hinfo].max_id
              /\ hinfos'[cur_header.hinfo].same = hinfos[cur_header.hinfo].same
    PROVE  CurHeaderInv'
<1> USE DEF HInv
<1> DEFINE h == cur_header.hinfo
<1>1. cur_header.other_at_risk = NULL
  BY DEF CurHeaderInv, Disciplined, NoHeader
<1>2. CASE h = NULL
  BY <1>1, <1>2, Zenon DEF CurHeaderInv
<1>3. CASE h # NULL
  <2>1. /\ h \in Slots /\ hinfos[h].max_id \in Nat /\ max_acked_id \in Nat
        /\ cur_streams_at_risk \in Nat /\ MaxRiskedStreams \in Nat
    BY <1>3, LimitsAssumption, AllHinfosAreSlots DEF CurHeaderInv, HTypeOK, Hinfo, Ids
  <2>2. RiskedOf(hinfos[h].stream) = {} /\ hinfos[h].same = h
        /\ (hinfos[h].max_id > max_acked_id => cur_streams_at_risk < MaxRiskedStreams)
    BY <1>1, <1>3, Zenon DEF CurHeaderInv, AtRisk
  <2>3. RiskedOf(hinfos[cur_header.hinfo].stream)' = {}
    BY <1>3, <2>2, Zenon DEF RiskedOf
  <2>4. hinfos'[h].max_id > max_acked_id' => cur_streams_at_risk' < MaxRiskedStreams
    BY <1>3, <2>1, <2>2
  <2> QED BY <1>1, <1>3, <2>2, <2>3, <2>4, Zenon DEF CurHeaderInv, AtRisk
<1> QED BY <1>2, <1>3, Zenon

\* A block that is not at risk is released.
LEMMA ReleaseHInv ==
    ASSUME HInv, Disciplined, UNCHANGED cur_header,
           cur_header.open => MidHeader # {},
           NEW h \in all_hinfos \ (risked_hinfos \cup {cur_header.hinfo}),
           FreeHinfo(hinfos, h, TRUE),
           UNCHANGED <<ins_count, max_acked_id, last_ici, cur_max_capacity,
                       arrs_count, risked_hinfos, cur_streams_at_risk, seen>>,
           call'.loop \notin {"ack", "ici"} =>
              \A k \in risked_hinfos : AtRisk(k),
           call' \in [loop : {"none", "dup_draining", "ack", "ici", "cancel"},
                     hinfo : {NULL} \cup Slots],
           CallInv'
    PROVE  HInv'
<1> USE DEF HInv
<1>1. /\ hinfos' \in [Slots -> Hinfo]
      /\ all_hinfos' = all_hinfos \ {h}
      /\ fault' = FALSE
      /\ \A k \in Slots \ {h} : /\ hinfos'[k].stream = hinfos[k].stream
                                /\ hinfos'[k].max_id = hinfos[k].max_id
                                /\ hinfos'[k].same = hinfos[k].same
      /\ \A k \in Slots : hinfos'[k].max_id <= ins_count
  <2>1. hinfos \in [Slots -> Hinfo]
    BY Zenon DEF HTypeOK
  <2> QED BY <2>1, FreeStep, Zenon
<1>2. all_hinfos \subseteq Slots /\ risked_hinfos \subseteq all_hinfos \ {cur_header.hinfo, h}
  BY AllHinfosAreSlots, Zenon DEF RiskedInv
<1>3. HTypeOK'
  BY <1>1, Zenon DEF HTypeOK
<1>4. IdsInv' /\ NoFault'
  BY <1>1, Zenon DEF IdsInv, AcksBounded, NoFault
<1>5. RiskedInv'
  <2>1. Rings(hinfos, risked_hinfos)' /\ StreamsAtRiskCounted'
        /\ (cur_streams_at_risk <= MaxRiskedStreams)'
    BY <1>1, <1>2, RiskedFrame, Zenon
  <2>2. \A k \in all_hinfos' \ {cur_header.hinfo} :
           hinfos'[k].max_id > max_acked_id' => k \in risked_hinfos'
    BY <1>1, <1>2, Zenon DEF RiskedInv, AtRisk
  <2>3. call'.loop \notin {"ack", "ici"} =>
           \A k \in risked_hinfos' : hinfos'[k].max_id > max_acked_id'
    BY <1>1, <1>2, Zenon DEF RiskedInv, AtRisk
  <2>4. \A k \in all_hinfos' : hinfos'[k].stream \in seen'
    BY <1>1, <1>2, Zenon DEF RiskedInv
  <2>5. risked_hinfos' \subseteq all_hinfos' \ {cur_header'.hinfo}
    BY <1>1, <1>2, Zenon
  <2> QED BY <2>1, <2>2, <2>3, <2>4, <2>5, Zenon DEF RiskedInv, AtRisk
<1>6. CurHeaderInv'
  <2>1. \A k \in risked_hinfos' : hinfos'[k].stream = hinfos[k].stream
    BY <1>1, <1>2, Zenon
  <2>2. cur_header.hinfo # NULL =>
           /\ cur_header.hinfo \in all_hinfos'
           /\ hinfos'[cur_header.hinfo].stream = hinfos[cur_header.hinfo].stream
           /\ hinfos'[cur_header.hinfo].max_id = hinfos[cur_header.hinfo].max_id
           /\ hinfos'[cur_header.hinfo].same = hinfos[cur_header.hinfo].same
    BY <1>1, <1>2, Zenon DEF CurHeaderInv
  <2>3. /\ max_acked_id' \in Nat /\ max_acked_id <= max_acked_id'
        /\ cur_streams_at_risk' \in Nat /\ cur_streams_at_risk' <= cur_streams_at_risk
        /\ risked_hinfos' \subseteq risked_hinfos
    BY DEF HTypeOK
  <2> HIDE DEF HInv
  <2> QED BY <2>1, <2>2, <2>3, CurHeaderFrame, Zenon
<1> QED BY <1>3, <1>4, <1>5, <1>6, Zenon

\* enc_proc_header_ack keeps HInv up to its call of qenc_update_risked_list.
LEMMA HeaderAckHInv ==
    ASSUME Facts, HInv, Disciplined, NEW s \in Streams, HeaderAck(s)
    PROVE  HInv'
<1> USE DEF HInv
<1>1. PICK h \in all_hinfos \ {cur_header.hinfo} :
         \/ /\ AtRisk(h)
            /\ RemoveFromRisked(h)
            /\ hinfos' = Unlinked(h)
            /\ fault' = (fault \/ ~UnlinkOk(h))
            /\ max_acked_id' = hinfos[h].max_id
            /\ call' = [loop |-> "ack", hinfo |-> h]
            /\ UNCHANGED all_hinfos
         \/ /\ ~AtRisk(h)
            /\ FreeHinfo(hinfos, h, TRUE)
            /\ UNCHANGED <<max_acked_id, risked_hinfos, cur_streams_at_risk, call>>
  BY Zenon DEF HeaderAck, AckedBlock, First, BlocksOf
<1>2. /\ UNCHANGED <<ins_count, last_ici, cur_max_capacity, arrs_count, seen, cur_header>>
      /\ call = NoCall /\ (cur_header.open => MidHeader # {})
  BY Zenon DEF HeaderAck, Delivered
<1>3. CASE ~AtRisk(h)
  <2>1. h \notin risked_hinfos /\ \A k \in risked_hinfos : AtRisk(k)
    BY <1>2, <1>3, Zenon DEF RiskedInv, NoCall
  <2>2. CallInv' /\ call' = call /\ call \in [loop : {"none", "dup_draining", "ack", "ici", "cancel"},
                                         hinfo : {NULL} \cup Slots]
    BY <1>1, <1>2, <1>3, Zenon DEF CallInv, NoCall, HTypeOK
  <2> QED BY <1>1, <1>2, <1>3, <2>1, <2>2, ReleaseHInv, Zenon
<1>4. CASE AtRisk(h)
  <2>1. /\ RemoveFromRisked(h) /\ hinfos' = Unlinked(h)
        /\ fault' = (fault \/ ~UnlinkOk(h))
        /\ max_acked_id' = hinfos[h].max_id
        /\ call' = [loop |-> "ack", hinfo |-> h]
        /\ all_hinfos' = all_hinfos
    BY <1>1, <1>4, Zenon
  <2>2. /\ h \in risked_hinfos /\ h \in Slots /\ all_hinfos \subseteq Slots
        /\ risked_hinfos \subseteq all_hinfos \ {cur_header.hinfo}
        /\ risked_hinfos' = risked_hinfos \ {h}
    BY <1>4, <2>1, AllHinfosAreSlots, Zenon DEF RiskedInv, RemoveFromRisked
  <2>3. /\ UnlinkOk(h) /\ hinfos' \in [Slots -> Hinfo]
        /\ \A k \in Slots : /\ hinfos'[k].stream = hinfos[k].stream
                            /\ hinfos'[k].max_id = hinfos[k].max_id
        /\ \A k \in Slots \ risked_hinfos : hinfos'[k] = hinfos[k]
    BY <2>1, <2>2, UnlinkCorrect, SMTT(30) DEF HTypeOK, RiskedInv
  <2>4. /\ Rings(hinfos, risked_hinfos)' /\ StreamsAtRiskCounted'
        /\ cur_streams_at_risk' \in Nat /\ cur_streams_at_risk' <= cur_streams_at_risk
        /\ (cur_streams_at_risk <= MaxRiskedStreams)'
    BY <2>1, <2>2, RiskedRemoval, SMTT(30)
  <2>5. /\ max_acked_id' \in 0 .. MaxAbsId /\ max_acked_id < max_acked_id'
        /\ max_acked_id' <= ins_count /\ max_acked_id \in Nat /\ max_acked_id' \in Nat
        /\ last_ici <= max_acked_id'
    <3>1. hinfos[h].max_id \in 0 .. MaxAbsId /\ hinfos[h].max_id > max_acked_id
          /\ hinfos[h].max_id <= ins_count
      BY <1>4, <2>2, LimitsAssumption DEF HTypeOK, Hinfo, Ids, IdsInv, AtRisk
    <3>2. max_acked_id \in 0 .. MaxAbsId /\ last_ici \in 0 .. MaxAbsId /\ last_ici <= max_acked_id
      BY Zenon DEF HTypeOK, IdsInv, AcksBounded
    <3> QED BY <2>1, <3>1, <3>2, LimitsAssumption
  <2>6. fault' = FALSE
    BY <2>1, <2>3, Zenon DEF NoFault
  <2>7. HTypeOK'
    <3>1. call' \in [loop : {"none", "dup_draining", "ack", "ici", "cancel"},
                    hinfo : {NULL} \cup Slots]
      BY <2>1, <2>2, Zenon
    <3> QED BY <1>2, <2>1, <2>2, <2>3, <2>4, <2>5, <2>6, <3>1, Zenon DEF HTypeOK
  <2>8. IdsInv' /\ NoFault'
    BY <1>2, <2>3, <2>5, <2>6, Zenon DEF IdsInv, AcksBounded, NoFault
  <2>9. \A k \in Slots : hinfos'[k].max_id > max_acked_id' =>
                           hinfos[k].max_id > max_acked_id /\ k # h
    BY <2>1, <2>2, <2>3, <2>5, SMTT(30) DEF HTypeOK, Hinfo, Ids
  <2>10. RiskedInv'
    <3>1. \A k \in all_hinfos' \ {cur_header'.hinfo} :
             hinfos'[k].max_id > max_acked_id' => k \in risked_hinfos'
      BY <1>2, <2>1, <2>2, <2>9, SMTT(30) DEF RiskedInv, AtRisk
    <3>2. \A k \in all_hinfos' : hinfos'[k].stream \in seen'
      BY <1>2, <2>1, <2>2, <2>3, ZenonT(30) DEF RiskedInv
    <3>3. risked_hinfos' \subseteq all_hinfos' \ {cur_header'.hinfo} /\ call'.loop = "ack"
      BY <1>2, <2>1, <2>2, Zenon
    <3> QED BY <2>4, <3>1, <3>2, <3>3, SMTT(30) DEF RiskedInv, AtRisk
  <2>11. CurHeaderInv'
    <3>1. cur_header.hinfo # NULL =>
             /\ cur_header.hinfo \in all_hinfos'
             /\ hinfos'[cur_header.hinfo] = hinfos[cur_header.hinfo]
      BY <2>1, <2>2, <2>3, Zenon DEF CurHeaderInv
    <3>2. \A k \in risked_hinfos' : hinfos'[k].stream = hinfos[k].stream
      BY <2>2, <2>3, Zenon
    <3>3. risked_hinfos' \subseteq risked_hinfos
      BY <2>2, Zenon
    <3>4. cur_header.hinfo # NULL =>
             /\ cur_header.hinfo \in all_hinfos'
             /\ hinfos'[cur_header.hinfo].stream = hinfos[cur_header.hinfo].stream
             /\ hinfos'[cur_header.hinfo].max_id = hinfos[cur_header.hinfo].max_id
             /\ hinfos'[cur_header.hinfo].same = hinfos[cur_header.hinfo].same
      BY <3>1, Zenon
    <3>5. max_acked_id' \in Nat /\ max_acked_id <= max_acked_id'
      BY <2>5
    <3> HIDE DEF HInv
    <3> QED BY <1>2, <2>4, <3>2, <3>3, <3>4, <3>5, CurHeaderFrame, Zenon
  <2>12. CallInv'
    BY <1>1, <1>2, <2>1, <2>2, <2>9, Zenon DEF CallInv, AtRisk
  <2> QED BY <2>7, <2>8, <2>10, <2>11, <2>12, Zenon
<1> QED BY <1>3, <1>4, Zenon

\* Each removal by qenc_update_risked_list keeps HInv.
LEMMA UpdateRiskedHInv ==
    ASSUME Facts, HInv, Disciplined, UpdateRisked
    PROVE  HInv'
<1> USE DEF HInv
<1>1. PICK h \in risked_hinfos : /\ ~AtRisk(h)
                                /\ RemoveFromRisked(h)
                                /\ hinfos' = Unlinked(h)
                                /\ fault' = (fault \/ ~UnlinkOk(h))
  BY Zenon DEF UpdateRisked, First, NoLongerAtRisk
<1>2. /\ UNCHANGED <<ins_count, max_acked_id, last_ici, cur_max_capacity,
                     arrs_count, all_hinfos, cur_header, seen, call>>
      /\ call.loop \in {"ack", "ici"}
      /\ (cur_header.open => MidHeader # {})
  BY Zenon DEF UpdateRisked, CallInv
<1>3. /\ all_hinfos \subseteq Slots /\ risked_hinfos' = risked_hinfos \ {h}
      /\ risked_hinfos \subseteq all_hinfos \ {cur_header.hinfo}
      /\ max_acked_id \in Nat
  BY <1>1, AllHinfosAreSlots DEF RiskedInv, RemoveFromRisked, HTypeOK
<1>4. /\ UnlinkOk(h) /\ hinfos' \in [Slots -> Hinfo]
      /\ \A k \in Slots : /\ hinfos'[k].stream = hinfos[k].stream
                          /\ hinfos'[k].max_id = hinfos[k].max_id
      /\ \A k \in Slots \ risked_hinfos : hinfos'[k] = hinfos[k]
  <2>1. /\ hinfos \in [Slots -> Hinfo] /\ risked_hinfos \subseteq Slots
        /\ Rings(hinfos, risked_hinfos) /\ StreamsAtRiskCounted
    BY <1>3, Zenon DEF HTypeOK, RiskedInv
  <2> QED BY <1>1, <2>1, UnlinkCorrect, Zenon
<1>5. /\ Rings(hinfos, risked_hinfos)' /\ StreamsAtRiskCounted'
      /\ cur_streams_at_risk' \in Nat /\ cur_streams_at_risk' <= cur_streams_at_risk
      /\ (cur_streams_at_risk <= MaxRiskedStreams)'
  BY <1>1, <1>3, RiskedRemoval, Zenon
<1>6. fault' = FALSE
  BY <1>1, <1>4, Zenon DEF NoFault
<1>7. HTypeOK'
  BY <1>2, <1>3, <1>4, <1>5, <1>6, Zenon DEF HTypeOK
<1>8. IdsInv' /\ NoFault'
  BY <1>2, <1>4, <1>6, Zenon DEF IdsInv, AcksBounded, NoFault
<1>9. RiskedInv'
  <2>1. \A k \in all_hinfos' \ {cur_header'.hinfo} :
           hinfos'[k].max_id > max_acked_id' => k \in risked_hinfos'
    BY <1>1, <1>2, <1>3, <1>4, Zenon DEF RiskedInv, AtRisk
  <2>2. \A k \in all_hinfos' : hinfos'[k].stream \in seen'
    BY <1>2, <1>3, <1>4, Zenon DEF RiskedInv
  <2>3. risked_hinfos' \subseteq all_hinfos' \ {cur_header'.hinfo}
    BY <1>2, <1>3, Zenon
  <2> QED BY <1>2, <1>5, <2>1, <2>2, <2>3, Zenon DEF RiskedInv, AtRisk
<1>10. CurHeaderInv'
  <2>1. cur_header.hinfo # NULL =>
           /\ cur_header.hinfo \in all_hinfos'
           /\ hinfos'[cur_header.hinfo] = hinfos[cur_header.hinfo]
    BY <1>2, <1>3, <1>4, Zenon DEF CurHeaderInv
  <2>2. \A k \in risked_hinfos' : hinfos'[k].stream = hinfos[k].stream
    BY <1>3, <1>4, Zenon
  <2>3. risked_hinfos' \subseteq risked_hinfos
    BY <1>3, Zenon
  <2>4. cur_header.hinfo # NULL =>
           /\ cur_header.hinfo \in all_hinfos'
           /\ hinfos'[cur_header.hinfo].stream = hinfos[cur_header.hinfo].stream
           /\ hinfos'[cur_header.hinfo].max_id = hinfos[cur_header.hinfo].max_id
           /\ hinfos'[cur_header.hinfo].same = hinfos[cur_header.hinfo].same
    BY <2>1, Zenon
  <2>5. /\ max_acked_id' \in Nat /\ max_acked_id <= max_acked_id'
        /\ cur_streams_at_risk' \in Nat /\ cur_streams_at_risk' <= cur_streams_at_risk
    BY <1>2, <1>3, <1>5
  <2> HIDE DEF HInv
  <2> QED BY <1>2, <2>2, <2>3, <2>4, <2>5, CurHeaderFrame, Zenon
<1>11. CallInv'
  BY <1>2, <1>3, <1>4, Zenon DEF CallInv, AtRisk, NoCall
<1> QED BY <1>7, <1>8, <1>9, <1>10, <1>11, Zenon

\* The end of enc_proc_header_ack and of enc_proc_ici keeps HInv.
LEMMA UpdateDoneHInv ==
    ASSUME HInv, Disciplined, UpdateDone
    PROVE  HInv'
<1> USE DEF HInv
<1>1. /\ UNCHANGED <<ins_count, max_acked_id, last_ici, cur_max_capacity,
                     arrs_count, risked_hinfos, cur_streams_at_risk, seen, cur_header>>
      /\ call.loop \in {"ack", "ici"} /\ call' = NoCall
      /\ (cur_header.open => MidHeader # {})
      /\ \A k \in risked_hinfos : AtRisk(k)
  BY Zenon DEF UpdateDone, CallInv, NoLongerAtRisk
<1>2. call' \in [loop : {"none", "dup_draining", "ack", "ici", "cancel"},
                hinfo : {NULL} \cup Slots] /\ CallInv'
  BY <1>1, Zenon DEF NoCall, CallInv
<1>3. CASE call.loop = "ack"
  <2>1. /\ call.hinfo \in all_hinfos \ (risked_hinfos \cup {cur_header.hinfo})
        /\ FreeHinfo(hinfos, call.hinfo, TRUE)
    BY <1>3, Zenon DEF UpdateDone, CallInv
  <2> QED BY <1>1, <1>2, <2>1, ReleaseHInv, Zenon
<1>4. CASE call.loop # "ack"
  <2>1. UNCHANGED <<hinfos, all_hinfos, fault>>
    BY <1>4, Zenon DEF UpdateDone
  <2>2. HTypeOK' /\ IdsInv' /\ NoFault'
    BY <1>1, <1>2, <2>1, Zenon DEF HTypeOK, IdsInv, AcksBounded, NoFault
  <2>3. RiskedInv'
    <3>1. Rings(hinfos, risked_hinfos)' /\ StreamsAtRiskCounted'
          /\ (cur_streams_at_risk <= MaxRiskedStreams)'
      BY <1>1, <2>1, RiskedFrame, Zenon
    <3> QED BY <1>1, <2>1, <3>1, Zenon DEF RiskedInv, AtRisk
  <2>4. CurHeaderInv'
    BY <1>1, <2>1, Zenon DEF CurHeaderInv, AtRisk, RiskedOf
  <2> QED BY <1>2, <2>2, <2>3, <2>4, Zenon
<1> QED BY <1>3, <1>4, Zenon

\* Each round of enc_proc_stream_cancel keeps HInv.
LEMMA CancelNextHInv ==
    ASSUME Facts, HInv, Disciplined, CancelNext
    PROVE  HInv'
<1> USE DEF HInv
<1> DEFINE h == call.hinfo
           rest == BlocksOf(hinfos[h].stream) \ {h}
<1>1. /\ UNCHANGED <<ins_count, max_acked_id, last_ici, cur_max_capacity,
                     arrs_count, seen, cur_header>>
      /\ call.loop = "cancel"
  BY Zenon DEF CancelNext
<1>2. /\ h \in all_hinfos /\ ~cur_header.open /\ cur_header.hinfo = NULL
      /\ h \in Slots /\ all_hinfos \subseteq Slots /\ h # NULL
      /\ \A k \in risked_hinfos : AtRisk(k)
  <2>1. h \in all_hinfos /\ ~cur_header.open
    BY <1>1, Zenon DEF CallInv
  <2>2. cur_header.hinfo = NULL
    BY <2>1 DEF CurHeaderInv, NoHeader
  <2>3. \A k \in risked_hinfos : AtRisk(k)
    BY <1>1, Zenon DEF RiskedInv
  <2>4. all_hinfos \subseteq Slots
    BY AllHinfosAreSlots, Zenon
  <2> QED BY <2>1, <2>2, <2>3, <2>4, SlotsPositive, Zenon
<1>3. /\ call' \in [loop : {"none", "dup_draining", "ack", "ici", "cancel"},
                    hinfo : {NULL} \cup Slots]
      /\ call' = NoCall \/ (call'.loop = "cancel" /\ call'.hinfo \in all_hinfos \ {h})
  <2>1. \/ call' = NoCall
        \/ \E k \in First(rest) : call' = [loop |-> "cancel", hinfo |-> k]
    BY Zenon DEF CancelNext
  <2>2. First(rest) \subseteq all_hinfos \ {h}
    BY Zenon DEF First, BlocksOf
  <2>3. \/ call' = NoCall
        \/ \E k \in all_hinfos \ {h} : call' = [loop |-> "cancel", hinfo |-> k]
    BY <2>1, <2>2, Zenon
  <2>4. CASE call' = NoCall
    BY <2>4, Zenon DEF NoCall
  <2>5. CASE \E k \in all_hinfos \ {h} : call' = [loop |-> "cancel", hinfo |-> k]
    <3>1. all_hinfos \subseteq Slots
      BY <1>2, Zenon
    <3> QED BY <2>5, <3>1
  <2> QED BY <2>3, <2>4, <2>5, Zenon
<1>4. all_hinfos' = all_hinfos \ {h}
  BY Zenon DEF CancelNext, FreeHinfo
<1>5. CallInv'
  <2>1. ~cur_header'.open
    BY <1>1, <1>2, Zenon
  <2> QED BY <1>3, <1>4, <2>1 DEF CallInv, NoCall
<1>6. CASE ~AtRisk(h)
  <2>1. h \in all_hinfos \ (risked_hinfos \cup {cur_header.hinfo})
    BY <1>2, <1>6, Zenon
  <2>2. /\ FreeHinfo(hinfos, h, TRUE)
        /\ UNCHANGED <<risked_hinfos, cur_streams_at_risk>>
    BY <1>6, Zenon DEF CancelNext
  <2> QED BY <1>1, <1>2, <1>3, <1>5, <1>6, <2>1, <2>2, ReleaseHInv, ZenonT(30)
<1>7. CASE AtRisk(h)
  <2>1. /\ h \in risked_hinfos /\ RemoveFromRisked(h)
        /\ FreeHinfo(Unlinked(h), h, UnlinkOk(h))
        /\ risked_hinfos' = risked_hinfos \ {h}
        /\ risked_hinfos \subseteq all_hinfos
    <3>1. RemoveFromRisked(h) /\ FreeHinfo(Unlinked(h), h, UnlinkOk(h))
      BY <1>7, Zenon DEF CancelNext
    <3>2. h \in risked_hinfos /\ risked_hinfos \subseteq all_hinfos
      BY <1>2, <1>7, Zenon DEF RiskedInv
    <3> QED BY <3>1, <3>2, Zenon DEF RemoveFromRisked
  <2>2. /\ UnlinkOk(h) /\ Unlinked(h) \in [Slots -> Hinfo]
        /\ \A k \in Slots : /\ Unlinked(h)[k].stream = hinfos[k].stream
                            /\ Unlinked(h)[k].max_id = hinfos[k].max_id
    <3>1. hinfos \in [Slots -> Hinfo] /\ risked_hinfos \subseteq Slots
      BY Zenon DEF HTypeOK
    <3>2. Rings(hinfos, risked_hinfos) /\ StreamsAtRiskCounted
      BY Zenon DEF RiskedInv
    <3>3. h \in risked_hinfos
      BY <2>1, Zenon
    <3> HIDE DEF h, HInv
    <3> QED BY <3>1, <3>2, <3>3, UnlinkCorrect, Zenon
  <2>3. FreeHinfo(Unlinked(h), h, TRUE)
    BY <2>1, <2>2, Zenon DEF FreeHinfo
  <2>4. /\ hinfos' \in [Slots -> Hinfo] /\ fault' = FALSE
        /\ \A k \in Slots \ {h} : /\ hinfos'[k].stream = hinfos[k].stream
                                  /\ hinfos'[k].max_id = hinfos[k].max_id
                                  /\ hinfos'[k].same = Unlinked(h)[k].same
        /\ \A k \in Slots : hinfos'[k].max_id <= ins_count
    BY <1>2, <2>2, <2>3, FreeStep, Zenon
  <2>5. /\ Rings(hinfos, risked_hinfos)' /\ StreamsAtRiskCounted'
        /\ cur_streams_at_risk' \in Nat
        /\ (cur_streams_at_risk <= MaxRiskedStreams)'
    <3>1. \A k \in risked_hinfos \ {h} : /\ hinfos'[k].stream = Unlinked(h)[k].stream
                                         /\ hinfos'[k].same = Unlinked(h)[k].same
      BY <1>2, <2>1, <2>2, <2>4, Zenon
    <3> QED BY <2>1, <3>1, RiskedRemoval, ZenonT(30)
  <2>6. HTypeOK'
    BY <1>1, <1>3, <1>4, <2>1, <2>4, <2>5, Zenon DEF HTypeOK
  <2>7. IdsInv' /\ NoFault'
    BY <1>1, <2>4, Zenon DEF IdsInv, AcksBounded, NoFault
  <2>8. RiskedInv'
    <3>1. \A k \in all_hinfos' \ {cur_header'.hinfo} :
             hinfos'[k].max_id > max_acked_id' => k \in risked_hinfos'
      BY <1>1, <1>2, <1>4, <2>1, <2>4, ZenonT(30) DEF RiskedInv, AtRisk
    <3>2. \A k \in risked_hinfos' : hinfos'[k].max_id > max_acked_id'
      BY <1>1, <1>2, <2>1, <2>4, SMTT(30) DEF AtRisk
    <3>3. \A k \in all_hinfos' : hinfos'[k].stream \in seen'
      BY <1>1, <1>2, <1>4, <2>4, Zenon DEF RiskedInv
    <3>4. risked_hinfos' \subseteq all_hinfos' \ {cur_header'.hinfo}
      BY <1>1, <1>2, <1>4, <2>1, SlotsPositive, Zenon
    <3> QED BY <2>5, <3>1, <3>2, <3>3, <3>4, SMTT(30) DEF RiskedInv, AtRisk
  <2>9. CurHeaderInv'
    BY <1>1, <1>2, Zenon DEF CurHeaderInv, NoHeader
  <2> QED BY <1>5, <2>6, <2>7, <2>8, <2>9, Zenon
<1> QED BY <1>6, <1>7, Zenon

-----------------------------------------------------------------------------
(***************************************************************************)
(* The theorems.                                                           *)
(***************************************************************************)

\* HInv is inductive when the application is disciplined.
LEMMA HInvInductive ==
    ASSUME Facts
    PROVE  Disciplined /\ HInv /\ [HNext]_hvars => HInv'
<1> SUFFICES ASSUME Disciplined, HInv, [HNext]_hvars PROVE HInv'
  BY Zenon
<1>1. CASE \E s \in Streams : \E h \in {NULL} \cup Slots : StartHeader(s, h)
  BY <1>1, StartHeaderHInv, Zenon
<1>2. CASE \E size \in {0} \cup EntrySizes, ref_new \in BOOLEAN,
             found \in 0 .. ins_count : Encode(size, ref_new, found)
  BY <1>2, EncodeHInv, Zenon
<1>3. CASE \/ DupDraining
           \/ EncodeReturn
           \/ \E c \in Capacities : SetMaxCapacity(c)
           \/ \E n \in Ids : Ici(n)
  <2>1. UNCHANGED <<hinfos, arrs_count, all_hinfos, risked_hinfos,
                    cur_streams_at_risk, cur_header, seen, fault>>
    BY <1>3, Zenon DEF DupDraining, EncodeReturn, SetMaxCapacity, Ici
  <2> QED BY <1>3, <2>1, QuietHInv, Zenon
<1>4. CASE EndHeader
  BY <1>4, EndHeaderHInv, Zenon
<1>5. CASE CancelHeader
  BY <1>5, DropHInv, Zenon DEF CancelHeader
<1>6. CASE \E s \in Streams : HeaderAck(s)
  BY <1>6, HeaderAckHInv, Zenon
<1>7. CASE UpdateRisked
  BY <1>7, UpdateRiskedHInv, Zenon
<1>8. CASE UpdateDone
  BY <1>8, UpdateDoneHInv, Zenon
<1>9. CASE \E s \in Streams : StreamCancel(s)
  BY <1>9, StreamCancelHInv, Zenon
<1>10. CASE CancelNext
  BY <1>10, CancelNextHInv, Zenon
<1>11. CASE UNCHANGED hvars
  <2> USE DEF HInv
  <2>1. HTypeOK' /\ IdsInv' /\ NoFault'
    BY <1>11, Zenon DEF hvars, HTypeOK, IdsInv, AcksBounded, NoFault
  <2>2. RiskedInv'
    <3>1. Rings(hinfos, risked_hinfos)' /\ StreamsAtRiskCounted'
          /\ (cur_streams_at_risk <= MaxRiskedStreams)'
      BY <1>11, RiskedFrame, Zenon DEF hvars
    <3> QED BY <1>11, <3>1, Zenon DEF hvars, RiskedInv, AtRisk
  <2>3. CurHeaderInv'
    BY <1>11, Zenon DEF hvars, CurHeaderInv, AtRisk, RiskedOf
  <2>4. CallInv'
    BY <1>11, Zenon DEF hvars, CallInv, AtRisk
  <2> QED BY <2>1, <2>2, <2>3, <2>4, Zenon
<1> QED BY <1>1, <1>2, <1>3, <1>4, <1>5, <1>6, <1>7, <1>8, <1>9, <1>10, <1>11, Zenon DEF HNext

\* What HInv says of the risked list, the counter and the current block.
LEMMA HInvImplies ==
    HInv => /\ RiskedListExact /\ StreamsAtRiskCounted /\ RiskBounded
            /\ InProgressKept /\ AcksBounded
<1> SUFFICES ASSUME HInv
             PROVE  /\ RiskedListExact /\ StreamsAtRiskCounted /\ RiskBounded
                    /\ InProgressKept /\ AcksBounded
  BY Zenon
<1> USE DEF HInv
<1>1. RiskedListExact
  <2> SUFFICES ASSUME call = NoCall
               PROVE  risked_hinfos = { h \in all_hinfos \ {cur_header.hinfo} : AtRisk(h) }
    BY Zenon DEF RiskedListExact
  <2>1. call.loop \notin {"ack", "ici"}
    BY Zenon DEF NoCall
  <2> QED BY <2>1, Zenon DEF RiskedInv
<1>2. StreamsAtRiskCounted /\ RiskBounded
  BY Zenon DEF RiskedInv, StreamsAtRiskCounted, RiskBounded
<1>3. InProgressKept
  BY Zenon DEF InProgressKept, CurHeaderInv
<1> QED BY <1>1, <1>2, <1>3, Zenon DEF IdsInv

\* In rings as HInv has them, a walk along qhi_same_stream_id from a block
\* meets the risked blocks of its stream and no other.
LEMMA HInvRings == HInv => RingPerStream
<1> SUFFICES ASSUME HInv, NEW h \in risked_hinfos
             PROVE  Orbit(h) = RiskedOf(hinfos[h].stream)
  BY Zenon DEF RingPerStream
<1> DEFINE R == RiskedOf(hinfos[h].stream)
<1>1. /\ risked_hinfos \subseteq Slots /\ R \subseteq Slots /\ h \in R
      /\ Rings(hinfos, risked_hinfos)
  BY Zenon DEF HInv, HTypeOK, RiskedInv, RiskedOf
<1>2. SameClosed(R)
  BY <1>1, Zenon DEF Rings, RiskedOf, SameClosed
<1>3. Orbit(h) \subseteq R
  BY <1>1, <1>2, Zenon DEF Orbit
<1>4. ASSUME NEW y \in R, NEW S \in SUBSET Slots, h \in S, SameClosed(S)
      PROVE  y \in S
  <2> DEFINE C == S \cap risked_hinfos
  <2>1. C \in SUBSET risked_hinfos /\ h \in C
    BY <1>4, Zenon
  <2>2. \A x \in C : hinfos[x].same \in C
    BY <1>1, <1>4, Zenon DEF Rings, SameClosed
  <2>3. y \in risked_hinfos /\ hinfos[y].stream = hinfos[h].stream
    BY Zenon DEF RiskedOf
  <2>4. \A x \in C, z \in risked_hinfos : hinfos[z].stream = hinfos[x].stream => z \in C
    BY <1>1, <2>1, <2>2, Zenon DEF Rings
  <2> QED BY <2>1, <2>3, <2>4, Zenon
<1>5. R \subseteq Orbit(h)
  BY <1>1, <1>4, Zenon DEF Orbit
<1> QED BY <1>3, <1>5
=============================================================================
