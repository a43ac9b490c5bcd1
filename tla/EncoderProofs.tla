--------------------------- MODULE EncoderProofs ----------------------------
(***************************************************************************)
(* Every operation of Encoder keeps its inductive invariant, evicts only what*)
(* may go and keeps what it inserts; and the theorems about HeaderInfos and*)
(* Encoder, for any fields, capacities, numbers of streams, header infos and*)
(* inserts, and any width of qpe_dropped.                                  *)
(***************************************************************************)
EXTENDS EncoderLemmas, HeaderInfosLemmas

-----------------------------------------------------------------------------
(***************************************************************************)
(* What releasing blocks does to the IDs of the blocks.                    *)
(***************************************************************************)

\* Two header infos have the same IDs.
SameIds(a, b) == a.min_id = b.min_id /\ a.max_id = b.max_id

\* The slots hs keep the IDs they have in hinfos; only a slot that is not in use
\* may be cleared.
IdsKept(hs, used) ==
    \A k \in Slots : \/ SameIds(hs[k], hinfos[k])
                     \/ k \notin used /\ hs[k].min_id = 0 /\ hs[k].max_id = 0

\* enc_free_hinfo clears at most the slot it frees.
LEMMA FreeKeepsIds ==
    ASSUME NEW STATE hs, hs \in [Slots -> Hinfo], NEW STATE h, h \in Slots,
           IdsKept(hs, all_hinfos),
           NEW ok, FreeHinfo(hs, h, ok)
    PROVE  IdsKept(hinfos', all_hinfos') /\ all_hinfos' \subseteq all_hinfos
<1>1. hinfos' = WithoutHinfo(hs, h) /\ all_hinfos' = all_hinfos \ {h}
  BY Zenon DEF FreeHinfo
<1>2. ASSUME NEW k \in Slots, k # h
      PROVE  SameIds(hinfos'[k], hs[k])
  <2>1. hinfos'[k] = [hs[k] EXCEPT !.older = @ \ {h}]
    BY <1>1, <1>2, Zenon DEF WithoutHinfo
  <2>2. hs[k] \in Hinfo
    BY Zenon
  <2> QED BY <2>1, <2>2, Zenon DEF SameIds, Hinfo
<1>3. hinfos'[h] = hs[h] \/ hinfos'[h] = BlankHinfo(h, NULL)
  BY <1>1, Zenon DEF WithoutHinfo
<1>4. \/ SameIds(hinfos'[h], hs[h])
      \/ hinfos'[h].min_id = 0 /\ hinfos'[h].max_id = 0
  BY <1>3 DEF SameIds, BlankHinfo
<1> QED BY <1>1, <1>2, <1>4 DEF IdsKept, SameIds

\* The actions that release blocks, end a block or answer the decoder stream.
ReleaseStep ==
    \/ EndHeader \/ CancelHeader
    \/ \E s \in Streams : HeaderAck(s) \/ StreamCancel(s)
    \/ \E n \in Ids : Ici(n)
    \/ UpdateRisked
    \/ UpdateDone
    \/ CancelNext

\* qenc_remove_from_risked_list leaves the IDs alone.
LEMMA UnlinkKeepsIds ==
    ASSUME HInv, NEW h \in risked_hinfos
    PROVE  Unlinked(h) \in [Slots -> Hinfo] /\ IdsKept(Unlinked(h), all_hinfos)
<1>1. hinfos \in [Slots -> Hinfo] /\ h \in Slots
  BY Zenon DEF HInv, HTypeOK
<1>2. CASE Unlinked(h) = hinfos
  BY <1>1, <1>2, Zenon DEF IdsKept, SameIds
<1>3. CASE Unlinked(h) # hinfos
  <2>1. PICK prev : Unlinked(h) = [hinfos EXCEPT ![prev].same = hinfos[h].same,
                                                ![h].same = h]
    BY <1>3, Zenon DEF Unlinked
  <2>2. ASSUME NEW k \in Slots
        PROVE  Unlinked(h)[k] \in Hinfo /\ SameIds(Unlinked(h)[k], hinfos[k])
    BY <1>1, <2>1 DEF SameIds, Hinfo
  <2>3. Unlinked(h) \in [Slots -> Hinfo]
    BY <1>1, <2>1, <2>2, Zenon
  <2> QED BY <2>2, <2>3, Zenon DEF IdsKept
<1> QED BY <1>2, <1>3, Zenon

\* qenc_add_to_risked_list leaves the IDs alone.
LEMMA AddKeepsIds ==
    ASSUME HInv, NEW h \in Slots, AddToRisked(h)
    PROVE  IdsKept(hinfos', all_hinfos)
<1> DEFINE other == cur_header.other_at_risk
<1>1. hinfos \in [Slots -> Hinfo]
  BY Zenon DEF HInv, HTypeOK
<1>2. CASE hinfos' = hinfos
  BY <1>2, Zenon DEF IdsKept, SameIds
<1>3. CASE hinfos' = [hinfos EXCEPT ![h].same = hinfos[other].same, ![other].same = h]
  <2>1. ASSUME NEW k \in Slots
        PROVE  SameIds(hinfos'[k], hinfos[k])
    BY <1>1, <1>3 DEF SameIds, Hinfo
  <2> QED BY <2>1, Zenon DEF IdsKept
<1> QED BY <1>2, <1>3, Zenon DEF AddToRisked

\* What ReleaseStep leaves alone.
LEMMA ReleaseFrame ==
    ASSUME HInv, ReleaseStep
    PROVE  /\ UNCHANGED <<ins_count, cur_max_capacity>>
           /\ max_acked_id <= max_acked_id'
           /\ all_hinfos' \subseteq all_hinfos
           /\ IdsKept(hinfos', all_hinfos')
           /\ call'.loop # "dup_draining"
<1> USE DEF HInv
<1>1. /\ all_hinfos \subseteq Slots /\ hinfos \in [Slots -> Hinfo]
      /\ max_acked_id \in Nat /\ last_ici \in Nat
      /\ \A h \in Slots : hinfos[h].max_id \in Nat
  BY AllHinfosAreSlots, LimitsAssumption DEF HTypeOK, Hinfo, Ids
<1>2. IdsKept(hinfos, all_hinfos)
  BY Zenon DEF IdsKept, SameIds
<1>3. NoCall.loop # "dup_draining"
  BY Zenon DEF NoCall
<1>4. CASE /\ ~CurIdsSet /\ DropCurHinfo /\ call = NoCall
           /\ UNCHANGED <<call, max_acked_id, ins_count, cur_max_capacity>>
  <2>1. CASE cur_header.hinfo = NULL
    BY <2>1, <1>1, <1>2, <1>3, <1>4 DEF DropCurHinfo
  <2>2. CASE cur_header.hinfo # NULL
    <3>1. FreeHinfo(hinfos, cur_header.hinfo, TRUE) /\ cur_header.hinfo \in Slots
      BY <2>2, <1>4, Zenon DEF DropCurHinfo, HTypeOK
    <3>2. IdsKept(hinfos', all_hinfos') /\ all_hinfos' \subseteq all_hinfos
      BY <3>1, <1>1, <1>2, FreeKeepsIds, Zenon
    <3> QED BY <3>2, <1>1, <1>3, <1>4
  <2> QED BY <2>1, <2>2, Zenon
<1>5. CASE EndHeader
  <2>1. CASE ~CurIdsSet
    BY <1>4, <1>5, <2>1, Zenon DEF EndHeader
  <2>2. CASE CurIdsSet
    <3>1. cur_header.hinfo \in Slots
      BY <2>2, Zenon DEF CurIdsSet, HTypeOK
    <3>2. /\ UNCHANGED <<ins_count, cur_max_capacity, max_acked_id, all_hinfos, call>>
          /\ call = NoCall
          /\ AddToRisked(cur_header.hinfo) \/ UNCHANGED hinfos
      BY <1>5, <2>2, Zenon DEF EndHeader
    <3>3. IdsKept(hinfos', all_hinfos)
      BY <3>1, <3>2, <1>2, AddKeepsIds, Zenon
    <3> QED BY <3>2, <3>3, <1>1, <1>3
  <2> QED BY <2>1, <2>2, Zenon
<1>6. CASE CancelHeader
  BY <1>4, <1>6, Zenon DEF CancelHeader
<1>7. ASSUME NEW s \in Streams, HeaderAck(s)
      PROVE  /\ UNCHANGED <<ins_count, cur_max_capacity>>
             /\ max_acked_id <= max_acked_id'
             /\ all_hinfos' \subseteq all_hinfos
             /\ IdsKept(hinfos', all_hinfos')
             /\ call'.loop # "dup_draining"
  <2>1. PICK h \in all_hinfos \ {cur_header.hinfo} :
         \/ /\ AtRisk(h)
            /\ hinfos' = Unlinked(h)
            /\ max_acked_id' = hinfos[h].max_id
            /\ call' = [loop |-> "ack", hinfo |-> h]
            /\ UNCHANGED all_hinfos
         \/ /\ FreeHinfo(hinfos, h, TRUE)
            /\ UNCHANGED <<max_acked_id, call>>
    BY <1>7, Zenon DEF HeaderAck, AckedBlock, First, BlocksOf
  <2>2. call = NoCall /\ UNCHANGED <<ins_count, cur_max_capacity>>
    BY <1>7, Zenon DEF HeaderAck, Delivered
  <2>3. CASE /\ AtRisk(h)
             /\ hinfos' = Unlinked(h)
             /\ max_acked_id' = hinfos[h].max_id
             /\ call' = [loop |-> "ack", hinfo |-> h]
             /\ UNCHANGED all_hinfos
    <3>1. h \in risked_hinfos
      BY <2>3, Zenon DEF RiskedInv
    <3>2. max_acked_id <= max_acked_id'
      BY <1>1, <2>3 DEF AtRisk
    <3>3. IdsKept(hinfos', all_hinfos')
      BY <3>1, <2>3, UnlinkKeepsIds, Zenon
    <3> QED BY <2>2, <2>3, <3>2, <3>3, Zenon
  <2>4. CASE FreeHinfo(hinfos, h, TRUE) /\ UNCHANGED <<max_acked_id, call>>
    <3>1. IdsKept(hinfos', all_hinfos') /\ all_hinfos' \subseteq all_hinfos
      BY <2>4, <1>1, <1>2, FreeKeepsIds, Zenon
    <3> QED BY <3>1, <2>2, <2>4, <1>1, <1>3
  <2> QED BY <2>1, <2>3, <2>4, Zenon
<1>8. ASSUME NEW s \in Streams, StreamCancel(s)
      PROVE  /\ UNCHANGED <<ins_count, cur_max_capacity>>
             /\ max_acked_id <= max_acked_id'
             /\ all_hinfos' \subseteq all_hinfos
             /\ IdsKept(hinfos', all_hinfos')
             /\ call'.loop # "dup_draining"
  <2>1. /\ UNCHANGED <<ins_count, cur_max_capacity, max_acked_id, hinfos, all_hinfos>>
        /\ call'.loop = "cancel"
    BY <1>8 DEF StreamCancel
  <2> QED BY <2>1, <1>1, <1>2
<1>9. ASSUME NEW n \in Ids, Ici(n)
      PROVE  /\ UNCHANGED <<ins_count, cur_max_capacity>>
             /\ max_acked_id <= max_acked_id'
             /\ all_hinfos' \subseteq all_hinfos
             /\ IdsKept(hinfos', all_hinfos')
             /\ call'.loop # "dup_draining"
  <2>1. /\ UNCHANGED <<ins_count, cur_max_capacity, hinfos, all_hinfos>>
        /\ max_acked_id' = last_ici + n /\ last_ici + n > max_acked_id
        /\ call'.loop = "ici"
    BY <1>9, Zenon DEF Ici
  <2>2. last_ici + n \in Nat
    BY <1>1 DEF Ids
  <2>3. max_acked_id <= max_acked_id'
    BY <2>1, <2>2, <1>1
  <2> QED BY <2>1, <2>3, <1>2, Zenon
<1>10. CASE UpdateRisked
  <2>1. /\ UNCHANGED <<ins_count, cur_max_capacity, max_acked_id, all_hinfos, call>>
        /\ call.loop \in {"ack", "ici"}
    BY <1>10, Zenon DEF UpdateRisked
  <2>2. PICK h \in risked_hinfos : hinfos' = Unlinked(h)
    BY <1>10, Zenon DEF UpdateRisked, First, NoLongerAtRisk
  <2>3. IdsKept(hinfos', all_hinfos)
    BY <2>2, UnlinkKeepsIds, Zenon
  <2> QED BY <2>1, <2>3, <1>1
<1>11. CASE UpdateDone
  <2>1. UNCHANGED <<ins_count, cur_max_capacity, max_acked_id>> /\ call' = NoCall
    BY <1>11, Zenon DEF UpdateDone
  <2>2. CASE call.loop = "ack"
    <3>1. FreeHinfo(hinfos, call.hinfo, TRUE) /\ call.hinfo \in Slots
      BY <1>1, <1>11, <2>2, Zenon DEF UpdateDone, CallInv
    <3>2. IdsKept(hinfos', all_hinfos') /\ all_hinfos' \subseteq all_hinfos
      BY <3>1, <1>1, <1>2, FreeKeepsIds, Zenon
    <3> QED BY <3>2, <2>1, <1>1, <1>3
  <2>3. CASE call.loop # "ack"
    BY <1>1, <1>2, <1>3, <1>11, <2>1, <2>3 DEF UpdateDone
  <2> QED BY <2>2, <2>3, Zenon
<1>12. CASE CancelNext
  <2> DEFINE h == call.hinfo
  <2>1. /\ UNCHANGED <<ins_count, cur_max_capacity, max_acked_id>>
        /\ call' = NoCall \/ call'.loop = "cancel"
        /\ h \in all_hinfos /\ h # cur_header.hinfo /\ h \in Slots
    <3>1. call.loop = "cancel" /\ ~cur_header.open /\ h \in all_hinfos
      BY <1>12, Zenon DEF CancelNext, CallInv
    <3>2. cur_header.hinfo = NULL
      BY <3>1 DEF CurHeaderInv, NoHeader
    <3>3. /\ UNCHANGED <<ins_count, cur_max_capacity, max_acked_id>>
          /\ call' = NoCall \/ call'.loop = "cancel"
      BY <1>12 DEF CancelNext
    <3> QED BY <3>1, <3>2, <3>3, <1>1, SlotsPositive, Zenon
  <2>2. \/ AtRisk(h) /\ FreeHinfo(Unlinked(h), h, UnlinkOk(h))
        \/ FreeHinfo(hinfos, h, TRUE)
    BY <1>12, Zenon DEF CancelNext
  <2>3. CASE AtRisk(h) /\ FreeHinfo(Unlinked(h), h, UnlinkOk(h))
    <3>1. h \in risked_hinfos
      BY <2>1, <2>3, Zenon DEF RiskedInv
    <3>2. Unlinked(h) \in [Slots -> Hinfo] /\ IdsKept(Unlinked(h), all_hinfos)
      BY <3>1, UnlinkKeepsIds, Zenon
    <3> DEFINE hs == Unlinked(h)
    <3>3. FreeHinfo(hs, h, UnlinkOk(h)) /\ hs \in [Slots -> Hinfo] /\ IdsKept(hs, all_hinfos)
      BY <2>3, <3>2, Zenon
    <3> HIDE DEF hs, h
    <3>4. IdsKept(hinfos', all_hinfos') /\ all_hinfos' \subseteq all_hinfos
      BY <3>3, <2>1, FreeKeepsIds, Zenon
    <3> QED BY <3>4, <2>1, <1>1, <1>3
  <2>4. CASE FreeHinfo(hinfos, h, TRUE)
    <3>1. IdsKept(hinfos', all_hinfos') /\ all_hinfos' \subseteq all_hinfos
      BY <2>1, <2>4, <1>1, <1>2, FreeKeepsIds, Zenon
    <3> QED BY <3>1, <2>1, <1>1, <1>3
  <2> QED BY <2>2, <2>3, <2>4, Zenon
<1> QED BY <1>5, <1>6, <1>7, <1>8, <1>9, <1>10, <1>11, <1>12, Zenon DEF ReleaseStep

-----------------------------------------------------------------------------
(***************************************************************************)
(* What a program does.                                                    *)
(***************************************************************************)

\* qenc_maybe_update_hinfo_min_max keeps the IDs in order and brackets both the
\* ID it is given and those bracketed before.
LEMMA NoteIdBrackets ==
    ASSUME NEW hi \in Hinfo, NEW id \in Ids,
           hi.min_id <= hi.max_id, hi.min_id = 0 => hi.max_id = 0
    PROVE  LET new == NoteId(hi, id) IN
           /\ new \in Hinfo
           /\ new.min_id <= new.max_id
           /\ new.min_id = 0 => new.max_id = 0
           /\ id \in new.min_id .. new.max_id
           /\ \A x \in Ids : x \in hi.min_id .. hi.max_id => x \in new.min_id .. new.max_id
<1> DEFINE new == NoteId(hi, id)
<1>1. /\ MaxAbsId \in Nat /\ id \in Nat /\ id # 0
      /\ hi.min_id \in Nat /\ hi.max_id \in Nat
  BY LimitsAssumption DEF Hinfo, Ids
<1>2. new \in Hinfo
  BY NoteIdCorrect, Zenon
<1>3. CASE hi.max_id = 0
  <2>1. new.min_id = id /\ new.max_id = id
    BY <1>3, Zenon DEF NoteId, Hinfo
  <2> HIDE DEF new
  <2>2. \A x \in Ids : x \notin hi.min_id .. hi.max_id
    BY <1>1, <1>3 DEF Ids
  <2>3. /\ new.min_id <= new.max_id
        /\ new.min_id = 0 => new.max_id = 0
        /\ id \in new.min_id .. new.max_id
    BY <1>1, <2>1
  <2> QED BY <1>2, <2>2, <2>3, Zenon DEF new
<1>4. CASE hi.max_id # 0 /\ id > hi.max_id
  <2>1. new.min_id = hi.min_id /\ new.max_id = id
    BY <1>4, Zenon DEF NoteId, Hinfo
  <2> HIDE DEF new
  <2>2. \A x \in Ids : x \in hi.min_id .. hi.max_id => x \in new.min_id .. new.max_id
    BY <1>1, <1>4, <2>1 DEF Ids
  <2>3. /\ new.min_id <= new.max_id
        /\ new.min_id = 0 => new.max_id = 0
        /\ id \in new.min_id .. new.max_id
    BY <1>1, <1>4, <2>1, SMTT(30)
  <2> QED BY <1>2, <2>2, <2>3, Zenon DEF new
<1>5. CASE hi.max_id # 0 /\ ~(id > hi.max_id) /\ id < hi.min_id
  <2>1. new.min_id = id /\ new.max_id = hi.max_id
    BY <1>5, Zenon DEF NoteId, Hinfo
  <2> HIDE DEF new
  <2>2. \A x \in Ids : x \in hi.min_id .. hi.max_id => x \in new.min_id .. new.max_id
    BY <1>1, <1>5, <2>1 DEF Ids
  <2>3. /\ new.min_id <= new.max_id
        /\ new.min_id = 0 => new.max_id = 0
        /\ id \in new.min_id .. new.max_id
    BY <1>1, <1>5, <2>1
  <2> QED BY <1>2, <2>2, <2>3, Zenon DEF new
<1>6. CASE hi.max_id # 0 /\ ~(id > hi.max_id) /\ ~(id < hi.min_id)
  <2>1. new = hi
    BY <1>6, Zenon DEF NoteId
  <2>2. id \in hi.min_id .. hi.max_id
    BY <1>1, <1>6
  <2> QED BY <1>2, <2>1, <2>2, Zenon
<1> QED BY <1>3, <1>4, <1>5, <1>6, Zenon

\* An entry with the name, value and hash of field f has its size.
SizeFits(e, f) ==
    (e.name = f.name /\ e.val = f.val /\ e.hash = f.val) => e.size = f.nsize + f.vsize

\* What executing program p for field f leaves in the table.
IsExecuted(u, p, f) ==
    LET n == IF p.tab = "noop" THEN ins_count ELSE ins_count + 1 IN
    /\ IsTable(u, n) /\ Packed(u, n) /\ u.used <= cur_max_capacity
    /\ p.tab # "noop" => ins_count + 1 \in DOMAIN u.entries
    /\ LineRefs(p) \subseteq DOMAIN u.entries
    /\ \A k \in Live \ DOMAIN u.entries : Evictable(k)
    /\ \A k \in DOMAIN u.entries, g \in Fields : SizeFits(u.entries[k], g)

\* The parts of EInv and HInv that the table's lemmas need.
LEMMA TableFacts ==
    ASSUME HInv, EInv
    PROVE  /\ HTypeOK /\ IsTable(table, ins_count) /\ OffsetsInv
           /\ ins_count \in Nat /\ cur_max_capacity \in Nat
           /\ Live \subseteq 1 .. ins_count
           /\ Live \subseteq Ids
           /\ \A k \in Live, g \in Fields : SizeFits(Entries(k), g)
           /\ \A k \in Live : Entries(k) \in Entry
<1>1. /\ HTypeOK /\ IsTable(table, ins_count) /\ OffsetsInv
      /\ ins_count \in Nat /\ cur_max_capacity \in Nat /\ ins_count <= MaxAbsId
  BY LimitsAssumption DEF HInv, EInv, HTypeOK, ETypeOK
<1>2. Live \subseteq 1 .. ins_count /\ \A k \in Live : Entries(k) \in Entry
  BY <1>1, TableParts, Zenon DEF Live, Entries
<1>3. Live \subseteq Ids
  BY <1>1, <1>2, LimitsAssumption DEF Ids
<1>4. \A k \in Live, g \in Fields : SizeFits(Entries(k), g)
  BY Zenon DEF EInv, SizesInv, SizeFits
<1> QED BY <1>1, <1>2, <1>3, <1>4, Zenon

\* A program that can be selected leaves a packed table that holds what its line
\* refers to, and evicts only what may be evicted.
LEMMA ProgramExecuted ==
    ASSUME Facts, HInv, EInv, NEW f \in Fields, NEW fl \in Flags, NEW p \in Programs(f, fl)
    PROVE  /\ ProgramOk(p, f)
           /\ IsExecuted(RemoveOverflow(Inserted(p, f), cur_max_capacity), p, f)
<1> DEFINE c == cur_max_capacity
           size == InsertedSize(p, f)
           val == IF p.tab = "new" THEN f.val ELSE EmptyVal
<1>1. /\ HTypeOK /\ IsTable(table, ins_count) /\ OffsetsInv
      /\ ins_count \in Nat /\ c \in Nat /\ Live \subseteq 1 .. ins_count
      /\ \A k \in Live, g \in Fields : SizeFits(Entries(k), g)
  BY TableFacts, Zenon
<1>2. ProgramOk(p, f)
  <2>1. Live \subseteq Nat \ {0} /\ SizesInv
    BY <1>1 DEF EInv
  <2> QED BY <2>1, ProgramsOk, Zenon
<1>3. f \in Field /\ f.name \in Nat /\ f.val \in Nat /\ f.nsize \in Nat /\ f.vsize \in Nat
  BY FieldsAssumption, Zenon DEF Field
<1>4. CASE p.tab = "noop"
  <2> DEFINE u == RemoveOverflow(table, c)
  <2>1. /\ IsTable(u, ins_count) /\ Packed(u, ins_count) /\ u.used <= c
        /\ \A k \in DOMAIN u.entries : u.entries[k] = Entries(k)
        /\ DOMAIN u.entries = Live
    BY <1>1, RemoveCorrect
  <2> HIDE DEF u
  <2>2. LineRefs(p) \subseteq Live
    <3>1. p.hea \notin {"indexed_new", "lit_name_new"}
      BY <1>2, <1>4, Zenon DEF ProgramOk
    <3>2. p.hea \in {"indexed_dyn", "lit_name_dyn"} => p.found \in Live
      BY <1>2, Zenon DEF ProgramOk
    <3> QED BY <3>1, <3>2, Zenon DEF LineRefs
  <2>3. \A k \in DOMAIN u.entries, g \in Fields : SizeFits(u.entries[k], g)
    BY <1>1, <2>1, Zenon
  <2>4. IsExecuted(u, p, f)
    BY <1>4, <2>1, <2>2, <2>3, Zenon DEF IsExecuted
  <2> QED BY <1>2, <1>4, <2>4, Zenon DEF Inserted, u
<1>5. CASE p.tab # "noop"
  <2>1. /\ size \in Nat /\ val \in Nat /\ HasRoom(size)
        /\ p.tab \in {"new", "new_name"}
    BY <1>2, <1>3, <1>5 DEF ProgramOk, InsertedSize, EmptyVal
  <2> DEFINE u == RemoveOverflow(PushEntry(table, ins_count + 1, f.name, val,
                                           f.val, size), c)
  <2>2. Inserted(p, f) = PushEntry(table, ins_count + 1, f.name, val, f.val, size)
    BY <1>5, Zenon DEF Inserted
  <2> HIDE DEF size, val
  <2>3. IsInserted(u, f.name, val, f.val, size)
    BY <1>1, <1>3, <2>1, InsertCorrect, Zenon
  <2> HIDE DEF u
  <2>4. /\ IsTable(u, ins_count + 1) /\ Packed(u, ins_count + 1) /\ u.used <= c
        /\ ins_count + 1 \in DOMAIN u.entries
        /\ DOMAIN u.entries \subseteq Live \cup {ins_count + 1}
        /\ \A k \in Live \cap DOMAIN u.entries : u.entries[k] = Entries(k)
        /\ \A k \in Live \ DOMAIN u.entries : Evictable(k)
    BY <2>3, Zenon DEF IsInserted
  <2>5. LineRefs(p) \subseteq DOMAIN u.entries
    <3>1. CASE p.hea \in {"indexed_new", "lit_name_new"}
      BY <3>1, <2>4, Zenon DEF LineRefs
    <3>2. CASE p.hea \in {"indexed_dyn", "lit_name_dyn"}
      <4>1. /\ p.found \in Live /\ p.tab = "new" /\ SafeToDup(p.found)
            /\ Entries(p.found).size = f.nsize + f.vsize
        BY <1>2, <1>5, <3>2, Zenon DEF ProgramOk
      <4>2. size = Entries(p.found).size
        BY <4>1, Zenon DEF size, InsertedSize
      <4>3. table.used + size - Off(table, p.found) <= c
        BY <4>1, <4>2, Zenon DEF SafeToDup
      <4>4. p.found \in DOMAIN u.entries
        BY <2>3, <4>1, <4>3, Zenon DEF IsInserted
      <4> QED BY <3>2, <4>4, Zenon DEF LineRefs
    <3>3. CASE p.hea \notin {"indexed_new", "lit_name_new", "indexed_dyn", "lit_name_dyn"}
      BY <3>3, Zenon DEF LineRefs
    <3> QED BY <3>1, <3>2, <3>3, Zenon
  <2>6. ASSUME NEW k \in DOMAIN u.entries, NEW g \in Fields
        PROVE  SizeFits(u.entries[k], g)
    <3>1. CASE k \in Live
      BY <3>1, <1>1, <2>4, Zenon
    <3>2. CASE k = ins_count + 1
      <4> DEFINE e == u.entries[k]
      <4>1. e.name = f.name /\ e.val = val /\ e.hash = f.val /\ e.size = size
        BY <3>2, <2>3, Zenon DEF IsInserted
      <4> HIDE DEF e
      <4> SUFFICES ASSUME e.name = g.name, e.val = g.val, e.hash = g.val
                   PROVE  e.size = g.nsize + g.vsize
        BY Zenon DEF SizeFits, e
      <4>2. f.nsize = g.nsize /\ f.vsize = g.vsize /\ f.val = g.val
        BY <4>1, SizesAssumption, Zenon
      <4>3. CASE p.tab = "new"
        BY <4>1, <4>2, <4>3, Zenon DEF size, InsertedSize
      <4>4. CASE p.tab = "new_name"
        <5>1. f.val = EmptyVal
          BY <4>1, <4>2, <4>4, Zenon DEF val
        <5>2. g.vsize = 0
          BY <5>1, <4>2, SizesAssumption, Zenon
        <5> QED BY <4>1, <4>2, <4>4, <5>2, <1>3 DEF size, InsertedSize
      <4> QED BY <2>1, <4>3, <4>4, Zenon
    <3> QED BY <3>1, <3>2, <2>4, Zenon
  <2>7. IsExecuted(u, p, f)
    BY <1>5, <2>4, <2>5, <2>6, Zenon DEF IsExecuted
  <2> QED BY <1>2, <2>2, <2>7, Zenon DEF u
<1> QED BY <1>4, <1>5, Zenon

-----------------------------------------------------------------------------
(***************************************************************************)
(* Every operation keeps EInv.                                             *)
(***************************************************************************)

\* What a step may do to the table: see EvictionSafe.
EvictStep ==
    cur_max_capacity' >= cur_max_capacity =>
        /\ \A k \in Live \ Live' : /\ k <= max_acked_id
                                  /\ \A h \in all_hinfos : k \notin refs'[h]
        /\ \A h \in Slots : refs'[h] \ refs[h] \subseteq Live'

\* Acknowledgements are not taken back, and an entry outlives the call that
\* inserts it.
GrowStep == /\ max_acked_id <= max_acked_id'
            /\ ins_count + 1 .. ins_count' \subseteq Live'

\* The encoder starts with an empty table.
LEMMA InitEInv == EInit => EInv
<1> SUFFICES ASSUME EInit PROVE EInv
  BY Zenon
<1> DEFINE e == << >>
<1>1. table = [entries |-> e, used |-> 0, dropped |-> 0]
  BY Zenon DEF EInit
<1>2. e \in [1 .. 0 -> Entry] /\ DOMAIN e = {}
  OBVIOUS
<1>3. table.entries = e /\ table.used = 0 /\ Live = {}
  BY <1>1, <1>2, Zenon DEF Live
<1>4. /\ ins_count = 0 /\ max_acked_id = 0 /\ all_hinfos = {} /\ call = NoCall
      /\ cur_max_capacity \in Nat
      /\ hinfos = [h \in Slots |-> BlankHinfo(h, NULL)]
      /\ min_reffed = NotCached /\ flag = "none" /\ loop_start = 0
      /\ refs = [h \in Slots |-> {}]
  BY LimitsAssumption DEF EInit, HInit
<1>5. IsTable(table, ins_count)
  <2>1. 0 \in 0 .. Word - 1
    BY WordPositive
  <2>2. table \in [entries : [1 .. 0 -> Entry], used : Nat, dropped : 0 .. Word - 1]
    BY <1>1, <1>2, <2>1, Zenon
  <2> QED BY <1>4, <2>2 DEF IsTable
<1>6. ETypeOK
  BY <1>4, <1>5 DEF ETypeOK
<1>7. OffsetsInv
  BY <1>3, <1>4 DEF OffsetsInv, Packed, Live
<1>8. SizesInv
  BY <1>3, Zenon DEF SizesInv
<1>9. RefsInv
  BY <1>4 DEF RefsInv, RefsBracketed, BlankHinfo
<1>10. CachedInv /\ LoopInv
  BY <1>4, Zenon DEF CachedInv, LoopInv, CopiesStay, NoCall
<1> QED BY <1>6, <1>7, <1>8, <1>9, <1>10, Zenon DEF EInv

\* A step that leaves the table alone.
LEMMA TableFrame ==
    ASSUME HInv, EInv, UNCHANGED <<table, ins_count, cur_max_capacity>>
    PROVE  IsTable(table, ins_count)' /\ OffsetsInv' /\ SizesInv' /\ Live' = Live
<1>1. IsTable(table, ins_count) /\ OffsetsInv /\ SizesInv
  BY Zenon DEF EInv, ETypeOK
<1>2. Live' = Live /\ \A k : Entries(k)' = Entries(k)
  BY Zenon DEF Live, Entries
<1>3. SizesInv'
  BY <1>1, <1>2, Zenon DEF SizesInv
<1>4. OffsetsInv'
  BY <1>1, Zenon DEF OffsetsInv
<1> QED BY <1>1, <1>2, <1>3, <1>4, Zenon

\* A step that forgets references only with their block.
LEMMA RefsFrame ==
    ASSUME HInv, EInv, IdsKept(hinfos', all_hinfos'), all_hinfos' \subseteq all_hinfos,
           (refs' = refs /\ all_hinfos' = all_hinfos) \/ KeepRefs
    PROVE  /\ RefsInv' /\ refs' \in [Slots -> SUBSET Ids]
           /\ \A h \in Slots : refs'[h] \subseteq refs[h]
<1>1. /\ refs \in [Slots -> SUBSET Ids] /\ RefsInv /\ all_hinfos \subseteq Slots
  BY AllHinfosAreSlots, Zenon DEF HInv, EInv, ETypeOK
<1>2. /\ refs' \in [Slots -> SUBSET Ids]
      /\ \A h \in Slots : refs'[h] = IF h \in all_hinfos' THEN refs[h] ELSE {}
  <2>1. CASE KeepRefs
    BY <1>1, <2>1, Zenon DEF KeepRefs
  <2>2. CASE refs' = refs /\ all_hinfos' = all_hinfos
    BY <1>1, <2>2, Zenon DEF RefsInv
  <2> QED BY <2>1, <2>2, Zenon
<1>3. ASSUME NEW h \in Slots
      PROVE  /\ hinfos'[h].min_id <= hinfos'[h].max_id
             /\ hinfos'[h].min_id = 0 => hinfos'[h].max_id = 0
  <2>1. /\ hinfos[h].min_id <= hinfos[h].max_id
        /\ hinfos[h].min_id = 0 => hinfos[h].max_id = 0
    BY <1>1, Zenon DEF RefsInv
  <2>2. \/ SameIds(hinfos'[h], hinfos[h])
        \/ hinfos'[h].min_id = 0 /\ hinfos'[h].max_id = 0
    BY Zenon DEF IdsKept
  <2> QED BY <2>1, <2>2 DEF SameIds
<1>4. ASSUME NEW h \in all_hinfos'
      PROVE  refs'[h] \subseteq hinfos'[h].min_id .. hinfos'[h].max_id
  <2>1. h \in all_hinfos /\ h \in Slots
    BY <1>1, Zenon
  <2>2. SameIds(hinfos'[h], hinfos[h])
    BY <2>1, Zenon DEF IdsKept
  <2>3. refs[h] \subseteq hinfos[h].min_id .. hinfos[h].max_id
    BY <1>1, <2>1, Zenon DEF RefsInv, RefsBracketed
  <2> QED BY <1>2, <2>1, <2>2, <2>3, Zenon DEF SameIds
<1>5. RefsBracketed'
  BY <1>4, Zenon DEF RefsBracketed
<1>6. RefsInv'
  BY <1>2, <1>3, <1>5, Zenon DEF RefsInv
<1> QED BY <1>2, <1>6, Zenon

\* What qenc_min_reffed_id stores.
LEMMA MinOfAllCovers ==
    ASSUME Facts, HInv
    PROVE  /\ MinOfAll \in 0 .. MaxAbsId
           /\ \A h \in all_hinfos :
                 hinfos[h].min_id # 0 => MinOfAll \in 1 .. hinfos[h].min_id
<1> DEFINE M == { hinfos[k].min_id : k \in all_hinfos }
<1>1. /\ \A h \in all_hinfos : hinfos[h].min_id \in 0 .. MaxAbsId
      /\ MaxAbsId \in Nat
  BY AllHinfosAreSlots, LimitsAssumption DEF HInv, HTypeOK, Hinfo, Ids
<1>2. M \in SUBSET Nat /\ M \subseteq 0 .. MaxAbsId
  BY <1>1
<1>3. \A h \in all_hinfos : hinfos[h].min_id \in M
  BY Zenon
<1> HIDE DEF M
<1>4. LeastId(M) \in 0 .. MaxAbsId
  <2>1. LeastId(M) = 0 \/ LeastId(M) \in M
    BY <1>2, LeastIdRange, Zenon
  <2>2. 0 \in 0 .. MaxAbsId
    BY <1>1
  <2>3. \A x \in M : x \in 0 .. MaxAbsId
    BY <1>2, Zenon
  <2> QED BY <2>1, <2>2, <2>3, Zenon
<1>5. ASSUME NEW h \in all_hinfos, hinfos[h].min_id # 0
      PROVE  LeastId(M) \in 1 .. hinfos[h].min_id
  BY <1>2, <1>3, <1>5, LeastIdOf, Zenon
<1> QED BY <1>4, <1>5, Zenon DEF MinOfAll, M

\* A stored minimum stays below what the blocks refer to.
LEMMA CachedFrame ==
    ASSUME Facts, HInv, EInv, all_hinfos' \subseteq all_hinfos,
           cur_header'.hinfo = cur_header.hinfo,
           \A h \in all_hinfos' \ {cur_header.hinfo} : hinfos'[h].min_id = hinfos[h].min_id,
           min_reffed' \in {NotCached, MinOfAll, min_reffed}
    PROVE  CachedInv' /\ min_reffed' \in {NotCached} \cup 0 .. MaxAbsId
<1>1. /\ MinOfAll \in 0 .. MaxAbsId
      /\ \A h \in all_hinfos :
            hinfos[h].min_id # 0 => MinOfAll \in 1 .. hinfos[h].min_id
  BY MinOfAllCovers, Zenon
<1>2. CachedInv /\ min_reffed \in {NotCached} \cup 0 .. MaxAbsId
  BY Zenon DEF EInv, ETypeOK
<1>3. ASSUME min_reffed' # NotCached, NEW h \in all_hinfos' \ {cur_header.hinfo},
             hinfos'[h].min_id # 0
      PROVE  min_reffed' \in 1 .. hinfos'[h].min_id
  <2>1. h \in all_hinfos \ {cur_header.hinfo} /\ hinfos'[h].min_id = hinfos[h].min_id
    BY Zenon
  <2>2. CASE min_reffed' = MinOfAll
    BY <1>1, <1>3, <2>1, <2>2, Zenon
  <2>3. CASE min_reffed' = min_reffed
    BY <1>2, <1>3, <2>1, <2>3, Zenon DEF CachedInv
  <2> QED BY <1>3, <2>2, <2>3, Zenon
<1>4. CachedInv'
  BY <1>3, Zenon DEF CachedInv
<1> QED BY <1>1, <1>2, <1>4, Zenon

\* lsqpack_enc_encode that runs out of buffer, the end of one that does not, and
\* steps that change nothing.
LEMMA QuietEInv ==
    ASSUME Facts, HInv, EInv, EncodeNoBuf \/ EEncodeReturn \/ UNCHANGED evars
    PROVE  EInv' /\ EvictStep /\ GrowStep
<1>1. /\ UNCHANGED <<table, ins_count, cur_max_capacity, max_acked_id, hinfos,
                     all_hinfos, cur_header, refs>>
      /\ min_reffed' \in {MinOfAll, min_reffed}
      /\ flag' \in {flag, "none"}
      /\ \/ UNCHANGED <<call, loop_start>>
         \/ call' = NoCall /\ loop_start' = 0
  BY Zenon DEF EncodeNoBuf, EEncodeReturn, EncodeReturn, evars, hvars
<1>2. IsTable(table, ins_count)' /\ OffsetsInv' /\ SizesInv' /\ Live' = Live
  BY <1>1, TableFrame, Zenon
<1>3. IdsKept(hinfos', all_hinfos')
  BY <1>1, Zenon DEF IdsKept, SameIds
<1>4. RefsInv' /\ refs' \in [Slots -> SUBSET Ids]
  BY <1>1, <1>3, RefsFrame, Zenon
<1>5. CachedInv' /\ min_reffed' \in {NotCached} \cup 0 .. MaxAbsId
  BY <1>1, CachedFrame, Zenon
<1>6. flag' \in Flags \cup {"none"} /\ loop_start' \in 0 .. ins_count'
      /\ ins_count \in Nat /\ max_acked_id \in Nat
  BY <1>1, LimitsAssumption DEF EInv, ETypeOK, HInv, HTypeOK
<1>7. ETypeOK'
  BY <1>2, <1>4, <1>5, <1>6, Zenon DEF ETypeOK
<1>8. LoopInv'
  BY <1>1, <1>2 DEF EInv, LoopInv, CopiesStay, NoCall
<1>9. EvictStep
  BY <1>1, <1>2, Zenon DEF EvictStep
<1>10. GrowStep
  <2>1. ins_count + 1 .. ins_count = {}
    BY <1>6
  <2> QED BY <1>1, <1>6, <2>1 DEF GrowStep
<1> QED BY <1>2, <1>4, <1>5, <1>7, <1>8, <1>9, <1>10, Zenon DEF EInv

\* lsqpack_enc_start_header
LEMMA StartHeaderEInv ==
    ASSUME HInv, EInv, NEW s \in Streams, NEW h \in {NULL} \cup Slots, EStartHeader(s, h)
    PROVE  EInv' /\ EvictStep /\ GrowStep
<1>1. /\ UNCHANGED <<table, ins_count, cur_max_capacity, max_acked_id, refs, flag,
                     loop_start, call>>
      /\ min_reffed' = NotCached /\ call = NoCall /\ h \in AllocResults
  BY Zenon DEF EStartHeader, StartHeader
<1>2. IsTable(table, ins_count)' /\ OffsetsInv' /\ SizesInv' /\ Live' = Live
  BY <1>1, TableFrame, Zenon
<1>3. /\ refs \in [Slots -> SUBSET Ids] /\ RefsInv /\ ins_count \in Nat /\ max_acked_id \in Nat
      /\ flag \in Flags \cup {"none"} /\ loop_start \in 0 .. ins_count
      /\ hinfos \in [Slots -> Hinfo]
  BY LimitsAssumption DEF EInv, ETypeOK, HInv, HTypeOK
<1>4. RefsInv'
  <2>1. CASE h = NULL
    <3>1. UNCHANGED <<hinfos, all_hinfos>>
      BY <2>1, Zenon DEF EStartHeader, StartHeader
    <3> QED BY <1>1, <1>3, <3>1, Zenon DEF RefsInv, RefsBracketed
  <2>2. CASE h # NULL
    <3>1. h \in Slots \ all_hinfos
      BY <1>1, <2>2, AllocCorrect, Zenon DEF HInv
    <3>2. /\ hinfos' = [hinfos EXCEPT ![h] = [BlankHinfo(h, s) EXCEPT !.older = all_hinfos]]
          /\ all_hinfos' = all_hinfos \cup {h}
      BY <2>2, Zenon DEF EStartHeader, StartHeader
    <3>3. /\ hinfos'[h].min_id = 0 /\ hinfos'[h].max_id = 0
          /\ \A k \in Slots \ {h} : hinfos'[k] = hinfos[k]
      BY <1>3, <3>1, <3>2, Zenon DEF BlankHinfo
    <3>4. refs'[h] = {}
      BY <1>1, <1>3, <3>1, Zenon DEF RefsInv
    <3>5. RefsBracketed'
      <4> SUFFICES ASSUME NEW k \in all_hinfos'
                   PROVE  refs'[k] \subseteq hinfos'[k].min_id .. hinfos'[k].max_id
        BY Zenon DEF RefsBracketed
      <4>1. CASE k = h
        BY <3>4, <4>1, Zenon
      <4>2. CASE k # h
        <5>1. k \in all_hinfos /\ k \in Slots
          BY <3>2, <4>2, AllHinfosAreSlots, Zenon DEF HInv
        <5> QED BY <1>1, <1>3, <3>3, <4>2, <5>1, Zenon DEF RefsInv, RefsBracketed
      <4> QED BY <4>1, <4>2, Zenon
    <3>6. ASSUME NEW k \in Slots
          PROVE  /\ hinfos'[k].min_id <= hinfos'[k].max_id
                 /\ hinfos'[k].min_id = 0 => hinfos'[k].max_id = 0
      BY <1>3, <3>3 DEF RefsInv
    <3>7. \A k \in Slots \ all_hinfos' : refs'[k] = {}
      BY <1>1, <1>3, <3>2, Zenon DEF RefsInv
    <3> QED BY <3>5, <3>6, <3>7, Zenon DEF RefsInv
  <2> QED BY <2>1, <2>2, Zenon
<1>5. ETypeOK'
  BY <1>1, <1>2, <1>3, Zenon DEF ETypeOK
<1>6. CachedInv'
  BY <1>1, Zenon DEF CachedInv
<1>7. LoopInv'
  BY <1>1, Zenon DEF LoopInv, CopiesStay, NoCall
<1>8. EvictStep
  BY <1>1, <1>2, Zenon DEF EvictStep
<1>9. GrowStep
  <2>1. ins_count + 1 .. ins_count = {}
    BY <1>3
  <2> QED BY <1>1, <1>3, <2>1 DEF GrowStep
<1> QED BY <1>2, <1>4, <1>5, <1>6, <1>7, <1>8, <1>9, Zenon DEF EInv

\* lsqpack_enc_end_header, lsqpack_enc_cancel_header and lsqpack_enc_decoder_in
LEMMA ReleaseEInv ==
    ASSUME Facts, HInv, EInv, EEndHeader \/ EDecoderIn
    PROVE  EInv' /\ EvictStep /\ GrowStep
<1>1. /\ UNCHANGED <<table, flag, loop_start>> /\ KeepRefs
      /\ \/ min_reffed' = NotCached
         \/ UNCHANGED <<min_reffed, cur_header>>
      /\ ReleaseStep
  <2>1. CASE EEndHeader
    BY <2>1, Zenon DEF EEndHeader, ReleaseStep
  <2>2. CASE EDecoderIn
    <3>1. UNCHANGED cur_header
      BY <2>2, Zenon DEF EDecoderIn, HeaderAck, StreamCancel, Ici, UpdateRisked, UpdateDone,
                  CancelNext
    <3> QED BY <2>2, <3>1, Zenon DEF EDecoderIn, ReleaseStep
  <2> QED BY <2>1, <2>2, Zenon
<1>2. /\ UNCHANGED <<ins_count, cur_max_capacity>>
      /\ max_acked_id <= max_acked_id'
      /\ all_hinfos' \subseteq all_hinfos
      /\ IdsKept(hinfos', all_hinfos')
      /\ call'.loop # "dup_draining"
  BY <1>1, ReleaseFrame, Zenon
<1>3. IsTable(table, ins_count)' /\ OffsetsInv' /\ SizesInv' /\ Live' = Live
  BY <1>1, <1>2, TableFrame, Zenon
<1>4. /\ RefsInv' /\ refs' \in [Slots -> SUBSET Ids]
      /\ \A h \in Slots : refs'[h] \subseteq refs[h]
  BY <1>1, <1>2, RefsFrame, Zenon
<1>5. CachedInv' /\ min_reffed' \in {NotCached} \cup 0 .. MaxAbsId
  <2>1. CASE min_reffed' = NotCached
    BY <2>1, Zenon DEF CachedInv
  <2>2. CASE UNCHANGED <<min_reffed, cur_header>>
    <3>1. ASSUME NEW h \in all_hinfos' PROVE hinfos'[h].min_id = hinfos[h].min_id
      BY <1>2, AllHinfosAreSlots, Zenon DEF IdsKept, SameIds, HInv
    <3> QED BY <1>2, <2>2, <3>1, CachedFrame, Zenon
  <2> QED BY <1>1, <2>1, <2>2, Zenon
<1>6. /\ flag' \in Flags \cup {"none"} /\ loop_start' \in 0 .. ins_count'
      /\ ins_count \in Nat
  BY <1>1, <1>2, LimitsAssumption, SMTT(30) DEF EInv, ETypeOK, HInv, HTypeOK
<1>7. ETypeOK'
  BY <1>3, <1>4, <1>5, <1>6, Zenon DEF ETypeOK
<1>8. LoopInv'
  BY <1>2, Zenon DEF LoopInv, CopiesStay
<1>9. EvictStep
  BY <1>3, <1>4, Zenon DEF EvictStep
<1>10. GrowStep
  <2>1. ins_count + 1 .. ins_count = {}
    BY <1>6
  <2> QED BY <1>2, <2>1, Zenon DEF GrowStep
<1> QED BY <1>3, <1>4, <1>5, <1>7, <1>8, <1>9, <1>10, Zenon DEF EInv

\* lsqpack_enc_set_max_capacity
LEMMA SetMaxCapacityEInv ==
    ASSUME Facts, HInv, EInv, NEW c \in Capacities, ESetMaxCapacity(c)
    PROVE  EInv' /\ EvictStep /\ GrowStep
<1>1. /\ UNCHANGED <<ins_count, max_acked_id, hinfos, all_hinfos, cur_header, refs,
                     min_reffed, flag, loop_start, call>>
      /\ cur_max_capacity' = c /\ call = NoCall
      /\ table' = RemoveOverflow(table, c)
  BY Zenon DEF ESetMaxCapacity, SetMaxCapacity
<1>2. /\ HTypeOK /\ IsTable(table, ins_count) /\ OffsetsInv /\ ins_count \in Nat
      /\ \A k \in Live, g \in Fields : SizeFits(Entries(k), g)
  BY TableFacts, Zenon
<1>3. c \in Nat
  BY LimitsAssumption
<1>4. /\ IsTable(table', ins_count) /\ Packed(table', ins_count) /\ table'.used <= c
      /\ Live' \subseteq Live
      /\ \A k \in Live' : Entries(k)' = Entries(k)
      /\ cur_max_capacity <= c => Live' = Live
  BY <1>1, <1>2, <1>3, RemoveCorrect, Zenon DEF Live, Entries
<1>5. OffsetsInv'
  BY <1>1, <1>4, Zenon DEF OffsetsInv
<1>6. SizesInv'
  BY <1>2, <1>4, Zenon DEF SizesInv, SizeFits
<1>7. IdsKept(hinfos', all_hinfos')
  BY <1>1, Zenon DEF IdsKept, SameIds
<1>8. RefsInv' /\ refs' \in [Slots -> SUBSET Ids]
  BY <1>1, <1>7, RefsFrame, Zenon
<1>9. CachedInv' /\ min_reffed' \in {NotCached} \cup 0 .. MaxAbsId
  BY <1>1, CachedFrame, Zenon
<1>10. /\ flag' \in Flags \cup {"none"} /\ loop_start' \in 0 .. ins_count'
       /\ max_acked_id \in Nat /\ cur_max_capacity \in Nat
  BY <1>1, LimitsAssumption, SMTT(30) DEF EInv, ETypeOK, HInv, HTypeOK
<1>11. ETypeOK'
  BY <1>1, <1>4, <1>8, <1>9, <1>10, Zenon DEF ETypeOK
<1>12. LoopInv'
  BY <1>1, Zenon DEF LoopInv, CopiesStay, NoCall
<1>13. EvictStep
  <2> SUFFICES ASSUME c >= cur_max_capacity PROVE Live' = Live
    BY <1>1, Zenon DEF EvictStep
  <2> QED BY <1>3, <1>4, <1>10, Zenon
<1>14. GrowStep
  <2>1. ins_count + 1 .. ins_count = {}
    BY <1>2
  <2> QED BY <1>1, <1>10, <2>1 DEF GrowStep
<1> QED BY <1>5, <1>6, <1>8, <1>9, <1>11, <1>12, <1>13, <1>14, Zenon DEF EInv

\* What may be evicted is acknowledged and no block refers to it.
LEMMA EvictableSafe ==
    ASSUME Facts, HInv, EInv, NEW k \in Live, Evictable(k)
    PROVE  k <= max_acked_id /\ \A h \in all_hinfos : k \notin refs[h]
<1>1. /\ hinfos \in [Slots -> Hinfo] /\ all_hinfos \subseteq Slots
      /\ MaxAbsId \in Nat /\ max_acked_id \in Nat
      /\ cur_header.hinfo \in {NULL} \cup all_hinfos
  BY AllHinfosAreSlots, LimitsAssumption, SMTT(30) DEF HInv, HTypeOK, CurHeaderInv
<1>2. min_reffed \in {NotCached} \cup 0 .. MaxAbsId /\ CachedInv /\ RefsInv
  BY Zenon DEF EInv, ETypeOK
<1>3. k \in Nat /\ k # 0
  BY TableFacts
<1> QED BY <1>1, <1>2, <1>3, EvictableUnused, ZenonT(60)

\* One round of the loop over qenc_dup_draining.
LEMMA DupDrainingEInv ==
    ASSUME Facts, HInv, EInv, EDupDraining
    PROVE  EInv' /\ EvictStep /\ GrowStep
<1>1. /\ UNCHANGED <<cur_max_capacity, max_acked_id, hinfos, all_hinfos, cur_header,
                     refs, flag, loop_start, call>>
      /\ ins_count' = ins_count + 1
      /\ call.loop = "dup_draining"
      /\ min_reffed' \in {NotCached, MinOfAll, min_reffed}
  BY Zenon DEF EDupDraining, DupDraining, MayCacheMinReffed
<1>2. PICK k \in Live :
        /\ HasRoom(Entries(k).size)
        /\ table' = RemoveOverflow(
                       PushEntry(table, ins_count + 1, Entries(k).name,
                                 Entries(k).val, Entries(k).hash, Entries(k).size),
                       cur_max_capacity)
  BY Zenon DEF EDupDraining, DupCandidates
<1>3. /\ HTypeOK /\ IsTable(table, ins_count) /\ OffsetsInv /\ ins_count \in Nat
      /\ Live \subseteq 1 .. ins_count
      /\ \A j \in Live, g \in Fields : SizeFits(Entries(j), g)
      /\ Entries(k) \in Entry
  BY TableFacts, Zenon
<1> DEFINE e == Entries(k)
           n == ins_count + 1
<1>4. e.name \in Nat /\ e.val \in Nat /\ e.hash \in Nat /\ e.size \in Nat
  BY <1>3, Zenon DEF Entry
<1>5. IsInserted(table', e.name, e.val, e.hash, e.size)
  BY <1>2, <1>3, <1>4, InsertCorrect, Zenon
<1>6. /\ IsTable(table', n) /\ Packed(table', n) /\ table'.used <= cur_max_capacity
      /\ n \in Live' /\ Live' \subseteq Live \cup {n}
      /\ \A j \in Live \cap Live' : Entries(j)' = Entries(j)
      /\ \A j \in Live \ Live' : Evictable(j)
  BY <1>5, Zenon DEF IsInserted, Live, Entries
<1>7. ASSUME NEW g \in Fields PROVE SizeFits(table'.entries[n], g)
  <2> DEFINE new == table'.entries[n]
  <2>1. /\ new.name = e.name /\ new.val = e.val /\ new.hash = e.hash
        /\ new.size = e.size
    BY <1>5, Zenon DEF IsInserted
  <2>2. SizeFits(e, g)
    BY <1>3, Zenon
  <2> QED BY <2>1, <2>2, Zenon DEF SizeFits
<1>8. SizesInv'
  <2> SUFFICES ASSUME NEW j \in Live', NEW g \in Fields PROVE SizeFits(Entries(j)', g)
    BY Zenon DEF SizesInv, SizeFits
  <2>1. CASE j \in Live
    BY <1>3, <1>6, <2>1, Zenon
  <2>2. CASE j = n
    BY <1>7, <2>2, Zenon DEF Entries
  <2> QED BY <1>6, <2>1, <2>2, Zenon
<1>9. OffsetsInv'
  BY <1>1, <1>6, Zenon DEF OffsetsInv
<1>10. IdsKept(hinfos', all_hinfos')
  BY <1>1, Zenon DEF IdsKept, SameIds
<1>11. RefsInv' /\ refs' \in [Slots -> SUBSET Ids]
  BY <1>1, <1>10, RefsFrame, Zenon
<1>12. CachedInv' /\ min_reffed' \in {NotCached} \cup 0 .. MaxAbsId
  BY <1>1, CachedFrame, Zenon
<1>13. /\ flag \in Flags \cup {"none"} /\ loop_start \in 0 .. ins_count
       /\ max_acked_id \in Nat /\ max_acked_id <= loop_start
       /\ loop_start + 1 .. ins_count \subseteq Live
  BY <1>1, LimitsAssumption, SMTT(30) DEF EInv, ETypeOK, HInv, HTypeOK, LoopInv, CopiesStay
<1>14. ETypeOK'
  <2>1. loop_start' \in 0 .. ins_count'
    BY <1>1, <1>3, <1>13
  <2> QED BY <1>1, <1>6, <1>11, <1>12, <1>13, <2>1, Zenon DEF ETypeOK
<1>15. \A j \in Live \ Live' : j <= max_acked_id /\ \A h \in all_hinfos : j \notin refs[h]
  BY <1>6, EvictableSafe, Zenon
<1>16. LoopInv'
  <2>1. ASSUME NEW j \in loop_start + 1 .. ins_count + 1 PROVE j \in Live'
    <3>1. CASE j = ins_count + 1
      BY <1>6, <3>1, Zenon
    <3>2. CASE j # ins_count + 1
      <4>1. j \in loop_start + 1 .. ins_count /\ ~(j <= max_acked_id)
        BY <1>3, <1>13, <3>2
      <4> QED BY <1>13, <1>15, <4>1, Zenon
    <3> QED BY <3>1, <3>2, Zenon
  <2> QED BY <1>1, <1>13, <2>1, Zenon DEF LoopInv, CopiesStay
<1>17. EvictStep
  BY <1>1, <1>15, Zenon DEF EvictStep
<1>18. GrowStep
  <2>1. ins_count + 1 .. ins_count + 1 = {n}
    BY <1>3
  <2> QED BY <1>1, <1>6, <1>13, <2>1, SMTT(30) DEF GrowStep
<1> QED BY <1>8, <1>9, <1>11, <1>12, <1>14, <1>16, <1>17, <1>18, Zenon DEF EInv

\* The contents `new' of a slot bracket the IDs in S and those that hi did.
Brackets(new, hi, S) ==
    /\ new \in Hinfo
    /\ new.min_id <= new.max_id
    /\ new.min_id = 0 => new.max_id = 0
    /\ S \subseteq new.min_id .. new.max_id
    /\ \A x \in Ids : x \in hi.min_id .. hi.max_id => x \in new.min_id .. new.max_id

\* The IDs that executing program p notes are those of its line.
LEMMA NotedBrackets ==
    ASSUME HInv, EInv, NEW f \in Fields, NEW p, ProgramOk(p, f),
           NEW hi \in Hinfo, hi.min_id <= hi.max_id, hi.min_id = 0 => hi.max_id = 0,
           NEW fst, fst = (IF p.ref_new THEN NoteId(hi, ins_count + 1) ELSE hi),
           NEW snd, snd = (IF p.found # 0 THEN NoteId(fst, p.found) ELSE fst)
    PROVE  Brackets(snd, hi, LineRefs(p))
<1>1. /\ p.ref_new => ins_count + 1 \in Ids
      /\ p.found # 0 => p.found \in Ids
  <2>1. ins_count \in Nat /\ Live \subseteq Ids
    BY TableFacts, Zenon
  <2>2. p.ref_new => ins_count < MaxAbsId
    BY Zenon DEF ProgramOk
  <2>3. p.found # 0 => p.found \in Live
    BY Zenon DEF ProgramOk
  <2>4. ins_count < MaxAbsId => ins_count + 1 \in Ids
    BY <2>1, LimitsAssumption DEF Ids
  <2> QED BY <2>1, <2>2, <2>3, <2>4, Zenon
<1> DEFINE new == IF p.ref_new THEN {ins_count + 1} ELSE {}
           old == IF p.found # 0 THEN {p.found} ELSE {}
<1>2. Brackets(fst, hi, new)
  <2>1. CASE p.ref_new
    <3>1. fst = NoteId(hi, ins_count + 1)
      BY <2>1, Zenon
    <3> QED BY <1>1, <2>1, <3>1, NoteIdBrackets, Zenon DEF Brackets
  <2>2. CASE ~p.ref_new
    BY <2>2, Zenon DEF Brackets
  <2> QED BY <2>1, <2>2, Zenon
<1>3. Brackets(snd, fst, old)
  <2>1. CASE p.found # 0
    <3>1. snd = NoteId(fst, p.found)
      BY <2>1, Zenon
    <3>2. fst \in Hinfo /\ fst.min_id <= fst.max_id /\ (fst.min_id = 0 => fst.max_id = 0)
      BY <1>2, Zenon DEF Brackets
    <3> QED BY <1>1, <2>1, <3>1, <3>2, NoteIdBrackets, ZenonT(60) DEF Brackets
  <2>2. CASE p.found = 0
    BY <1>2, <2>2, Zenon DEF Brackets
  <2> QED BY <2>1, <2>2, Zenon
<1>4. new \subseteq Ids
  BY <1>1, Zenon
<1>5. LineRefs(p) \subseteq new \cup old
  <2>1. p.hea \in {"indexed_new", "lit_name_new"} => p.ref_new
    BY Zenon DEF ProgramOk
  <2>2. p.hea \in {"indexed_dyn", "lit_name_dyn"} => p.found # 0
    BY Zenon DEF ProgramOk
  <2> QED BY <2>1, <2>2, Zenon DEF LineRefs
<1> HIDE DEF new, old
<1>6. ASSUME NEW x \in new \cup old PROVE x \in snd.min_id .. snd.max_id
  <2>1. CASE x \in new
    <3>1. x \in Ids /\ x \in fst.min_id .. fst.max_id
      BY <1>2, <1>4, <2>1, Zenon DEF Brackets
    <3> QED BY <1>3, <3>1, Zenon DEF Brackets
  <2>2. CASE x \in old
    BY <1>3, <2>2, Zenon DEF Brackets
  <2> QED BY <2>1, <2>2, Zenon
<1>7. ASSUME NEW x \in Ids, x \in hi.min_id .. hi.max_id
      PROVE  x \in snd.min_id .. snd.max_id
  BY <1>2, <1>3, <1>7, Zenon DEF Brackets
<1>8. /\ snd \in Hinfo /\ snd.min_id <= snd.max_id
      /\ snd.min_id = 0 => snd.max_id = 0
  BY <1>3, Zenon DEF Brackets
<1>9. LineRefs(p) \subseteq snd.min_id .. snd.max_id
  BY <1>5, <1>6, Zenon
<1> QED BY <1>7, <1>8, <1>9, Zenon DEF Brackets

\* What lsqpack_enc_encode inserts is one of the sizes an entry can have.
LEMMA InsertedSizes ==
    ASSUME NEW f \in Fields, NEW p, ProgramOk(p, f)
    PROVE  /\ InsertedSize(p, f) \in {0} \cup EntrySizes
           /\ InsertedSize(p, f) = 0 <=> p.tab = "noop"
<1>1. /\ f.nsize \in Nat /\ f.vsize \in Nat /\ f.nsize # 0
      /\ f.nsize \in EntrySizes /\ f.nsize + f.vsize \in EntrySizes
  BY FieldsAssumption DEF Field
<1>2. f.nsize + f.vsize # 0
  BY <1>1
<1>3. CASE p.tab = "noop"
  BY <1>3, Zenon DEF InsertedSize
<1>4. CASE p.tab = "new"
  BY <1>1, <1>2, <1>4, Zenon DEF InsertedSize
<1>5. CASE p.tab = "new_name"
  BY <1>1, <1>5, Zenon DEF InsertedSize
<1> QED BY <1>3, <1>4, <1>5, Zenon DEF ProgramOk

\* lsqpack_enc_encode up to its loop over qenc_dup_draining.
LEMMA EncodeEInv ==
    ASSUME Facts, HInv, EInv, NEW f \in Fields, NEW fl \in Flags, EEncode(f, fl)
    PROVE  EInv' /\ EvictStep /\ GrowStep
<1> DEFINE h == cur_header.hinfo
<1>1. PICK p \in Programs(f, fl) :
        /\ Encode(InsertedSize(p, f), p.ref_new, p.found)
        /\ table' = RemoveOverflow(Inserted(p, f), cur_max_capacity)
        /\ refs' = IF LineRefs(p) = {} THEN refs
                   ELSE [refs EXCEPT ![h] = @ \cup LineRefs(p)]
        /\ flag' = fl
        /\ loop_start' = ins_count'
        /\ MayCacheMinReffed
  BY Zenon DEF EEncode
<1>2. ProgramOk(p, f) /\ IsExecuted(table', p, f)
  BY <1>1, ProgramExecuted, Zenon
<1> DEFINE n == IF p.tab = "noop" THEN ins_count ELSE ins_count + 1
           noted == p.ref_new \/ p.found # 0
           fst == IF p.ref_new THEN NoteId(hinfos[h], ins_count + 1) ELSE hinfos[h]
           snd == IF p.found # 0 THEN NoteId(fst, p.found) ELSE fst
<1>3. /\ UNCHANGED <<max_acked_id, cur_max_capacity, all_hinfos>>
      /\ ins_count' = n
      /\ cur_header'.hinfo = h
      /\ hinfos' = IF noted THEN [hinfos EXCEPT ![h] = snd] ELSE hinfos
      /\ call'.loop = "dup_draining"
      /\ min_reffed' \in {NotCached, MinOfAll, min_reffed}
  <2>1. InsertedSize(p, f) = 0 <=> p.tab = "noop"
    BY <1>2, InsertedSizes, Zenon
  <2>2. cur_header \in [open : BOOLEAN, hinfo : {NULL} \cup Slots,
                       other_at_risk : {NULL} \cup Slots, base_idx : Nat,
                       bytes : Nat]
    BY Zenon DEF HInv, HTypeOK
  <2>3. /\ UNCHANGED <<max_acked_id, cur_max_capacity, all_hinfos>>
        /\ ins_count' = IF InsertedSize(p, f) = 0 THEN ins_count ELSE ins_count + 1
        /\ cur_header' = [cur_header EXCEPT !.bytes = @ + InsertedSize(p, f)]
        /\ hinfos' = IF noted THEN [hinfos EXCEPT ![h] = snd] ELSE hinfos
        /\ call' = [loop |-> "dup_draining", hinfo |-> NULL]
    BY <1>1, Zenon DEF Encode
  <2>4. min_reffed' \in {NotCached, MinOfAll, min_reffed}
    BY <1>1, Zenon DEF MayCacheMinReffed
  <2>5. cur_header'.hinfo = h
    BY <2>2, <2>3, Zenon
  <2> QED BY <2>1, <2>3, <2>4, <2>5, Zenon
<1>4. /\ hinfos \in [Slots -> Hinfo] /\ all_hinfos \subseteq Slots
      /\ ins_count \in Nat /\ max_acked_id \in Nat /\ max_acked_id <= ins_count
      /\ cur_max_capacity \in Nat
      /\ refs \in [Slots -> SUBSET Ids] /\ RefsInv
      /\ noted => h \in all_hinfos
  <2>1. noted => UseDynTable
    BY <1>2, Zenon DEF ProgramOk
  <2>2. noted => h \in all_hinfos
    BY <2>1, Zenon DEF UseDynTable, HInv, CurHeaderInv
  <2> QED BY <2>2, AllHinfosAreSlots, LimitsAssumption, SMTT(30)
          DEF HInv, HTypeOK, EInv, ETypeOK, IdsInv, AcksBounded
<1>5. LineRefs(p) # {} => noted
  <2>1. p.hea \in {"indexed_new", "lit_name_new"} => p.ref_new
    BY <1>2, Zenon DEF ProgramOk
  <2>2. p.hea \in {"indexed_dyn", "lit_name_dyn"} => p.found # 0
    BY <1>2, Zenon DEF ProgramOk
  <2> QED BY <2>1, <2>2, Zenon DEF LineRefs
<1>6. /\ IsTable(table', n) /\ Packed(table', n) /\ table'.used <= cur_max_capacity
      /\ p.tab # "noop" => ins_count + 1 \in Live'
      /\ LineRefs(p) \subseteq Live'
      /\ \A k \in Live \ Live' : Evictable(k)
      /\ \A k \in Live', g \in Fields : SizeFits(Entries(k)', g)
  BY <1>2, Zenon DEF IsExecuted, Live, Entries
<1>7. /\ \A k \in Slots \ {h} : hinfos'[k] = hinfos[k]
      /\ h \in Slots => Brackets(hinfos'[h], hinfos[h], LineRefs(p))
  <2>1. \A k \in Slots : /\ hinfos[k] \in Hinfo
                         /\ hinfos[k].min_id <= hinfos[k].max_id
                         /\ hinfos[k].min_id = 0 => hinfos[k].max_id = 0
    BY <1>4, Zenon DEF RefsInv
  <2>2. CASE noted
    <3>1. Brackets(snd, hinfos[h], LineRefs(p))
      BY <1>2, <1>4, <2>1, <2>2, NotedBrackets, Zenon
    <3> HIDE DEF snd
    <3> QED BY <1>3, <1>4, <2>2, <3>1, Zenon
  <2>3. CASE ~noted
    <3>1. hinfos' = hinfos /\ LineRefs(p) = {}
      BY <1>3, <1>5, <2>3, Zenon
    <3> QED BY <2>1, <3>1, Zenon DEF Brackets
  <2> QED BY <2>2, <2>3, Zenon
<1> HIDE DEF h, snd, fst, noted
<1>8. /\ LineRefs(p) \subseteq Ids
      /\ LineRefs(p) # {} => h \in all_hinfos
  <2>1. n <= MaxAbsId /\ n \in Nat
    <3>1. p.tab # "noop" => ins_count < MaxAbsId
      BY <1>2, Zenon DEF ProgramOk
    <3>2. ins_count <= MaxAbsId
      BY DEF HInv, HTypeOK
    <3> QED BY <1>4, <3>1, <3>2, LimitsAssumption
  <2> HIDE DEF n
  <2>2. Live' \subseteq 1 .. n
    BY <1>6, <2>1, TableParts, Zenon DEF Live
  <2>3. 1 .. n \subseteq Ids
    BY <2>1, LimitsAssumption DEF Ids
  <2> QED BY <1>4, <1>5, <1>6, <2>2, <2>3, Zenon
<1>9. /\ refs' \in [Slots -> SUBSET Ids]
      /\ \A k \in Slots \ {h} : refs'[k] = refs[k]
      /\ h \in Slots => refs'[h] \subseteq refs[h] \cup LineRefs(p)
  <2>1. CASE LineRefs(p) = {}
    BY <1>1, <1>4, <2>1, Zenon
  <2>2. CASE LineRefs(p) # {}
    <3>1. refs' = [refs EXCEPT ![h] = @ \cup LineRefs(p)] /\ h \in Slots
      BY <1>1, <1>4, <1>8, <2>2, Zenon DEF h
    <3> QED BY <1>4, <1>8, <3>1, Zenon
  <2> QED BY <2>1, <2>2, Zenon
<1>10. RefsInv'
  <2>1. ASSUME NEW k \in Slots
        PROVE  /\ hinfos'[k].min_id <= hinfos'[k].max_id
               /\ hinfos'[k].min_id = 0 => hinfos'[k].max_id = 0
    <3>1. CASE k = h
      BY <1>7, <3>1, Zenon DEF Brackets
    <3>2. CASE k # h
      BY <1>4, <1>7, <3>2, Zenon DEF RefsInv
    <3> QED BY <3>1, <3>2, Zenon
  <2>2. ASSUME NEW k \in all_hinfos
        PROVE  refs'[k] \subseteq hinfos'[k].min_id .. hinfos'[k].max_id
    <3>1. k \in Slots /\ refs[k] \subseteq hinfos[k].min_id .. hinfos[k].max_id
          /\ refs[k] \subseteq Ids
      BY <1>4, Zenon DEF RefsInv, RefsBracketed
    <3>2. CASE k = h
      <4>1. Brackets(hinfos'[k], hinfos[k], LineRefs(p))
            /\ refs'[k] \subseteq refs[k] \cup LineRefs(p)
        BY <1>7, <1>9, <3>1, <3>2, Zenon
      <4>2. ASSUME NEW x \in refs[k] PROVE x \in hinfos'[k].min_id .. hinfos'[k].max_id
        BY <3>1, <4>1, Zenon DEF Brackets
      <4>3. LineRefs(p) \subseteq hinfos'[k].min_id .. hinfos'[k].max_id
        BY <4>1, Zenon DEF Brackets
      <4> QED BY <4>1, <4>2, <4>3, Zenon
    <3>3. CASE k # h
      BY <1>7, <1>9, <3>1, <3>3, Zenon
    <3> QED BY <3>2, <3>3, Zenon
  <2>3. RefsBracketed'
    BY <1>3, <2>2, Zenon DEF RefsBracketed
  <2>4. ASSUME NEW k \in Slots \ all_hinfos PROVE refs'[k] = {}
    <3>1. refs[k] = {}
      BY <1>4, Zenon DEF RefsInv
    <3>2. CASE LineRefs(p) = {}
      BY <1>1, <3>1, <3>2, Zenon
    <3>3. CASE LineRefs(p) # {}
      BY <1>8, <1>9, <3>1, <3>3, Zenon
    <3> QED BY <3>2, <3>3, Zenon
  <2> QED BY <1>3, <2>1, <2>3, <2>4, Zenon DEF RefsInv
<1>11. CachedInv' /\ min_reffed' \in {NotCached} \cup 0 .. MaxAbsId
  <2>1. \A k \in all_hinfos' \ {cur_header.hinfo} : hinfos'[k].min_id = hinfos[k].min_id
    BY <1>3, <1>4, <1>7, Zenon DEF h
  <2> QED BY <1>3, <2>1, CachedFrame, Zenon DEF h
<1>12. SizesInv'
  BY <1>6, Zenon DEF SizesInv, SizeFits
<1>13. OffsetsInv'
  BY <1>3, <1>6, Zenon DEF OffsetsInv
<1>14. ETypeOK'
  <2>1. n \in 0 .. n
    BY <1>4
  <2>2. loop_start' \in 0 .. ins_count'
    BY <1>1, <1>3, <2>1, Zenon
  <2>3. IsTable(table, ins_count)'
    BY <1>3, <1>6, Zenon
  <2>4. flag' \in Flags
    BY <1>1, Zenon
  <2> QED BY <1>9, <1>11, <2>2, <2>3, <2>4, Zenon DEF ETypeOK
<1>15. LoopInv'
  <2>1. max_acked_id <= n /\ n + 1 .. n = {}
    BY <1>4
  <2>2. loop_start' = n
    BY <1>1, <1>3, Zenon
  <2> QED BY <1>3, <2>1, <2>2, Zenon DEF LoopInv, CopiesStay
<1>16. EvictStep
  <2>1. ASSUME NEW k \in Live \ Live', NEW b \in all_hinfos
        PROVE  k <= max_acked_id /\ k \notin refs'[b]
    <3>1. k <= max_acked_id /\ k \notin refs[b]
      BY <1>6, EvictableSafe, Zenon
    <3>2. refs'[b] \subseteq refs[b] \cup LineRefs(p)
      BY <1>4, <1>9, Zenon
    <3> QED BY <1>6, <3>1, <3>2, Zenon
  <2>2. ASSUME NEW k \in Live \ Live' PROVE k <= max_acked_id
    BY <1>6, EvictableSafe, Zenon
  <2>3. ASSUME NEW b \in Slots PROVE refs'[b] \ refs[b] \subseteq Live'
    BY <1>6, <1>9, Zenon
  <2> QED BY <2>1, <2>2, <2>3, Zenon DEF EvictStep
<1>17. GrowStep
  <2>1. ins_count + 1 .. ins_count = {} /\ ins_count + 1 .. ins_count + 1 = {ins_count + 1}
    BY <1>4
  <2>2. max_acked_id <= max_acked_id'
    BY <1>3, <1>4
  <2>3. CASE p.tab = "noop"
    BY <1>3, <2>1, <2>2, <2>3, Zenon DEF GrowStep
  <2>4. CASE p.tab # "noop"
    BY <1>3, <1>6, <2>1, <2>2, <2>4, Zenon DEF GrowStep
  <2> QED BY <2>3, <2>4, Zenon
<1> QED BY <1>10, <1>11, <1>12, <1>13, <1>14, <1>15, <1>16, <1>17, Zenon DEF EInv

-----------------------------------------------------------------------------
(***************************************************************************)
(* The theorems.                                                           *)
(***************************************************************************)

\* A step of the encoder is one that HeaderInfos allows: the programs that the
\* table makes possible insert and note what Encode lets them.
LEMMA StepIsHStep ==
    ASSUME Facts, HInv, EInv, [ENext]_evars
    PROVE  [HNext]_hvars
<1>1. CASE \E s \in Streams : \E h \in {NULL} \cup Slots : EStartHeader(s, h)
  BY <1>1, Zenon DEF EStartHeader, HNext
<1>2. ASSUME NEW f \in Fields, NEW fl \in Flags, EEncode(f, fl)
      PROVE  HNext
  <2>1. PICK p \in Programs(f, fl) : Encode(InsertedSize(p, f), p.ref_new, p.found)
    BY <1>2, Zenon DEF EEncode
  <2>2. ProgramOk(p, f)
    BY ProgramExecuted, Zenon
  <2>3. InsertedSize(p, f) \in {0} \cup EntrySizes /\ p.ref_new \in BOOLEAN
    BY <2>2, InsertedSizes, Zenon DEF ProgramOk
  <2>4. p.found \in 0 .. ins_count
    <3>1. ins_count \in Nat /\ Live \subseteq 1 .. ins_count
      BY TableFacts, Zenon
    <3>2. p.found # 0 => p.found \in Live
      BY <2>2, Zenon DEF ProgramOk
    <3>3. 0 \in 0 .. ins_count /\ 1 .. ins_count \subseteq 0 .. ins_count
      BY <3>1
    <3> QED BY <3>1, <3>2, <3>3, Zenon
  <2>5. \E size \in {0} \cup EntrySizes, ref_new \in BOOLEAN,
           found \in 0 .. ins_count : Encode(size, ref_new, found)
    BY <2>1, <2>3, <2>4, Zenon
  <2> QED BY <2>5, Zenon DEF HNext
<1>3. CASE EncodeNoBuf \/ UNCHANGED evars
  BY <1>3, Zenon DEF EncodeNoBuf, evars
<1>4. CASE EDupDraining \/ EEncodeReturn
  BY <1>4, Zenon DEF EDupDraining, EEncodeReturn, HNext
<1>5. CASE EEndHeader
  BY <1>5, Zenon DEF EEndHeader, HNext
<1>6. CASE \E c \in Capacities : ESetMaxCapacity(c)
  BY <1>6, Zenon DEF ESetMaxCapacity, HNext
<1>7. CASE EDecoderIn
  BY <1>7, Zenon DEF EDecoderIn, HNext
<1> QED BY <1>1, <1>2, <1>3, <1>4, <1>5, <1>6, <1>7, Zenon DEF ENext

\* Every step keeps EInv, evicts only what may go and keeps what it inserts.
LEMMA StepKeepsEInv ==
    ASSUME Facts, HInv, EInv, [ENext]_evars
    PROVE  EInv' /\ EvictStep /\ GrowStep
<1>1. CASE \E s \in Streams : \E h \in {NULL} \cup Slots : EStartHeader(s, h)
  BY <1>1, StartHeaderEInv, Zenon
<1>2. CASE \E f \in Fields, fl \in Flags : EEncode(f, fl)
  BY <1>2, EncodeEInv, Zenon
<1>3. CASE EncodeNoBuf \/ EEncodeReturn \/ UNCHANGED evars
  BY <1>3, QuietEInv, Zenon
<1>4. CASE EDupDraining
  BY <1>4, DupDrainingEInv, Zenon
<1>5. CASE EEndHeader \/ EDecoderIn
  BY <1>5, ReleaseEInv, Zenon
<1>6. CASE \E c \in Capacities : ESetMaxCapacity(c)
  BY <1>6, SetMaxCapacityEInv, Zenon
<1> QED BY <1>1, <1>2, <1>3, <1>4, <1>5, <1>6, Zenon DEF ENext

-----------------------------------------------------------------------------
INSTANCE Arithmetic

\* Every behaviour of a disciplined application satisfies HInv.
THEOREM HInvariance == Disciplined => (HSpec => []HInv)
<1> SUFFICES ASSUME Disciplined PROVE HSpec => []HInv
  BY Zenon
<1>1. HInit => HInv
  BY FactsHold, InitHInv, Zenon
<1>2. HInv /\ [HNext]_hvars => HInv'
  BY FactsHold, HInvInductive, Zenon
<1> QED BY <1>1, <1>2, PTL DEF HSpec

\* Type correctness of the bookkeeping.
THEOREM HTypeCorrect == Disciplined => (HSpec => []HTypeOK)
<1>1. HInv => HTypeOK
  BY Zenon DEF HInv
<1> QED BY <1>1, HInvariance, PTL

\* No call of a disciplined application fails an assertion, corrupts a list or
\* walks a ring for ever (qenc_remove_from_risked_list, enc_free_hinfo).
THEOREM NoFaultEver == Disciplined => (HSpec => []NoFault)
<1>1. HInv => NoFault
  BY Zenon DEF HInv
<1> QED BY <1>1, HInvariance, PTL

\* The encoder never puts more streams at risk than the peer allows, whatever
\* the order of blocks, acknowledgements, increments and cancellations.
THEOREM RiskNeverExceeded == Disciplined => (HSpec => []RiskBounded)
<1>1. HInv => RiskBounded
  BY HInvImplies, ZenonT(60)
<1> QED BY <1>1, HInvariance, PTL

\* qpe_cur_streams_at_risk is exact.
THEOREM RiskCounterExact == Disciplined => (HSpec => []StreamsAtRiskCounted)
<1>1. HInv => StreamsAtRiskCounted
  BY HInvImplies, ZenonT(60)
<1> QED BY <1>1, HInvariance, PTL

\* Between calls the risked list is exact.
THEOREM RiskedListAlwaysExact == Disciplined => (HSpec => []RiskedListExact)
<1>1. HInv => RiskedListExact
  BY HInvImplies, ZenonT(60)
<1> QED BY <1>1, HInvariance, PTL

\* The rings are always well formed.
THEOREM RingsAlways == Disciplined => (HSpec => []RingPerStream)
<1>1. HInv => RingPerStream
  BY HInvRings, Zenon
<1> QED BY <1>1, HInvariance, PTL

\* The current block's header info is never released under it.
THEOREM InProgressAlwaysKept == Disciplined => (HSpec => []InProgressKept)
<1>1. HInv => InProgressKept
  BY HInvImplies, Zenon
<1> QED BY <1>1, HInvariance, PTL

-----------------------------------------------------------------------------

\* EInv is inductive together with HInv, when the application is disciplined.
THEOREM EInvInductive ==
    Disciplined /\ HInv /\ EInv /\ [ENext]_evars => HInv' /\ EInv'
<1> SUFFICES ASSUME Disciplined, HInv, EInv, [ENext]_evars PROVE HInv' /\ EInv'
  BY Zenon
<1>1. [HNext]_hvars
  BY FactsHold, StepIsHStep, ZenonT(60)
<1> QED BY FactsHold, <1>1, StepKeepsEInv, HInvInductive, ZenonT(60)

\* Every behaviour of the encoder satisfies EInv: with acknowledgements and
\* increments arriving in the middle of a header block, too.
THEOREM EInvariance == Disciplined => (ESpec => [](HInv /\ EInv))
<1> SUFFICES ASSUME Disciplined PROVE ESpec => [](HInv /\ EInv)
  BY Zenon
<1>1. EInit => HInv /\ EInv
  BY FactsHold, InitHInv, InitEInv, ZenonT(60) DEF EInit
<1>2. (HInv /\ EInv) /\ [ENext]_evars => (HInv /\ EInv)'
  BY EInvInductive, Zenon
<1> QED BY <1>1, <1>2, PTL DEF ESpec

\* Encoder implements HeaderInfos: the bookkeeping of blocks does with the dynamic
\* table what it may do without one, so that every theorem about HSpec is one
\* about the whole encoder.
THEOREM EncoderImplementsHeaderInfos == Disciplined => (ESpec => HSpec)
<1> SUFFICES ASSUME Disciplined PROVE ESpec => HSpec
  BY Zenon
<1>1. EInit => HInit
  BY Zenon DEF EInit
<1>2. HInv /\ EInv /\ [ENext]_evars => [HNext]_hvars
  BY FactsHold, StepIsHStep, ZenonT(60)
<1> QED BY <1>1, <1>2, EInvariance, PTL DEF ESpec, HSpec

\* Type correctness: the IDs in the table have no gaps.
THEOREM ETypeCorrect == Disciplined => (ESpec => []ETypeOK)
<1>1. EInv => ETypeOK
  BY Zenon DEF EInv
<1> QED BY <1>1, EInvariance, PTL

\* The offsets that qenc_duplicable_entry and qenc_entry_is_draining compute stay
\* exact, whatever the width at which qpe_dropped wraps around, and the table
\* fits its capacity.
THEOREM TableAlwaysExact == Disciplined => (ESpec => []TableExact)
<1>1. EInv => TableExact
  <2> SUFFICES ASSUME EInv PROVE TableExact
    BY Zenon
  <2>1. table.used <= cur_max_capacity /\ Packed(table, ins_count)
    BY Zenon DEF EInv, OffsetsInv
  <2> QED BY <2>1, Zenon DEF TableExact, Packed, Live, Entries
<1> QED BY <1>1, EInvariance, PTL

\* qhi_min_id and qhi_max_id bracket what the lines of a block reference.
THEOREM RefsAlwaysBracketed == Disciplined => (ESpec => []RefsBracketed)
<1>1. EInv => RefsBracketed
  BY Zenon DEF EInv, RefsInv
<1> QED BY <1>1, EInvariance, PTL

\* The copies that one lsqpack_enc_encode makes stay in the table until it returns.
THEOREM CopiesAlwaysStay == Disciplined => (ESpec => []CopiesStay)
<1>1. EInv => CopiesStay
  BY Zenon DEF EInv, LoopInv
<1> QED BY <1>1, EInvariance, PTL

\* Every program that qenc_find_and_select_program or its fallbacks can return
\* refers to a live entry that it may refer to, and has room for what it inserts;
\* without a header info it does neither.
THEOREM ProgramsAlwaysSafe == Disciplined => (ESpec => []ProgramsSafe)
<1>1. HInv /\ EInv => ProgramsSafe
  <2> SUFFICES ASSUME HInv, EInv, NEW f \in Fields, NEW fl \in Flags,
                      NEW p \in Programs(f, fl)
               PROVE  /\ p.found # 0 => p.found \in Live /\ CanRef(p.found)
                      /\ p.ref_new => CanRisk
                      /\ cur_header.hinfo = NULL => LineRefs(p) = {} /\ p.tab = "noop"
                      /\ p.tab # "noop" =>
                           LET t == RemoveOverflow(Inserted(p, f), cur_max_capacity)
                           IN  /\ ins_count + 1 \in DOMAIN t.entries
                               /\ LineRefs(p) \subseteq DOMAIN t.entries
                               /\ \A k \in Live \ DOMAIN t.entries : k <= max_acked_id
    BY Zenon DEF ProgramsSafe
  <2> DEFINE t == RemoveOverflow(Inserted(p, f), cur_max_capacity)
  <2>1. ProgramOk(p, f) /\ IsExecuted(t, p, f)
    BY FactsHold, ProgramExecuted, Zenon
  <2>2. /\ p.found # 0 => p.found \in Live /\ CanRef(p.found)
        /\ p.ref_new => CanRisk
    BY <2>1, Zenon DEF ProgramOk
  <2>4. ASSUME cur_header.hinfo = NULL PROVE LineRefs(p) = {} /\ p.tab = "noop"
    <3>1. p.found = 0 /\ p.tab = "noop" /\ ~p.ref_new
      BY <2>1, <2>4, Zenon DEF ProgramOk, UseDynTable
    <3>2. ~ p.hea \in {"indexed_new", "lit_name_new", "indexed_dyn", "lit_name_dyn"}
      BY <2>1, <3>1, ZenonT(60) DEF ProgramOk
    <3> QED BY <3>1, <3>2, Zenon DEF LineRefs
  <2> HIDE DEF t
  <2>3. /\ p.tab # "noop" => ins_count + 1 \in DOMAIN t.entries
        /\ LineRefs(p) \subseteq DOMAIN t.entries
        /\ \A k \in Live \ DOMAIN t.entries : k <= max_acked_id
    BY FactsHold, <2>1, EvictableSafe, Zenon DEF IsExecuted
  <2> QED BY <2>2, <2>3, <2>4, Zenon DEF t
<1> QED BY <1>1, EInvariance, PTL

\* Whatever the capacity was and will be, a step that does not reduce it evicts
\* only entries that are acknowledged and that no block refers to, and a line
\* refers to an entry that stays.
THEOREM EvictionAlwaysSafe == Disciplined => (ESpec => EvictionSafe)
<1>1. HInv /\ EInv /\ [ENext]_evars =>
        [cur_max_capacity' >= cur_max_capacity =>
           /\ \A k \in Live \ Live' : /\ k <= max_acked_id
                                     /\ \A h \in all_hinfos : k \notin refs'[h]
           /\ \A h \in Slots : refs'[h] \ refs[h] \subseteq Live']_evars
  BY FactsHold, StepKeepsEInv, Zenon DEF EvictStep
<1> QED BY <1>1, EInvariance, PTL DEF ESpec, EvictionSafe

\* The capacity is not reduced.
Growing == [][cur_max_capacity' >= cur_max_capacity]_evars

\* While the capacity is not reduced, no entry leaves the table that a block not
\* yet acknowledged references, the block being encoded included.
THEOREM RefsAlwaysLive == Disciplined => (ESpec /\ Growing => []RefsLive)
<1> SUFFICES ASSUME Disciplined PROVE ESpec /\ Growing => []RefsLive
  BY Zenon
<1>1. EInit => RefsLive
  BY Zenon DEF EInit, HInit, RefsLive
<1>2. ASSUME HInv, EInv, RefsLive, [ENext]_evars,
             [cur_max_capacity' >= cur_max_capacity]_evars
      PROVE  RefsLive'
  <2>1. CASE UNCHANGED evars
    BY <1>2, <2>1, Zenon DEF evars, hvars, RefsLive, Live
  <2>2. CASE cur_max_capacity' >= cur_max_capacity
    <3> SUFFICES ASSUME NEW h \in all_hinfos', NEW x \in refs'[h] PROVE x \in Live'
      BY Zenon DEF RefsLive
    <3>1. HInv'
      BY FactsHold, <1>2, StepIsHStep, HInvInductive, Zenon
    <3>2. h \in Slots
      <4>1. HTypeOK'
        BY <3>1, Zenon DEF HInv
      <4>2. /\ ArrSlots \in Nat /\ MaxArrs \in Nat
            /\ arrs_count' \in Nat /\ arrs_count' <= MaxArrs
        BY <4>1, ArraysAssumption, SMTT(30) DEF HTypeOK
      <4>3. ArrSlots * arrs_count' <= ArrSlots * MaxArrs
        BY <4>2, MulMonotone, Zenon
      <4>4. h \in 1 .. ArrSlots * arrs_count'
        BY <4>1, Zenon DEF HTypeOK
      <4>5. ArrSlots * arrs_count' \in Nat /\ ArrSlots * MaxArrs \in Nat
        BY <4>2, NatProduct, Zenon
      <4> QED BY <4>3, <4>4, <4>5, SMTT(30) DEF Slots
    <3>3. /\ \A k \in Live \ Live' : \A b \in all_hinfos : k \notin refs'[b]
          /\ \A b \in Slots : refs'[b] \ refs[b] \subseteq Live'
      BY FactsHold, <1>2, <2>2, StepKeepsEInv, ZenonT(60) DEF EvictStep
    <3>4. CASE x \notin refs[h]
      BY <3>2, <3>3, <3>4, ZenonT(60)
    <3>5. CASE x \in refs[h]
      <4>1. h \in all_hinfos
        BY <1>2, <3>2, <3>5, ZenonT(60) DEF EInv, RefsInv
      <4>2. x \in Live
        BY <1>2, <3>5, <4>1, ZenonT(60) DEF RefsLive
      <4> QED BY <3>3, <4>1, <4>2, Zenon
    <3> QED BY <3>4, <3>5, Zenon
  <2> QED BY <1>2, <2>1, <2>2, Zenon
<1>3. HInv /\ EInv /\ RefsLive /\ [ENext]_evars
      /\ [cur_max_capacity' >= cur_max_capacity]_evars => RefsLive'
  BY <1>2, Zenon
<1> QED BY <1>1, <1>3, EInvariance, PTL DEF ESpec, Growing

\* While the capacity is not reduced, no entry leaves the table before the peer
\* has acknowledged it.
THEOREM UnackedAlwaysLive == Disciplined => (ESpec /\ Growing => []UnackedLive)
<1> SUFFICES ASSUME Disciplined PROVE ESpec /\ Growing => []UnackedLive
  BY Zenon
<1>1. EInit => UnackedLive
  <2> SUFFICES ASSUME EInit PROVE UnackedLive
    BY Zenon
  <2>1. ins_count = 0 /\ max_acked_id = 0
    BY Zenon DEF EInit, HInit
  <2>2. 0 + 1 .. 0 = {}
    BY SMTT(30)
  <2> QED BY <2>1, <2>2, Zenon DEF UnackedLive
<1>2. ASSUME HInv, EInv, UnackedLive, [ENext]_evars,
             [cur_max_capacity' >= cur_max_capacity]_evars
      PROVE  UnackedLive'
  <2>1. CASE UNCHANGED evars
    BY <1>2, <2>1, Zenon DEF evars, hvars, UnackedLive, Live
  <2>2. CASE cur_max_capacity' >= cur_max_capacity
    <3>1. /\ ins_count \in Nat /\ max_acked_id \in Nat
          /\ ins_count' \in Nat /\ max_acked_id' \in Nat
      <4>1. HInv'
        BY FactsHold, <1>2, StepIsHStep, HInvInductive, Zenon
      <4> QED BY <1>2, <4>1, LimitsAssumption, SMTT(30) DEF HInv, HTypeOK
    <3>2. /\ \A k \in Live \ Live' : k <= max_acked_id
          /\ max_acked_id <= max_acked_id'
          /\ ins_count + 1 .. ins_count' \subseteq Live'
      BY FactsHold, <1>2, <2>2, StepKeepsEInv, Zenon DEF EvictStep, GrowStep
    <3>3. ASSUME NEW k \in max_acked_id' + 1 .. ins_count' PROVE k \in Live'
      <4>1. \/ k \in max_acked_id + 1 .. ins_count /\ ~(k <= max_acked_id)
            \/ k \in ins_count + 1 .. ins_count'
        BY <3>1, <3>2, IntervalSplit, ZenonT(60)
      <4>2. max_acked_id + 1 .. ins_count \subseteq Live
        BY <1>2, Zenon DEF UnackedLive
      <4> QED BY <3>2, <4>1, <4>2, Zenon
    <3> QED BY <3>3, ZenonT(60) DEF UnackedLive
  <2> QED BY <1>2, <2>1, <2>2, Zenon
<1>3. HInv /\ EInv /\ UnackedLive /\ [ENext]_evars
      /\ [cur_max_capacity' >= cur_max_capacity]_evars => UnackedLive'
  BY <1>2, Zenon
<1> QED BY <1>1, <1>3, EInvariance, PTL DEF ESpec, Growing
=============================================================================
