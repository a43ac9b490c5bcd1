----------------------------- MODULE HeaderInfos -----------------------------
(***************************************************************************)
(* The encoder's bookkeeping of header blocks (src/lsqpack.c): the header  *)
(* infos allocated for blocks that the peer has not acknowledged, the list *)
(* of blocks whose references are at risk, the circular lists that link    *)
(* the at-risk blocks of one stream, and the three decoder-stream          *)
(* instructions that release them.                                         *)
(*                                                                         *)
(* The dynamic table is seen here only through its insert count and its    *)
(* capacity; module Encoder adds the entries and narrows Encode and        *)
(* DupDraining down to what the table allows.                              *)
(*                                                                         *)
(* A definition marked "Faulty" is the one after it with a plausible       *)
(* mistake.  No behaviour uses it: it is there to show which property      *)
(* would notice.                                                           *)
(***************************************************************************)
EXTENDS Integers, FiniteSets

CONSTANTS
    Streams,            \* stream IDs that carry header blocks
    MaxRiskedStreams,   \* qpe_max_risked_streams
    MaxAbsId,           \* LSQPACK_MAX_ABS_ID: the code never inserts more
    RealMaxCapacity,    \* qpe_real_max_capacity
    Capacities,         \* values given to lsqpack_enc_set_max_capacity
    EntrySizes,         \* sizes an inserted entry can have
    ArrSlots,           \* header infos per array (64)
    ArrBytes,           \* sizeof(struct lsqpack_header_info_arr)
    MemGuard,           \* LSQPACK_ENC_OPT_NO_MEM_GUARD is not given
    MaxArrs,            \* arrays the memory guard allows at full capacity;
                        \*   without it, a bound on those malloc() gives
    MidHeader,          \* decoder instructions the application delivers
                        \*   while a header block is being encoded
    OneBlockPerStream   \* the application sends one header block a stream

ASSUME StreamsAssumption == Streams # {}

ASSUME LimitsAssumption ==
    /\ MaxRiskedStreams \in Nat
    /\ MaxAbsId \in Nat
    /\ RealMaxCapacity \in Nat
    /\ Capacities \subseteq 0 .. RealMaxCapacity
    /\ EntrySizes \subseteq Nat

ASSUME ArraysAssumption ==
    /\ ArrSlots \in Nat \ {0}
    /\ ArrBytes \in Nat \ {0}
    /\ MemGuard \in BOOLEAN
    /\ MaxArrs \in Nat
    /\ MemGuard => RealMaxCapacity <= MaxArrs * ArrBytes

ASSUME UsageAssumption ==
    /\ MidHeader \subseteq {"ack", "ici", "cancel"}
    /\ OneBlockPerStream \in BOOLEAN

VARIABLES
    ins_count,            \* qpe_ins_count
    max_acked_id,         \* qpe_max_acked_id
    last_ici,             \* qpe_last_ici
    cur_max_capacity,     \* qpe_cur_max_capacity
    hinfos,               \* contents of the header-info slots
    arrs_count,           \* qpe_hinfo_arrs_count
    all_hinfos,           \* qpe_all_hinfos (the slots whose bit is set)
    risked_hinfos,        \* qpe_risked_hinfos
    cur_streams_at_risk,  \* qpe_cur_streams_at_risk
    cur_header,           \* qpe_cur_header and LSQPACK_ENC_HEADER
    seen,                 \* streams that had a block: next one has seqno > 0
    call,                 \* loop a call is executing, or "none"
    fault                 \* an assertion failed, a list was corrupted or a
                          \*   loop will not end

hvars == <<ins_count, max_acked_id, last_ici, cur_max_capacity, hinfos,
           arrs_count, all_hinfos, risked_hinfos, cur_streams_at_risk,
           cur_header, seen, call, fault>>

NULL == 0
Slots == 1 .. ArrSlots * MaxArrs
Ids == 1 .. MaxAbsId

\* `older' holds the slots that precede the slot on qpe_all_hinfos, which is
\* the order of that list.  qhi_bytes_inserted is read only for the current
\* block and is kept in cur_header.
Hinfo == [stream : Streams \cup {NULL}, min_id : Ids \cup {0},
          max_id : Ids \cup {0}, same : Slots, older : SUBSET Slots]

BlankHinfo(h, s) == [stream |-> s, min_id |-> 0, max_id |-> 0, same |-> h,
                     older |-> {}]

IdsSet(h) == hinfos[h].max_id # 0

NoHeader == [open |-> FALSE, hinfo |-> NULL, other_at_risk |-> NULL,
             base_idx |-> 0, bytes |-> 0]

NoCall == [loop |-> "none", hinfo |-> NULL]

HInit ==
    /\ ins_count = 0
    /\ max_acked_id = 0
    /\ last_ici = 0
    /\ cur_max_capacity \in Capacities
    /\ hinfos = [h \in Slots |-> BlankHinfo(h, NULL)]
    /\ arrs_count = 0
    /\ all_hinfos = {}
    /\ risked_hinfos = {}
    /\ cur_streams_at_risk = 0
    /\ cur_header = NoHeader
    /\ seen = {}
    /\ call = NoCall
    /\ fault = FALSE

-----------------------------------------------------------------------------
(***************************************************************************)
(* Header infos.                                                           *)
(***************************************************************************)

AtRisk(h) == hinfos[h].max_id > max_acked_id

\* The block of the set S that a walk of its list meets first.
First(S) == { h \in S : S \cap hinfos[h].older = {} }

\* enc_alloc_hinfo: the lowest free slot of the arrays there are, else one of
\* a new array unless the memory guard or malloc() says no.
FreeSlots == (1 .. ArrSlots * arrs_count) \ all_hinfos

AllocResults ==
    IF FreeSlots # {}
    THEN { h \in FreeSlots : \A k \in FreeSlots : h <= k }
    ELSE {NULL} \cup
         (IF IF MemGuard THEN arrs_count * ArrBytes >= cur_max_capacity
                         ELSE arrs_count = MaxArrs
          THEN {} ELSE {ArrSlots * arrs_count + 1})

\* Contents of the slots once `h' is free.  Nobody can read a free slot before
\* it is allocated again, which clears it, unless the current header or another
\* slot still points to it.
WithoutHinfo(hs, h) ==
    [k \in Slots |->
        IF k # h
        THEN [hs[k] EXCEPT !.older = @ \ {h}]
        ELSE IF \/ h \in {cur_header'.hinfo, cur_header'.other_at_risk}
                \/ \E p \in Slots \ {h} : hs[p].same = h
             THEN hs[h]
             ELSE BlankHinfo(h, NULL)]

\* enc_free_hinfo, applied to the slots' contents hs.  Freeing a slot twice
\* removes it from a list it is not on.
FreeHinfo(hs, h, ok) ==
    /\ hinfos' = WithoutHinfo(hs, h)
    /\ all_hinfos' = all_hinfos \ {h}
    /\ fault' = (fault \/ ~ok \/ h \notin all_hinfos)

\* The slots reachable from x along qhi_same_stream_id.
SameClosed(S) == \A x \in S : hinfos[x].same \in S
Orbit(x) == { y \in Slots : \A S \in SUBSET Slots :
                                (x \in S /\ SameClosed(S)) => y \in S }

\* Faulty: the predecessor still points to the block.
UnlinkedNot(h) == hinfos

\* qenc_remove_from_risked_list: what it leaves in the slots, in the counter,
\* and whether its assertions hold, the list holds `h' and its loop ends.
Unlinked(h) ==
    IF h \notin risked_hinfos \/ hinfos[h].same = h
    THEN hinfos
    ELSE LET orbit == Orbit(hinfos[h].same)
             prev == CHOOSE p \in orbit : hinfos[p].same = h
         IN  IF h \notin orbit THEN hinfos
             ELSE [hinfos EXCEPT ![prev].same = hinfos[h].same, ![h].same = h]

\* Faulty: each block counts as the last of its stream.
CountWithoutEach(h) ==
    IF h \in risked_hinfos THEN cur_streams_at_risk - 1 ELSE cur_streams_at_risk

CountWithoutRing(h) ==
    IF h \in risked_hinfos /\ cur_streams_at_risk > 0
    THEN cur_streams_at_risk - 1 ELSE cur_streams_at_risk

CountWithout(h) ==
    IF h \in risked_hinfos /\ hinfos[h].same = h /\ cur_streams_at_risk > 0
    THEN cur_streams_at_risk - 1 ELSE cur_streams_at_risk

UnlinkOk(h) ==
    IF risked_hinfos = {}
    THEN cur_streams_at_risk = 0
    ELSE /\ h \in risked_hinfos
         /\ IF hinfos[h].same = h THEN cur_streams_at_risk > 0
                                  ELSE h \in Orbit(hinfos[h].same)
-----------------------------------------------------------------------------
(***************************************************************************)
(* Encoding one header block.                                              *)
(***************************************************************************)

BlocksOf(s) == { h \in all_hinfos : hinfos[h].stream = s }
RiskedOf(s) == { h \in risked_hinfos : hinfos[h].stream = s }

\* lsqpack_enc_start_header
StartHeader(s, h) ==
    /\ call = NoCall
    /\ ~cur_header.open
    /\ s \in seen => ~OneBlockPerStream
    /\ h \in AllocResults
    /\ seen' = seen \cup {s}
    /\ \E other \in IF s \in seen /\ h # NULL /\ RiskedOf(s) # {}
                   THEN First(RiskedOf(s)) ELSE {NULL} :
         cur_header' = [open |-> TRUE, hinfo |-> h, other_at_risk |-> other,
                        base_idx |-> ins_count, bytes |-> 0]
    /\ IF h = NULL
       THEN UNCHANGED <<hinfos, all_hinfos, arrs_count>>
       ELSE /\ hinfos' = [hinfos EXCEPT ![h] =
                              [BlankHinfo(h, s) EXCEPT !.older = all_hinfos]]
            /\ all_hinfos' = all_hinfos \cup {h}
            /\ arrs_count' = IF FreeSlots = {} THEN arrs_count + 1
                                               ELSE arrs_count
    /\ UNCHANGED <<ins_count, max_acked_id, last_ici, cur_max_capacity,
                   risked_hinfos, cur_streams_at_risk, call, fault>>

\* enc_use_dynamic_table
UseDynTable ==
    /\ cur_header.hinfo # NULL
    /\ cur_header.bytes < cur_max_capacity \div 2

\* Faulty: one stream too many.
CanRiskOneMore ==
    \/ cur_header.other_at_risk # NULL
    \/ cur_streams_at_risk <= MaxRiskedStreams
    \/ cur_header.hinfo # NULL /\ AtRisk(cur_header.hinfo)

\* qenc_can_risk
CanRisk ==
    \/ cur_header.other_at_risk # NULL
    \/ cur_streams_at_risk < MaxRiskedStreams
    \/ cur_header.hinfo # NULL /\ AtRisk(cur_header.hinfo)

\* Faulty: the minimum is that of the first reference.
NoteIdFirst(hi, id) ==
    IF hi.max_id = 0 THEN [hi EXCEPT !.max_id = id, !.min_id = id]
    ELSE IF id > hi.max_id THEN [hi EXCEPT !.max_id = id]
    ELSE hi

\* qenc_maybe_update_hinfo_min_max
NoteId(hi, id) ==
    IF hi.max_id = 0 THEN [hi EXCEPT !.max_id = id, !.min_id = id]
    ELSE IF id > hi.max_id THEN [hi EXCEPT !.max_id = id]
    ELSE IF id < hi.min_id THEN [hi EXCEPT !.min_id = id]
    ELSE hi

\* lsqpack_enc_encode up to its loop over qenc_dup_draining.  The program it
\* executes pushes an entry of `size' bytes or none (size = 0), and notes the
\* IDs of the new entry (ref_new) and of the entry it found (found # 0).  The
\* assertion is that a new entry's ID exceeds the block's greatest.
Encode(size, ref_new, found) ==
    LET h == cur_header.hinfo
        fst == IF ref_new THEN NoteId(hinfos[h], ins_count + 1) ELSE hinfos[h]
        snd == IF found # 0 THEN NoteId(fst, found) ELSE fst
    IN  /\ call = NoCall
        /\ cur_header.open
        /\ size # 0 => UseDynTable /\ ins_count < MaxAbsId
        /\ found # 0 => UseDynTable /\ (CanRisk \/ found <= max_acked_id)
        /\ ref_new => size # 0 /\ CanRisk
        /\ ins_count' = IF size = 0 THEN ins_count ELSE ins_count + 1
        /\ cur_header' = [cur_header EXCEPT !.bytes = @ + size]
        /\ hinfos' = IF ref_new \/ found # 0 THEN [hinfos EXCEPT ![h] = snd]
                                             ELSE hinfos
        /\ fault' = (fault \/ (ref_new /\ ins_count < hinfos[h].max_id))
        /\ call' = [loop |-> "dup_draining", hinfo |-> NULL]
        /\ UNCHANGED <<max_acked_id, last_ici, cur_max_capacity, arrs_count,
                       all_hinfos, risked_hinfos, cur_streams_at_risk, seen>>

\* One round of that loop pushes a copy of an entry.
DupDraining ==
    /\ call.loop = "dup_draining"
    /\ ins_count < MaxAbsId
    /\ ins_count' = ins_count + 1
    /\ UNCHANGED <<max_acked_id, last_ici, cur_max_capacity, hinfos, arrs_count,
                   all_hinfos, risked_hinfos, cur_streams_at_risk, cur_header,
                   seen, call, fault>>

EncodeReturn ==
    /\ call.loop = "dup_draining"
    /\ call' = NoCall
    /\ UNCHANGED <<ins_count, max_acked_id, last_ici, cur_max_capacity, hinfos,
                   arrs_count, all_hinfos, risked_hinfos, cur_streams_at_risk,
                   cur_header, seen, fault>>
\* qenc_add_to_risked_list
AddToRisked(h) ==
    LET other == cur_header.other_at_risk
        count == IF other = NULL THEN cur_streams_at_risk + 1
                                 ELSE cur_streams_at_risk
    IN  /\ risked_hinfos' = risked_hinfos \cup {h}
        /\ cur_streams_at_risk' = count
        /\ hinfos' = IF other = NULL THEN hinfos
                     ELSE [hinfos EXCEPT ![h].same = hinfos[other].same,
                                         ![other].same = h]
        /\ fault' = (fault \/ h \in risked_hinfos
                           \/ (other = NULL /\ count > MaxRiskedStreams))

\* A block that references no entry leaves nothing behind.
DropCurHinfo ==
    /\ IF cur_header.hinfo = NULL
       THEN UNCHANGED <<hinfos, all_hinfos, fault>>
       ELSE FreeHinfo(hinfos, cur_header.hinfo, TRUE)
    /\ UNCHANGED <<risked_hinfos, cur_streams_at_risk>>

CurIdsSet == cur_header.hinfo # NULL /\ IdsSet(cur_header.hinfo)

\* lsqpack_enc_end_header
EndHeader ==
    LET h == cur_header.hinfo IN
    /\ call = NoCall
    /\ cur_header.open
    /\ cur_header' = NoHeader
    /\ \/ /\ CurIdsSet
          /\ IF AtRisk(h) THEN AddToRisked(h)
             ELSE UNCHANGED <<hinfos, risked_hinfos, cur_streams_at_risk, fault>>
          /\ UNCHANGED all_hinfos
       \/ ~CurIdsSet /\ DropCurHinfo
    /\ UNCHANGED <<ins_count, max_acked_id, last_ici, cur_max_capacity,
                   arrs_count, seen, call>>

\* lsqpack_enc_cancel_header
CancelHeader ==
    /\ call = NoCall
    /\ cur_header.open
    /\ ~CurIdsSet
    /\ cur_header' = NoHeader
    /\ DropCurHinfo
    /\ UNCHANGED <<ins_count, max_acked_id, last_ici, cur_max_capacity,
                   arrs_count, seen, call>>

\* lsqpack_enc_set_max_capacity
SetMaxCapacity(c) ==
    /\ call = NoCall
    /\ c # cur_max_capacity
    /\ cur_max_capacity' = c
    /\ UNCHANGED <<ins_count, max_acked_id, last_ici, hinfos, arrs_count,
                   all_hinfos, risked_hinfos, cur_streams_at_risk, cur_header,
                   seen, call, fault>>

-----------------------------------------------------------------------------
(***************************************************************************)
(* The decoder stream (lsqpack_enc_decoder_in).                            *)
(***************************************************************************)

Delivered(instruction) ==
    /\ call = NoCall
    /\ cur_header.open => instruction \in MidHeader

\* Faulty: the block stays on the list.
RemoveFromRiskedCount(h) ==
    /\ risked_hinfos' = risked_hinfos
    /\ cur_streams_at_risk' = CountWithout(h)

\* qenc_remove_from_risked_list
RemoveFromRisked(h) ==
    /\ risked_hinfos' = risked_hinfos \ {h}
    /\ cur_streams_at_risk' = CountWithout(h)

\* Faulty: the block being encoded is not passed over.
AckedBlockAny(s) == First(BlocksOf(s))

\* The block that a Header Acknowledgement for stream s is about.
AckedBlock(s) == First(BlocksOf(s) \ {cur_header.hinfo})

\* enc_proc_header_ack.  An instruction that finds no block is refused.
HeaderAck(s) ==
    /\ Delivered("ack")
    /\ UNCHANGED cur_header
    /\ \E h \in AckedBlock(s) :
         \/ /\ AtRisk(h)
            /\ RemoveFromRisked(h)
            /\ hinfos' = Unlinked(h)
            /\ fault' = (fault \/ ~UnlinkOk(h))
            /\ max_acked_id' = hinfos[h].max_id
            /\ call' = [loop |-> "ack", hinfo |-> h]
            /\ UNCHANGED all_hinfos
         \/ /\ ~AtRisk(h)
            /\ FreeHinfo(hinfos, h, TRUE)
            /\ UNCHANGED <<max_acked_id, risked_hinfos, cur_streams_at_risk,
                           call>>
    /\ UNCHANGED <<ins_count, last_ici, cur_max_capacity, arrs_count, seen>>

\* enc_proc_ici.  An increment that does not advance qpe_max_acked_id changes
\* nothing; zero and one that exceeds the outstanding inserts are refused.
Ici(n) ==
    /\ Delivered("ici")
    /\ n \in 1 .. ins_count - last_ici
    /\ last_ici + n > max_acked_id
    /\ last_ici' = last_ici + n
    /\ max_acked_id' = last_ici + n
    /\ call' = [loop |-> "ici", hinfo |-> NULL]
    /\ UNCHANGED <<ins_count, cur_max_capacity, hinfos, arrs_count, all_hinfos,
                   risked_hinfos, cur_streams_at_risk, cur_header, seen, fault>>

\* Faulty: a block whose greatest ID was just acknowledged stays; or all do.
NoLongerAtRiskLate == { h \in risked_hinfos : hinfos[h].max_id < max_acked_id }

NoLongerAtRiskNone == {}

\* qenc_update_risked_list, one removal at a time, in the order of the list.
NoLongerAtRisk == { h \in risked_hinfos : ~AtRisk(h) }

UpdateRisked ==
    /\ call.loop \in {"ack", "ici"}
    /\ \E h \in First(NoLongerAtRisk) :
         /\ RemoveFromRisked(h)
         /\ hinfos' = Unlinked(h)
         /\ fault' = (fault \/ ~UnlinkOk(h))
    /\ UNCHANGED <<ins_count, max_acked_id, last_ici, cur_max_capacity,
                   arrs_count, all_hinfos, cur_header, seen, call>>

\* The end of enc_proc_header_ack or enc_proc_ici.
UpdateDone ==
    /\ call.loop \in {"ack", "ici"}
    /\ NoLongerAtRisk = {}
    /\ UNCHANGED cur_header
    /\ IF call.loop = "ack" THEN FreeHinfo(hinfos, call.hinfo, TRUE)
                            ELSE UNCHANGED <<hinfos, all_hinfos, fault>>
    /\ call' = NoCall
    /\ UNCHANGED <<ins_count, max_acked_id, last_ici, cur_max_capacity,
                   arrs_count, risked_hinfos, cur_streams_at_risk, seen>>
\* enc_proc_stream_cancel: nothing to do unless the stream has blocks; then one
\* block at a time, in the order of the list.
StreamCancel(s) ==
    /\ Delivered("cancel")
    /\ \E h \in First(BlocksOf(s)) : call' = [loop |-> "cancel", hinfo |-> h]
    /\ UNCHANGED <<ins_count, max_acked_id, last_ici, cur_max_capacity, hinfos,
                   arrs_count, all_hinfos, risked_hinfos, cur_streams_at_risk,
                   cur_header, seen, fault>>

CancelNext ==
    LET h == call.hinfo
        rest == BlocksOf(hinfos[h].stream) \ {h}
    IN  /\ call.loop = "cancel"
        /\ UNCHANGED cur_header
        /\ \/ /\ AtRisk(h)
              /\ RemoveFromRisked(h)
              /\ FreeHinfo(Unlinked(h), h, UnlinkOk(h))
           \/ /\ ~AtRisk(h)
              /\ FreeHinfo(hinfos, h, TRUE)
              /\ UNCHANGED <<risked_hinfos, cur_streams_at_risk>>
        /\ IF rest = {} THEN call' = NoCall
           ELSE \E k \in First(rest) : call' = [loop |-> "cancel", hinfo |-> k]
        /\ UNCHANGED <<ins_count, max_acked_id, last_ici, cur_max_capacity,
                       arrs_count, seen>>

-----------------------------------------------------------------------------
HNext ==
    \/ \E s \in Streams : \E h \in {NULL} \cup Slots : StartHeader(s, h)
    \/ \E size \in {0} \cup EntrySizes, ref_new \in BOOLEAN,
          found \in 0 .. ins_count : Encode(size, ref_new, found)
    \/ DupDraining
    \/ EncodeReturn
    \/ EndHeader
    \/ CancelHeader
    \/ \E c \in Capacities : SetMaxCapacity(c)
    \/ \E s \in Streams : HeaderAck(s)
    \/ \E n \in Ids : Ici(n)
    \/ UpdateRisked
    \/ UpdateDone
    \/ \E s \in Streams : StreamCancel(s)
    \/ CancelNext

HSpec == HInit /\ [][HNext]_hvars

\* The peer acknowledges the blocks it gets, the application ends the blocks it
\* starts, and a call that is made returns.
HFairness ==
    /\ WF_hvars(EncodeReturn) /\ SF_hvars(EndHeader)
    /\ WF_hvars(UpdateRisked) /\ WF_hvars(UpdateDone) /\ WF_hvars(CancelNext)
    /\ \A s \in Streams : SF_hvars(HeaderAck(s))

HFairSpec == HSpec /\ HFairness

-----------------------------------------------------------------------------
(***************************************************************************)
(* Properties.                                                             *)
(***************************************************************************)

\* Every field keeps its range; qpe_hinfo_arrs_count never outgrows what the
\* memory guard of enc_alloc_hinfo allows.
HTypeOK ==
    /\ ins_count \in 0 .. MaxAbsId
    /\ max_acked_id \in 0 .. MaxAbsId
    /\ last_ici \in 0 .. MaxAbsId
    /\ cur_max_capacity \in 0 .. RealMaxCapacity
    /\ hinfos \in [Slots -> Hinfo]
    /\ arrs_count \in 0 .. MaxArrs
    /\ all_hinfos \subseteq 1 .. ArrSlots * arrs_count
    /\ risked_hinfos \subseteq Slots
    /\ cur_streams_at_risk \in Nat
    /\ cur_header \in [open : BOOLEAN, hinfo : {NULL} \cup Slots,
                       other_at_risk : {NULL} \cup Slots, base_idx : Nat,
                       bytes : Nat]
    /\ seen \subseteq Streams
    /\ call \in [loop : {"none", "dup_draining", "ack", "ici", "cancel"},
                 hinfo : {NULL} \cup Slots]
    /\ fault \in BOOLEAN

\* No call fails an assertion, frees a header info twice, removes one from a
\* list it is not on or walks qhi_same_stream_id for ever.
NoFault == ~fault

\* Between calls, qpe_risked_hinfos holds exactly the finished blocks that
\* reference an entry the peer has not acknowledged.
RiskedListExact ==
    call = NoCall =>
        risked_hinfos = { h \in all_hinfos \ {cur_header.hinfo} : AtRisk(h) }

StreamsAtRisk == { hinfos[h].stream : h \in risked_hinfos }

\* qpe_cur_streams_at_risk is the number of streams with a block on the risked
\* list, however many blocks each has.
StreamsAtRiskCounted == cur_streams_at_risk = Cardinality(StreamsAtRisk)

\* At most qpe_max_risked_streams streams have blocks at risk, which is what
\* the peer allows with SETTINGS_QPACK_BLOCKED_STREAMS.
RiskBounded == Cardinality(StreamsAtRisk) <= MaxRiskedStreams

\* qhi_same_stream_id links the risked blocks of a stream into one ring.
RingPerStream ==
    \A h \in risked_hinfos : Orbit(h) = RiskedOf(hinfos[h].stream)

\* The header info of the block being encoded stays allocated until the block
\* is ended or cancelled, whatever arrives on the decoder stream.
InProgressKept == cur_header.hinfo # NULL => cur_header.hinfo \in all_hinfos

\* What the peer acknowledged was inserted, and Insert Count Increments never
\* run ahead of what is acknowledged.
AcksBounded == last_ici <= max_acked_id /\ max_acked_id <= ins_count

\* A block on the risked list leaves it once the peer acknowledges its blocks.
RiskEnds == \A h \in Slots : h \in risked_hinfos ~> h \notin risked_hinfos
-----------------------------------------------------------------------------
(***************************************************************************)
(* The inductive invariant.  It needs an application that keeps decoder    *)
(* instructions out of open header blocks, or one that sends a single      *)
(* block a stream and keeps Stream Cancellations out of them: see the runs *)
(* that deliver more.                                                      *)
(***************************************************************************)

Disciplined ==
    MidHeader = {} \/ (OneBlockPerStream /\ "cancel" \notin MidHeader)

\* In the slots' contents hs, qhi_same_stream_id permutes the blocks of the set
\* R within their streams, and a set of blocks closed under it is a union of
\* whole streams: one ring a stream.
Rings(hs, R) ==
    /\ \A h \in R : hs[h].same \in R /\ hs[hs[h].same].stream = hs[h].stream
    /\ \A h, k \in R : hs[h].same = hs[k].same => h = k
    /\ \A C \in SUBSET R :
         (\A x \in C : hs[x].same \in C) =>
             \A x \in C, y \in R : hs[y].stream = hs[x].stream => y \in C

StreamsOf(hs, R) == { hs[h].stream : h \in R }

IdsInv ==
    /\ AcksBounded
    /\ \A h \in Slots : hinfos[h].max_id <= ins_count

RiskedInv ==
    /\ risked_hinfos \subseteq all_hinfos \ {cur_header.hinfo}
    /\ \A h \in all_hinfos \ {cur_header.hinfo} : AtRisk(h) => h \in risked_hinfos
    /\ call.loop \notin {"ack", "ici"} => \A h \in risked_hinfos : AtRisk(h)
    /\ \A h \in all_hinfos : hinfos[h].stream \in seen
    /\ Rings(hinfos, risked_hinfos)
    /\ StreamsAtRiskCounted
    /\ cur_streams_at_risk <= MaxRiskedStreams

CurHeaderInv ==
    /\ ~cur_header.open => cur_header = NoHeader
    /\ OneBlockPerStream => cur_header.other_at_risk = NULL
    /\ cur_header.other_at_risk # NULL =>
         /\ cur_header.hinfo # NULL
         /\ cur_header.other_at_risk \in RiskedOf(hinfos[cur_header.hinfo].stream)
    /\ cur_header.hinfo # NULL =>
         /\ cur_header.hinfo \in all_hinfos
         /\ hinfos[cur_header.hinfo].same = cur_header.hinfo
         /\ cur_header.other_at_risk = NULL =>
              /\ RiskedOf(hinfos[cur_header.hinfo].stream) = {}
              /\ AtRisk(cur_header.hinfo) => cur_streams_at_risk < MaxRiskedStreams

CallInv ==
    /\ call.loop = "none" => call = NoCall
    /\ call.loop \in {"ack", "ici"} => (cur_header.open => MidHeader # {})
    /\ call.loop = "ack" =>
         /\ call.hinfo \in all_hinfos \ (risked_hinfos \cup {cur_header.hinfo})
         /\ ~AtRisk(call.hinfo)
    /\ call.loop = "cancel" => ~cur_header.open /\ call.hinfo \in all_hinfos

HInv == HTypeOK /\ IdsInv /\ RiskedInv /\ CurHeaderInv /\ CallInv /\ NoFault
=============================================================================
