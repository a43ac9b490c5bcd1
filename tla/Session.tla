------------------------------- MODULE Session -------------------------------
(***************************************************************************)
(* A decoder and the encoder it talks to.  The encoder stream, the decoder *)
(* stream and the streams that carry header blocks are delivered in order, *)
(* each at its own pace.                                                   *)
(*                                                                         *)
(* The encoder is reduced to what module Encoder shows of it: it evicts    *)
(* only entries that are acknowledged and that no outstanding block refers *)
(* to, refers only to entries it holds, and keeps the streams at risk      *)
(* within the limit.  Its IDs are absolute, 1 for the first insert.        *)
(***************************************************************************)
EXTENDS Decoder

CONSTANTS
    MaxInserts,       \* inserts in a behaviour
    MaxOutstanding,   \* blocks a stream has outstanding
    MaxQueue,         \* instructions in flight on the encoder stream
    MaxReports,       \* and on the decoder stream
    MaxLines,         \* lines of a block
    Caps,             \* capacities the encoder sets
    Uses              \* operations used besides inserts and blocks

ASSUME SessionAssumption ==
    /\ {MaxInserts, MaxOutstanding, MaxQueue, MaxReports, MaxLines} \subseteq Nat \ {0}
    /\ Caps \subseteq 0 .. MaxEntries
    /\ Uses \subseteq {"nameref", "dup", "cancel", "unref"}

VARIABLES
    peer,         \* ins_count, max_acked_id, last_ici, capacity of the encoder
    contents,     \* names and values of its entries, by ID
    outstanding,  \* its header infos: blocks not acknowledged, by stream
    enc_stream,   \* instructions in flight to the decoder
    transit,      \* blocks sent and not wholly read, by stream
    closed,       \* streams given up, of which the encoder does not know
    received,     \* inserts the decoder has executed
    misread,      \* a line was given another content than the encoder meant
    refused       \* the encoder refused a decoder instruction

svars == <<dvars, peer, contents, outstanding, enc_stream, transit, closed,
           received, misread, refused>>

pvars == <<peer, contents, outstanding>>

SInit ==
    /\ DInit
    /\ peer = [ins |-> 0, acked |-> 0, last_ici |-> 0, cap |-> MaxEntries]
    /\ contents = << >>
    /\ outstanding = [b \in Hblocks |-> << >>]
    /\ enc_stream = << >>
    /\ transit = [b \in Hblocks |-> << >>]
    /\ closed = {}
    /\ received = 0
    /\ misread = FALSE
    /\ refused = FALSE

-----------------------------------------------------------------------------
(***************************************************************************)
(* The encoder.                                                            *)
(***************************************************************************)

Live == DOMAIN contents

\* What the encoder's table is like: insert count, oldest ID, capacity.  Each
\* instruction carries along what it was like before, and which entry it makes.
Oldest == peer.ins - Cardinality(Live) + 1
Now == [ins |-> peer.ins, low |-> Oldest, cap |-> peer.cap]

OutstandingBlocks ==
    UNION { { outstanding[b][i] : i \in DOMAIN outstanding[b] } : b \in Hblocks }

\* qenc_has_or_can_evict_at_least: the entries in the set S can all go.
CanEvict(S) ==
    \A k \in S : /\ k <= peer.acked
                 /\ \A o \in OutstandingBlocks : k < o.min_id

\* The entries that stay when n units are needed and the capacity is c.
Staying(n, c) == { k \in Live : peer.ins - k + 1 + n <= c }

Send(instruction) ==
    /\ Len(enc_stream) < MaxQueue
    /\ enc_stream' = Append(enc_stream, instruction)

\* lsqpack_enc_push_entry and qenc_remove_overflow_entries.  Names and values
\* that are new are named after the ID of their entry.
Insert(entry) ==
    /\ peer.ins < MaxInserts
    /\ peer.cap > 0
    /\ CanEvict(Live \ Staying(1, peer.cap))
    /\ peer' = [peer EXCEPT !.ins = @ + 1]
    /\ contents' = [k \in Staying(1, peer.cap) \cup {peer.ins + 1} |->
                        IF k = peer.ins + 1 THEN entry ELSE contents[k]]
    /\ UNCHANGED <<outstanding, dvars, transit, closed, received, misread,
                   refused>>

PeerInsert ==
    LET entry == [name |-> peer.ins + 1, val |-> peer.ins + 1] IN
    /\ Insert(entry)
    /\ Send([op |-> "insert", entry |-> entry, at |-> Now])

\* An instruction that refers to entry k gives its ID relative to the insert
\* count.
PeerInsertNameRef(k) ==
    LET entry == [contents[k] EXCEPT !.val = peer.ins + 1] IN
    /\ "nameref" \in Uses
    /\ Insert(entry)
    /\ Send([op |-> "nameref", idx |-> peer.ins - k, val |-> peer.ins + 1,
             entry |-> entry, at |-> Now])

PeerDuplicate(k) ==
    /\ "dup" \in Uses
    /\ Insert(contents[k])
    /\ Send([op |-> "dup", idx |-> peer.ins - k, entry |-> contents[k], at |-> Now])

\* lsqpack_enc_set_max_capacity, called when no entry that goes is in use.
PeerSetCapacity(c) ==
    /\ c # peer.cap
    /\ CanEvict(Live \ Staying(0, c))
    /\ peer' = [peer EXCEPT !.cap = c]
    /\ contents' = [k \in Staying(0, c) |-> contents[k]]
    /\ Send([op |-> "capacity", cap |-> c, at |-> Now])
    /\ UNCHANGED <<outstanding, dvars, transit, closed, received, misread,
                   refused>>

\* qenc_can_risk
StreamsAtRisk ==
    { b \in Hblocks : \E i \in DOMAIN outstanding[b] :
                          outstanding[b][i].max_id > peer.acked }
CanRisk(b) == b \in StreamsAtRisk \/ Cardinality(StreamsAtRisk) < MaxBlockedStreams

\* A line is the ID of the entry it refers to, or 0.
MaxOf(S) == CHOOSE x \in S : \A y \in S : y <= x
MinOf(S) == CHOOSE x \in S : \A y \in S : x <= y
RefsOf(ids) == { ids[i] : i \in DOMAIN ids } \ {0}

\* lsqpack_enc_end_header: the prefix, and the lines as lsqpack_enc_encode
\* wrote them when the base was `base'.
Wire(ids, base) ==
    LET refs == RefsOf(ids)
        max_id == IF refs = {} THEN 0 ELSE MaxOf(refs)
    IN  [ric   |-> IF refs = {} THEN 0 ELSE (max_id % (2 * MaxEntries)) + 1,
         sign  |-> refs # {} /\ base < max_id,
         delta |-> IF refs = {} THEN 0
                   ELSE IF base >= max_id THEN base - max_id
                   ELSE max_id - base - 1,
         lines |-> [i \in DOMAIN ids |->
                      IF ids[i] = 0 THEN [kind |-> "lit", idx |-> 0]
                      ELSE IF ids[i] > base
                      THEN [kind |-> "post", idx |-> ids[i] - base - 1]
                      ELSE [kind |-> "rel", idx |-> base - ids[i]]],
         needs |-> max_id,
         ids   |-> ids,
         means |-> [i \in DOMAIN ids |-> IF ids[i] = 0 THEN << >> ELSE contents[ids[i]]]]

\* A header block, from lsqpack_enc_start_header, when the insert count was
\* `base', to lsqpack_enc_end_header.  A stream the decoder has closed drops it.
PeerBlock(b, ids, base) ==
    LET refs == RefsOf(ids) IN
    /\ refs # {} => Len(outstanding[b]) < MaxOutstanding
    /\ Len(transit[b]) < MaxOutstanding
    /\ (\E k \in refs : k > peer.acked) => CanRisk(b)
    /\ outstanding' = IF refs = {} THEN outstanding
                      ELSE [outstanding EXCEPT ![b] =
                              Append(@, [min_id |-> MinOf(refs), max_id |-> MaxOf(refs)])]
    /\ transit' = IF b \in closed THEN transit
                  ELSE [transit EXCEPT ![b] = Append(@, Wire(ids, base))]
    /\ UNCHANGED <<dvars, peer, contents, enc_stream, closed, received, misread,
                   refused>>

\* lsqpack_enc_decoder_in takes one instruction from the decoder stream:
\* enc_proc_header_ack, enc_proc_ici or enc_proc_stream_cancel.
PeerHeaderAck(b) ==
    IF outstanding[b] = << >>
    THEN refused' = TRUE /\ UNCHANGED <<pvars, closed>>
    ELSE /\ peer' = [peer EXCEPT !.acked =
                        MaxOf({peer.acked, Head(outstanding[b]).max_id})]
         /\ outstanding' = [outstanding EXCEPT ![b] = Tail(@)]
         /\ UNCHANGED <<contents, closed, refused>>

PeerIci(n) ==
    IF n = 0 \/ peer.last_ici + n > peer.ins
    THEN refused' = TRUE /\ UNCHANGED <<pvars, closed>>
    ELSE /\ peer' = IF peer.last_ici + n > peer.acked
                    THEN [peer EXCEPT !.acked = peer.last_ici + n,
                                      !.last_ici = peer.last_ici + n]
                    ELSE peer
         /\ UNCHANGED <<contents, outstanding, closed, refused>>

\* From here on the name of the stream stands for a new one.
PeerStreamCancel(b) ==
    /\ outstanding' = [outstanding EXCEPT ![b] = << >>]
    /\ closed' = closed \ {b}
    /\ UNCHANGED <<peer, contents, refused>>

PeerDecoderIn ==
    /\ dec_stream # << >>
    /\ dec_stream' = Tail(dec_stream)
    /\ LET i == Head(dec_stream)
       IN  \/ i.op = "ack" /\ PeerHeaderAck(i.hblock)
           \/ i.op = "ici" /\ PeerIci(i.count)
           \/ i.op = "cancel" /\ PeerStreamCancel(i.hblock)
    /\ UNCHANGED <<last_id, largest_known_id, dyn_table, max_cap, hbrcs, n_blocked,
                   dec_error, enc_stream, transit, received, misread>>

-----------------------------------------------------------------------------
(***************************************************************************)
(* The decoder's application.                                              *)
(***************************************************************************)

RoomToReport == Len(dec_stream) < MaxReports

EncIn ==
    /\ enc_stream # << >>
    /\ enc_stream' = Tail(enc_stream)
    /\ LET i == Head(enc_stream)
       IN  /\ \/ i.op = "insert" /\ EncInsert(i.entry)
              \/ i.op = "nameref" /\ EncInsertNameRef(i.idx, i.val)
              \/ i.op = "dup" /\ EncDuplicate(i.idx)
              \/ i.op = "capacity" /\ EncSetCapacity(i.cap)
           /\ received' = IF i.op = "capacity" THEN received ELSE received + 1
    /\ UNCHANGED <<pvars, transit, closed, misread, refused>>

\* A call for the block at the head of stream b.  What its lines are given is
\* compared with what they mean.
ReadBlock(b, upto) ==
    LET wire == Head(transit[b])
        c == IF b \in DOMAIN hbrcs THEN hbrcs[b] ELSE NewContext
    IN  /\ RoomToReport
        /\ HeaderIn(b, wire, upto) \/ HeaderRead(b, wire, upto)
        /\ transit' = IF b \in DOMAIN hbrcs' THEN transit
                      ELSE [transit EXCEPT ![b] = Tail(@)]
        /\ misread' = (misread \/
             (/\ ~dec_error'
              /\ ~(b \in DOMAIN hbrcs' /\ hbrcs'[b].blocked)
              /\ \E i \in DynLines(c, wire, upto) :
                     EntryAbs(LineId(wire, i)) # wire.means[i]))
        /\ UNCHANGED <<pvars, enc_stream, closed, received, refused>>

AppWriteIci ==
    /\ RoomToReport
    /\ WriteIci
    /\ UNCHANGED <<pvars, enc_stream, transit, closed, received, misread, refused>>

AppCancel(b) ==
    /\ "cancel" \in Uses
    /\ RoomToReport
    /\ b \notin closed
    /\ CancelStream(b)
    /\ transit' = [transit EXCEPT ![b] = << >>]
    /\ closed' = closed \cup {b}
    /\ UNCHANGED <<pvars, enc_stream, received, misread, refused>>

\* The encoder is never told, and the stream carries nothing more.
AppUnref(b) ==
    /\ "unref" \in Uses
    /\ b \notin closed
    /\ UnrefStream(b)
    /\ transit' = [transit EXCEPT ![b] = << >>]
    /\ closed' = closed \cup {b}
    /\ UNCHANGED <<pvars, enc_stream, received, misread, refused>>

-----------------------------------------------------------------------------
ReadSome(b) ==
    /\ transit[b] # << >>
    /\ \E upto \in 0 .. Pieces(Head(transit[b])) : ReadBlock(b, upto)

SNext ==
    \/ PeerInsert
    \/ \E k \in Live : PeerInsertNameRef(k) \/ PeerDuplicate(k)
    \/ \E c \in Caps : PeerSetCapacity(c)
    \/ \E b \in Hblocks : \E n \in 1 .. MaxLines :
         \E ids \in [1 .. n -> Live \cup {0}] :
           \E base \in { x \in {peer.ins, peer.ins - 1} : x >= 0 } :
             PeerBlock(b, ids, base)
    \/ PeerDecoderIn
    \/ EncIn
    \/ \E b \in Hblocks : ReadSome(b)
    \/ AppWriteIci
    \/ \E b \in Hblocks : AppCancel(b) \/ AppUnref(b)

SSpec == SInit /\ [][SNext]_svars

\* Both streams of instructions are delivered and read, and the application reads
\* on when the decoder can: when a block was reported unblocked or has more
\* input, unless what it has to report finds the decoder stream full.
SFairness ==
    /\ WF_svars(EncIn) /\ WF_svars(PeerDecoderIn)
    /\ \A b \in Hblocks : SF_svars(ReadSome(b))

SFairSpec == SSpec /\ SFairness

-----------------------------------------------------------------------------
(***************************************************************************)
(* Properties.                                                             *)
(***************************************************************************)

\* Every variable keeps its range; the IDs stay below twice the entries.
STypeOK ==
    /\ {last_id, largest_known_id} \subseteq 0 .. 2 * MaxEntries - 1
    /\ max_cap \in 0 .. MaxEntries
    /\ Len(dyn_table) <= max_cap
    /\ DOMAIN hbrcs \subseteq Hblocks
    /\ \A b \in DOMAIN hbrcs : hbrcs[b] \in Context
    /\ n_blocked \in 0 .. MaxBlockedStreams
    /\ closed \subseteq Hblocks
    /\ peer.acked \in 0 .. peer.ins /\ peer.last_ici \in 0 .. peer.acked
    /\ Live = peer.ins - Cardinality(Live) + 1 .. peer.ins

\* However late the decoder reads a header block, and however often its IDs have
\* wrapped around, each line is given the entry the encoder referred to.
NoMisread == ~misread

\* Two ends that follow the protocol never make each other's calls fail.
NoError == ~dec_error /\ ~refused

\* A block whose Required Insert Count has been read is blocked exactly while an
\* entry it needs has not arrived, and qpd_n_blocked counts those blocks.
BlockedExact ==
    /\ \A b \in DOMAIN hbrcs : hbrcs[b].at >= 1 =>
          (hbrcs[b].blocked <=> Head(transit[b]).needs > received)
    /\ n_blocked = Cardinality({ b \in DOMAIN hbrcs : hbrcs[b].blocked })

\* qpd_largest_known_id never falls behind what the encoder takes for
\* acknowledged, which never exceeds what the decoder has received.
KnownCovers == peer.acked <= received - IdMinus(last_id, largest_known_id)

\* Every block the decoder has begun to read is finished or cancelled, those that
\* had to wait for entries included.
ContextsEnd ==
    \A b \in Hblocks : b \in DOMAIN hbrcs ~> b \notin DOMAIN hbrcs

\* What enc_proc_ici passes over as a "duplicate ICI" tells it nothing: once the
\* decoder has reported all it received and the encoder has read the reports,
\* the encoder has every received entry for acknowledged.
NoReportLost ==
    dec_stream = << >> /\ last_id = largest_known_id /\ closed = {} =>
        peer.acked = received
-----------------------------------------------------------------------------
(***************************************************************************)
(* The inductive invariant.                                                *)
(***************************************************************************)

\* The decoder's ID of the entry with absolute ID k.
IdOf(k) == (k + 2 * MaxEntries - 1) % (2 * MaxEntries)

\* The oldest entry the decoder holds, and how far its reports have come.
DecOldest == received - Len(dyn_table) + 1
Known == received - IdMinus(last_id, largest_known_id)

Content == [name : Nat, val : Nat]

\* The encoder's entries are the Oldest to the newest, within the capacity, and
\* those it has evicted were acknowledged.
EncoderInv ==
    /\ peer \in [ins : Nat, acked : Nat, last_ici : Nat, cap : 0 .. MaxEntries]
    /\ contents \in [Oldest .. peer.ins -> Content]
    /\ Oldest \in 1 .. peer.acked + 1
    /\ peer.ins - Oldest < peer.cap
    /\ peer.last_ici <= peer.acked

\* The decoder's wrapped IDs stand for the entries received, and it has reported
\* at least what the encoder takes for acknowledged.
DecoderInv ==
    /\ received \in Nat
    /\ max_cap \in 0 .. MaxEntries
    /\ dyn_table \in Seq(Content)
    /\ Len(dyn_table) <= max_cap
    /\ Len(dyn_table) <= received
    /\ last_id = IdOf(received)
    /\ largest_known_id \in 0 .. 2 * MaxEntries - 1
    /\ peer.acked <= Known

\* Outstanding blocks refer to live entries, and those at risk are on no more
\* streams than the decoder lets block.
OutstandingInv ==
    /\ outstanding \in [Hblocks -> Seq([min_id : Nat, max_id : Nat])]
    /\ \A b \in Hblocks : \A i \in DOMAIN outstanding[b] :
          /\ Oldest <= outstanding[b][i].min_id
          /\ outstanding[b][i].min_id <= outstanding[b][i].max_id
          /\ outstanding[b][i].max_id <= peer.ins
    /\ Cardinality(StreamsAtRisk) <= MaxBlockedStreams

\* The instructions in flight lead from the decoder's table to the encoder's.
TableState == [ins : Nat, low : Nat \ {0}, cap : 0 .. MaxEntries]

Instruction ==
    [op : {"insert"}, entry : Content, at : TableState]
    \cup [op : {"nameref"}, idx : Nat, val : Nat, entry : Content, at : TableState]
    \cup [op : {"dup"}, idx : Nat, entry : Content, at : TableState]
    \cup [op : {"capacity"}, cap : 0 .. MaxEntries, at : TableState]

DecNow == [ins |-> received, low |-> DecOldest, cap |-> max_cap]

Shrunk(ins, low, cap) ==
    [ins |-> ins, low |-> IF low + cap <= ins THEN ins - cap + 1 ELSE low, cap |-> cap]

After(i) == IF i.op = "capacity" THEN Shrunk(i.at.ins, i.at.low, i.cap)
                                 ELSE Shrunk(i.at.ins + 1, i.at.low, i.at.cap)

StateAt(p) == IF p \in DOMAIN enc_stream THEN enc_stream[p].at ELSE Now

StreamInv ==
    /\ enc_stream \in Seq(Instruction)
    /\ StateAt(1) = DecNow
    /\ \A p \in DOMAIN enc_stream :
          /\ After(enc_stream[p]) = StateAt(p + 1)
          /\ \A r \in p .. Len(enc_stream) + 1 :
                /\ enc_stream[p].at.ins <= StateAt(r).ins
                /\ enc_stream[p].at.low <= StateAt(r).low

\* What entry k holds, where the decoder has it or will have it.
Held(k) ==
    { dyn_table[j] : j \in { j \in DOMAIN dyn_table : j + DecOldest = k + 1 } }
    \cup { enc_stream[p].entry :
              p \in { p \in DOMAIN enc_stream : /\ enc_stream[p].op # "capacity"
                                               /\ enc_stream[p].at.ins + 1 = k } }

\* An instruction refers to an entry that is there and yields what it is to.
SourceOk(i) ==
    /\ i.op \in {"nameref", "dup"} => i.at.low + i.idx <= i.at.ins
    /\ i.op = "dup" => i.entry \in Held(i.at.ins - i.idx)
    /\ i.op = "nameref" => \E e \in Held(i.at.ins - i.idx) :
                              i.entry = [e EXCEPT !.val = i.val]

\* What the encoder has in an entry is what the decoder has or will have in it.
ContentsInv ==
    /\ \A k \in Live : contents[k] \in Held(k)
    /\ \A p \in DOMAIN enc_stream : SourceOk(enc_stream[p])

\* Reports in flight.
AcksOf(b) == { j \in DOMAIN dec_stream : dec_stream[j].op = "ack"
                                          /\ dec_stream[j].hblock = b }
CancelsOf(b) == { j \in DOMAIN dec_stream : dec_stream[j].op = "cancel"
                                             /\ dec_stream[j].hblock = b }
Icis == { j \in DOMAIN dec_stream : dec_stream[j].op = "ici" }

Report == [op : {"ack", "cancel"}, hblock : Hblocks] \cup [op : {"ici"}, count : Nat \ {0}]

\* A stream's acknowledgements are for its oldest outstanding blocks and precede
\* its cancellation.
AcksOk(b) ==
    /\ Cardinality(AcksOf(b)) <= Len(outstanding[b])
    /\ \A i \in 1 .. Cardinality(AcksOf(b)) : outstanding[b][i].max_id <= Known
    /\ \A j \in CancelsOf(b) : /\ b \in closed
                               /\ CancelsOf(b) = {j}
                               /\ \A k \in AcksOf(b) : k < j

\* Each increment stays below what the decoder knew when it wrote it.
IcisOk(upto) ==
    \A j \in Icis :
       /\ peer.last_ici + dec_stream[j].count <= upto[j]
       /\ \A k \in Icis : k < j => upto[k] + dec_stream[j].count <= upto[j]

\* The reports in flight are ones the encoder accepts, in the order it gets them.
ReportsInv ==
    /\ dec_stream \in Seq(Report)
    /\ \A b \in Hblocks : AcksOk(b)
    /\ \E upto \in [Icis -> 0 .. Known] : IcisOk(upto)

\* The blocks of stream b up to the i-th in transit that refer to entries.
RefBlocks(b, i) == { j \in 1 .. i : transit[b][j].needs # 0 }

Wires == [ric : Nat, sign : BOOLEAN, delta : Nat,
          lines : Seq([kind : {"lit", "rel", "post"}, idx : Nat]),
          needs : Nat, ids : Seq(Nat), means : Seq(Content \cup {<< >>})]

\* The prefix and the lines of w, read by the decoder's arithmetic, mean the
\* entries that the encoder referred to.
WireOk(w) ==
    /\ Len(w.lines) = Len(w.ids) /\ Len(w.means) = Len(w.ids) /\ w.ids # << >>
    /\ IF RefsOf(w.ids) = {} THEN w.needs = 0 /\ w.ric = 0
       ELSE /\ w.needs \in RefsOf(w.ids)
            /\ \A k \in RefsOf(w.ids) : k <= w.needs
            /\ w.ric = (w.needs % (2 * MaxEntries)) + 1
    /\ \A i \in DOMAIN w.ids :
          /\ w.lines[i].kind = "lit" <=> w.ids[i] = 0
          /\ w.ids[i] # 0 => LineId(w, i) = IdOf(w.ids[i])

\* The outstanding blocks that are not acknowledged yet are those in transit.
Info(b, i) == outstanding[b][Cardinality(AcksOf(b)) + Cardinality(RefBlocks(b, i))]

\* The encoder's record of a block covers the entries the block refers to.
BlockOk(w, info) ==
    /\ WireOk(w)
    /\ w.needs # 0 => /\ info.max_id = w.needs
                      /\ \A k \in RefsOf(w.ids) : info.min_id <= k

\* The entries w refers to are, or will be, in the decoder's table when it is read.
WireHeld(w) == \A n \in DOMAIN w.ids : w.ids[n] # 0 => w.means[n] \in Held(w.ids[n])

CountOk(b) ==
    Len(outstanding[b]) =
        Cardinality(AcksOf(b)) + Cardinality(RefBlocks(b, Len(transit[b])))

\* Every block in transit can be read, once the entries it needs have arrived.
TransitInv ==
    /\ transit \in [Hblocks -> Seq(Wires)]
    /\ closed \subseteq Hblocks
    /\ \A b \in closed : transit[b] = << >>
    /\ \A b \in Hblocks \ closed :
          /\ CountOk(b)
          /\ \A i \in DOMAIN transit[b] : /\ BlockOk(transit[b][i], Info(b, i))
                                          /\ WireHeld(transit[b][i])

\* The context c of the block w at the head of its stream.
ContextOk(c, w) ==
    /\ c \in Context
    /\ c.at < Pieces(w)
    /\ c.at >= 1 => c.largest_ref = LargestRef(w)
    /\ c.blocked => c.at = 1 /\ w.needs # 0
    /\ \A i \in 1 .. c.at - 2 :
          w.ids[i] # 0 /\ LineId(w, i) = LargestRef(w) => c.largest_used

\* The decoder's contexts are of blocks it is part of the way through.
ContextsInv ==
    /\ DOMAIN hbrcs \subseteq Hblocks
    /\ \A b \in DOMAIN hbrcs : transit[b] # << >> /\ ContextOk(hbrcs[b], Head(transit[b]))
    /\ BlockedExact

\* The inductive invariant of a session: the decoder's table and the instructions
\* in flight make up the encoder's table, every entry a block in transit refers
\* to is held until the block is acknowledged, and the reports in flight agree
\* with what the encoder has outstanding. From these the decoder's modular
\* arithmetic recovers every index (NoMisread) and no call fails (NoError).
SInv ==
    /\ EncoderInv /\ DecoderInv /\ OutstandingInv /\ StreamInv /\ ContentsInv
    /\ ReportsInv /\ TransitInv /\ ContextsInv
    /\ NoError /\ NoMisread
=============================================================================
