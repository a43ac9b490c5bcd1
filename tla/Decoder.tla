------------------------------- MODULE Decoder -------------------------------
(***************************************************************************)
(* The QPACK decoder (src/lsqpack.c): the dynamic table it rebuilds from   *)
(* the encoder stream, the header blocks it has begun to read, and what it *)
(* reports on the decoder stream.  Entries are known by IDs that wrap      *)
(* around at twice the greatest number of entries.                         *)
(*                                                                         *)
(* An entry takes one unit of capacity.  A header block arrives in pieces: *)
(* its Required Insert Count, its Delta Base and its lines; a call is      *)
(* given any number of them.                                               *)
(***************************************************************************)
EXTENDS Integers, Sequences, FiniteSets

CONSTANTS
    Hblocks,             \* header blocks, by the stream that carries them
    MaxEntries,          \* qpd_max_entries
    MaxBlockedStreams    \* qpd_max_risked_streams

ASSUME DecoderAssumption ==
    /\ MaxEntries \in Nat \ {0}
    /\ MaxBlockedStreams \in Nat
    /\ IsFiniteSet(Hblocks)

VARIABLES
    last_id,            \* qpd_last_id
    largest_known_id,   \* qpd_largest_known_id
    dyn_table,          \* qpd_dyn_table: names and values, the oldest first
    max_cap,            \* qpd_cur_max_capacity
    hbrcs,              \* qpd_hbrcs: the contexts of blocks begun, by block
    n_blocked,          \* qpd_n_blocked
    dec_stream,         \* instructions written for the decoder stream
    dec_error           \* a call has returned an error

dvars == <<last_id, largest_known_id, dyn_table, max_cap, hbrcs, n_blocked,
           dec_stream, dec_error>>

DInit ==
    /\ last_id = 2 * MaxEntries - 1
    /\ largest_known_id = 2 * MaxEntries - 1
    /\ dyn_table = << >>
    /\ max_cap = MaxEntries
    /\ hbrcs = << >>
    /\ n_blocked = 0
    /\ dec_stream = << >>
    /\ dec_error = FALSE

-----------------------------------------------------------------------------
(***************************************************************************)
(* IDs and entries.                                                        *)
(***************************************************************************)

\* Faulty: the sum is not reduced.
IdPlusFull(a, b) == a + b

IdMinus(a, b) == (a + 2 * MaxEntries - b) % (2 * MaxEntries)
IdPlus(a, b) == (a + b) % (2 * MaxEntries)

\* qdec_get_table_entry_rel and qdec_get_table_entry_abs
HasRel(i) == i + 1 <= Len(dyn_table)
EntryRel(i) == dyn_table[Len(dyn_table) - i]
HasAbs(id) == HasRel(IdMinus(last_id, id))
EntryAbs(id) == EntryRel(IdMinus(last_id, id))

\* Faulty: the window of the past is one entry too long.
InFutureShort(id) ==
    IF last_id < MaxEntries
    THEN id > last_id /\ id < last_id + MaxEntries
    ELSE ~(id <= last_id /\ id >= last_id - MaxEntries)

\* qdec_in_future
InFuture(id) ==
    IF last_id < MaxEntries
    THEN id > last_id /\ id <= last_id + MaxEntries
    ELSE ~(id <= last_id /\ id >= last_id - MaxEntries + 1)

-----------------------------------------------------------------------------
(***************************************************************************)
(* The encoder stream (lsqpack_dec_enc_in).                                *)
(***************************************************************************)

\* qdec_remove_overflow_entries
NewestOf(t, n) == IF Len(t) <= n THEN t ELSE SubSeq(t, Len(t) - n + 1, Len(t))

\* Faulty: the blocks that waited for the entry before.
UnblockingBefore(id) ==
    { b \in DOMAIN hbrcs : hbrcs[b].blocked /\ hbrcs[b].largest_ref = last_id }

\* qdec_process_blocked_headers: the blocks that waited for exactly this entry.
Unblocking(id) ==
    { b \in DOMAIN hbrcs : hbrcs[b].blocked /\ hbrcs[b].largest_ref = id }

\* lsqpack_dec_push_entry
PushEntry(entry) ==
    LET id == IdPlus(last_id, 1) IN
    /\ dyn_table' = NewestOf(Append(dyn_table, entry), max_cap)
    /\ last_id' = id
    /\ hbrcs' = [b \in DOMAIN hbrcs |->
                    IF b \in Unblocking(id)
                    THEN [hbrcs[b] EXCEPT !.blocked = FALSE] ELSE hbrcs[b]]
    /\ n_blocked' = n_blocked - Cardinality(Unblocking(id))
    /\ UNCHANGED <<largest_known_id, max_cap, dec_stream, dec_error>>

DecFails ==
    /\ dec_error' = TRUE
    /\ UNCHANGED <<last_id, largest_known_id, dyn_table, max_cap, hbrcs,
                   n_blocked, dec_stream>>

\* Insert With Literal Name.  An Insert With Name Reference to the static table
\* pushes an entry in the same way.
EncInsert(entry) == ~dec_error /\ PushEntry(entry)

\* Insert With Name Reference to the dynamic table: the entry is found when its
\* index has been read, and nothing else can change the table before the value
\* has been.
EncInsertNameRef(idx, val) ==
    /\ ~dec_error
    /\ IF HasRel(idx) THEN PushEntry([EntryRel(idx) EXCEPT !.val = val])
                      ELSE DecFails

\* Duplicate
EncDuplicate(idx) ==
    /\ ~dec_error
    /\ IF HasRel(idx) THEN PushEntry(EntryRel(idx)) ELSE DecFails

\* Set Dynamic Table Capacity
EncSetCapacity(c) ==
    /\ ~dec_error
    /\ IF c <= MaxEntries
       THEN /\ max_cap' = c
            /\ dyn_table' = NewestOf(dyn_table, c)
            /\ UNCHANGED <<last_id, largest_known_id, hbrcs, n_blocked,
                           dec_stream, dec_error>>
       ELSE DecFails

-----------------------------------------------------------------------------
(***************************************************************************)
(* Header blocks.  `wire' is what the encoder sent.  A line holds an index *)
(* below the base ("rel") or past it ("post"), or no dynamic one ("lit").  *)
(***************************************************************************)

\* parse_header_prefix
RefSet(wire) == wire.ric # 0
LargestRef(wire) == IdMinus(wire.ric, 2)
BaseIndex(wire) ==
    IF ~RefSet(wire) THEN 0
    ELSE IF wire.sign THEN IdMinus(LargestRef(wire), wire.delta + 1)
                      ELSE IdPlus(LargestRef(wire), wire.delta)

\* parse_header_data: the ID that line i refers to.
RelId(wire, i) == IdMinus(BaseIndex(wire), wire.lines[i].idx)

\* Faulty: an index past the base starts at the base.
PostIdAtBase(wire, i) == IdPlus(BaseIndex(wire), wire.lines[i].idx)

PostId(wire, i) == IdPlus(BaseIndex(wire), wire.lines[i].idx + 1)

LineId(wire, i) ==
    IF wire.lines[i].kind = "post" THEN PostId(wire, i) ELSE RelId(wire, i)

\* A block has Len(wire.lines) + 2 pieces; `at' counts those a context has
\* consumed.  Line i is piece i + 2.
Context == [at : Nat, largest_ref : Nat, base_index : Nat,
            largest_used : BOOLEAN, blocked : BOOLEAN]

NewContext == [at |-> 0, largest_ref |-> 0, base_index |-> 0,
               largest_used |-> FALSE, blocked |-> FALSE]

Pieces(wire) == Len(wire.lines) + 2

\* The lines that refer to the dynamic table, among those a call reads.
DynLines(c, wire, upto) ==
    { i \in 1 .. upto - 2 : i + 2 > c.at /\ wire.lines[i].kind # "lit" }

ReadTo(c, wire, upto) ==
    [c EXCEPT
        !.at = upto,
        !.largest_ref = IF upto >= 1 THEN LargestRef(wire) ELSE @,
        !.base_index = IF upto >= 2 THEN BaseIndex(wire) ELSE @,
        !.largest_used = @ \/ \E i \in DynLines(c, wire, upto) :
                                  LineId(wire, i) = LargestRef(wire)]

WithContext(b, c) ==
    [k \in DOMAIN hbrcs \cup {b} |-> IF k = b THEN c ELSE hbrcs[k]]
WithoutContext(b) == [k \in DOMAIN hbrcs \ {b} |-> hbrcs[k]]

\* Faulty: an older ID replaces a younger one.
UpdateLargestKnownAlways(id) == largest_known_id' = id

\* qdec_maybe_update_largest_known
MaybeUpdateLargestKnown(id) ==
    largest_known_id' = IF IdMinus(id, largest_known_id) \in 1 .. MaxEntries
                        THEN id ELSE largest_known_id

\* Faulty: the greatest encoded Required Insert Count is refused.
PrefixOkBelow(wire) == wire.ric < 2 * MaxEntries

\* The checks of the prefix, of the lines and, at the block's end, of the flags that
\* check_dyn_table_errors sets: HBRC_DYN_USED_IN_ERR is set by then if any line of a
\* block without a Required Insert Count is dynamic.  A block that ends with its
\* prefix is an error.
PrefixOk(wire) == wire.ric <= 2 * MaxEntries
LinesOk(c, wire, upto) ==
    /\ \A i \in DynLines(c, wire, upto) : HasAbs(LineId(wire, i))
    /\ upto = Pieces(wire) =>
         /\ wire.lines # << >>
         /\ IF RefSet(wire) THEN ReadTo(c, wire, upto).largest_used
            ELSE \A i \in DOMAIN wire.lines : wire.lines[i].kind = "lit"

BlockFails(b) ==
    /\ dec_error' = TRUE
    /\ hbrcs' = WithoutContext(b)
    /\ UNCHANGED <<n_blocked, largest_known_id, dec_stream>>

\* stash_blocked_header
StashBlocked(b, c) ==
    IF n_blocked < MaxBlockedStreams
    THEN /\ hbrcs' = WithContext(b, [c EXCEPT !.blocked = TRUE])
         /\ n_blocked' = n_blocked + 1
         /\ UNCHANGED <<largest_known_id, dec_stream, dec_error>>
    ELSE BlockFails(b)

\* qdec_header_process: read block b, whose context is c, as far as piece
\* `upto'.  Whether the block has to wait is decided once, when its Required
\* Insert Count has been read, and before anything else of it is.
HeaderProcess(b, c, wire, upto) ==
    /\ ~dec_error
    /\ IF upto >= 1 /\ ~PrefixOk(wire) THEN BlockFails(b)
       ELSE IF c.at = 0 /\ upto >= 1 /\ RefSet(wire) /\ InFuture(LargestRef(wire))
       THEN StashBlocked(b, ReadTo(c, wire, 1))
       ELSE IF ~LinesOk(c, wire, upto) THEN BlockFails(b)
       ELSE IF upto < Pieces(wire)
       THEN /\ hbrcs' = WithContext(b, ReadTo(c, wire, upto))
            /\ UNCHANGED <<n_blocked, largest_known_id, dec_stream, dec_error>>
       ELSE /\ hbrcs' = WithoutContext(b)
            /\ IF RefSet(wire)
               THEN /\ dec_stream' = Append(dec_stream, [op |-> "ack", hblock |-> b])
                    /\ MaybeUpdateLargestKnown(LargestRef(wire))
               ELSE UNCHANGED <<dec_stream, largest_known_id>>
            /\ UNCHANGED <<n_blocked, dec_error>>
    /\ UNCHANGED <<last_id, dyn_table, max_cap>>

\* lsqpack_dec_header_in
HeaderIn(b, wire, upto) ==
    /\ b \notin DOMAIN hbrcs
    /\ HeaderProcess(b, NewContext, wire, upto)

\* lsqpack_dec_header_read: the application calls it for a block that needs more
\* input or was reported unblocked.
HeaderRead(b, wire, upto) ==
    /\ b \in DOMAIN hbrcs
    /\ ~hbrcs[b].blocked
    /\ upto > hbrcs[b].at
    /\ HeaderProcess(b, hbrcs[b], wire, upto)

-----------------------------------------------------------------------------
(***************************************************************************)
(* Reports.                                                                *)
(***************************************************************************)

\* lsqpack_dec_write_ici
WriteIci ==
    /\ ~dec_error
    /\ last_id # largest_known_id
    /\ dec_stream' = Append(dec_stream,
          [op |-> "ici", count |-> IdMinus(last_id, largest_known_id)])
    /\ largest_known_id' = last_id
    /\ UNCHANGED <<last_id, dyn_table, max_cap, hbrcs, n_blocked, dec_error>>

\* Faulty: a blocked block that goes is still counted.
DestroyCounted(b) ==
    /\ hbrcs' = WithoutContext(b)
    /\ n_blocked' = n_blocked

\* destroy_header_block_read_ctx
Destroy(b) ==
    /\ hbrcs' = WithoutContext(b)
    /\ n_blocked' = IF b \in DOMAIN hbrcs /\ hbrcs[b].blocked
                    THEN n_blocked - 1 ELSE n_blocked

\* lsqpack_dec_unref_stream
UnrefStream(b) ==
    /\ ~dec_error
    /\ b \in DOMAIN hbrcs
    /\ Destroy(b)
    /\ UNCHANGED <<last_id, largest_known_id, dyn_table, max_cap, dec_stream,
                   dec_error>>

\* lsqpack_dec_cancel_stream for a block that was begun,
\* lsqpack_dec_cancel_stream_id for a stream without one.
CancelStream(b) ==
    /\ ~dec_error
    /\ Destroy(b)
    /\ dec_stream' = Append(dec_stream, [op |-> "cancel", hblock |-> b])
    /\ UNCHANGED <<last_id, largest_known_id, dyn_table, max_cap, dec_error>>
=============================================================================
