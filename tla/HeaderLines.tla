----------------------------- MODULE HeaderLines -----------------------------
(***************************************************************************)
(* The decoder's reader of a header block (parse_header_prefix and then     *)
(* parse_header_data): a block arrives cut anywhere, it may have to wait for *)
(* an entry, and each line is written into memory that the application      *)
(* provides and enlarges on request.                                        *)
(*                                                                         *)
(* A step is one round of a reader's loop over its input.  The newest entry *)
(* of the dynamic table may come at any time between two calls; entries are *)
(* evicted in module Session.                                               *)
(***************************************************************************)
EXTENDS Wire

CONSTANTS
    StaticTable,    \* a sequence of names and values
    MaxEntries,     \* qpd_max_entries
    Entries,        \* the dynamic table in the end: names, values and flags
    IntLimit,       \* 2^24
    MaxStrlen,      \* LSXPACK_MAX_STRLEN
    Blocks,         \* what the peer may send
    Options,        \* sets of qpd_opts
    Applications,   \* what the application does with its memory
    NoHdr, NoRef

ASSUME HeaderLinesAssumption ==
    /\ MaxEntries \in Nat \ {0}
    /\ Len(Entries) \in 1 .. MaxEntries

VARIABLES
    opts, app, block,
    last_id, dyn_table,     \* qpd_last_id, qpd_dyn_table
    hbrc,           \* what the prefix has said
    data,           \* hbrc_parse_ctx_u
    out,            \* hbrc_out
    ref_used, dyn_in_err,   \* HBRC_LARGEST_REF_USED, HBRC_DYN_USED_IN_ERR
    chunk,          \* hbrc_buf: input of the application's call
    buf,            \* the part of it that a reader is given
    prefix_bits,    \* local to the reader's call, Unset at first
    wire,           \* rest of the block
    orig_size,      \* hbrc_orig_size
    headers,        \* what dhi_process_header has been given
    status,
    rounds          \* how often the reader's loop has gone round

hlvars == <<opts, app, block, last_id, dyn_table, hbrc, data, out, ref_used, dyn_in_err,
            chunk, buf, prefix_bits, wire, headers, status, orig_size, rounds>>
given == <<opts, app, block, orig_size>>
table == <<last_id, dyn_table>>

Unset == 99
Http1x == "HTTP1X" \in opts

\* What stands between the name and the value, and after the value.
Colon == IF Http1x THEN <<":", " ">> ELSE << >>
Crlf == IF Http1x THEN <<"cr", "lf">> ELSE << >>
Overhead == Len(Colon) + Len(Crlf)

-----------------------------------------------------------------------------
(***************************************************************************)
(* The peer's field lines: the opcodes, from 1xxx xxxx for an indexed line  *)
(* down to 0000 xxxx for a literal with a post-base name reference.         *)
(***************************************************************************)

Flag(b, mask) == IF b THEN mask ELSE 0

LineBytes(l) ==
    LET val == StringBytes(Top, GroupBits, l.val, l.coding)
        static == l.ref.kind = "static"
    IN CASE l.rep = "indexed" /\ l.ref.kind # "post" ->
              WithOpcode(Top + Flag(static, Top \div 2),
                         EncInt(l.ref.idx, GroupBits - 1, LongestInt))
         [] l.rep = "indexed" ->
              WithOpcode(Top \div 8, EncInt(l.ref.idx, GroupBits - 3, LongestInt))
         [] l.rep = "nameref" /\ l.ref.kind # "post" ->
              WithOpcode((Top \div 2) + Flag(l.never, Top \div 4)
                           + Flag(static, Top \div 8),
                         EncInt(l.ref.idx, GroupBits - 3, LongestInt)) \o val
         [] l.rep = "nameref" ->
              WithOpcode(Flag(l.never, Top \div 16),
                         EncInt(l.ref.idx, GroupBits - 4, LongestInt)) \o val
         [] OTHER ->
              WithOpcode((Top \div 4) + Flag(l.never, Top \div 8),
                         StringBytes(Top \div 16, GroupBits - 4, l.name, l.coding))
                \o val

\* The encoded Required Insert Count of a block that refers to `id'.
EncodedRic(id) == IF id = NoRef THEN 0 ELSE ((id + 1) % (2 * MaxEntries)) + 1

\* A block's prefix: the encoded Required Insert Count, which may be too large or in
\* more bytes than it takes, and how far the base is from the largest reference.
RicBytes ==
    LET ric == EncodedRic(block.largest_ref)
        bytes == EncInt(ric, ByteBits, LongestInt)
        Zeros(n) == [i \in 1 .. n |-> IF i = n THEN 0 ELSE More]
    IN CASE block.ric = "exact"  -> bytes
         [] block.ric = "excess" -> EncInt(ric + 2 * MaxEntries, ByteBits, LongestInt)
         [] OTHER -> Front(bytes) \o <<More + Last(bytes)>> \o Zeros(block.padding)
DeltaBaseBytes ==
    LET ahead == (block.base + 2 * MaxEntries - block.largest_ref) % (2 * MaxEntries)
    IN IF block.largest_ref = NoRef THEN EncInt(block.base, GroupBits, LongestInt)
       ELSE IF ahead < MaxEntries THEN EncInt(ahead, GroupBits, LongestInt)
       ELSE WithOpcode(Top, EncInt(2 * MaxEntries - ahead - 1, GroupBits, LongestInt))

BlockBytes ==
    RicBytes \o DeltaBaseBytes
      \o FlattenSeq([i \in DOMAIN block.lines |-> LineBytes(block.lines[i])])

\* The block's next n bytes are given to the decoder.
Deliver(n) ==
    /\ status \in {"ok", "unblocked"}
    /\ buf = << >>
    /\ chunk = << >>
    /\ chunk' = SubSeq(wire, 1, n)
    /\ wire' = Drop(wire, n)
    /\ status' = "ok"
    /\ UNCHANGED <<given, table, hbrc, data, out, ref_used, dyn_in_err, buf, prefix_bits,
                   headers, rounds>>

\* hbrc_size
Size == Len(wire) + Len(chunk)

\* Faulty: all of the call's input is read at once.
MaxToReadAll == Size

\* max_to_read
MaxToRead == IF hbrc.ref_read THEN Size ELSE 1

\* lsqpack_dec_header_in refuses it at once.
TooShort == orig_size < 2

\* A round of qdec_read_header, which gives its input to the reader.
ReadHeader ==
    /\ status = "ok"
    /\ buf = << >>
    /\ chunk # << >>
    /\ \E n \in { Min({MaxToRead, Len(chunk)}) } :
         IF TooShort THEN status' = "error" /\ UNCHANGED <<buf, chunk>>
         ELSE /\ buf' = SubSeq(chunk, 1, n)
              /\ chunk' = Drop(chunk, n)
              /\ UNCHANGED status
    /\ prefix_bits' = Unset
    /\ UNCHANGED <<given, table, hbrc, data, out, ref_used, dyn_in_err, wire, headers,
                   rounds>>

-----------------------------------------------------------------------------
(***************************************************************************)
(* The dynamic table, whose IDs wrap around.                                *)
(***************************************************************************)

IdMinus(a, b) == ((a + 2 * MaxEntries - b) % UintMod) % (2 * MaxEntries)
IdPlus(a, b) == ((a + b) % UintMod) % (2 * MaxEntries)

\* qdec_get_table_entry_abs
HasAbs(id) == IdMinus(last_id, id) < Len(dyn_table)
EntryAbs(id) == dyn_table[Len(dyn_table) - IdMinus(last_id, id)]

\* qdec_in_future
InFuture(id) ==
    IF last_id < MaxEntries THEN id > last_id /\ id <= last_id + MaxEntries
    ELSE ~(id <= last_id /\ id >= last_id - MaxEntries + 1)

\* The newest entry comes between two calls (lsqpack_dec_push_entry), and the block is
\* no longer blocked if it has waited for it.
PushEntry ==
    /\ status \in {"ok", "blocked"}
    /\ buf = << >>
    /\ chunk = << >>
    /\ last_id # block.newest
    /\ last_id' = IdPlus(last_id, 1)
    /\ dyn_table' = Append(dyn_table, Entries[Len(dyn_table) + 1])
    /\ status' = IF status = "blocked" /\ hbrc.largest_ref = last_id' THEN "unblocked"
                 ELSE status
    /\ UNCHANGED <<given, hbrc, data, out, ref_used, dyn_in_err, chunk, buf, prefix_bits,
                   wire, headers, rounds>>

-----------------------------------------------------------------------------
(***************************************************************************)
(* The application's memory.  A header has `size' bytes from name_offset    *)
(* on, which val_len says as long as the header is not complete; `text' is  *)
(* what they hold.                                                          *)
(***************************************************************************)

NewHdr == [name_offset |-> app.name_offset, val_len |-> 0, size |-> 0, text |-> << >>,
           name_len |-> 0, val_offset |-> 0, flags |-> {}]

\* dhi_prepare_decode: at least the space asked for, or nothing.  Less would break
\* its contract; header_out_grow_buf, the one caller that looks, then fails as it
\* does for nothing.
Prepared(hdr, space) ==
    (IF space <= MaxStrlen
     THEN LET got == Min({space + app.extra, MaxStrlen}) IN
          { [hdr EXCEPT !.val_len = got, !.size = got] }
     ELSE {NoHdr})
    \cup (IF app.refuses THEN {NoHdr} ELSE {})

Put(hdr, pos, chars) == [hdr EXCEPT !.text = SubSeq(@, 1, pos) \o chars]

OutNew == [hdr |-> NoHdr, state |-> "NAME", off |-> 0]

\* Bytes in use.
OffOf(o) == IF o.state = "NAME" THEN o.off
            ELSE o.hdr.val_offset - o.hdr.name_offset + o.off

\* get_dst
DstSize == out.hdr.val_len - OffOf(out)

\* The block is given up.
Fail(how) ==
    /\ status' = how
    /\ buf' = << >>
    /\ UNCHANGED <<given, data, out, prefix_bits, wire, headers>>

Continue(s, o, rest) ==
    /\ data' = s
    /\ out' = o
    /\ buf' = rest
    /\ UNCHANGED <<given, prefix_bits, wire, headers, status>>

\* The header is complete, and dhi_process_header is called.
Process(hdr, rest) ==
    \/ /\ headers' = Append(headers, hdr)
       /\ data' = [data EXCEPT !.state = "NEXT_INSTRUCTION", !.left = 0]
       /\ out' = OutNew
       /\ buf' = rest
       /\ UNCHANGED <<given, prefix_bits, wire, status>>
    \/ app.refuses /\ Fail("refused")

\* check_dyn_table_errors
UsesEntry(id) ==
    /\ ref_used' = (ref_used \/ id = hbrc.largest_ref)
    /\ dyn_in_err' = (dyn_in_err \/ hbrc.largest_ref = NoRef)
UsesNoEntry == UNCHANGED <<ref_used, dyn_in_err>>

Hashes == (IF opts \cap {"HASH_NAME", "HASH_NAMEVAL"} # {} THEN {"NAME_HASH"} ELSE {})
            \cup (IF "HASH_NAMEVAL" \in opts THEN {"NAMEVAL_HASH"} ELSE {})

\* header_out_static_entry and header_out_dynamic_entry
HeaderOutEntry(e, flags, rest) ==
    \E hdr \in Prepared(NewHdr, Len(e.name) + Len(e.val) + Overhead) :
      IF hdr = NoHdr THEN Fail("refused")
      ELSE Process([hdr EXCEPT !.text = e.name \o Colon \o e.val \o Crlf,
                               !.name_len = Len(e.name), !.val_len = Len(e.val),
                               !.val_offset = hdr.name_offset + Len(e.name) + Len(Colon),
                               !.flags = flags], rest)

\* header_out_begin_static_nameref and header_out_begin_dynamic_nameref
HeaderOutBeginNameref(e, flags, rest) ==
    \E hdr \in Prepared(NewHdr, Len(e.name) + Overhead) :
      IF hdr = NoHdr THEN Fail("refused")
      ELSE Continue([data EXCEPT !.state = "BEGIN_READ_VAL_LEN"],
                    [hdr |-> [hdr EXCEPT !.text = e.name \o Colon,
                                !.name_len = Len(e.name),
                                !.val_offset = hdr.name_offset + Len(e.name) + Len(Colon),
                                !.flags = flags],
                     state |-> "VALUE", off |-> 0], rest)

Never == IF data.is_never THEN {"NEVER_INDEX"} ELSE {}

\* header_out_begin_literal
HeaderOutBeginLiteral(need, s, rest) ==
    \E hdr \in Prepared(NewHdr, need + Overhead) :
      IF hdr = NoHdr THEN Fail("refused")
      ELSE Continue(s, [hdr |-> [hdr EXCEPT !.flags = Never], state |-> "NAME",
                        off |-> 0], rest)

\* header_out_write_name: the characters are added to the header, and its name is
\* complete when `done'.  `left' is what is left to read.
HeaderOutWriteName(chars, done, s, rest) ==
    \E off \in { out.off + Len(chars) }, hdr \in { Put(out.hdr, out.off, chars) } :
       IF ~done THEN Continue(s, [out EXCEPT !.hdr = hdr, !.off = off], rest)
       ELSE \E h \in (IF Http1x /\ off + 2 > hdr.val_len THEN Prepared(hdr, off + 2)
                      ELSE {hdr}) :
              IF h = NoHdr THEN Fail("refused")
              ELSE Continue([s EXCEPT !.state = "BEGIN_READ_VAL_LEN"],
                            [hdr |-> [Put(h, off, Colon) EXCEPT
                                        !.val_offset = h.name_offset + off + Len(Colon),
                                        !.name_len = off,
                                        !.flags = @ \cup (Hashes \ {"NAMEVAL_HASH"})],
                             state |-> "VALUE", off |-> 0], rest)

\* Faulty: the line's end is written without asking for its room.
HeaderOutWriteValueNoRoom(chars, done, s, rest) ==
    IF done
    THEN Process([Put(out.hdr, OffOf(out), chars \o Crlf) EXCEPT
                    !.val_len = out.off + Len(chars)], rest)
    ELSE Continue(s, [out EXCEPT !.hdr = Put(@, OffOf(out), chars),
                                 !.off = @ + Len(chars)], rest)

\* header_out_write_value.  The room asked for counts from the beginning of the buffer.
HeaderOutWriteValue(chars, done, s, rest) ==
    \E off \in { out.off + Len(chars) }, hdr \in { Put(out.hdr, OffOf(out), chars) } :
    \E space \in { hdr.val_offset + off + 2 } :
       IF ~done THEN Continue(s, [out EXCEPT !.hdr = hdr, !.off = off], rest)
       ELSE \E h \in (IF Http1x /\ space > hdr.val_len THEN Prepared(hdr, space)
                      ELSE {hdr}) :
              IF h = NoHdr THEN Fail("refused")
              ELSE Process([Put(h, OffOf(out) + Len(chars), Crlf) EXCEPT
                              !.val_len = off,
                              !.flags = @ \cup (IF "HASH_NAME" \in opts
                                                THEN {"NAMEVAL_HASH"} ELSE {})], rest)

\* Faulty: the room grows by a half of what was not enough, even if that is nothing.
GrowthByHalf(size) == size \div 2

\* What header_out_grow_buf adds to the room when size bytes are left in it.
Growth(size) == Max({size, 2}) \div 2

-----------------------------------------------------------------------------
(***************************************************************************)
(* The reader, state by state.                                             *)
(***************************************************************************)

InCall(state) == buf # << >> /\ data.state = state

DataNew == [state |-> "BEGIN_READING_LARGEST_REF", left |-> 0, is_static |-> FALSE,
            is_never |-> FALSE, is_huffman |-> FALSE, int_st |-> IntNew,
            huff_st |-> HuffNew]

HbrcNew == [ref_read |-> FALSE, largest_ref |-> NoRef, sign |-> FALSE, base_index |-> 0]

\* dec_max_encoded_RIC
MaxEncodedRic == 2 * MaxEntries

\* What has been read is not longer than the greatest encoded count.
RicMayGoOn == orig_size - Size <= Val2Len(MaxEncodedRic, ByteBits)

\* PREFIX_STATE_BEGIN_READING_LARGEST_REF and PREFIX_STATE_READ_LARGEST_REF.  The block
\* is blocked before more of it than its Required Insert Count is read, and what is
\* not read is left to the application.
ReadLargestRef ==
    /\ InCall("BEGIN_READING_LARGEST_REF") \/ InCall("READ_LARGEST_REF")
    /\ \E d \in { DecInt(buf, ByteBits, data.int_st) } :
       \E id \in { IF d.val = 0 THEN NoRef ELSE IdMinus(d.val, 2) } :
         \/ /\ d.r = 0 /\ d.val <= MaxEncodedRic
            /\ hbrc' = [hbrc EXCEPT !.ref_read = TRUE, !.largest_ref = id]
            /\ data' = [data EXCEPT !.state = "BEGIN_READING_BASE_IDX"]
            /\ IF id # NoRef /\ InFuture(id)
               THEN /\ status' = "blocked"
                    /\ wire' = chunk \o wire
                    /\ chunk' = << >>
                    /\ buf' = << >>
               ELSE buf' = Drop(buf, d.n) /\ UNCHANGED <<status, wire, chunk>>
            /\ UNCHANGED <<given, out, prefix_bits, headers>>
         \/ /\ d.r = -1 /\ RicMayGoOn
            /\ Continue([data EXCEPT !.state = "READ_LARGEST_REF", !.int_st = d.st], out,
                        << >>)
            /\ UNCHANGED <<hbrc, chunk>>
         \/ /\ \/ d.r = -2
               \/ d.r = 0 /\ d.val > MaxEncodedRic
               \/ d.r = -1 /\ ~RicMayGoOn
            /\ Fail("error")
            /\ UNCHANGED <<hbrc, chunk>>
    /\ UNCHANGED <<ref_used, dyn_in_err>>

\* PREFIX_STATE_BEGIN_READING_BASE_IDX and PREFIX_STATE_READ_DELTA_BASE_IDX.  A block
\* that ends with its prefix is an error.
ReadDeltaBaseIdx ==
    /\ InCall("BEGIN_READING_BASE_IDX") \/ InCall("READ_DELTA_BASE_IDX")
    /\ \E begin \in { data.state = "BEGIN_READING_BASE_IDX" } :
       \E sign \in { IF begin THEN Bit(buf[1], Top) ELSE hbrc.sign },
          d \in { DecInt(buf, GroupBits, IF begin THEN IntNew ELSE data.int_st) } :
         \/ /\ d.r = 0
            /\ hbrc' = [hbrc EXCEPT !.sign = sign,
                          !.base_index = IF hbrc.largest_ref = NoRef THEN 0
                                         ELSE IF sign
                                         THEN IdMinus(hbrc.largest_ref, d.val + 1)
                                         ELSE IdPlus(hbrc.largest_ref, d.val)]
            /\ data' = [data EXCEPT !.state = "NEXT_INSTRUCTION"]
            /\ buf' = Drop(buf, d.n)
            /\ status' = IF buf' = << >> /\ Size = 0 THEN "error" ELSE status
            /\ UNCHANGED <<given, out, prefix_bits, wire, headers>>
         \/ /\ d.r = -1
            /\ hbrc' = [hbrc EXCEPT !.sign = sign]
            /\ Continue([data EXCEPT !.state = "READ_DELTA_BASE_IDX", !.int_st = d.st],
                        out, << >>)
         \/ d.r = -2 /\ Fail("error") /\ UNCHANGED hbrc
    /\ UNCHANGED <<ref_used, dyn_in_err, chunk>>

\* DATA_STATE_NEXT_INSTRUCTION
NextInstruction ==
    /\ InCall("NEXT_INSTRUCTION")
    /\ LET Has(mask) == Bit(buf[1], mask)
           Begin(state, bits, flags) ==
              /\ data' = [flags EXCEPT !.state = state, !.int_st.resume = FALSE]
              /\ prefix_bits' = bits
       IN IF Has(Top)
          THEN Begin("READ_IHF_IDX", GroupBits - 1,
                     [data EXCEPT !.is_static = Has(Top \div 2)])
          ELSE IF Has(Top \div 2)
          THEN Begin("READ_LFINR_IDX", GroupBits - 3,
                     [data EXCEPT !.is_never = Has(Top \div 4),
                                  !.is_static = Has(Top \div 8)])
          ELSE IF Has(Top \div 4)
          THEN Begin("READ_LFONR_NAME_LEN", GroupBits - 4,
                     [data EXCEPT !.is_never = Has(Top \div 8),
                                  !.is_huffman = Has(Top \div 16)])
          ELSE IF Has(Top \div 8) THEN Begin("READ_IPBI_IDX", GroupBits - 3, data)
          ELSE Begin("READ_LFPBNR_IDX", GroupBits - 4,
                     [data EXCEPT !.is_never = Has(Top \div 16)])
    /\ UNCHANGED <<given, out, ref_used, dyn_in_err, buf, wire, headers, status>>

\* lsqpack_dec_int24: Then(val, rest) when the integer is whole.
ReadInt(Then(_, _)) ==
    \E d \in { IF data.int_st.resume \/ prefix_bits # Unset
               THEN DecIntBelow(buf, prefix_bits, data.int_st, IntLimit)
               ELSE [r |-> -3] } :
      \/ d.r = 0 /\ Then(d.val, Drop(buf, d.n))
      \/ d.r = -1 /\ UsesNoEntry /\ Continue([data EXCEPT !.int_st = d.st], out, << >>)
      \/ d.r < -1 /\ UsesNoEntry /\ Fail(IF d.r = -2 THEN "error" ELSE "unset prefix")

\* The entry that an index refers to, if the table has it.
IndexedEntry(id, rest) ==
    /\ UsesEntry(id)
    /\ IF HasAbs(id)
       THEN HeaderOutEntry(EntryAbs(id), EntryAbs(id).flags \cup Hashes, rest)
       ELSE Fail("error")

IhfIdx(val, rest) ==
    IF ~data.is_static THEN IndexedEntry(IdMinus(hbrc.base_index, val), rest)
    ELSE /\ UsesNoEntry
         /\ IF val < Len(StaticTable)
            THEN HeaderOutEntry(StaticTable[val + 1],
                                {"QPACK_IDX", "NAME_HASH", "NAMEVAL_HASH"}, rest)
            ELSE Fail("error")

ReadIhfIdx == InCall("READ_IHF_IDX") /\ ReadInt(IhfIdx)

IpbiIdx(val, rest) == IndexedEntry(IdPlus(hbrc.base_index, val + 1), rest)

ReadIpbiIdx == InCall("READ_IPBI_IDX") /\ ReadInt(IpbiIdx)

NameOfEntry(id, rest) ==
    IF HasAbs(id)
    THEN /\ UsesEntry(id)
         /\ HeaderOutBeginNameref(EntryAbs(id),
              Never \cup EntryAbs(id).flags \cup (Hashes \ {"NAMEVAL_HASH"}), rest)
    ELSE UsesNoEntry /\ Fail("error")

LfinrIdx(val, rest) ==
    IF ~data.is_static THEN NameOfEntry(IdMinus(hbrc.base_index, val), rest)
    ELSE /\ UsesNoEntry
         /\ IF val < Len(StaticTable)
            THEN HeaderOutBeginNameref(StaticTable[val + 1],
                                       Never \cup {"QPACK_IDX", "NAME_HASH"}, rest)
            ELSE Fail("error")

ReadLfinrIdx == InCall("READ_LFINR_IDX") /\ ReadInt(LfinrIdx)

LfpbnrIdx(val, rest) == NameOfEntry(IdPlus(hbrc.base_index, val + 1), rest)

ReadLfpbnrIdx == InCall("READ_LFPBNR_IDX") /\ ReadInt(LfpbnrIdx)

LfonrNameLen(val, rest) ==
    /\ UsesNoEntry
    /\ IF val > MaxStrlen THEN Fail("refused")
       ELSE HeaderOutBeginLiteral(IF data.is_huffman THEN val + val \div 2 ELSE val,
              [data EXCEPT !.left = val, !.huff_st = HuffNew,
                           !.state = IF data.is_huffman THEN "READ_NAME_HUFFMAN"
                                     ELSE "READ_NAME_PLAIN"], rest)

ReadLfonrNameLen == InCall("READ_LFONR_NAME_LEN") /\ ReadInt(LfonrNameLen)

\* DATA_STATE_BEGIN_READ_VAL_LEN
BeginReadValLen ==
    /\ InCall("BEGIN_READ_VAL_LEN")
    /\ data' = [data EXCEPT !.is_huffman = Bit(buf[1], Top), !.int_st.resume = FALSE,
                            !.state = "READ_VAL_LEN"]
    /\ prefix_bits' = GroupBits
    /\ UNCHANGED <<given, out, ref_used, dyn_in_err, buf, wire, headers, status>>

\* Faulty: the bytes in use are not counted.
WithOutBytesInAll(extra) ==
    IF out.hdr.val_len < extra THEN Prepared(out.hdr, extra) ELSE {out.hdr}

\* guarantee_out_bytes
WithOutBytes(extra) ==
    IF DstSize < extra THEN Prepared(out.hdr, out.hdr.val_len + extra - DstSize)
    ELSE {out.hdr}

ValLen(val, rest) ==
    /\ UsesNoEntry
    /\ IF val > MaxStrlen THEN Fail("refused")
       ELSE IF val = 0 THEN HeaderOutWriteValue(<< >>, TRUE, data, rest)
       ELSE \E hdr \in WithOutBytes(IF data.is_huffman THEN val + val \div 2 ELSE val) :
              IF hdr = NoHdr THEN Fail("refused")
              ELSE Continue([data EXCEPT !.left = val, !.huff_st = HuffNew,
                               !.state = IF data.is_huffman THEN "READ_VAL_HUFFMAN"
                                         ELSE "READ_VAL_PLAIN"],
                            [out EXCEPT !.hdr = hdr], rest)

ReadValLen == InCall("READ_VAL_LEN") /\ ReadInt(ValLen)

\* A string that is not coded.
ReadPlain(Write(_, _, _, _)) ==
    LET size == Min({Len(buf), data.left}) IN
    /\ UsesNoEntry
    /\ IF size = 0 \/ size > DstSize THEN Fail("error")
       ELSE Write(SubSeq(buf, 1, size), size = data.left,
                  [data EXCEPT !.left = @ - size], Drop(buf, size))

\* A string that is coded: when it does not fit, what fits is written and the room
\* enlarged (header_out_grow_buf).
ReadHuffman(Write(_, _, _, _)) ==
    /\ UsesNoEntry
    /\ IF data.left = 0 THEN Fail("error")
       ELSE \E size \in { Min({Len(buf), data.left}) } :
            \E d \in { HuffDecode(SubSeq(buf, 1, size), DstSize, data.huff_st,
                                  data.left = size) } :
            \E s \in { [data EXCEPT !.huff_st = d.st, !.left = @ - d.n_src] },
               rest \in { Drop(buf, d.n_src) },
               o \in { [out EXCEPT !.hdr = Put(@, OffOf(out), d.dst),
                                  !.off = @ + Len(d.dst)] } :
                 CASE d.status = "OK"      -> Write(d.dst, s.left = 0, s, rest)
                   [] d.status = "END_SRC" -> Continue(s, o, rest)
                   [] d.status = "END_DST" ->
                        \E hdr \in Prepared(o.hdr, o.hdr.val_len
                                                   + Growth(o.hdr.val_len - OffOf(o))) :
                          IF hdr = NoHdr THEN Fail("refused")
                          ELSE Continue(s, [o EXCEPT !.hdr = hdr], rest)
                   [] OTHER -> Fail(IF d.status = "ERROR" THEN "error" ELSE "fault")

ReadNamePlain == InCall("READ_NAME_PLAIN") /\ ReadPlain(HeaderOutWriteName)
ReadNameHuffman == InCall("READ_NAME_HUFFMAN") /\ ReadHuffman(HeaderOutWriteName)
ReadValPlain == InCall("READ_VAL_PLAIN") /\ ReadPlain(HeaderOutWriteValue)
ReadValHuffman == InCall("READ_VAL_HUFFMAN") /\ ReadHuffman(HeaderOutWriteValue)

\* The end of the block: it is not in the middle of a line, and it has referred to
\* the entry of its Required Insert Count, if there is one, and else to none.
EndOfBlock ==
    /\ status = "ok"
    /\ buf = << >>
    /\ Size = 0
    /\ status' = IF /\ data.state = "NEXT_INSTRUCTION"
                    /\ hbrc.largest_ref = NoRef \/ ref_used
                    /\ ~dyn_in_err
                 THEN "done" ELSE "error"
    /\ UNCHANGED <<given, table, hbrc, data, out, ref_used, dyn_in_err, chunk, buf,
                   prefix_bits, wire, headers, rounds>>

\* A block that became unblocked is read on, and there is no more of it.
ReadNothing ==
    /\ status = "unblocked"
    /\ wire = << >>
    /\ status' = "done"
    /\ UNCHANGED <<given, table, hbrc, data, out, ref_used, dyn_in_err, chunk, buf,
                   prefix_bits, wire, headers, rounds>>

HLInit ==
    /\ opts \in Options
    /\ app \in Applications
    /\ block \in Blocks
    /\ \E late \in { IF block.late THEN 1 ELSE 0 } :
         /\ last_id = (block.newest + 2 * MaxEntries - late) % (2 * MaxEntries)
         /\ dyn_table = SubSeq(Entries, 1, Len(Entries) - late)
    /\ hbrc = HbrcNew
    /\ data = DataNew
    /\ out = OutNew
    /\ ref_used = FALSE
    /\ dyn_in_err = FALSE
    /\ chunk = << >>
    /\ buf = << >>
    /\ prefix_bits = Unset
    /\ \E bytes \in { BlockBytes } : wire = SubSeq(bytes, 1, Len(bytes) - block.cut)
    /\ orig_size = Len(wire)
    /\ headers = << >>
    /\ status = "ok"
    /\ rounds = 0

\* A round of the loop of parse_header_prefix.
ParseHeaderPrefix ==
    /\ rounds' = rounds + 1
    /\ ReadLargestRef \/ ReadDeltaBaseIdx
    /\ UNCHANGED table

\* A round of the loop of parse_header_data.
ParseHeaderData ==
    /\ rounds' = rounds + 1
    /\ \/ NextInstruction
       \/ ReadIhfIdx
       \/ ReadIpbiIdx
       \/ ReadLfinrIdx
       \/ ReadLfpbnrIdx
       \/ ReadLfonrNameLen
       \/ BeginReadValLen
       \/ ReadValLen
       \/ ReadNamePlain
       \/ ReadNameHuffman
       \/ ReadValPlain
       \/ ReadValHuffman
    /\ UNCHANGED <<table, hbrc, chunk>>

HLNext ==
    \/ \E n \in 1 .. Len(wire) : Deliver(n)
    \/ ReadHeader
    \/ PushEntry
    \/ ParseHeaderPrefix
    \/ ParseHeaderData
    \/ EndOfBlock
    \/ ReadNothing

HLSpec == HLInit /\ [][HLNext]_hlvars

-----------------------------------------------------------------------------
(***************************************************************************)
(* Properties.                                                             *)
(***************************************************************************)

\* What a line means: the entry it refers to, if there is one.
RefId(l) == IF l.ref.kind = "post" THEN (block.base + l.ref.idx + 1) % (2 * MaxEntries)
            ELSE (block.base + 2 * MaxEntries - l.ref.idx) % (2 * MaxEntries)
Age(id) == (block.newest + 2 * MaxEntries - id) % (2 * MaxEntries)
IsDynamic(l) == l.rep # "literal" /\ l.ref.kind # "static"
HasEntry(l) == CASE l.rep = "literal"        -> TRUE
                 [] l.ref.kind = "static"    -> l.ref.idx < Len(StaticTable)
                 [] OTHER                    -> Age(RefId(l)) < Len(Entries)
Entry(l) == IF l.ref.kind = "static" THEN StaticTable[l.ref.idx + 1]
            ELSE Entries[Len(Entries) - Age(RefId(l))]
Name(l) == IF l.rep = "literal" THEN l.name ELSE Entry(l).name
Value(l) == IF l.rep = "indexed" THEN Entry(l).val ELSE l.val

Lines == { block.lines[i] : i \in DOMAIN block.lines }
Refs == { RefId(l) : l \in { m \in Lines : IsDynamic(m) } }

\* The block is well formed.  It has a line, a name is not empty, and the Required
\* Insert Count takes at most one byte more than it has to.
Valid ==
    /\ block.cut = 0
    /\ block.lines # << >>
    /\ \/ block.ric = "exact"
       \/ /\ block.ric = "padded"
          /\ Len(RicBytes) <= Val2Len(2 * MaxEntries, ByteBits) + 1
    /\ \A l \in Lines : HasEntry(l) /\ l.coding # "garbled"
    /\ \A l \in Lines : l.rep = "literal" => l.name # << >>
    /\ IF block.largest_ref = NoRef THEN Refs = {} ELSE block.largest_ref \in Refs

\* The room that a line may take while it is read: coded strings are given half as
\* much again as they are long, and a header may begin anywhere in its buffer.
Room(l) ==
    LET Coded(str) == (3 * Max({EncStrSize(str), Len(str)}) + 1) \div 2 IN
    app.name_offset + Overhead
      + IF l.rep = "indexed" THEN Len(Name(l)) + Len(Value(l))
        ELSE Coded(Name(l)) + Coded(Value(l))

TooLong == \E l \in Lines : HasEntry(l) /\ Room(l) > MaxStrlen

\* The header says what the line means, in the layout and with the hash of the name
\* that the options ask for.
Says(hdr, l) ==
    /\ hdr.text = Name(l) \o Colon \o Value(l) \o Crlf
    /\ hdr.name_len = Len(Name(l))
    /\ hdr.val_offset = hdr.name_offset + Len(Name(l)) + Len(Colon)
    /\ hdr.val_len = Len(Value(l))
    /\ l.rep # "indexed" => ("NEVER_INDEX" \in hdr.flags <=> l.never)
    /\ Hashes # {} => "NAME_HASH" \in hdr.flags

\* A block without references has no base to count from.
HasBase(l) == IsDynamic(l) => block.largest_ref # NoRef

\* There is nothing in the block but its Required Insert Count.
OnlyRic == orig_size = Len(RicBytes)

\* However the block is cut into calls, whenever the entry it waits for comes and
\* however often memory is enlarged, the application is given the lines that were
\* sent, in order, and at the end all of them.  (A block without even a base, if it
\* had to wait, is not an error but one without lines.)
LinesExact ==
    /\ Len(headers) <= Len(block.lines)
    /\ \A i \in DOMAIN headers : HasBase(block.lines[i]) => Says(headers[i], block.lines[i])
    /\ status = "done" => \/ Valid /\ Len(headers) = Len(block.lines)
                          \/ OnlyRic /\ headers = << >>

\* A block is given up only if it is malformed, the application refuses it or it has
\* a line that is too long, and waits only if the table lacks what it refers to.
ErrorsReal ==
    CASE status = "refused" -> app.refuses \/ TooLong
      [] status = "error"   -> ~Valid \/ TooLong
      [] status = "blocked" -> /\ block.largest_ref # NoRef
                               /\ Age(block.largest_ref) \notin
                                    { Age(last_id) + i : i \in 0 .. Len(dyn_table) - 1 }
      [] OTHER              -> status \in {"ok", "unblocked", "done"}

\* Nothing is written past the memory that the application provided, and no header
\* is lost that has been begun.
OutInBounds ==
    /\ \A i \in DOMAIN headers : Len(headers[i].text) <= headers[i].size
    /\ out.hdr # NoHdr => /\ Len(out.hdr.text) <= out.hdr.size
                          /\ OffOf(out) <= out.hdr.val_len
    /\ status = "ok" /\ data.state = "NEXT_INSTRUCTION" => out.hdr = NoHdr

\* A block is read in a number of rounds that its size bounds, wherever it is cut: a
\* round takes input or enlarges memory, and memory that is enlarged is used.
RoundsBounded ==
    rounds <= 2 * orig_size
                + MapThenSumSet(LAMBDA i : IF HasEntry(block.lines[i])
                                           THEN Len(Name(block.lines[i]))
                                                  + Len(Value(block.lines[i]))
                                           ELSE 0, DOMAIN block.lines)
=============================================================================
