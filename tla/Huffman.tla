------------------------------- MODULE Huffman -------------------------------
(***************************************************************************)
(* Huffman coding of strings.  A code word is a sequence of bits and a byte *)
(* is a sequence of ByteBits bits.  The widths and the code are constants:  *)
(* the code's are eight-bit bytes, eight-byte words and the code of RFC     *)
(* 7541, whose shortest code word has five bits.                            *)
(*                                                                         *)
(* The tables of huff-tables.h are generated from the code.  What their     *)
(* rows hold is defined here from the code, too.                            *)
(***************************************************************************)
EXTENDS Integers, SequencesExt, FiniteSetsExt

CONSTANTS
    Code,         \* encode_table: the code word of each symbol
    ByteBits,
    WordBytes,    \* sizeof(uintptr_t)
    PairBits      \* width of henc.code

Symbols == DOMAIN Code
CodeLengths == { Len(Code[s]) : s \in Symbols }
SHORTEST_CODE == Min(CodeLengths)
LongestCode == Max(CodeLengths)
WordBits == WordBytes * ByteBits
IndexBits == 2 * ByteBits
Ones(n) == [i \in 1 .. n |-> 1]

\* EOS, the code word that no string holds, is all ones.  Half a byte ends at
\* most one code word, and the two bytes of an index may hold three.
ASSUME HuffmanAssumption ==
    /\ ByteBits % 2 = 0
    /\ ByteBits \div 2 <= SHORTEST_CODE
    /\ 3 * SHORTEST_CODE <= IndexBits
    /\ WordBytes >= 4
    /\ \A s, t \in Symbols : IsPrefix(Code[s], Code[t]) => s = t
    /\ \A s \in Symbols : ~IsPrefix(Code[s], Ones(LongestCode))

CodeBits(str) == FlattenSeq([i \in 1 .. Len(str) |-> Code[str[i]]])

\* The bits as bytes: their number is a multiple of ByteBits.
Bytes(bits) ==
    [i \in 1 .. Len(bits) \div ByteBits |->
        SubSeq(bits, (i - 1) * ByteBits + 1, i * ByteBits)]
Bits(bytes) == FlattenSeq(bytes)

-----------------------------------------------------------------------------
(***************************************************************************)
(* Encoding.                                                               *)
(***************************************************************************)

\* qenc_enc_str_size
EncStrSize(str) ==
    LET bits == Len(CodeBits(str)) IN
    bits \div ByteBits + (IF bits % ByteBits # 0 THEN 1 ELSE 0)

\* A register: shifting to the left brings in zeroes, and a value that is or-ed
\* in meets what is there.
ShiftLeft(reg, n) == SubSeq(reg, n + 1, WordBits) \o [i \in 1 .. n |-> 0]
OrLow(reg, bits) ==
    [i \in 1 .. WordBits |->
        IF i > WordBits - Len(bits) /\ bits[i - (WordBits - Len(bits))] = 1
        THEN 1 ELSE reg[i]]
SetTo(bits) == [i \in 1 .. WordBits - Len(bits) |-> 0] \o bits

\* Faulty: the register is filled up with the end of the code word.
PutCodeEndFirst(e, code) ==
    IF e.used + Len(code) < WordBits
    THEN [e EXCEPT !.bits = OrLow(ShiftLeft(@, Len(code)), code),
                   !.used = @ + Len(code)]
    ELSE LET room == WordBits - e.used IN
         [bits |-> SetTo(code), used |-> Len(code) - room,
          dst  |-> e.dst \o Bytes(OrLow(ShiftLeft(e.bits, room),
                                        SubSeq(code, Len(code) - room + 1, Len(code))))]

\* Add the code word `code' to the register, and write the register out when it
\* is full.  e holds bits, bits_used and what was written.
PutCode(e, code) ==
    IF e.used + Len(code) < WordBits
    THEN [e EXCEPT !.bits = OrLow(ShiftLeft(@, Len(code)), code),
                   !.used = @ + Len(code)]
    ELSE LET room == WordBits - e.used IN
         [bits |-> SetTo(code), used |-> Len(code) - room,
          dst  |-> e.dst \o Bytes(OrLow(ShiftLeft(e.bits, room),
                                        SubSeq(code, 1, room)))]

\* hencs: the code words of two symbols as one, when it is short enough.
PairCode(str) == Code[str[1]] \o Code[str[2]]

\* The first loop takes two symbols at a time.  It begins a word only when more
\* symbols are left than a word holds, and goes on until the word is full or a
\* pair has no entry in hencs.
RECURSIVE EncodePairs(_, _)
EncodePairs(e, str) ==
    LET begins == e.fresh => Len(str) > WordBits \div SHORTEST_CODE + 2 IN
    IF ~begins \/ Len(PairCode(str)) > PairBits THEN <<e, str>>
    ELSE LET code == PairCode(str)
             full == e.used + Len(code) >= WordBits
             next == PutCode([bits |-> e.bits, used |-> e.used, dst |-> e.dst],
                             code)
         IN EncodePairs([bits |-> next.bits, used |-> next.used,
                         dst |-> next.dst, fresh |-> full],
                        SubSeq(str, 3, Len(str)))

\* qenc_huffman_enc.  The register starts with whatever is there.
HuffmanEnc(str, uninit) ==
    LET pairs == EncodePairs([bits |-> uninit, used |-> 0, dst |-> << >>,
                              fresh |-> TRUE], str)
        e == FoldLeft(LAMBDA a, s : PutCode(a, Code[s]),
                      [bits |-> pairs[1].bits, used |-> pairs[1].used,
                       dst |-> pairs[1].dst], pairs[2])
        adj == ((e.used + ByteBits - 1) \div ByteBits) * ByteBits
        padded == OrLow(ShiftLeft(e.bits, adj - e.used), Ones(adj - e.used))
    IN IF e.used = 0 THEN e.dst
       ELSE e.dst \o Bytes(SubSeq(padded, WordBits - adj + 1, WordBits))

-----------------------------------------------------------------------------
(***************************************************************************)
(* Decoding half a byte at a time.  The state between two halves is the    *)
(* part of a code word that was read.                                      *)
(***************************************************************************)

\* Faulty: padding of a byte or more is accepted.
PaddingOfAnyLength(bits) == bits = Ones(Len(bits))

\* What a string that ends after these bits may be padded with.
Padding(bits) == Len(bits) < ByteBits /\ bits = Ones(Len(bits))

\* qdec_huff_dec4bits and decode_tables
Dec4Bits(state, half) ==
    LET bits == state \o half
        syms == { s \in Symbols : IsPrefix(Code[s], bits) }
        begun == \/ \E s \in Symbols : IsPrefix(bits, Code[s])
                 \/ Len(bits) < LongestCode /\ bits = Ones(Len(bits))
    IN IF syms # {}
       THEN LET s == CHOOSE x \in syms : TRUE IN
            [fail |-> FALSE, sym |-> <<s>>,
             state |-> SubSeq(bits, Len(Code[s]) + 1, Len(bits))]
       ELSE [fail |-> ~begun, sym |-> << >>, state |-> bits]

HuffNew == [resume |-> 0, state |-> << >>]

Retval(status, n_src, dst, st) ==
    [status |-> status, n_src |-> n_src, dst |-> dst, st |-> st]

Half(src, h) ==
    IF h % 2 = 0 THEN SubSeq(src[h \div 2 + 1], 1, ByteBits \div 2)
    ELSE SubSeq(src[h \div 2 + 1], ByteBits \div 2 + 1, ByteBits)

\* From half byte h on.  A full destination is noticed before the half byte that
\* may need it is looked at.
RECURSIVE FullLoop(_, _, _, _, _, _)
FullLoop(src, h, dst, dst_len, state, final) ==
    IF h = 2 * Len(src)
    THEN IF final
         THEN Retval(IF Padding(state) THEN "OK" ELSE "ERROR", Len(src), dst,
                     [resume |-> 1, state |-> state])
         ELSE Retval("END_SRC", Len(src), dst, [resume |-> 1, state |-> state])
    ELSE IF Len(dst) = dst_len
    THEN Retval("END_DST", h \div 2, dst,
                [resume |-> IF h % 2 = 0 THEN 2 ELSE 3, state |-> state])
    ELSE LET d == Dec4Bits(state, Half(src, h)) IN
         IF d.fail THEN Retval("ERROR", 0, << >>, HuffNew)
         ELSE FullLoop(src, h + 1, dst \o d.sym, dst_len, d.state, final)

\* lsqpack_huff_decode_full.  A decoder that stopped for want of room goes on
\* where it was without asking whether there is input.
HuffDecodeFull(src, dst_len, st, final) ==
    IF dst_len = 0 THEN Retval("END_DST", 0, << >>, st)
    ELSE IF st.resume \in {2, 3} /\ src = << >>
    THEN Retval("OVERRUN", 0, << >>, st)
    ELSE FullLoop(src, IF st.resume = 3 THEN 1 ELSE 0, << >>, dst_len,
                  IF st.resume = 0 THEN << >> ELSE st.state, final)

-----------------------------------------------------------------------------
(***************************************************************************)
(* Decoding two bytes at a time.                                           *)
(***************************************************************************)

\* hdecs: the symbols, three at most, whose code words the index holds whole.
RECURSIVE Hdec(_, _)
Hdec(index, out) ==
    LET syms == { s \in Symbols : IsPrefix(Code[s], index) } IN
    IF syms = {} \/ Len(out) = 3 THEN [out |-> out, bits |-> Len(CodeBits(out))]
    ELSE LET s == CHOOSE x \in syms : TRUE IN
         Hdec(SubSeq(index, Len(Code[s]) + 1, Len(index)), Append(out, s))

\* Faulty: room for three symbols is asked for whatever the index holds.
NoRoomForThree(dst, out, dst_len) == Len(dst) + 3 > dst_len
NoRoomFor(dst, out, dst_len) == Len(dst) + Len(out) > dst_len

\* Faulty: room for the symbols of one index is enough.
RoomForIndex(dst, dst_len) == dst_len - Len(dst) >= 3

\* There is room for all the symbols that the buffer can hold.
RoomForWord(dst, dst_len) == dst_len - Len(dst) >= WordBits \div SHORTEST_CODE

Drop(bits, n) == SubSeq(bits, n + 1, Len(bits))

\* Read bytes into the buffer: as many as fit when a word's worth is left, else
\* one by one.
Refill(src, pos, buf) ==
    LET space == (WordBits - Len(buf)) \div ByteBits
        n == Min({space, Len(src) - pos})
    IN [pos |-> pos + n, buf |-> buf \o Bits(SubSeq(src, pos + 1, pos + n))]

\* Undo symbols until the unread bits are whole bytes.
Rewound(pos, buf, dst) ==
    LET Unread(k) == Len(buf) + Len(CodeBits(SubSeq(dst, k + 1, Len(dst))))
        stops == { k \in 0 .. Len(dst) : Unread(k) % ByteBits = 0 \/ k = 0 }
        k == Max(stops)
    IN [aligned |-> Unread(k) % ByteBits = 0,
        pos |-> pos - Unread(k) \div ByteBits, dst |-> SubSeq(dst, 1, k)]

\* Label dst_ended
DstEnded(pos, buf, dst) ==
    LET r == Rewound(pos, buf, dst) IN
    Retval(IF r.aligned THEN "END_DST" ELSE "ASSERT", r.pos, r.dst, HuffNew)

\* Label slow_path
SlowPath(src, pos, buf, dst, dst_len, final) ==
    LET r == Rewound(pos, buf, dst)
        rv == HuffDecodeFull(Drop(src, r.pos), dst_len - Len(r.dst), HuffNew, final)
    IN IF ~r.aligned THEN Retval("ASSERT", 0, << >>, HuffNew)
       ELSE IF rv.status \in {"OK", "END_DST"}
       THEN Retval(rv.status, r.pos + rv.n_src, r.dst \o rv.dst, rv.st)
       ELSE rv

\* When the input has run out: the last symbols, then the padding.
LastBits(src, buf, dst, dst_len) ==
    LET index == buf \o Ones(IndexBits - Len(buf))
        h == Hdec(index, << >>)
        rest == Drop(buf, h.bits)
        Finish(left, out) ==
            Retval(IF Padding(left) THEN "OK" ELSE "ERROR", Len(src),
                   IF Padding(left) THEN out ELSE << >>, HuffNew)
    IN IF Len(buf) < SHORTEST_CODE THEN Finish(buf, dst)
       ELSE IF index = Ones(IndexBits) /\ Len(buf) < ByteBits
       THEN Retval("OK", Len(src), dst, HuffNew)
       ELSE IF h.bits > Len(buf) THEN Retval("ERROR", 0, << >>, HuffNew)
       ELSE IF NoRoomFor(dst, h.out, dst_len)
       THEN DstEnded(Len(src), buf, dst)
       ELSE IF h.out = << >> THEN Retval("ERROR", 0, << >>, HuffNew)
       ELSE Finish(rest, dst \o h.out)

\* The loop over the input.  Where there is room for all that the buffer can
\* hold, three symbols are stored whether or not there are three.
RECURSIVE FastLoop(_, _, _, _, _, _, _)
FastLoop(src, pos, buf, dst, dst_len, unchecked, final) ==
    IF Len(buf) >= IndexBits
    THEN LET h == Hdec(SubSeq(buf, 1, IndexBits), << >>) IN
         IF unchecked /\ Len(dst) + 3 > dst_len
         THEN Retval("OVERRUN", 0, << >>, HuffNew)
         ELSE IF ~unchecked /\ NoRoomFor(dst, h.out, dst_len)
         THEN DstEnded(pos, buf, dst)
         ELSE IF h.out = << >>
         THEN SlowPath(src, pos, buf, dst, dst_len, final)
         ELSE FastLoop(src, pos, Drop(buf, h.bits), dst \o h.out, dst_len,
                       unchecked, final)
    ELSE IF pos = Len(src) THEN LastBits(src, buf, dst, dst_len)
    ELSE LET r == Refill(src, pos, buf) IN
         FastLoop(src, r.pos, r.buf, dst, dst_len,
                  RoomForWord(dst, dst_len), final)

\* lsqpack_huff_decode
HuffDecode(src, dst_len, st, final) ==
    IF st.resume = 0 /\ final
    THEN FastLoop(src, 0, << >>, << >>, dst_len, FALSE, final)
    ELSE HuffDecodeFull(src, dst_len, st, final)
=============================================================================
