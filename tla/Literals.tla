------------------------------- MODULE Literals ------------------------------
(***************************************************************************)
(* Integers and string literals from the encoder that writes them to the   *)
(* decoder that reads them in pieces.  The input of a decoder arrives in    *)
(* pieces of any size, and the room for a string is enlarged each time the  *)
(* Huffman decoder asks for it, as the readers of the encoder stream and of *)
(* header blocks do.                                                        *)
(*                                                                         *)
(* A behaviour reads one thing: a literal that lsqpack_enc_enc_str wrote,   *)
(* or any bytes as an integer, as a Huffman-coded string or as instructions *)
(* of the decoder stream.  What these do is in module HeaderInfos.          *)
(***************************************************************************)
EXTENDS IntCodec, Huffman

CONSTANTS
    PrefixWidths, \* widths of the prefix of an integer
    Strings,      \* strings that are written
    IntInputs,    \* byte sequences read as integers
    HuffInputs,   \* byte sequences read as Huffman-coded strings
    StreamInputs, \* byte sequences read as instructions
    Rooms,        \* room for a string at first
    Grow          \* by how much it is enlarged

ASSUME LiteralsAssumption ==
    /\ PrefixWidths \subseteq Nat \ {0}
    /\ Rooms \subseteq Nat
    /\ Grow \in Nat \ {0}

VARIABLES
    task,         \* what is read, and the width of its prefix
    src,          \* bytes that are not yet read
    phase,        \* what is read next, or how the reading ended
    int_st, val,  \* state of the integer decoder, and its result
    is_huffman,
    huff_st,      \* state of the Huffman decoder
    nread,        \* bytes of the string that are read
    room, out,    \* room for the string, and what of it is decoded
    handler,      \* qpe_dec_stream_state.handler
    calls         \* the handlers that were called, and with what

lvars == <<task, src, phase, int_st, val, is_huffman, huff_st, nread, room, out, handler,
           calls>>

-----------------------------------------------------------------------------
(***************************************************************************)
(* Writing.                                                                *)
(***************************************************************************)

\* lsqpack_enc_enc_str: the literal, or nothing if it does not fit.  The payload
\* goes where lsqpack_val2len says that the length ends.
EncStr(prefix_bits, dst_len, str, uninit) ==
    LET huffman == EncStrSize(str) < Len(str)
        size == IF huffman THEN EncStrSize(str) ELSE Len(str)
        len_size == Val2Len(size, prefix_bits)
        length == EncInt(size, prefix_bits, LongestInt)
        payload == IF huffman THEN HuffmanEnc(str, uninit) ELSE str
    IN IF len_size + size > dst_len THEN << >>
       ELSE [i \in 1 .. len_size + size |->
               IF i > len_size THEN payload[i - len_size]
               ELSE IF i = 1 /\ huffman THEN 2 ^ prefix_bits + length[1]
               ELSE length[i]]

Registers == { [i \in 1 .. WordBits |-> b] : b \in {0, 1} }

\* The fewest bytes a literal takes.
LiteralSize(prefix_bits, str) ==
    LET size == Min({EncStrSize(str), Len(str)}) IN
    size + Min({ n \in 1 .. LongestInt :
                   size < 2 ^ prefix_bits - 1 + (IF n = 1 THEN 0
                                                 ELSE 2 ^ (GroupBits * (n - 1))) })

-----------------------------------------------------------------------------
(***************************************************************************)
(* Reading.                                                                *)
(***************************************************************************)

Reads(t, bytes, first_phase) ==
    /\ task = t
    /\ src = bytes
    /\ phase = first_phase
    /\ int_st = IntNew
    /\ val = Len(bytes)
    /\ is_huffman = (first_phase = "payload")
    /\ huff_st = HuffNew
    /\ nread = 0
    /\ out = << >>
    /\ handler = "none"
    /\ calls = << >>

LInit ==
    /\ room \in Rooms
    /\ \/ \E p \in PrefixWidths, str \in Strings, u \in Registers, spare \in {-1, 0} :
            LET bytes == EncStr(p, LiteralSize(p, str) + spare, str, u) IN
            Reads([kind |-> "string", prefix |-> p, what |-> str, spare |-> spare],
                  bytes, IF bytes = << >> THEN "nospace" ELSE "length")
       \/ \E p \in PrefixWidths, bytes \in IntInputs :
            /\ room = Min(Rooms)
            /\ Reads([kind |-> "int", prefix |-> p, what |-> bytes], bytes, "length")
       \/ \E bytes \in HuffInputs :
            Reads([kind |-> "huffman", what |-> bytes], bytes, "payload")
       \/ \E bytes \in StreamInputs :
            /\ room = Min(Rooms)
            /\ Reads([kind |-> "dec_stream", what |-> bytes], bytes, "instruction")

\* is_huffman is set with the first byte and kept.
Coded(int_state, byte) ==
    IF int_state.resume THEN is_huffman ELSE byte >= 2 ^ task.prefix

\* Read an integer from the next n bytes.  A string's first byte says whether it
\* is coded.
ReadLength(n) ==
    /\ phase = "length"
    /\ LET d == DecInt(SubSeq(src, 1, n), task.prefix, int_st) IN
       /\ int_st' = d.st
       /\ src' = Drop(src, d.n)
       /\ val' = d.val
       /\ phase' = CASE d.r = -1 -> "length"
                     [] d.r = -2 -> "error"
                     [] task.kind = "int" \/ d.val = 0 -> "done"
                     [] OTHER -> "payload"
    /\ is_huffman' = (task.kind = "string" /\ Coded(int_st, src[1]))
    /\ UNCHANGED <<task, huff_st, nread, room, out, handler, calls>>

\* Copy what the next n bytes hold of a string that is not coded.
ReadPlain(n) ==
    /\ phase = "payload" /\ ~is_huffman
    /\ LET size == Min({n, val - Len(out)}) IN
       /\ out' = out \o SubSeq(src, 1, size)
       /\ src' = Drop(src, size)
       /\ phase' = IF Len(out) + size = val THEN "done" ELSE phase
    /\ UNCHANGED <<task, int_st, val, is_huffman, huff_st, nread, room, handler, calls>>

\* Decode what the next n bytes hold of a string that is coded.
ReadHuffman(n) ==
    /\ phase = "payload" /\ is_huffman
    /\ \E size \in { Min({n, val - nread}) } :
       \E d \in { HuffDecode(SubSeq(src, 1, size), room - Len(out), huff_st,
                             nread + size = val) } :
          /\ huff_st' = d.st
          /\ out' = out \o d.dst
          /\ src' = Drop(src, d.n_src)
          /\ nread' = nread + d.n_src
          /\ room' = IF d.status = "END_DST" THEN room + Grow ELSE room
          /\ phase' = CASE d.status = "OK" -> "done"
                        [] d.status \in {"END_SRC", "END_DST"} -> "payload"
                        [] d.status = "ERROR" -> "error"
                        [] OTHER -> "fault"
    /\ UNCHANGED <<task, int_st, val, is_huffman, handler, calls>>

\* 1xxx xxxx is a Header Acknowledgement, 00xx xxxx an Insert Count Increment and
\* 01xx xxxx a Stream Cancellation.
HandlerOf(byte) == CASE byte >= More         -> "header_ack"
                     [] byte < More \div 2    -> "ici"
                     [] OTHER                -> "stream_cancel"
PrefixOf(h) == IF h = "header_ack" THEN GroupBits ELSE GroupBits - 1

\* Faulty: each call looks for an opcode.
HandlerEachTime(byte) == HandlerOf(byte)

\* The handler is chosen with the first byte of an instruction and kept.
HandlerFor(byte) == IF int_st.resume THEN handler ELSE HandlerOf(byte)

\* A round of the loop of lsqpack_enc_decoder_in over the next n bytes.  A handler may
\* fail.
ReadInstruction(n) ==
    /\ phase = "instruction"
    /\ handler' = HandlerFor(src[1])
    /\ \E d \in { DecInt(SubSeq(src, 1, n), PrefixOf(handler'), int_st) } :
         /\ src' = Drop(src, d.n)
         /\ \/ /\ d.r = 0
               /\ calls' = Append(calls, [op |-> handler', val |-> d.val])
               /\ \/ phase' = phase /\ int_st' = IntNew
                  \/ phase' = "refused" /\ UNCHANGED int_st
            \/ d.r = -1 /\ int_st' = d.st /\ UNCHANGED <<calls, phase>>
            \/ d.r = -2 /\ phase' = "error" /\ UNCHANGED <<calls, int_st>>
    /\ UNCHANGED <<task, val, is_huffman, huff_st, nread, room, out>>

LNext ==
    \E n \in 1 .. Len(src) :
      ReadLength(n) \/ ReadPlain(n) \/ ReadHuffman(n) \/ ReadInstruction(n)

LSpec == LInit /\ [][LNext]_lvars

-----------------------------------------------------------------------------
(***************************************************************************)
(* What the bytes mean.                                                    *)
(***************************************************************************)

\* The string whose code words, then padding, are these bits.
RECURSIVE Parse(_)
Parse(bits) ==
    LET syms == { s \in Symbols : IsPrefix(Code[s], bits) } IN
    IF syms = {} THEN [ok |-> Len(bits) < ByteBits /\ \A i \in DOMAIN bits : bits[i] = 1,
                      str |-> << >>]
    ELSE LET s == CHOOSE x \in syms : TRUE
             rest == Parse(Drop(bits, Len(Code[s])))
         IN [ok |-> rest.ok, str |-> <<s>> \o rest.str]

\* The number of bytes up to the end of an integer, zero if it does not end, and
\* its value, however large.
IntSize(bytes, prefix_bits) ==
    LET ends == { i \in 2 .. Len(bytes) : bytes[i] < More } IN
    IF bytes[1] % (2 ^ prefix_bits) < 2 ^ prefix_bits - 1 THEN 1
    ELSE IF ends = {} THEN 0 ELSE Min(ends)
IntMeaning(bytes, prefix_bits) ==
    (bytes[1] % (2 ^ prefix_bits))
      + MapThenSumSet(LAMBDA i : (bytes[i] % More) * 2 ^ (GroupBits * (i - 2)),
                      2 .. IntSize(bytes, prefix_bits))

\* It has more than UintBits bits or more groups than a number of its size needs.
Unreadable(bytes, prefix_bits) ==
    LET size == IntSize(bytes, prefix_bits)
        meaning == IntMeaning(bytes, prefix_bits)
    IN \/ size = 0 /\ Len(bytes) > LongestInt - 1
       \/ meaning >= UintMod
       \/ size > LongestInt
       \/ size = LongestInt /\ meaning < UintMod \div 2

\* The instructions that the bytes begin with, up to one that is not complete or
\* whose integer is refused, and the bytes from there on.
RECURSIVE Instructions(_)
Instructions(bytes) ==
    LET op == HandlerOf(bytes[1])
        size == IntSize(bytes, PrefixOf(op))
        rest == Instructions(Drop(bytes, size))
    IN IF bytes = << >> THEN [done |-> << >>, rest |-> << >>]
       ELSE IF size = 0 \/ Unreadable(bytes, PrefixOf(op))
       THEN [done |-> << >>, rest |-> bytes]
       ELSE [done |-> <<[op |-> op, val |-> IntMeaning(bytes, PrefixOf(op))]>> \o rest.done,
             rest |-> rest.rest]

-----------------------------------------------------------------------------
(***************************************************************************)
(* Properties.                                                             *)
(***************************************************************************)

\* A string that lsqpack_enc_enc_str wrote is read back whole, in whatever pieces
\* it arrives and however often its buffer is enlarged; it is written unless it
\* does not fit in its shortest form.
StringsReadBack ==
    task.kind = "string" =>
      CASE phase = "done" -> out = task.what /\ src = << >>
        [] phase = "nospace" -> task.spare = -1
        [] OTHER -> phase \in {"length", "payload"}

\* lsqpack_dec_int returns the number that its bytes stand for, the same in
\* however many calls, takes no byte more, and refuses an integer only if it
\* has more than UintBits bits or more groups than a number of its size needs.
IntsExact ==
    task.kind = "int" =>
      LET size == IntSize(task.what, task.prefix)
          meaning == IntMeaning(task.what, task.prefix)
      IN CASE phase = "done" -> /\ size # 0
                                /\ val = meaning
                                /\ meaning < UintMod
                                /\ src = Drop(task.what, size)
           [] phase = "error" -> Unreadable(task.what, task.prefix)
           [] OTHER -> phase = "length"

\* However the decoder stream is cut into calls, the encoder's handlers are called for
\* the instructions it holds, in order, with their integers: for all of them when
\* all of it is read, and when it is given up for all those before the one at fault.
InstructionsExact ==
    task.kind = "dec_stream" =>
      LET meaning == Instructions(task.what) IN
      /\ IsPrefix(calls, meaning.done)
      /\ src = << >> /\ phase = "instruction" => calls = meaning.done
      /\ phase = "error" =>
           /\ calls = meaning.done
           /\ Unreadable(meaning.rest, PrefixOf(HandlerOf(meaning.rest[1])))

\* Both Huffman decoders give each sequence of bytes its meaning, and refuse those
\* that have none: the one that decodes two bytes at a time is used or not
\* depending on how the input is cut.
HuffmanExact ==
    task.kind = "huffman" =>
      LET meaning == Parse(Bits(task.what)) IN
      CASE phase = "done" -> meaning.ok /\ out = meaning.str
        [] phase = "error" -> ~meaning.ok
        [] OTHER -> IsPrefix(out, meaning.str)

\* No decoder stores beyond the room it was given, reads beyond its input, or
\* fails to find the byte it has to go back to.
NoOverrun == phase # "fault" /\ Len(out) <= Max({room, val})

\* Room is asked for only by a string that needs it, but for the padding of one
\* that fills its room: the decoder never asks again and again.
RoomNeeded ==
    is_huffman /\ room \notin Rooms =>
      room - Grow <= Len(IF task.kind = "string" THEN task.what
                         ELSE Parse(Bits(task.what)).str)
=============================================================================
