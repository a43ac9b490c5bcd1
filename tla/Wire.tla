-------------------------------- MODULE Wire ---------------------------------
(***************************************************************************)
(* What instructions and field lines are made of on the wire: a first byte  *)
(* that holds an opcode above the prefix of an integer, more of the integer *)
(* and strings.                                                             *)
(***************************************************************************)
EXTENDS IntCodec, Huffman

Top == 2 ^ GroupBits    \* 0x80; 0x40 and 0x20 are a half and a quarter of it

WithOpcode(opcode, bytes) == <<opcode + bytes[1]>> \o Tail(bytes)

\* A string literal, coded or not as the peer likes, or with padding that is too
\* long.
StringBytes(flag, bits, str, coding) ==
    LET payload == CASE coding = "plain"   -> str
                     [] coding = "huffman" -> HuffmanEnc(str, SetTo(<< >>))
                     [] OTHER              -> <<Ones(ByteBits)>>
    IN WithOpcode(IF coding = "plain" THEN 0 ELSE flag,
                  EncInt(Len(payload), bits, LongestInt)) \o payload

Bit(byte, mask) == (byte \div mask) % 2 = 1
=============================================================================
