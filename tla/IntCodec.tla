------------------------------- MODULE IntCodec ------------------------------
(***************************************************************************)
(* Integers on the wire: a prefix of the first byte, then groups of        *)
(* GroupBits bits, least significant first, each in a byte of its own whose *)
(* top bit says that more follow.  The code's integers have 64 bits and its *)
(* groups 7; UintBits is one more than a multiple of GroupBits, as 64 is.   *)
(***************************************************************************)
EXTENDS Integers, Sequences, FiniteSetsExt

CONSTANTS UintBits, GroupBits

ASSUME IntCodecAssumption ==
    /\ {UintBits, GroupBits} \subseteq Nat \ {0}
    /\ UintBits % GroupBits = 1

More == 2 ^ GroupBits          \* 0x80
UintMod == 2 ^ UintBits

\* LSQPACK_UINT64_ENC_SZ
LongestInt == UintBits \div GroupBits + 2

\* lsqpack_val2len
Val2Len(value, prefix_bits) ==
    LET mask == 2 ^ prefix_bits - 1 IN
    1 + Quantify(0 .. UintBits \div GroupBits,
          LAMBDA k : value >= mask + (IF k = 0 THEN 0 ELSE 2 ^ (GroupBits * k)))

Groups[value \in Nat] ==
    IF value >= More
    THEN <<More + (value % More)>> \o Groups[value \div More]
    ELSE <<value>>

\* lsqpack_enc_int and lsqpack_enc_int_nocheck: the bytes, or nothing when they
\* do not fit.
EncInt(value, prefix_bits, room) ==
    LET mask == 2 ^ prefix_bits - 1
        bytes == IF value < mask THEN <<value>>
                 ELSE <<mask>> \o Groups[value - mask]
    IN IF Len(bytes) <= room THEN bytes ELSE << >>

\* struct lsqpack_dec_int_state
IntNew == [resume |-> FALSE, M |-> 0, nread |-> 0, val |-> 0]

\* The bytes from `first' up to `last' added to v0 as groups, the first of them
\* M0 bits up.
AddGroups(src, first, last, v0, M0) ==
    (v0 + MapThenSumSet(
            LAMBDA i : (src[i] % More) * 2 ^ (M0 + GroupBits * (i - first)),
            first .. last)) % UintMod

\* Faulty: a carry out of the highest bit is not noticed.
InRangeUnlessWide(M, byte, val) ==
    M <= UintBits - 1 \/ (M = UintBits - 1 + GroupBits /\ byte <= 1)

\* Whether the groups, of M bits together and the last of them `byte', gave an
\* integer that did not wrap around.
InRange(M, byte, val) ==
    \/ M <= UintBits - 1
    \/ /\ M = UintBits - 1 + GroupBits
       /\ byte <= 1
       /\ val >= UintMod \div 2

\* lsqpack_dec_int: r is the return value, n the number of bytes it takes when r
\* is zero.  A call that runs out of input keeps its state.
DecInt(src, prefix_bits, st) ==
    LET mask == 2 ^ prefix_bits - 1
        start == src[1] % (mask + 1)
        first == IF st.resume THEN 1 ELSE 2
        v0 == IF st.resume THEN st.val ELSE start
        M0 == IF st.resume THEN st.M ELSE 0
        MAt(i) == M0 + GroupBits * (i - first + 1)
        End[i \in 1 .. Len(src) + 1] ==
            IF i > Len(src) \/ src[i] < More \/ MAt(i) >= UintBits THEN i
            ELSE End[i + 1]
        out_of_input == End[first] > Len(src)
        last == IF out_of_input THEN Len(src) ELSE End[first]
        M == MAt(last)
        val == AddGroups(src, first, last, v0, M0)
        nread == (IF st.resume THEN st.nread ELSE 0) + Len(src)
    IN IF ~st.resume /\ start < mask THEN [r |-> 0, n |-> 1, val |-> start, st |-> st]
       ELSE IF out_of_input
       THEN IF nread < LongestInt
            THEN [r |-> -1, n |-> Len(src), val |-> 0,
                  st |-> [resume |-> TRUE, M |-> M, nread |-> nread, val |-> val]]
            ELSE [r |-> -2, n |-> 0, val |-> 0, st |-> st]
       ELSE IF InRange(M, src[last], val)
       THEN [r |-> 0, n |-> last, val |-> val, st |-> st]
       ELSE [r |-> -2, n |-> 0, val |-> 0, st |-> st]

\* lsqpack_dec_int24: the value is below the limit.
DecIntBelow(src, prefix_bits, st, limit) ==
    LET d == DecInt(src, prefix_bits, st) IN
    IF d.r = 0 /\ d.val >= limit THEN [d EXCEPT !.r = -2] ELSE d
=============================================================================
