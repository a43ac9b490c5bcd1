----------------------------- MODULE MCEncStream -----------------------------
(* EncStream for TLC: four-bit bytes and three symbols. *)
EXTENDS EncStream, TLC

MCCode == ("a" :> <<0, 0>>) @@ ("b" :> <<0, 1, 0>>)
            @@ ("z" :> <<1, 1, 1, 1, 1, 1, 1, 1, 0>>)
MCStaticNames == << <<"b">> >>

Static(idx) == [kind |-> "static", idx |-> idx]
Dynamic(idx) == [kind |-> "dynamic", idx |-> idx]
Literal(str) == [kind |-> "literal", str |-> str]
Insert(name, val, coding) ==
    [op |-> "insert", name |-> name, val |-> val, coding |-> coding]
Capacity(cap) == [op |-> "capacity", cap |-> cap]
Dup(idx) == [op |-> "dup", idx |-> idx]

Run(s, n) == [i \in 1 .. n |-> s]

\* Some entries fit the table and some are larger than it, and are accepted.
MCExecutable ==
    { Insert(Static(0), <<"a">>, "plain"),
      Insert(Dynamic(0), <<"a", "a", "a">>, "huffman"),
      Insert(Dynamic(1), << >>, "plain"),
      Insert(Literal(<< >>), << >>, "plain"),
      Insert(Literal(<<"b", "a">>), <<"a", "z", "a">>, "plain"),
      Insert(Literal(<<"a", "a">>), <<"z", "z">>, "huffman"),
      Dup(0), Capacity(4) }

\* An index or a length is not below IntLimit, or not below 2 ^ UintBits; a string is
\* malformed; an entry is not there; the capacity is above the limit.
MCRefused ==
    { Insert(Dynamic(8), << >>, "plain"), Dup(8),
      Insert(Static(0), Run("a", 7), "plain"), Insert(Literal(Run("a", 7)), << >>, "plain"),
      Insert(Literal(<< >>), Run("a", 7), "plain"), Capacity(255),
      Insert(Literal(<<"a">>), <<"b">>, "garbled"), Insert(Static(0), << >>, "garbled"),
      Insert(Static(1), << >>, "plain"), Capacity(7) }

MCInstructions == MCExecutable \cup MCRefused
=============================================================================
