------------------------------ MODULE MCLiterals -----------------------------
(* Literals for TLC: three symbols, bytes of four bits and words of four bytes. *)
EXTENDS Literals, TLC

MCCode == ("a" :> <<0, 0>>) @@ ("b" :> <<0, 1, 0>>)
            @@ ("z" :> <<1, 1, 1, 1, 1, 1, 1, 1, 0>>)

UpTo(S, n) == UNION { [1 .. k -> S] : k \in 0 .. n }

Run(s, n) == [i \in 1 .. n |-> s]

\* All short strings, and longer ones that make the encoder fill its register.
MCStrings ==
    UpTo(DOMAIN MCCode, 3)
      \cup { Run("a", i) \o Run("b", j) \o Run(s, 1) \o Run("a", k) :
               i \in {0, 1, 9}, j \in 0 .. 4, k \in {0, 2, 7}, s \in {"b", "z"} }

\* All short inputs, and longer ones made of fewer bytes.
MCIntInputs ==
    UNION { [1 .. k -> 0 .. 7] : k \in 1 .. 3 }
      \cup UNION { [1 .. k -> {0, 1, 4, 5, 7}] : k \in 4 .. 5 }

MCStreamInputs ==
    UNION { [1 .. k -> 0 .. 7] : k \in 1 .. 3 }
      \cup UNION { [1 .. k -> {0, 3, 5, 7}] : k \in 4 .. 5 }

Nibble == [1 .. 4 -> {0, 1}]
MCHuffInputs ==
    UNION { [1 .. k -> Nibble] : k \in 1 .. 2 }
      \cup UNION { [1 .. k -> { <<0, 0, 0, 1>>, <<0, 0, 1, 1>>, <<0, 1, 1, 1>>,
                               <<1, 1, 1, 1>>, <<1, 1, 1, 0>> }] : k \in 3 .. 5 }
=============================================================================
