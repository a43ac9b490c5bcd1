---------------------------- MODULE MCHeaderLines ----------------------------
(* HeaderLines for TLC: six-bit bytes and three symbols. *)
EXTENDS HeaderLines, TLC

MCCode == ("a" :> <<0, 0, 0>>) @@ ("b" :> <<0, 1, 0, 1>>)
            @@ ("z" :> <<1, 1, 1, 1, 1, 1, 1, 1, 1, 1, 1, 1, 0>>)
MCStaticTable == << [name |-> <<"b">>, val |-> <<"a">>] >>
MCEntries == << [name |-> <<"a">>, val |-> <<"z">>, flags |-> {"QPACK_IDX"}],
                [name |-> <<"b">>, val |-> <<"b">>, flags |-> {}],
                [name |-> <<"a">>, val |-> << >>, flags |-> {}],
                [name |-> <<"a">>, val |-> <<"z">>, flags |-> {}] >>

Ref(kind, idx) == [kind |-> kind, idx |-> idx]
Indexed(ref) == [rep |-> "indexed", ref |-> ref, val |-> << >>, coding |-> "plain"]
NameRef(ref, val, coding, never) ==
    [rep |-> "nameref", ref |-> ref, val |-> val, coding |-> coding, never |-> never]
Literal(name, val, coding, never) ==
    [rep |-> "literal", ref |-> Ref("none", 0), name |-> name, val |-> val,
     coding |-> coding, never |-> never]

MCLines ==
    { Indexed(Ref("static", 0)), Indexed(Ref("dynamic", 0)), Indexed(Ref("post", 0)),
      NameRef(Ref("static", 0), <<"a", "a", "a", "a", "a">>, "huffman", TRUE),
      NameRef(Ref("dynamic", 2), <<"b", "a">>, "plain", FALSE),
      NameRef(Ref("post", 0), << >>, "plain", FALSE),
      Literal(<<"a", "a", "a", "a">>, <<"b">>, "huffman", TRUE),
      Literal(<<"b">>, <<"a", "a", "a">>, "plain", FALSE) }

MCOddLines ==
    { Indexed(Ref("static", 1)), Indexed(Ref("dynamic", 3)), Indexed(Ref("post", 40)),
      NameRef(Ref("static", 3), << >>, "plain", TRUE),
      NameRef(Ref("post", 1), <<"a">>, "plain", TRUE),
      NameRef(Ref("static", 0), <<"a">>, "garbled", TRUE),
      Literal(<< >>, <<"a">>, "plain", FALSE),
      Literal(<<"z">>, <<"z">>, "garbled", FALSE),
      NameRef(Ref("static", 0), [i \in 1 .. 13 |-> "a"], "plain", FALSE),
      Literal([i \in 1 .. 13 |-> "a"], << >>, "plain", FALSE) }

\* The table ends with ID 0, after 61, 62 and 63, or with ID 62.  An encoded Required
\* Insert Count is two more than its ID and takes two bytes from 63 on.
MCBase == 63

\* Blocks of up to two lines, with the references they have or others.
LargestOf(lines) ==
    LET ids == { CASE lines[i].ref.kind = "dynamic" -> MCBase - lines[i].ref.idx
                   [] lines[i].ref.kind = "post"    -> MCBase + lines[i].ref.idx + 1
                   [] OTHER                         -> 0 : i \in DOMAIN lines }
    IN IF ids \subseteq {0} THEN NoRef ELSE Max(ids) % (2 * MaxEntries)
Block(lines, ref, cut) ==
    [lines |-> lines, largest_ref |-> ref, base |-> MCBase, cut |-> cut, late |-> FALSE,
     ric |-> "exact", padding |-> 0, newest |-> 0]
Late(b) == [b EXCEPT !.late = TRUE]
Earlier(b) ==
    [b EXCEPT !.newest = 62, !.base = 61,
              !.largest_ref = IF @ = NoRef THEN NoRef ELSE (@ + 62) % 64]
Padded(b, n) == [b EXCEPT !.ric = "padded", !.padding = n]

MCOneLine == { Block(<<l>>, LargestOf(<<l>>), 0) : l \in MCLines }
MCOldest == Block(<<NameRef(Ref("dynamic", 2), << >>, "plain", FALSE)>>, 61, 0)
MCBlocks ==
    { Block(<<l, m>>, LargestOf(<<l, m>>), 0) : l \in MCLines, m \in MCLines }
      \cup { Block(<<l>>, r, 0) : l \in MCLines, r \in {NoRef, 63, 0, 1} }
      \cup { Block(<<l>>, LargestOf(<<l>>), 1) : l \in { m \in MCLines : m.val # << >> } }
      \cup { Block(<<l>>, LargestOf(<<l>>), 0) : l \in MCOddLines }
      \cup { Late(b) : b \in MCOneLine }
      \cup { Late(Earlier(b)) : b \in MCOneLine }
      \cup { Block(<< >>, r, c) : r \in {NoRef, 61, 0}, c \in 0 .. 1 }
      \cup { Late(Earlier(Block(<< >>, 0, 1))) }
      \cup { Padded(MCOldest, n) : n \in 1 .. 3 }
      \cup { [MCOldest EXCEPT !.ric = "excess"] }
      \* The base is far from the largest reference.
      \cup { [Block(<<Indexed(Ref("post", 31))>>, 0, 0) EXCEPT !.base = 32, !.late = l]
               : l \in BOOLEAN }

MCOptions == { {}, {"HASH_NAMEVAL"}, {"HTTP1X", "HASH_NAME"} }
App(name_offset, extra, refuses) ==
    [name_offset |-> name_offset, extra |-> extra, refuses |-> refuses]
MCApplications == { App(0, 0, FALSE), App(3, 0, FALSE), App(0, 5, FALSE), App(0, 0, TRUE) }
=============================================================================
