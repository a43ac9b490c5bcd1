------------------------------ MODULE EncStream ------------------------------
(***************************************************************************)
(* The decoder's reader of the encoder stream (lsqpack_dec_enc_in) down to  *)
(* bytes and memory: instructions arrive cut anywhere, entries live in a    *)
(* heap and are counted, the table is a ring buffer, and any allocation may *)
(* fail.  The decoder may be cleaned up between any two calls.              *)
(*                                                                         *)
(* A step is one round of the reader's loop over its input.  What an        *)
(* insertion does to insertion counts and blocked header blocks is in       *)
(* module Session.                                                          *)
(***************************************************************************)
EXTENDS Wire, RingBuf

CONSTANTS
    MaxCapacity, Overhead, StaticNames,
    IntLimit,       \* 2^24
    EmptyNameRoom,  \* room allocated for an entry whose name is empty, 16
    MaxInstructions, MaxQueue,
    Instructions,   \* what the peer may send
    AllocMayFail

VARIABLES
    rb, heap,       \* qpd_dyn_table, and the entries by their address
    cur_capacity, cur_max_capacity,
    es,             \* qpd_enc_state
    buf,            \* input of the call in progress
    prefix_bits,    \* local to the call, Unset at first
    wire,           \* bytes sent and not delivered
    sent,           \* instructions sent and not executed
    n_sent,
    status          \* how the last call ended

evars == <<rb, heap, cur_capacity, cur_max_capacity, es, buf,
           prefix_bits, wire, sent, n_sent, status>>
tablevars == <<rb, heap, cur_capacity, cur_max_capacity>>
peervars == <<wire, sent, n_sent>>

Unset == 99

\* The union of the reader's contexts, as it is before any instruction.
EsNew == [resume |-> "NEXT_INST", is_static |-> FALSE, is_huffman |-> FALSE,
          int_st |-> IntNew, huff_st |-> HuffNew, idx |-> 0, len |-> 0,
          reffed |-> None, entry |-> None, alloced |-> 0, nread |-> 0]

-----------------------------------------------------------------------------
(***************************************************************************)
(* The peer writes an instruction.                                          *)
(***************************************************************************)

InstructionBytes(i) ==
    CASE i.op = "capacity" ->
           WithOpcode(Top \div 4, EncInt(i.cap, GroupBits - 2, LongestInt))
      [] i.op = "dup" -> EncInt(i.idx, GroupBits - 2, LongestInt)
      [] i.op = "insert" /\ i.name.kind = "literal" ->
           WithOpcode(Top \div 2, StringBytes(Top \div 4, GroupBits - 2, i.name.str,
                                              i.coding))
             \o StringBytes(Top, GroupBits, i.val, i.coding)
      [] OTHER ->
           WithOpcode(Top + (IF i.name.kind = "static" THEN Top \div 2 ELSE 0),
                      EncInt(i.name.idx, GroupBits - 1, LongestInt))
             \o StringBytes(Top, GroupBits, i.val, i.coding)

\* What it sends during a call is for the next one, and after a failure for none.
PeerSends(i) ==
    /\ status = "ok"
    /\ buf = << >>
    /\ n_sent < MaxInstructions
    /\ Len(sent) < MaxQueue
    /\ n_sent' = n_sent + 1
    /\ sent' = Append(sent, i)
    /\ wire' = wire \o InstructionBytes(i)
    /\ UNCHANGED <<tablevars, es, buf, prefix_bits, status>>

\* lsqpack_dec_enc_in is called with the next n bytes.
Deliver(n) ==
    /\ status = "ok"
    /\ buf = << >>
    /\ buf' = SubSeq(wire, 1, n)
    /\ wire' = Drop(wire, n)
    /\ prefix_bits' = Unset
    /\ UNCHANGED <<tablevars, es, sent, n_sent, status>>

-----------------------------------------------------------------------------
(***************************************************************************)
(* Memory.                                                                 *)
(***************************************************************************)

NewAddr == Min({ a \in 1 .. Cardinality(DOMAIN heap) + 1 : a \notin DOMAIN heap })
With(h, a, e) == [x \in DOMAIN h \cup {a} |-> IF x = a THEN e ELSE h[x]]
Without(h, a) == [x \in DOMAIN h \ {a} |-> h[x]]

\* An entry for `room' characters that is being filled.
EntryNew(room, name_len) ==
    [refcnt |-> 0, room |-> room, name_len |-> name_len, name |-> << >>, val |-> << >>]
EntrySize(e) == e.name_len + Len(e.val) + Overhead

\* qdec_decref_entry
DecRef(h, a) ==
    IF h[a].refcnt = 1 THEN Without(h, a) ELSE [h EXCEPT ![a].refcnt = @ - 1]

\* qdec_get_table_entry_rel
EntryRel(idx) ==
    IF RingCount(rb) >= idx + 1 THEN RingGetHead(rb, idx + 1) ELSE None

\* The call ends with an error.
Fail(how) ==
    /\ status' = how
    /\ buf' = << >>
    /\ UNCHANGED <<prefix_bits, peervars>>

FailHere(how) == Fail(how) /\ UNCHANGED <<tablevars, es>>

\* The heap when the references of the table to the entries `gone' are dropped.
Released(h, gone) ==
    LET freed == { a \in gone : h[a].refcnt = 1 } IN
    [a \in DOMAIN h \ freed |->
       IF a \in gone THEN [h[a] EXCEPT !.refcnt = @ - 1] ELSE h[a]]

\* qdec_remove_overflow_entries and qdec_drop_oldest_entry: the ring, the heap and
\* cur_capacity when the oldest entries have gone, as many as the capacity asks for.
RemoveOverflow(r, h, cur, max) ==
    LET seq == RingSeq(r)
        Left(k) == cur - MapThenSumSet(LAMBDA i : EntrySize(h[seq[i]]), 1 .. k)
        n == Min({ k \in 0 .. Len(seq) : Left(k) <= max })
    IN [rb |-> RingAdvanced(r, n),
        cur |-> Left(n),
        heap |-> Released(h, { seq[i] : i \in 1 .. n })]

SetTable(t) == rb' = t.rb /\ heap' = t.heap /\ cur_capacity' = t.cur

\* The instruction is done.
Done(s) ==
    /\ es' = [s EXCEPT !.resume = "NEXT_INST", !.entry = None, !.reffed = None]
    /\ sent' = Tail(sent)

\* lsqpack_dec_push_entry of the entry at address a, which h holds, and what its
\* callers do with the result.  `rest' is the input that is left.
PushEntry(h, a, s, rest) ==
    \/ \E t \in { RemoveOverflow(RingAdd(rb, a), h,
                                 cur_capacity + EntrySize(h[a]), cur_max_capacity) } :
         /\ SetTable(t)
         /\ Done(s)
         /\ buf' = rest
         /\ UNCHANGED <<cur_max_capacity, prefix_bits, wire, n_sent, status>>
    \/ /\ AllocMayFail
       /\ RingFull(rb)
       /\ heap' = DecRef(h, a)
       /\ es' = [s EXCEPT !.entry = None, !.reffed = None]
       /\ Fail("nomem")
       /\ UNCHANGED <<rb, cur_capacity, cur_max_capacity>>

\* Memory is allocated for the entry e, the reader's state becomes s.
Allocate(e, s, rest) ==
    \/ /\ heap' = With(heap, NewAddr, e)
       /\ es' = [s EXCEPT !.entry = NewAddr]
       /\ buf' = rest
       /\ UNCHANGED <<rb, cur_capacity, cur_max_capacity, prefix_bits,
                      peervars, status>>
    \/ AllocMayFail /\ FailHere("nomem")

\* The reader goes on with state s and heap h.
Continue(h, s, rest) ==
    /\ heap' = h
    /\ es' = s
    /\ buf' = rest
    /\ UNCHANGED <<rb, cur_capacity, cur_max_capacity, prefix_bits, peervars,
                   status>>

-----------------------------------------------------------------------------
(***************************************************************************)
(* The reader, state by state.                                             *)
(***************************************************************************)

InCall(resume) == buf # << >> /\ es.resume = resume

\* DEI_NEXT_INST
NextInst ==
    /\ InCall("NEXT_INST")
    /\ LET s == [es EXCEPT !.int_st.resume = FALSE] IN
       IF Bit(buf[1], Top)
       THEN /\ es' = [s EXCEPT !.resume = "WINR_READ_NAME_IDX", !.reffed = None,
                               !.entry = None,
                               !.is_static = Bit(buf[1], Top \div 2)]
            /\ prefix_bits' = GroupBits - 1
       ELSE IF Bit(buf[1], Top \div 2)
       THEN /\ es' = [s EXCEPT !.resume = "WONR_READ_NAME_LEN", !.entry = None,
                               !.is_huffman = Bit(buf[1], Top \div 4)]
            /\ prefix_bits' = GroupBits - 2
       ELSE /\ es' = [s EXCEPT !.resume = IF Bit(buf[1], Top \div 4)
                                         THEN "SIZE_UPD_READ_IDX" ELSE "DUP_READ_IDX"]
            /\ prefix_bits' = GroupBits - 2
    /\ UNCHANGED <<tablevars, buf, peervars, status>>

\* lsqpack_dec_int24, lsqpack_dec_int: Then(val, rest) when the integer is whole.
\* An integer is not begun without the width of its prefix.
ReadInt(limit, Then(_, _)) ==
    \E d \in { IF es.int_st.resume \/ prefix_bits # Unset
               THEN DecIntBelow(buf, prefix_bits, es.int_st, limit)
               ELSE [r |-> -3] } :
      \/ d.r = 0 /\ Then(d.val, Drop(buf, d.n))
      \/ d.r = -1 /\ Continue(heap, [es EXCEPT !.int_st = d.st], << >>)
      \/ d.r < -1 /\ FailHere(IF d.r = -2 THEN "error" ELSE "unset prefix")

WinrHaveNameIdx(val, rest) ==
    LET ref == IF es.is_static THEN None ELSE EntryRel(val)
        s == [es EXCEPT !.idx = val, !.reffed = ref,
                        !.resume = "WINR_BEGIN_READ_VAL_LEN"]
    IN IF es.is_static
       THEN IF val < Len(StaticNames) THEN Continue(heap, s, rest) ELSE FailHere("error")
       ELSE IF ref # None
       THEN Continue([heap EXCEPT ![ref].refcnt = @ + 1], s, rest)
       ELSE FailHere("error")

WinrReadNameIdx ==
    /\ InCall("WINR_READ_NAME_IDX")
    /\ ReadInt(IntLimit, WinrHaveNameIdx)

\* DEI_WINR_BEGIN_READ_VAL_LEN and DEI_WONR_BEGIN_READ_VAL_LEN
BeginReadValLen(from, to) ==
    /\ InCall(from)
    /\ es' = [es EXCEPT !.is_huffman = Bit(buf[1], Top), !.int_st.resume = FALSE,
                        !.resume = to]
    /\ prefix_bits' = GroupBits
    /\ UNCHANGED <<tablevars, buf, peervars, status>>

\* A coded string is at most four times as long as what it decodes to.
TooLong(len, room) == len > room * (IF es.is_huffman THEN 4 ELSE 1)

WinrName == IF es.is_static THEN StaticNames[es.idx + 1] ELSE heap[es.reffed].name

\* The value is read: the name is copied, the reference to where it came from
\* dropped, and the entry inserted.
WinrInsertEntry(h, rest) ==
    LET h1 == [h EXCEPT ![es.entry].name = WinrName, ![es.entry].refcnt = 1]
        h2 == IF es.reffed = None THEN h1 ELSE DecRef(h1, es.reffed)
    IN PushEntry(h2, es.entry, es, rest)

\* An empty value is not waited for.
WinrHaveValLen(val, rest) ==
    LET name_len == Len(WinrName)
        alloced == IF es.is_huffman THEN val + val \div 2 ELSE val
        e == EntryNew(name_len + alloced, name_len)
        s == [es EXCEPT !.len = val, !.nread = 0, !.alloced = alloced]
    IN IF name_len > cur_max_capacity \/ TooLong(val, cur_max_capacity - name_len)
       THEN FailHere("error")
       ELSE IF val = 0
       THEN \/ LET a == NewAddr
                   h1 == With(heap, a, [e EXCEPT !.name = WinrName, !.refcnt = 1])
                   h2 == IF es.reffed = None THEN h1 ELSE DecRef(h1, es.reffed)
               IN PushEntry(h2, a, s, rest)
            \/ AllocMayFail /\ FailHere("nomem")
       ELSE Allocate(e, [s EXCEPT !.resume = IF es.is_huffman
                                             THEN "WINR_READ_VALUE_HUFFMAN"
                                             ELSE "WINR_READ_VALUE_PLAIN",
                                  !.huff_st = HuffNew], rest)

WinrReadValLen ==
    /\ InCall("WINR_READ_VAL_LEN")
    /\ ReadInt(IntLimit, WinrHaveValLen)

\* A string that is not coded: what there is of it is copied to field `fld' of the
\* entry, whose heap is h.
ReadPlain(h, s, fld, Complete(_, _)) ==
    LET size == Min({Len(buf), es.len - Len(heap[es.entry][fld])})
        h1 == [h EXCEPT ![es.entry][fld] = @ \o SubSeq(buf, 1, size)]
        rest == Drop(buf, size)
    IN IF Len(h1[es.entry][fld]) = es.len THEN Complete(h1, rest)
       ELSE Continue(h1, s, rest)

\* A string that is coded, `used' characters of whose room are not for it.
ReadHuffman(fld, used, Complete(_, _)) ==
    \E size \in { Min({Len(buf), es.len - es.nread}) } :
    \E d \in { HuffDecode(SubSeq(buf, 1, size),
                          es.alloced - used - Len(heap[es.entry][fld]), es.huff_st,
                          es.nread + size = es.len) } :
      LET h == [heap EXCEPT ![es.entry][fld] = @ \o d.dst]
          s == [es EXCEPT !.huff_st = d.st, !.nread = @ + d.n_src]
          rest == Drop(buf, d.n_src)
      IN \/ d.status = "OK" /\ Complete(h, rest)
         \/ d.status = "END_SRC" /\ Continue(h, s, rest)
         \/ /\ d.status = "END_DST"
            /\ \/ Continue([h EXCEPT ![es.entry].room = @ + es.alloced],
                           [s EXCEPT !.alloced = 2 * @], rest)
               \/ AllocMayFail /\ FailHere("nomem")
         \/ /\ d.status \notin {"OK", "END_SRC", "END_DST"}
            /\ FailHere(IF d.status = "ERROR" THEN "error" ELSE "fault")

WinrReadValuePlain ==
    InCall("WINR_READ_VALUE_PLAIN") /\ ReadPlain(heap, es, "val", WinrInsertEntry)

WinrReadValueHuffman ==
    InCall("WINR_READ_VALUE_HUFFMAN") /\ ReadHuffman("val", 0, WinrInsertEntry)

WonrHaveNameLen(val, rest) ==
    LET alloced == IF val = 0 THEN EmptyNameRoom ELSE val + val \div 2 IN
    IF TooLong(val, cur_max_capacity) THEN FailHere("error")
    ELSE Allocate(EntryNew(alloced, 0),
                  [es EXCEPT !.len = val, !.nread = 0, !.alloced = alloced,
                             !.huff_st = HuffNew,
                             !.resume = IF es.is_huffman THEN "WONR_READ_NAME_HUFFMAN"
                                        ELSE "WONR_READ_NAME_PLAIN"], rest)

WonrReadNameLen ==
    /\ InCall("WONR_READ_NAME_LEN")
    /\ ReadInt(IntLimit, WonrHaveNameLen)

\* The name is read.
WonrHaveName(h, rest) ==
    Continue([h EXCEPT ![es.entry].name_len = Len(h[es.entry].name)],
             [es EXCEPT !.resume = "WONR_BEGIN_READ_VAL_LEN"], rest)

WonrReadNamePlain ==
    InCall("WONR_READ_NAME_PLAIN") /\ ReadPlain(heap, es, "name", WonrHaveName)

WonrReadNameHuffman ==
    InCall("WONR_READ_NAME_HUFFMAN") /\ ReadHuffman("name", 0, WonrHaveName)

WonrInsertEntry(h, rest) ==
    PushEntry([h EXCEPT ![es.entry].refcnt = 1], es.entry, es, rest)

WonrHaveValLen(val, rest) ==
    LET name_len == heap[es.entry].name_len
        s == [es EXCEPT !.len = val, !.nread = 0]
    IN IF name_len > cur_max_capacity \/ TooLong(val, cur_max_capacity - name_len)
       THEN FailHere("error")
       ELSE IF val = 0
       THEN WonrInsertEntry(heap, rest)
       ELSE Continue(heap, [s EXCEPT !.resume = IF es.is_huffman
                                                THEN "WONR_READ_VALUE_HUFFMAN"
                                                ELSE "WONR_READ_VALUE_PLAIN",
                                     !.huff_st = HuffNew], rest)

WonrReadValLen ==
    /\ InCall("WONR_READ_VAL_LEN")
    /\ ReadInt(IntLimit, WonrHaveValLen)

WonrReadValueHuffman ==
    /\ InCall("WONR_READ_VALUE_HUFFMAN")
    /\ ReadHuffman("val", heap[es.entry].name_len, WonrInsertEntry)

\* Faulty: the entry is not given more room.
WonrReadValuePlainNoGrowth ==
    InCall("WONR_READ_VALUE_PLAIN") /\ ReadPlain(heap, es, "val", WonrInsertEntry)

\* The entry has the room that its name asked for, and is given more if its value
\* needs it.
WonrReadValuePlain ==
    /\ InCall("WONR_READ_VALUE_PLAIN")
    /\ LET need == heap[es.entry].name_len + es.len IN
       IF es.alloced >= need THEN ReadPlain(heap, es, "val", WonrInsertEntry)
       ELSE \/ ReadPlain([heap EXCEPT ![es.entry].room = need],
                         [es EXCEPT !.alloced = need], "val", WonrInsertEntry)
            \/ AllocMayFail /\ FailHere("nomem")

DupHaveIdx(val, rest) ==
    LET old == EntryRel(val) IN
    IF old = None THEN FailHere("error")
    ELSE \/ LET e == heap[old]
                h == With(heap, NewAddr,
                          [e EXCEPT !.refcnt = 1, !.room = e.name_len + Len(e.val)])
            IN PushEntry(h, NewAddr, es, rest)
         \/ AllocMayFail /\ FailHere("nomem")

DupReadIdx ==
    /\ InCall("DUP_READ_IDX")
    /\ ReadInt(IntLimit, DupHaveIdx)

\* Faulty: entries that the new capacity has no room for stay.
SizeUpdHaveSizeKeepsAll(val, rest) ==
    IF val > MaxCapacity THEN FailHere("error")
    ELSE /\ cur_max_capacity' = val
         /\ Done(es)
         /\ buf' = rest
         /\ UNCHANGED <<rb, heap, cur_capacity, prefix_bits, wire, n_sent, status>>

SizeUpdHaveSize(val, rest) ==
    IF val > MaxCapacity THEN FailHere("error")
    ELSE /\ \E t \in { RemoveOverflow(rb, heap, cur_capacity, val) } : SetTable(t)
         /\ cur_max_capacity' = val
         /\ Done(es)
         /\ buf' = rest
         /\ UNCHANGED <<prefix_bits, wire, n_sent, status>>

\* The new capacity is not limited to 24 bits.
SizeUpdReadIdx ==
    /\ InCall("SIZE_UPD_READ_IDX")
    /\ ReadInt(UintMod, SizeUpdHaveSize)

-----------------------------------------------------------------------------
(***************************************************************************)
(* The end of the decoder.                                                 *)
(***************************************************************************)

WINR == {"WINR_READ_NAME_IDX", "WINR_BEGIN_READ_VAL_LEN", "WINR_READ_VAL_LEN",
         "WINR_READ_VALUE_PLAIN", "WINR_READ_VALUE_HUFFMAN"}
WONR == {"WONR_READ_NAME_LEN", "WONR_READ_NAME_HUFFMAN", "WONR_READ_NAME_PLAIN",
         "WONR_BEGIN_READ_VAL_LEN", "WONR_READ_VAL_LEN", "WONR_READ_VALUE_HUFFMAN",
         "WONR_READ_VALUE_PLAIN"}

\* Faulty: the entry whose name is referred to keeps its reference.
EndInstructionReffedKept(h) ==
    IF es.resume \in WINR \cup WONR /\ es.entry # None THEN Without(h, es.entry) ELSE h

\* The part of an instruction that was read is forgotten.
EndInstruction(h) ==
    LET h1 == IF es.resume \in WINR \cup WONR /\ es.entry # None
              THEN Without(h, es.entry) ELSE h
    IN IF es.resume \in WINR /\ es.reffed # None THEN DecRef(h1, es.reffed) ELSE h1

\* lsqpack_dec_cleanup, between calls
Cleanup ==
    /\ buf = << >>
    /\ status # "closed"
    /\ status' = "closed"
    /\ rb' = RingNew
    /\ heap' = Released(EndInstruction(heap), Range(RingSeq(rb)))
    /\ es' = EsNew
    /\ UNCHANGED <<cur_capacity, cur_max_capacity, buf, prefix_bits, peervars>>

-----------------------------------------------------------------------------
\* A ring whose elements have all been taken out, the last one from its last slot.
RingEmptied ==
    [nalloc |-> RingInit, head |-> RingInit - 1, tail |-> RingInit - 1,
     els |-> [i \in 0 .. RingInit - 1 |-> None]]

\* lsqpack_dec_init, or a decoder that has been in use and whose table is empty.
EInit ==
    /\ rb \in {RingNew, RingEmptied}
    /\ heap = << >>
    /\ cur_capacity = 0
    /\ cur_max_capacity = MaxCapacity
    /\ es = EsNew
    /\ buf = << >>
    /\ prefix_bits = Unset
    /\ wire = << >>
    /\ sent = << >>
    /\ n_sent = 0
    /\ status = "ok"

\* A round of the loop of lsqpack_dec_enc_in.
EncIn ==
    \/ NextInst
    \/ WinrReadNameIdx
    \/ BeginReadValLen("WINR_BEGIN_READ_VAL_LEN", "WINR_READ_VAL_LEN")
    \/ WinrReadValLen
    \/ WinrReadValuePlain
    \/ WinrReadValueHuffman
    \/ WonrReadNameLen
    \/ WonrReadNamePlain
    \/ WonrReadNameHuffman
    \/ BeginReadValLen("WONR_BEGIN_READ_VAL_LEN", "WONR_READ_VAL_LEN")
    \/ WonrReadValLen
    \/ WonrReadValuePlain
    \/ WonrReadValueHuffman
    \/ DupReadIdx
    \/ SizeUpdReadIdx

ENext ==
    \/ \E i \in Instructions : PeerSends(i)
    \/ \E n \in 1 .. Len(wire) : Deliver(n)
    \/ EncIn
    \/ Cleanup

ESpec == EInit /\ [][ENext]_evars

-----------------------------------------------------------------------------
(***************************************************************************)
(* Properties.                                                             *)
(***************************************************************************)

Contents(a) == [name |-> heap[a].name, val |-> heap[a].val]

T == INSTANCE TableSpec WITH
       table <- [i \in 1 .. RingCount(rb) |-> Contents(RingSeq(rb)[i])],
       capacity <- cur_max_capacity,
       todo <- sent

\* However the stream is cut into calls, the reader executes the instructions one
\* at a time, in order and whole: the ring holds the names and values that were sent,
\* and an instruction is refused only if it cannot be executed.
TableImplemented == T!TSpec

Building == IF es.resume \in WINR \cup WONR THEN {es.entry} \ {None} ELSE {}
Reffed == IF es.resume \in WINR THEN {es.reffed} \ {None} ELSE {}

\* Every entry in memory is reachable: it is in the table, is being built, or
\* lends its name to the one being built; and its count is the number of the
\* references to it, so that it is freed when the last one goes and not before.
MemoryExact ==
    LET inTable == Range(RingSeq(rb)) IN
    /\ DOMAIN heap = inTable \cup Building \cup Reffed
    /\ Building \cap inTable = {}
    /\ \A a \in DOMAIN heap :
         heap[a].refcnt = Cardinality({ i \in 1 .. RingCount(rb) : RingSeq(rb)[i] = a })
                          + (IF a \in Reffed THEN 1 ELSE 0)

\* The reader writes no entry past the memory it has for it, whatever lengths the
\* literals declare and however often the entry grows.
InBounds ==
    \A a \in DOMAIN heap : Len(heap[a].name) + Len(heap[a].val) <= heap[a].room

\* qpd_cur_capacity is the size of what the table holds, between any two rounds.
CapacityExact ==
    status # "closed" =>
      /\ cur_capacity = MapThenSumSet(LAMBDA i : EntrySize(heap[RingSeq(rb)[i]]),
                                      1 .. RingCount(rb))
      /\ cur_capacity <= cur_max_capacity
=============================================================================
