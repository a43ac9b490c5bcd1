# A TLA+ verification of ls-qpack

ls-qpack is a C implementation of QPACK (RFC 9204), the header compression of
HTTP/3. An *encoder* turns lists of header fields into header blocks; a
*decoder* turns them back. Both keep a copy of a dynamic table of fields. Three
kinds of stream join them, and each is delivered in order but at its own pace:

- the **encoder stream** carries inserts, duplicates and capacity changes;
- the **request streams** carry header blocks, which refer to table entries;
- the **decoder stream** carries acknowledgements of blocks, Insert Count
  Increments (ICI) and cancellations of streams.

The library does no I/O and has no threads: an application calls it with bytes
and gets bytes and callbacks. What is hard is the order in which these calls
come. A block can arrive before the inserts it needs, an acknowledgement can
arrive in the middle of encoding another block, and an entry may be evicted
only when nothing in flight needs it. All of it is in `src/lsqpack.c`; line
numbers below refer to that file.

## Inventory

| Part | State | Operations | What is hard |
|---|---|---|---|
| Header-block bookkeeping of the encoder (318-400, 1037-1339, 2240-2370) | header infos in slot arrays, list of all and of risked ones, same-stream rings, counter of streams at risk, current header | start, encode, end and cancel a block; Header Ack, ICI, Stream Cancel | instructions that arrive inside a block; several blocks a stream; a counter of streams over a list of blocks |
| Dynamic table of the encoder (879-1035, 1376-1600, 2199-2238) | entries, bytes used, bytes dropped, cached least referenced ID | look up, insert, evict, copy, set capacity | eviction against references; wrap-around of `qpe_dropped`; the loop that copies draining entries |
| Program selection (1342-1375, 1600-2196) | none of its own | `lsqpack_enc_encode` | some forty cases; a copy may evict its original; restart after a failure |
| History and moving averages of the encoder (402-479, 931-990) | ring of hashes, two averages | add, resize, look up | resizing a ring that has wrapped |
| Dynamic table of the decoder (2593-2800, 4350-5040) | ring buffer of counted entries, last ID, state of the reader | insert, name reference, duplicate, set capacity, clean up | IDs modulo twice the entries; instructions cut anywhere; an entry that lends its name and is evicted; memory that runs out |
| Header blocks of the decoder (3520-4385) | one read context per block, blocked list and counter | header in, header read, cancel, unref | blocking decided once and used later; modular comparison; limit on blocked streams |
| Decoder stream, sending side (4200-4240, 4405-4530) | largest known ID | Header Ack, ICI, Cancel | what two ends count from |
| Integers and strings (767-876, 2371-2460, 3443-3517) | parser states | encode, decode, resume | overflow, resuming at any byte |
| Huffman coding (5085-5466, `huff-tables.h`) | parser states | encode, decode, resume | two decoders that must agree; a path without bounds checks; an uninitialised register |
| Prefix, lines and output of fields (2990-3440, 3550-4111) | the application's buffer, state of the reader | `parse_header_prefix`, `parse_header_data`, `header_out_*` | growing the buffer; blocks cut anywhere; blocking in the middle of a call |
| Static table, hashes, `lsxpack_header.h`, tools, tests | none | | |

`PROJECT.json` lists the same parts with their status, and the hazards of each
at the line where they bite.

## Modules

| Module | Models |
|---|---|
| `HeaderInfos` | the encoder's bookkeeping of header blocks |
| `HeaderInfosLemmas` | lemmas about its operators, and that each of its actions keeps the inductive invariant |
| `Encoder` | `HeaderInfos` with the dynamic table and program selection |
| `LibraryFacts` | the facts about numbers and finite sets that the lemmas below assume |
| `Arithmetic` | proofs of these facts |
| `EncoderLemmas` | lemmas about the table and about the programs selected |
| `EncoderProofs` | each action of `Encoder` keeps its inductive invariant, and the theorems about `HeaderInfos` and `Encoder` |
| `Decoder` | the decoder's table, header blocks and reports |
| `Session` | `Decoder` with an abstract encoder and the streams between them |
| `SessionEncoder` | lemmas about wrapped IDs and what is in flight; what the encoder sends keeps the inductive invariant of `Session` |
| `SessionReports` | so do the decoder's reports, sent or taken, and streams that are given up |
| `SessionProofs` | so does the decoder when it takes an instruction or reads a block, and the theorems about `Session` |
| `RingBuf`, `RingBufProofs` | the ring buffer that holds the decoder's table, and theorems about it |
| `IntCodec`, `Huffman` | integers with a prefix; Huffman coding |
| `Literals` | integers and string literals from writer to reader; the reader of the decoder stream |
| `Wire` | what instructions and lines are made of on the wire |
| `TableSpec` | what a decoder promises of its dynamic table |
| `EncStream` | the reader of the encoder stream down to bytes and memory; implements `TableSpec` |
| `HeaderLines` | the reader of a header block down to bytes, and the output of fields |
| `MCHeaderInfos`, `MCEncoder`, `MCSession`, `MCLiterals`, `MCEncStream`, `MCHeaderLines` | instances for TLC |

The modules look at the decoder at two levels. `Decoder` and `Session` take
instructions and lines whole and have the order of events: IDs, blocking,
acknowledgements, two ends. `EncStream` and `HeaderLines` take one reader each
and have what happens inside a call: bytes, buffers, memory.

A definition marked *Faulty* is the one after it with a plausible mistake. No
behaviour uses these definitions; each shows which property would notice.

### HeaderInfos

`all_hinfos` and `risked_hinfos` are the two lists. A header info's field
`older` holds the slots before it on `qpe_all_hinfos`, so that `First` is what a
walk of a list meets first. `same` is `qhi_same_stream_id`. Slots come from
arrays of `ArrSlots`, allocated when the memory guard of `enc_alloc_hinfo`
allows; `malloc()` may fail. `MemGuard` is FALSE for an application that lifts the
guard (`LSQPACK_ENC_OPT_NO_MEM_GUARD`): then only `malloc()` limits the arrays, and
`MaxArrs` is the bound of the model.

Each API call is an action. The calls that loop (`lsqpack_enc_encode` over
`qenc_dup_draining`, the updates of the risked list, the cancellation of a
stream's blocks) take one step per round. `call` says which loop is running,
and no other call starts before it ends: the library is not reentrant here.
`fault` is set when an assertion fails, a list operation is applied to an
element that is not on the list, or a walk along a ring would not end.

`Encode` leaves open which program is executed, within what the code's guards
allow: it may insert, refer to the new entry and refer to an older one.

`MidHeader` and `OneBlockPerStream` describe the application: the decoder
instructions it delivers while a block is open, and whether it sends more than
one block (trailers, pushes) on a stream. `lsqpack.h` forbids neither.

### Encoder

`table` holds the entries by absolute ID together with `qpe_cur_bytes_used` and
`qpe_dropped`; the latter wraps around at `Word`. `refs` is a history variable:
the IDs the lines of each block really hold. `Programs` is the set of programs
`lsqpack_enc_encode` can select for a field: it follows the cases of the code
(static match, one or two full matches, static name, dynamic name, no match).
What the history, the compression ratio and the moving averages decide is left
open. Each action of `Encoder` contains the action of `HeaderInfos` of the same
name, and `EncoderImplementsHeaderInfos` proves that `Encoder` implements
`HeaderInfos`.

### Decoder

IDs are numbers below `2 * MaxEntries`, with `IdPlus` and `IdMinus` for the
macros `ID_PLUS` and `ID_MINUS`. A block arrives in pieces (Required Insert
Count, Delta Base, lines) and a call is given any number of them; `hbrcs[b].at`
is how far it has read. `HeaderProcess` follows the code's order: the checks of
the prefix, the one test of `qdec_in_future`, the lines, and at the end the
flags that `check_dyn_table_errors` has set, the acknowledgement and
`qpd_largest_known_id`. An entry takes one unit of capacity.

### Session

The encoder of `Session` keeps absolute IDs and does what `Encoder` is shown to
do: it evicts only entries that are acknowledged and unreferenced (`RefsLive`,
`UnackedLive`), refers to entries it holds (`ProgramsSafe`) and keeps the
streams at risk within the limit (`RiskBounded`). `Wire` is the conversion of
IDs into the encoded Required Insert Count, Base and indices; `means` carries
along what the encoder meant, to compare with what the decoder looks up. Other
fields are history that only the invariant reads: `ids` has the absolute IDs of
the lines, and an instruction has the encoder's insert count, oldest entry and
capacity before it (`at`) and the entry it makes (`entry`; the decoder uses that
of a plain insert only). The
encoder changes its capacity only when it evicts nothing in use, because
`lsqpack_enc_set_max_capacity` does not check.

The application of the decoder stops reading while the decoder stream is full
(`MaxReports`); it may cancel a stream, or drop a block with
`lsqpack_dec_unref_stream` without telling the encoder. After a cancellation
was received the name of the stream stands for a new one. `Uses` selects the
operations a run includes.

### IntCodec, Huffman and Literals

The widths are constants: groups of `GroupBits` bits for the code's 7, integers
of `UintBits` for its 64 (one more than a multiple of `GroupBits`, which the
range check of `lsqpack_dec_int` relies on), bytes of `ByteBits`, words of
`WordBytes`, and any prefix-free `Code`. The three generated tables of
`huff-tables.h` (`decode_tables`, `hencs`, `hdecs`) are defined from `Code` by
what their rows mean.

`Huffman` has the encoder with its register, whose initial contents are an
argument because the code does not initialise it, and its loop over pairs; the
decoder by half bytes (`HuffDecodeFull`) with the states it resumes from; and the
decoder by two bytes (`FastLoop` and what follows) with the path that does not
look at the end of the buffer, the byte boundary it goes back to, and the hand-over
to the other decoder. A store or a read out of bounds, and a failed assertion,
are results of their own (`OVERRUN`, `ASSERT`). `Literals` writes a literal with
`lsqpack_enc_enc_str`, or takes any bytes, and reads them in pieces of any size
with a buffer that is enlarged on request. It also has the loop of
`lsqpack_enc_decoder_in`, which finds the instructions in any bytes of the decoder
stream; `HeaderInfos` has what its handlers do, and here a handler may fail.

### EncStream and TableSpec

A step is one round of the loop of `lsqpack_dec_enc_in`, one action for each state
of the reader. `heap` holds the entries by address with their reference counts and
the room they were given; any `malloc` or `realloc` may fail. `prefix_bits` is
local to a call, and beginning an integer without setting it would be noticed.
`Cleanup` is `lsqpack_dec_cleanup` between any two calls, after a failure too.
The table lives in a `RingBuf`, fresh or one that was used and emptied.

`TableSpec` is the abstract table: a sequence of names and values; instructions
are executed in order and whole, or refused for a reason. `TableImplemented`
states that `EncStream` implements it when the ring is read as a sequence,
addresses as the names and values they hold, and the instructions sent and not yet
executed as `todo`. Unblocking of header blocks, which an insertion also does,
is in `Decoder`.

### HeaderLines

`ReadHeader` is the loop of `qdec_read_header`, which gives the reader one byte at
a time until the Required Insert Count is known (`max_to_read`). `ReadLargestRef`
and `ReadDeltaBaseIdx` are the states of `parse_header_prefix`; then comes one
action for each state of `parse_header_data`, with the `header_out_*` functions they
call. `chunk` is the input of the application's call and `buf` what the reader was
given of it; when the block is blocked, the rest of `chunk` goes back to `wire`. The
properties compare with what the peer meant (`block.largest_ref`, `block.base`),
the actions use what was read (`hbrc`). The header is the memory
that `dhi_prepare_decode` gives: `size` is what was given, and `val_len` says it
to the code until the header is complete. `Applications` says what the
application does: how far into its buffer a header begins, how much more than
asked for it gives, and whether it refuses. It keeps its contract and never gives
less; `header_out_grow_buf`, which checks that, fails as if it had refused. The newest entry of the table may come
between any two calls (`PushEntry`) and ends the wait for it; `Session` has evictions
and many blocks.

## Runs

| Run | Instance | Shows |
|---|---|---|
| `hinfos_blocks` | 2 streams, at most 1 at risk, 2 inserts, 3 arrays of 1 slot, capacities 1 and 5 | list, rings and counter stay consistent over any order of blocks and instructions; the proof's invariant holds; every block on the risked list leaves it |
| `hinfos_cancel_open` | cancellation inside a block | **violation** of `InProgressKept` |
| `hinfos_stale_other` | acknowledgement inside a second block of a stream | **violation** of `RiskBounded` |
| `encoder_table` | 2 streams, 2 fields, entry sizes 2 and 3, capacity 6, 5 inserts, one array of 2 header infos and no memory guard | no entry in use or unacknowledged is evicted, programs are safe (also in blocks that get no header info), blocks cover their references |
| `encoder_mid_header` | acknowledgements and increments inside blocks, one block a stream, 3 fields, entry sizes 2 and 4, capacities 4 and 6, 4 inserts, all flags | the stale cached minimum is harmless; accounts stay exact through wrap-around and capacity changes; the copies a call makes stay; the invariants of both proofs hold |
| `encoder_no_dyn` | fields encoded with `LQEF_NO_DYN` | **violation** of `NoDynUntouched` |
| `session_wrap` | 1 stream, 2 entries (IDs modulo 4), 5 inserts, 2 lines, capacities 0 and 2 | every line gets the entry that was meant, nothing fails, blocking is exact, acknowledgements do not run ahead |
| `session_streams` | 2 streams, 1 may block, 3 inserts | the count of blocked streams survives cancellations and abandoned blocks; the proof's invariant holds; every block the decoder has begun ends |
| `session_report_lost` | 1 stream | **violation** of `NoReportLost` |
| `enc_stream` | 3 instructions of 18 kinds, 10 of them not executable, bytes of 4 bits, capacity 6, a ring of 3 slots at first | the reader implements `TableSpec`; memory, capacity and bounds are exact, whatever fails and wherever the stream is cut |
| `header_lines` | blocks of 1 or 2 lines of 18 kinds, complete, cut short or only a prefix, with their newest entry early or late, bytes of 6 bits, IDs modulo 64, 3 sets of options, 4 applications | the lines arrive as they were sent, errors and waits are real, output stays in its buffer, reading ends |
| `literals` | integers of 5 bits in groups of 2, 3 code words of 2, 3 and 9 bits, bytes of 4 bits | strings are read back, integers, Huffman-coded strings and decoder-stream instructions have their meaning or are refused, nothing overruns |

**Bounds.** In `hinfos_blocks` two streams with a limit of one give a stream
that must not be put at risk; three slots allow rings of two blocks with one
block of the other stream, and the pool runs out and grows. In the `encoder`
runs the capacity of 6 holds two or three entries, so that every insert past
the third evicts, 80% and 20% thresholds fall between entries, and the modulus
of 7 makes `qpe_dropped` wrap after three evictions; an entry of size 4 fills the
smaller capacity, so that one call can copy an entry and then its copy. In `session_wrap` IDs start
at the last value before the wrap-around and wrap again at the fifth insert;
with two entries and four IDs the past and the future windows touch, which is
where the modular comparison could fail. `session_streams` needs two streams so
that a block that is cancelled or abandoned leaves a place that the other takes.
Symmetry over streams is used in runs without liveness.

In `enc_stream` two insertions fill the ring, in one piece or wrapped around, and
the third makes it grow; some entries are larger than the capacity; the nine-bit code word
makes a coded string longer than a plain one, and the two-bit one shorter, so that
entries grow and are too long in both ways. In `header_lines` two lines show what
the first leaves behind, and `MaxStrlen` is within reach; the IDs lie where they wrap
around and where the encoded Required Insert Count begins to take two bytes, and
one base is so far away that its distance takes two. In `literals` the
integers range over all inputs of up to three bytes and a selection up to five
bytes, one more than an integer may have; the strings fill the encoder's
register and end at every bit of it; the Huffman inputs reach both decoders and
every hand-over. The narrow widths keep the relations that matter: two bytes hold
three of the shortest code words, the longest is longer than two bytes, and a
word holds several indices.

Deadlock is not checked in `encoder_mid_header`, whose application sends one block
a stream and may have no stream left, nor in `enc_stream`, `header_lines` and
`literals`, which stop when all is read.

**Fairness.** `HFairness`: a call that has started goes on to its end (weak
fairness of the loop steps, which nothing can disable); the application ends
the blocks it starts, and the peer acknowledges the blocks it has (strong
fairness, because open blocks disable the delivery of instructions).
`SFairness`: bytes on the two instruction streams are delivered and read (weak
fairness of `EncIn` and `PeerDecoderIn`), and the application calls
`lsqpack_dec_header_read` for a block that has input or was reported unblocked
(strong fairness, because a full decoder stream stops it now and then). Nothing
is assumed of new inserts, new blocks, increments or cancellations.

## Disagreements between code and documentation

- **A Stream Cancellation inside its own block** (`hinfos_cancel_open`).
  `enc_proc_stream_cancel` (2348) frees every header info of the stream, also
  the one of the block being encoded, which later lines and
  `lsqpack_enc_end_header` use. `enc_proc_header_ack` has the guard (2266), and
  `test/test_enc_header_ack.c` says why; the scenario
  `test/scenarios/cancel-stream.sce` has a cancellation in the middle of a block.
- **A stale `other_at_risk`** (`hinfos_stale_other`). It is read when a block
  starts (1115) and trusted when the block ends (1180, 1543). If the block it
  points to is acknowledged in between, the new block is put at risk without
  being counted, and more streams can block than the peer allowed
  (`lsqpack.h:673`).
- **`LQEF_NO_DYN` and `LQEF_NO_INDEX`** (`encoder_no_dyn`). The loop over
  draining entries (2175) runs whatever the flags, so the table is modified and
  the encoder stream written to, which `lsqpack.h:191` and `lsqpack.h:207` rule
  out.
- **Increments taken for duplicates** (`session_report_lost`). The decoder
  counts increments from a number that acknowledgements advance, the encoder
  (2312) from one that they do not. New reports are dropped as a "duplicate
  ICI". The encoder only knows less than it could: `KnownCovers` shows that it
  never assumes more than the decoder has.

Some smaller observations have no run. With only `LSQPACK_DEC_OPT_HASH_NAMEVAL`,
`header_out_write_value` tests `LSQPACK_DEC_OPT_HASH_NAME` instead (3305), so that
literal lines get no hash of name and value although `lsqpack.h` promises it;
`LinesExact` asks for the hash of the name only. And `header_out_write_value`
counts the room for the end of a line from the beginning of the buffer, not of the
header, so that it may ask for more than it needs; `ErrorsReal` allows for that.
An integer that takes as many bytes as the longest but has a small value is
refused (`IntsExact` says exactly which), and an empty literal name is an error in
a header block but not on the encoder stream. A block that ends with its Required
Insert Count is an error, but if it had to wait it is done, without lines: when it
is read on, nothing of it is left, and the loop of `qdec_read_header` (4090) does not
look at the state of the parser. `LinesExact` names this case (`OnlyRic`). A block
that is only a prefix is always an error.

## Proofs

The lemmas that need remainders, least elements or cardinalities assume `Facts`,
which `LibraryFacts` states and `Arithmetic` proves from the library's theorems
(`FactsHold`): with those in scope every step is checked more slowly. `EncoderProofs`
and `SessionProofs` discharge the assumption, and no listed theorem has it. A lemma
that one action needs is a named step of its proof (`<1>BlockSent`).

*Header blocks.* `HeaderInfosLemmas` and `EncoderProofs` prove, for any streams,
limits, numbers of slots, arrays and inserts:

> `Disciplined => (HSpec => []HInv)`

and from it `HTypeOK`, `NoFault`, `RiskBounded`, `StreamsAtRiskCounted`,
`RiskedListExact`, `RingPerStream` and `InProgressKept`. `Disciplined` is the
assumption on the application that the two violations show to be needed: it
keeps decoder instructions out of open blocks, or it sends one block a stream
and keeps cancellations out of open blocks. The other assumptions are the types
of the constants and that `MaxArrs` is what the memory guard allows, where there is
a guard (`ArraysAssumption`).

*The inductive invariant.* None of these properties is inductive alone. The
limit on streams depends on the counter, the counter on the rings (a block
that is alone on its ring is the last of its stream), and the rings on
`other_at_risk`, which must point into the ring that the new block joins.
`HInv` therefore says together: IDs are bounded by the insert count and by each
other (`IdsInv`); the risked list holds the finished blocks at risk, except
during an update, when it may also hold some that no longer are (`RiskedInv`);
`other_at_risk` is a risked block of the current stream, or that stream has none
and the counter has room if the block is at risk (`CurHeaderInv`); and a loop's
cursor points to an allocated block that is off the risked list (`CallInv`).

*Rings.* "One ring a stream" is stated without recursion: `same` is injective on
the risked blocks, stays within a stream, and a set of blocks closed under `same`
contains the whole stream of each of its members. The lemmas `RingRemoval` and
`RingInsertion` show that unlinking and inserting a block keep this; they use a
closed set of the new ring to build one of the old. `UnlinkCorrect` connects
them to `qenc_remove_from_risked_list` and shows that its loop finds the
predecessor, that its assertions hold and that the counter stays exact. The rest
has one lemma an action, combined in `HInvInductive`.

*The encoder.* `EncoderProofs` proves, for any fields and sizes, capacities, flags,
width of `qpe_dropped` and number of inserts:

> `Disciplined => (ESpec => [](HInv /\ EInv))`
>
> `Disciplined => (ESpec => HSpec)`

The second says that the encoder, with its table and its selection of programs,
implements `HeaderInfos`: `Encode` of `HeaderInfos` inserts and refers as it likes
within what the guards allow, and every program that `Programs` selects stays within
that. It needs the invariant, because a selected entry must be one that was
inserted. What is proved of `HeaderInfos` therefore holds of the encoder. From the
first follow `ETypeOK`, `TableExact`, `RefsBracketed`, `ProgramsSafe`, `CopiesStay`
and the action property `EvictionSafe`. `RefsLive` and `UnackedLive` follow for
behaviours in which the capacity never shrinks (`Growing`, a hypothesis of these two
only): `lsqpack_enc_set_max_capacity` evicts whatever does not fit, in use or not.
The assumptions on the constants are that `qpe_dropped` can count beyond the greatest
capacity, that entries have a positive overhead, and that the sizes of fields are
those of their names and values (`FieldsAssumption`, `SizesAssumption`).

*Its inductive invariant.* The properties lean on each other. That a program is
safe depends on the offsets of entries: `HasRoom` computes the bytes that can be
evicted from one entry's offset, and eviction stops by the same offsets. Offsets
are differences modulo `Word`, and they are exact only because all of them are below
the capacity (`OffsetsInv`): `Packed` says that entries lie one after the other, and
the lemmas `PushPacked` and `RemovePacked` show that inserting and evicting keep
this while the modulus wraps (`ModOfDifference`). `SizesInv` is needed where a copy
takes its size from the field and the room for it from the entry. That an entry in
use is not evicted needs three more facts: each block's `qhi_min_id` is no greater
than what its lines refer to (`RefsInv`), the cached minimum is no greater than the
`qhi_min_id` of any other block, although blocks may have been acknowledged since
(`CachedInv`), and nothing that a call copies is acknowledged before it ends
(`LoopInv`). `EvictableUnused` puts these together, `InsertCorrect`, `RemoveCorrect`
and `ProgramExecuted` say what a step does to the table, and each action then has
one lemma, combined in `EInvInductive`.

A stronger form of `CopiesStay` did not survive its proof. One call was thought to
copy each entry at most once, and on small instances it does. But a copy can become
the oldest entry without a younger copy before the call returns: with a capacity of
20 and acknowledged entries of 4 and 12 bytes, the small one is copied, the large one
is copied, and then the copy of the small one is copied. The loop still ends: copies
stay, since they are not acknowledged, and there is room for finitely many.

*Two ends.* `SessionProofs` proves, for any number of entries, streams, lines a
block, blocks a stream, inserts and instructions in flight, any limit on blocked
streams and any capacities:

> `SSpec => []SInv`

and from it `NoMisread`, `NoError`, `BlockedExact`, `KnownCovers` and `STypeOK`. So
an encoder that does what `Encoder` is proved to do and this decoder understand each
other, in whatever order the streams deliver: the decoder's arithmetic modulo twice
the entries recovers every entry that was meant, although it is done when the block
is read and not when it was sent. The assumptions are the types of the constants, at
least one entry, and finitely many streams (`DecoderAssumption`,
`SessionAssumption`).

*Its inductive invariant.* What the two ends know differs by what is in flight, so
each conjunct of `SInv` relates an end to a stream. Each instruction in flight leads
from the table before it to the table before the next, the first starts from the
decoder's table and the last ends at the encoder's (`StreamInv`); and what the
encoder has in an entry is what the decoder holds in it or is being sent for it
(`ContentsInv`). The header infos of a stream are, oldest first, those whose
acknowledgements are in flight and those of the blocks in transit that refer to
entries (`CountOk`), and each covers the references of its block (`BlockOk`). The
encoder evicts nothing that a header info covers, and the decoder's table follows
the encoder's, so an entry that a block in transit refers to is held, or will be,
when the block is read (`WireHeld`). Increments in flight add up to no more than the
decoder has (`IcisOk`, with a witness for what the decoder knew at each of them), and
a stream's acknowledgements come before its cancellation (`AcksOk`).

*Wrapped IDs.* The entries a block refers to lie less than `MaxEntries` behind the
newest that the encoder has, and the decoder has evicted none of them. The lemma
`IdDistance` says that `ID_MINUS` of two IDs is the distance of their entries if that
is less than the modulus, and `FutureIff` that the window of `qdec_in_future` is exact:
of the entries within `MaxEntries` of the newest received, those in the future are the
ones that have not arrived. A block that waits has a header info that is not
acknowledged, so its stream is at risk (`WaitingAtRisk`), and the encoder's limit on
streams at risk bounds the blocks that are blocked (`BlockedAtRisk`); this is why the
decoder refuses none of them. `EncInInv` shows
what an instruction does to the table, `ReadBlockInv` what reading a piece of a block
does, and `PeerDecoderInInv` that a report finds the header info it is about.

*The ring buffer.* `RingBufProofs` proves, for any size of the first array and any
elements, that `ringbuf_add` appends to the sequence the ring stands for
(`RingAddAppends`), that `ringbuf_get_head` counts from its end
(`RingGetHeadFromLast`), and that `ringbuf_advance_tail` takes its oldest elements
(`RingAdvancedDrops`). The argument compares slots: with the modulus reduced to one
subtraction (`ModOnce`), an element's slot before and after growth is known in each
of the two ways of growing (`GrownKeeps`), and the new element goes where the
sequence ends (`AddToRoom`). These are the facts about the ring on which
`TableImplemented` rests.

*Only model-checked.* Liveness (`RiskEnds`, `ContextsEnd`) and anything about
ENABLED is out of the prover's reach, as are RECURSIVE operators and induction
with a formula as its parameter. (A least counterexample can be had from the
well-foundedness of the naturals, for one formula at a time: `LeastExists`.)
`Huffman` has RECURSIVE operators, so nothing is proved of it or of the
modules that use it: what the codecs compute, and that `EncStream` implements
`TableSpec`, is model-checked. That the copying loop ends is proved as far as
`CopiesStay` goes; counting the copies would be a liveness argument. The properties
of `HeaderLines` are model-checked for the same reason as those of `EncStream`: the
reader calls the Huffman decoder.

## Not modelled

- The contents of generated tables: the perfect hashes of the static table, and
  that the rows of `huff-tables.h` are what `Huffman` says they are. These are most
  of the repository's lines (136,247 of 145,332), and a model could only copy them;
  this is why the share of source lines behind definitions is small.
- xxhash, the history ring and the moving averages: what they answer decides how
  well fields are compressed, and every answer is explored.
- Logging, the wording and offsets of error reports, the tools and the tests.
- `Encoder` and `Decoder` in one model: `Encoder` has half a million states in
  each of its runs and `Session` a million, and the product would have to be
  explored. `Session` uses the promises of `Encoder` instead.
- An application that calls back into the decoder from `dhi_unblocked`, and a
  decoder-stream buffer too short for an acknowledgement, are listed as hazards
  without a property: the header file asks for a buffer that is long enough, and
  says nothing of reentrant calls.

## Plan

1. That `Encoder` implements the encoder of `Session`: the promises are proved of
   each, the step from one to the other is not.
2. Blocked blocks in the order of their list, with an application that drops
   other blocks in `dhi_unblocked`.
