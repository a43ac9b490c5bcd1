------------------------------- MODULE Encoder -------------------------------
(***************************************************************************)
(* The QPACK encoder (src/lsqpack.c): HeaderInfos together with the        *)
(* dynamic table.  lsqpack_enc_encode looks a field up, selects a program  *)
(* (what to put on the encoder stream, in the header block and in the      *)
(* table), executes it, evicts what no longer fits and then copies entries *)
(* that are about to be evicted.                                           *)
(*                                                                         *)
(* Left open: whether a field is in the history, the compression ratio,    *)
(* the two moving averages that switch the copying on and off, the room in *)
(* the caller's buffers and whether malloc() succeeds.                     *)
(***************************************************************************)
EXTENDS HeaderInfos

CONSTANTS
    Fields,     \* header fields the application encodes
    Overhead,   \* DYNAMIC_ENTRY_OVERHEAD
    Word,       \* values of qpe_dropped: it wraps around at Word
    UseDup,     \* LSQPACK_ENC_USE_DUP
    Flags       \* flags the application gives lsqpack_enc_encode

\* A field's name and value, what each adds to the size of an entry (the
\* name's share includes the overhead), and what the static table has of it.
EmptyVal == 0

Field == [name : Nat, val : Nat, nsize : Nat, vsize : Nat,
          static : {"none", "name", "full"}]

ASSUME FieldsAssumption ==
    /\ Overhead \in Nat \ {0}
    /\ Word \in Nat /\ RealMaxCapacity < Word
    /\ UseDup \in BOOLEAN
    /\ Flags \subseteq {"none", "no_index", "no_dyn"}
    /\ Fields \subseteq Field
    /\ \A f \in Fields : /\ Overhead <= f.nsize
                         /\ {f.nsize, f.nsize + f.vsize} \subseteq EntrySizes

\* Sizes are those of the name and of the value.
ASSUME SizesAssumption ==
    /\ \A f \in Fields : f.val = EmptyVal => f.vsize = 0
    /\ \A f, g \in Fields : f.name = g.name =>
          f.nsize = g.nsize /\ (f.val = g.val => f.vsize = g.vsize)

VARIABLES
    table,        \* qpe_all_entries by ID, qpe_cur_bytes_used, qpe_dropped
    min_reffed,   \* qpe_cur_header.min_reffed, or NotCached
    flag,         \* flags of the lsqpack_enc_encode being executed
    loop_start,   \* insert count when that call entered its copying loop
    refs          \* IDs the lines of each block really reference

evars == <<hvars, table, min_reffed, flag, loop_start, refs>>

NotCached == -1

\* LQEF_NEVER_INDEX selects as LQEF_NO_INDEX does.  `hash' stands for
\* ete_nameval_hash: a name-only entry has the hash of the whole field.
Entry == [name : Nat, val : Nat, hash : Nat, size : Nat,
          added_used : Nat, added_dropped : Nat]

\* A table there can be after n inserts: the IDs have no gaps.
IsTable(t, n) ==
    \E i \in 1 .. n + 1 :
        t \in [entries : [i .. n -> Entry], used : Nat, dropped : 0 .. Word - 1]

Live == DOMAIN table.entries
Entries(k) == table.entries[k]

LeastOf(S) == CHOOSE x \in S : \A y \in S : x <= y

-----------------------------------------------------------------------------
(***************************************************************************)
(* The dynamic table.                                                      *)
(***************************************************************************)

\* Faulty: qpe_dropped is taken not to wrap around.
OffUnwrapped(t, k) ==
    t.entries[k].added_used - (t.dropped - t.entries[k].added_dropped)

\* Bytes that the entries older than entry k of table t occupy, as
\* qenc_duplicable_entry and qenc_entry_is_draining compute it.
Off(t, k) ==
    (t.entries[k].added_used - (t.dropped - t.entries[k].added_dropped)) % Word

\* lsqpack_enc_push_entry
PushEntry(t, id, name, val, hash, size) ==
    [entries |-> [k \in DOMAIN t.entries \cup {id} |->
                     IF k # id THEN t.entries[k]
                     ELSE [name |-> name, val |-> val, hash |-> hash,
                           size |-> size, added_used |-> t.used,
                           added_dropped |-> t.dropped]],
     used    |-> t.used + size,
     dropped |-> t.dropped]

\* Faulty: qpe_dropped is wider than it is.
RemoveOverflowWide(t, capacity) ==
    LET kept == { k \in DOMAIN t.entries : t.used - Off(t, k) <= capacity }
        bytes == IF kept = {} THEN 0 ELSE t.used - Off(t, LeastOf(kept))
    IN  [entries |-> [k \in kept |-> t.entries[k]],
         used    |-> bytes,
         dropped |-> t.dropped + (t.used - bytes)]

\* qenc_remove_overflow_entries: the oldest entries go until the rest fits.
RemoveOverflow(t, capacity) ==
    LET kept == { k \in DOMAIN t.entries : t.used - Off(t, k) <= capacity }
        bytes == IF kept = {} THEN 0 ELSE t.used - Off(t, LeastOf(kept))
    IN  [entries |-> [k \in kept |-> t.entries[k]],
         used    |-> bytes,
         dropped |-> (t.dropped + (t.used - bytes)) % Word]

-----------------------------------------------------------------------------
(***************************************************************************)
(* What may be evicted, referenced and copied.                             *)
(***************************************************************************)

\* qenc_min_reffed_id: the least ID any block references, 0 if none does.
LeastId(S) == IF S \ {0} = {} THEN 0 ELSE LeastOf(S \ {0})

MinOfAll == LeastId({ hinfos[h].min_id : h \in all_hinfos })

\* Faulty: the block being encoded does not count.
MinReffedIdOthers ==
    LeastId({ IF min_reffed = NotCached
              THEN LeastId({ hinfos[h].min_id :
                                h \in all_hinfos \ {cur_header.hinfo} })
              ELSE min_reffed })

MinReffedId ==
    LeastId({ IF min_reffed = NotCached THEN MinOfAll ELSE min_reffed }
            \cup (IF cur_header.hinfo = NULL THEN {}
                  ELSE {hinfos[cur_header.hinfo].min_id}))

\* Faulty: acknowledged is enough; or unreferenced is.
EvictableAcked(k) == k <= max_acked_id
EvictableUnreffed(k) == MinReffedId = 0 \/ k < MinReffedId

Evictable(k) == /\ MinReffedId = 0 \/ k < MinReffedId
                /\ k <= max_acked_id

\* qenc_has_or_can_evict_at_least
HasRoom(size) ==
    LET stay == { k \in Live : ~Evictable(k) }
        gone == IF stay = {} THEN table.used ELSE Off(table, LeastOf(stay))
    IN  size <= cur_max_capacity - table.used + gone

\* qenc_duplicable_entry: the table is at least 80% full with the copy, and the
\* entry is in the oldest 20% of it.
Duplicable(k) ==
    /\ UseDup
    /\ 10 * (table.used + Entries(k).size) >= 8 * cur_max_capacity
    /\ 5 * Off(table, k) < cur_max_capacity
    /\ HasRoom(Entries(k).size)

\* qenc_entry_is_draining
Draining(k) ==
    Off(table, k) + (cur_max_capacity - table.used) < cur_max_capacity \div 4

\* Faulty: the copy is not counted.
SafeToDupAlways(k) == table.used - Off(table, k) <= cur_max_capacity

\* qenc_safe_to_dup: the entry survives the insertion of its copy.
SafeToDup(k) ==
    table.used + Entries(k).size - Off(table, k) <= cur_max_capacity

CanRef(k) == CanRisk \/ k <= max_acked_id

-----------------------------------------------------------------------------
(***************************************************************************)
(* Selecting a program (struct encode_program).  `found' is the entry of   *)
(* EPF_REF_FOUND.                                                          *)
(***************************************************************************)

Program(enc, hea, tab, ref_new, found) ==
    [enc |-> enc, hea |-> hea, tab |-> tab, ref_new |-> ref_new, found |-> found]

RefProgram(k) == Program("none", "indexed_dyn", "noop", FALSE, k)

Matches(f) ==
    { k \in Live : /\ Entries(k).name = f.name
                   /\ Entries(k).val = f.val
                   /\ Entries(k).hash = f.val }

\* One entry matches name and value: the program, or none.
OneMatch(k, index) ==
    IF CanRef(k) /\ index /\ Duplicable(k)
    THEN IF CanRisk
         THEN {Program("dup", "indexed_new", "new", TRUE, k)}
         ELSE IF Draining(k) THEN {}
         ELSE IF SafeToDup(k)
         THEN {Program("dup", "indexed_dyn", "new", FALSE, k)}
         ELSE {RefProgram(k)}
    ELSE IF CanRef(k) /\ ~Draining(k) THEN {RefProgram(k)} ELSE {}

\* Two do (the oldest two, if there are more).
TwoMatches(k, l) ==
    IF CanRef(l) THEN {RefProgram(l)}
    ELSE IF k <= max_acked_id /\ ~Draining(k) THEN {RefProgram(k)} ELSE {}

FullMatch(M, index) ==
    IF M = {} THEN {}
    ELSE LET k == LeastOf(M)
         IN  IF M = {k} THEN OneMatch(k, index)
             ELSE TwoMatches(k, LeastOf(M \ {k}))

\* The static table has the name.
StaticName(f, dup, index) ==
    LET lit == Program("none", "lit_name_stat", "noop", FALSE, 0)
    IN  {lit} \cup
        IF index /\ HasRoom(f.nsize + f.vsize) /\ ~dup
        THEN {IF CanRisk
              THEN Program("ins_nameref_static", "indexed_new", "new", TRUE, 0)
              ELSE Program("ins_nameref_static", "lit_name_stat", "new", FALSE, 0)}
        ELSE {}

\* The dynamic table has the name, in entries that can be used.
NameMatches(f, index) ==
    { k \in Live : /\ Entries(k).name = f.name
                   /\ ~Draining(k)
                   /\ CanRef(k)
                   /\ index => HasRoom(f.nsize + f.vsize) }

DynName(k, index) ==
    {Program("none", "lit_name_dyn", "noop", FALSE, k)} \cup
    IF index /\ CanRisk
    THEN {Program("ins_nameref_dynamic", "indexed_new", "new", TRUE, k)}
    ELSE {}

\* Neither has.
NoMatch(f, dup, index) ==
    LET lit == Program("none", "lit", "noop", FALSE, 0)
        whole == index /\ HasRoom(f.nsize + f.vsize)
    IN  {lit}
        \cup (IF ~whole \/ dup THEN {}
              ELSE IF CanRisk
              THEN {Program("ins_lit", "indexed_new", "new", TRUE, 0)}
              ELSE {Program("ins_lit", "lit", "new", FALSE, 0)})
        \cup (IF ~index \/ ~HasRoom(f.nsize) THEN {}
              ELSE IF CanRisk
              THEN {Program("ins_lit_name", "lit_name_new", "new_name", TRUE, 0)}
              ELSE {Program("ins_lit_name", "lit", "new_name", FALSE, 0)})

Select(f, use_dyn, index) ==
    LET M == IF use_dyn THEN Matches(f) ELSE {}
        full == FullMatch(M, index)
        N == IF use_dyn THEN NameMatches(f, index) ELSE {}
    IN  IF full # {} THEN full
        ELSE IF f.static = "name" THEN StaticName(f, M # {}, index)
        ELSE IF N # {} THEN DynName(LeastOf(N), index)
        ELSE NoMatch(f, M # {}, index)

\* A program that inserts is given up for one that does not when the ratio
\* would suffer or memory runs out.
Programs(f, fl) ==
    LET use_dyn == fl # "no_dyn" /\ UseDynTable
                                 /\ RealMaxCapacity \div Overhead > 0
        index == fl = "none" /\ use_dyn /\ ins_count < MaxAbsId
        first == Select(f, use_dyn, index)
    IN  IF f.static = "full"
        THEN {Program("none", "indexed_stat", "noop", FALSE, 0)}
        ELSE first \cup (IF \E p \in first : p.tab # "noop"
                         THEN Select(f, use_dyn, FALSE) ELSE {})

-----------------------------------------------------------------------------
(***************************************************************************)
(* The operations.                                                         *)
(***************************************************************************)

EInit ==
    /\ HInit
    /\ table = [entries |-> << >>, used |-> 0, dropped |-> 0]
    /\ min_reffed = NotCached
    /\ flag = "none"
    /\ loop_start = 0
    /\ refs = [h \in Slots |-> {}]

\* A block that is released takes its references with it.
KeepRefs == refs' = [h \in Slots |-> IF h \in all_hinfos' THEN refs[h] ELSE {}]

\* qenc_min_reffed_id stores what it computes.  Whether a call has to look for
\* room to evict, and so calls it, is left open.  Unless decoder instructions
\* arrive inside a block, the stored minimum is the one it would compute.
MayCacheMinReffed ==
    min_reffed' \in IF min_reffed = NotCached /\ MidHeader # {}
                    THEN {NotCached, MinOfAll} ELSE {min_reffed}

EStartHeader(s, h) ==
    /\ StartHeader(s, h)
    /\ min_reffed' = NotCached
    /\ UNCHANGED <<table, flag, loop_start, refs>>

\* What executing program p for field f inserts and which IDs its line holds.
InsertedSize(p, f) ==
    CASE p.tab = "noop"     -> 0
      [] p.tab = "new"      -> f.nsize + f.vsize
      [] p.tab = "new_name" -> f.nsize

LineRefs(p) ==
    CASE p.hea \in {"indexed_new", "lit_name_new"} -> {ins_count + 1}
      [] p.hea \in {"indexed_dyn", "lit_name_dyn"} -> {p.found}
      [] OTHER -> {}

Inserted(p, f) ==
    IF p.tab = "noop" THEN table
    ELSE PushEntry(table, ins_count + 1, f.name,
                   IF p.tab = "new" THEN f.val ELSE EmptyVal, f.val,
                   InsertedSize(p, f))

EEncode(f, fl) ==
    \E p \in Programs(f, fl) :
        /\ Encode(InsertedSize(p, f), p.ref_new, p.found)
        /\ table' = RemoveOverflow(Inserted(p, f), cur_max_capacity)
        /\ refs' = IF LineRefs(p) = {} THEN refs
                   ELSE [refs EXCEPT ![cur_header.hinfo] = @ \cup LineRefs(p)]
        /\ flag' = fl
        /\ loop_start' = ins_count'
        /\ MayCacheMinReffed

\* lsqpack_enc_encode returns LQES_NOBUF_ENC or LQES_NOBUF_HEAD: only the cached
\* minimum can have changed.
EncodeNoBuf ==
    /\ call = NoCall
    /\ cur_header.open
    /\ min_reffed = NotCached /\ MidHeader # {}
    /\ min_reffed' = MinOfAll
    /\ UNCHANGED <<hvars, table, flag, loop_start, refs>>

\* qenc_dup_draining: entry k is about to be evicted, has no younger copy and
\* can be copied.  The history chooses among such entries.
DupCandidates ==
    { k \in Live :
        /\ \A j \in Live : j <= k => Draining(j)
        /\ \A j \in Live : j > k =>
              ~(/\ Entries(j).hash = Entries(k).hash
                /\ Entries(j).name = Entries(k).name
                /\ Entries(j).val = Entries(k).val)
        /\ HasRoom(Entries(k).size) }

EDupDraining ==
    /\ UseDup
    /\ DupDraining
    /\ \E k \in DupCandidates :
         table' = RemoveOverflow(
                     PushEntry(table, ins_count + 1, Entries(k).name,
                               Entries(k).val, Entries(k).hash, Entries(k).size),
                     cur_max_capacity)
    /\ MayCacheMinReffed
    /\ UNCHANGED <<flag, loop_start, refs>>

EEncodeReturn ==
    /\ EncodeReturn
    /\ flag' = "none"
    /\ loop_start' = 0
    /\ UNCHANGED <<table, min_reffed, refs>>

\* The cached minimum is not read again before lsqpack_enc_start_header drops it.
EEndHeader ==
    /\ EndHeader \/ CancelHeader
    /\ KeepRefs
    /\ min_reffed' = NotCached
    /\ UNCHANGED <<table, flag, loop_start>>

ESetMaxCapacity(c) ==
    /\ SetMaxCapacity(c)
    /\ table' = RemoveOverflow(table, c)
    /\ UNCHANGED <<min_reffed, flag, loop_start, refs>>

EDecoderIn ==
    /\ \/ \E s \in Streams : HeaderAck(s) \/ StreamCancel(s)
       \/ \E n \in Ids : Ici(n)
       \/ UpdateRisked
       \/ UpdateDone
       \/ CancelNext
    /\ KeepRefs
    /\ UNCHANGED <<table, min_reffed, flag, loop_start>>

ENext ==
    \/ \E s \in Streams : \E h \in {NULL} \cup Slots : EStartHeader(s, h)
    \/ \E f \in Fields, fl \in Flags : EEncode(f, fl)
    \/ EncodeNoBuf
    \/ EDupDraining
    \/ EEncodeReturn
    \/ EEndHeader
    \/ \E c \in Capacities : ESetMaxCapacity(c)
    \/ EDecoderIn

ESpec == EInit /\ [][ENext]_evars

-----------------------------------------------------------------------------
(***************************************************************************)
(* Properties.                                                             *)
(***************************************************************************)

\* The table holds entries with the IDs up to the insert count, without gaps.
ETypeOK ==
    /\ IsTable(table, ins_count)
    /\ min_reffed \in {NotCached} \cup 0 .. MaxAbsId
    /\ flag \in Flags \cup {"none"}
    /\ loop_start \in 0 .. ins_count
    /\ refs \in [Slots -> SUBSET Ids]

\* qpe_cur_bytes_used and the offsets computed from ete_when_added_* stay exact
\* while qpe_dropped wraps around (lsqpack.h: "OK if it overflows"), and the
\* table fits its capacity.
TableExact ==
    /\ table.used <= cur_max_capacity
    /\ \A k \in Live :
         /\ k - 1 \notin Live => Off(table, k) = 0
         /\ k + 1 \in Live => Off(table, k + 1) = Off(table, k) + Entries(k).size
         /\ k = ins_count => table.used = Off(table, k) + Entries(k).size
    /\ Live = {} => table.used = 0

\* While the capacity is not reduced, no entry leaves the table that a block
\* not yet acknowledged references, the block being encoded included.
RefsLive == \A h \in all_hinfos : refs[h] \subseteq Live

\* While the capacity is not reduced, no entry leaves the table before the peer
\* has acknowledged it.
UnackedLive == max_acked_id + 1 .. ins_count \subseteq Live

\* Whatever the capacity was and will be, a step that does not reduce it evicts
\* only entries that the peer has acknowledged and that no block refers to, the
\* block being encoded included, and a line refers to an entry that stays.
EvictionSafe ==
    [][cur_max_capacity' >= cur_max_capacity =>
         /\ \A k \in Live \ Live' : /\ k <= max_acked_id
                                   /\ \A h \in all_hinfos : k \notin refs'[h]
         /\ \A h \in Slots : refs'[h] \ refs[h] \subseteq Live']_evars

\* qhi_min_id and qhi_max_id bracket what the lines of a block reference, so that
\* the Required Insert Count covers it and eviction spares it.
RefsBracketed ==
    \A h \in all_hinfos :
        refs[h] \subseteq hinfos[h].min_id .. hinfos[h].max_id

\* Every program that lsqpack_enc_encode could select now references a live
\* entry, one the peer has or may be made to wait for, and inserts no more than
\* evicting unreferenced, acknowledged entries makes room for.  A block that got
\* no header info, which could not note what it refers to, does neither.
ProgramsSafe ==
    call = NoCall /\ cur_header.open =>
        \A f \in Fields, fl \in Flags : \A p \in Programs(f, fl) :
            /\ p.found # 0 => p.found \in Live /\ CanRef(p.found)
            /\ p.ref_new => CanRisk
            /\ cur_header.hinfo = NULL => LineRefs(p) = {} /\ p.tab = "noop"
            /\ p.tab # "noop" =>
                 LET t == RemoveOverflow(Inserted(p, f), cur_max_capacity)
                 IN  /\ ins_count + 1 \in DOMAIN t.entries
                     /\ LineRefs(p) \subseteq DOMAIN t.entries
                     /\ \A k \in Live \ DOMAIN t.entries : k <= max_acked_id

\* The copies one call makes all stay in the table until it returns, so that the
\* loop over qenc_dup_draining ends, whatever it copies and however often.
CopiesStay ==
    call.loop = "dup_draining" => loop_start + 1 .. ins_count \subseteq Live

\* LQEF_NO_DYN: "the dynamic table will be neither referenced nor modified".
NoDynUntouched ==
    [][flag = "no_dyn" \/ flag' = "no_dyn" => UNCHANGED <<table, refs>>]_evars

-----------------------------------------------------------------------------
(***************************************************************************)
(* The inductive invariant, together with HInv.                            *)
(***************************************************************************)

\* The entries of a table t, the last of which has ID n, lie one after the other.
\* The offsets' being exact makes them grow with the ID.
Packed(t, n) ==
    LET D == DOMAIN t.entries IN
    /\ \A k \in D :
         /\ k - 1 \notin D => Off(t, k) = 0
         /\ k + 1 \in D => Off(t, k + 1) = Off(t, k) + t.entries[k].size
         /\ k = n => t.used = Off(t, k) + t.entries[k].size
         /\ Off(t, k) + t.entries[k].size <= t.used
    /\ \A j, k \in D : j < k => Off(t, j) + t.entries[j].size <= Off(t, k)
    /\ D = {} => t.used = 0

OffsetsInv == table.used <= cur_max_capacity /\ Packed(table, ins_count)

\* An entry with the name, the value and the hash of a field has its size.
SizesInv ==
    \A k \in Live, f \in Fields :
        (/\ Entries(k).name = f.name
         /\ Entries(k).val = f.val
         /\ Entries(k).hash = f.val) => Entries(k).size = f.nsize + f.vsize

RefsInv ==
    /\ \A h \in Slots : /\ hinfos[h].min_id <= hinfos[h].max_id
                        /\ hinfos[h].min_id = 0 => hinfos[h].max_id = 0
    /\ RefsBracketed
    /\ \A h \in Slots \ all_hinfos : refs[h] = {}

\* A stored minimum is no greater than any of the blocks' that are left, the one
\* being encoded aside.
CachedInv ==
    min_reffed # NotCached =>
        \A h \in all_hinfos \ {cur_header.hinfo} :
            hinfos[h].min_id # 0 => min_reffed \in 1 .. hinfos[h].min_id

LoopInv ==
    /\ CopiesStay
    /\ call.loop = "dup_draining" => max_acked_id <= loop_start

EInv == ETypeOK /\ OffsetsInv /\ SizesInv /\ RefsInv /\ CachedInv /\ LoopInv
=============================================================================
