--------------------------- MODULE SessionProofs ----------------------------
(***************************************************************************)
(* The decoder's steps on an instruction and on a header block keep the    *)
(* inductive invariant of Session, its initial states satisfy it, and the  *)
(* theorems about Session, for any numbers of entries, streams, blocks,    *)
(* lines and inserts.                                                      *)
(***************************************************************************)
EXTENDS SessionReports

-----------------------------------------------------------------------------
(***************************************************************************)
(* The decoder executes an instruction.                                    *)
(***************************************************************************)

\* The first instruction in flight finds the table it was written for.
LEMMA HeadFacts ==
    ASSUME SInv, enc_stream # << >>, NEW h, h = Head(enc_stream), NEW n, n = Len(enc_stream)
    PROVE  /\ n \in Nat \ {0} /\ DOMAIN enc_stream = 1 .. n
           /\ h = enc_stream[1] /\ h \in Instruction /\ SourceOk(h)
           /\ h.at.ins = received /\ h.at.low = DecOldest /\ h.at.cap = max_cap
           /\ After(h) = StateAt(2)
           /\ \A p \in 1 .. n : /\ enc_stream[p] \in Instruction
                                /\ enc_stream[p].at.ins \in Nat /\ enc_stream[p].at.low \in Nat
                                /\ received <= enc_stream[p].at.ins
<1>1. enc_stream \in Seq(Instruction) /\ StateAt(1) = DecNow
  BY Zenon DEF SInv, StreamInv
<1>2. /\ n \in Nat \ {0} /\ DOMAIN enc_stream = 1 .. n /\ h = enc_stream[1]
      /\ \A p \in 1 .. n : enc_stream[p] \in Instruction
  <2> HIDE DEF Instruction
  <2> QED BY <1>1
<1>3. 1 \in DOMAIN enc_stream
  BY <1>2
<1>4. h.at = DecNow /\ SourceOk(h)
  BY <1>1, <1>2, <1>3, Zenon DEF StateAt, SInv, ContentsInv
<1>5. h.at.ins = received /\ h.at.low = DecOldest /\ h.at.cap = max_cap
  BY <1>4 DEF DecNow
<1>6. After(enc_stream[1]) = StateAt(1 + 1)
  BY <1>3, Zenon DEF SInv, StreamInv
<1>7. ASSUME NEW p \in 1 .. n
      PROVE  /\ enc_stream[p].at.ins \in Nat /\ enc_stream[p].at.low \in Nat
             /\ received <= enc_stream[p].at.ins
  <2>1. enc_stream[p].at \in TableState
    BY <1>2, Zenon DEF Instruction
  <2>2. p \in 1 .. n + 1 /\ p \in DOMAIN enc_stream
    BY <1>2
  <2>3. enc_stream[1].at.ins <= StateAt(p).ins
    BY <1>3, <2>2, Zenon DEF SInv, StreamInv
  <2>4. StateAt(p) = enc_stream[p].at
    BY <2>2, Zenon DEF StateAt
  <2> QED BY <1>2, <1>5, <2>1, <2>3, <2>4, Zenon DEF TableState
<1> QED BY <1>2, <1>4, <1>5, <1>6, <1>7

\* The block at the head of a stream, and how the entry it needs compares with
\* those that have arrived.
LEMMA HeadWire ==
    ASSUME Facts, SInv, NEW b \in Hblocks, transit[b] # << >>, NEW w, w = Head(transit[b])
    PROVE  /\ 1 \in DOMAIN transit[b] /\ w = transit[b][1] /\ b \notin closed
           /\ NeedsLive(w) /\ w.needs \in Nat
           /\ w.needs = 0 => w.ric = 0
           /\ w.needs # 0 => /\ w.ric = (w.needs % M) + 1 /\ LargestRef(w) = IdOf(w.needs)
                             /\ received < w.needs + MaxEntries
                             /\ w.needs <= received + MaxEntries
<1>1. transit[b] \in Seq(Wires)
  BY Zenon DEF SInv, TransitInv
<1>2. 1 \in DOMAIN transit[b] /\ w = transit[b][1]
  BY <1>1
<1>3. b \notin closed /\ NeedsLive(w)
  BY <1>2, TransitFacts, Zenon
<1>4. w.needs \in Nat /\ WireOk(w)
  BY <1>3, Zenon DEF NeedsLive, Wires
<1>5. w.needs = 0 => w.ric = 0
  BY <1>4, Zenon DEF WireOk, RefsOf
<1>6. ASSUME w.needs # 0
      PROVE  /\ w.ric = (w.needs % M) + 1 /\ LargestRef(w) = IdOf(w.needs)
             /\ received < w.needs + MaxEntries
             /\ w.needs <= received + MaxEntries
  <2>1. w.ric = (w.needs % M) + 1
    BY <1>4, <1>6, Zenon DEF WireOk, M
  <2>2. LargestRef(w) = IdOf(w.needs)
    BY <1>4, <2>1, LargestRefIs, Zenon
  <2>3. w.needs \in Oldest .. peer.ins
    BY <1>3, <1>6, Zenon DEF NeedsLive
  <2>4. received < w.needs + MaxEntries /\ w.needs <= received + MaxEntries
    <3>1. PICK k : k = w.needs
      BY Zenon
    <3>2. k \in Nat /\ k >= Oldest /\ k <= peer.ins
      BY <1>4, <2>3, <3>1, Bounds
    <3>3. /\ peer.ins < Oldest + MaxEntries /\ Oldest <= peer.acked + 1 /\ peer.acked <= Known
          /\ Known <= received /\ received <= peer.ins /\ Oldest \in Nat /\ peer.acked \in Nat
          /\ peer.ins \in Nat /\ received \in Nat /\ Known \in Nat /\ MaxEntries \in Nat
      BY Bounds, MType, Zenon
    <3>4. received < k + MaxEntries /\ k <= received + MaxEntries
      BY <3>2, <3>3, SMTT(30)
    <3> QED BY <3>1, <3>4, Zenon
  <2> QED BY <2>1, <2>2, <2>4, Zenon
<1> QED BY <1>2, <1>3, <1>4, <1>5, <1>6, Zenon

\* lsqpack_dec_enc_in keeps the invariant: no instruction fails.
LEMMA EncInInv ==
    ASSUME Facts, SInv, EncIn
    PROVE  SInv'
\* What the execution of the instruction h does to the decoder's table.
<1> DEFINE Taken(h) ==
               /\ enc_stream # << >> /\ h = Head(enc_stream) /\ enc_stream' = Tail(enc_stream)
               /\ received' = After(h).ins /\ DecOldest' = After(h).low /\ max_cap' = After(h).cap
               /\ max_cap' \in 0 .. MaxEntries /\ dyn_table' \in Seq(Content)
               /\ Len(dyn_table') <= max_cap' /\ Len(dyn_table') <= received'
               /\ last_id' = IdOf(received')
               /\ \A k \in DecOldest' .. received :
                     /\ k + 1 - DecOldest' \in DOMAIN dyn_table'
                     /\ dyn_table'[k + 1 - DecOldest'] = dyn_table[k + 1 - DecOldest]
               /\ h.op # "capacity" /\ DecOldest' <= received + 1 =>
                     /\ received + 2 - DecOldest' \in DOMAIN dyn_table'
                     /\ dyn_table'[received + 2 - DecOldest'] = h.entry
               /\ UNCHANGED <<pvars, transit, closed, misread, refused, largest_known_id, dec_stream,
                              dec_error>>
<1> HIDE DEF Taken
\* Entries less than a modulus apart have different IDs.
<1>IdInjective. ASSUME NEW a \in Int, NEW b \in Int, a - b \in 1 - M .. M - 1, IdOf(a) = IdOf(b)
                PROVE  a = b
  <2> USE <1>IdInjective
  <2>1. IdMinus(IdOf(a), IdOf(b)) = 0
    <3>1. IdMinus(IdOf(a), IdOf(a)) = a - a
      <4>1. a - a \in 0 .. M - 1
        BY MType
      <4> QED BY <4>1, IdDistance, Zenon
    <3> QED BY <3>1
  <2>2. CASE a - b \in 0 .. M - 1
    BY <2>1, <2>2, IdDistance
  <2>3. CASE a - b \in 1 - M .. -1
    <3>1. a - b + M = 0
      BY <2>1, <2>3, IdDistance, Zenon
    <3> QED BY <3>1, <2>3, MType
  <2>4. a - b \in 0 .. M - 1 \/ a - b \in 1 - M .. -1
    BY MType
  <2> QED BY <2>2, <2>3, <2>4, Zenon
\* qdec_remove_overflow_entries keeps the youngest entries.
<1>NewestIs. ASSUME NEW S, NEW t \in Seq(S), NEW n \in Nat
             PROVE  /\ NewestOf(t, n) \in Seq(S)
                    /\ Len(NewestOf(t, n)) = IF Len(t) <= n THEN Len(t) ELSE n
                    /\ \A j \in 1 .. Len(NewestOf(t, n)) :
                          NewestOf(t, n)[j] = t[j + Len(t) - Len(NewestOf(t, n))]
  <2> USE <1>NewestIs
  <2>1. CASE Len(t) <= n
    <3>1. NewestOf(t, n) = t
      BY <2>1, Zenon DEF NewestOf
    <3>2. Len(t) \in Nat
      OBVIOUS
    <3>3. \A j \in 1 .. Len(t) : j + Len(t) - Len(t) = j
      BY <3>2
    <3> QED BY <2>1, <3>1, <3>3, Zenon
  <2>2. CASE ~(Len(t) <= n)
    <3>1. PICK l : l = Len(t)
      BY Zenon
    <3>2. l \in Nat /\ l > n /\ DOMAIN t = 1 .. l
      BY <2>2, <3>1
    <3>3. PICK a : a = l - n + 1
      BY Zenon
    <3>4. a \in 1 .. l + 1 /\ NewestOf(t, n) = SubSeq(t, a, l)
      BY <2>2, <3>1, <3>2, <3>3 DEF NewestOf
    <3>5. \A j \in a .. l : t[j] \in S
      BY <3>2, <3>4
    <3>6. SubSeq(t, a, l) \in Seq(S) /\ Len(SubSeq(t, a, l)) = l - a + 1
          /\ \A j \in 1 .. l - a + 1 : SubSeq(t, a, l)[j] = t[a + j - 1]
      BY <3>1, <3>2, <3>4, <3>5
    <3>7. l - a + 1 = n /\ \A j \in 1 .. n : a + j - 1 = j + l - n
      BY <3>2, <3>3
    <3> QED BY <2>2, <3>1, <3>4, <3>6, <3>7
  <2> QED BY <2>1, <2>2, Zenon
\* The entry that an instruction refers to is there, and is the one meant.
<1>SourceIs. ASSUME enc_stream # << >>, NEW h, h = Head(enc_stream),
                    h.op \in {"nameref", "dup"}
             PROVE  /\ HasRel(h.idx)
                    /\ h.op = "dup" => h.entry = EntryRel(h.idx)
                    /\ h.op = "nameref" => h.entry = [EntryRel(h.idx) EXCEPT !.val = h.val]
  <2> USE <1>SourceIs
  <2>1. PICK n : n = Len(enc_stream)
    BY Zenon
  <2>2. /\ DOMAIN enc_stream = 1 .. n /\ h \in Instruction /\ SourceOk(h)
        /\ h.at.ins = received /\ h.at.low = DecOldest
        /\ \A p \in 1 .. n : enc_stream[p].at.ins \in Nat /\ received <= enc_stream[p].at.ins
    BY <2>1, HeadFacts, Zenon
  <2>3. h.idx \in Nat
    BY <2>2, Zenon DEF Instruction
  <2>4. PICK l : l = Len(dyn_table)
    BY Zenon
  <2>5. l \in Nat /\ DOMAIN dyn_table = 1 .. l /\ received \in Nat /\ DecOldest = received - l + 1
    BY <2>4, Bounds DEF SInv, DecoderInv, DecOldest
  <2>6. DecOldest + h.idx <= received
    BY <2>2, Zenon DEF SourceOk
  <2>7. l - h.idx \in 1 .. l /\ HasRel(h.idx) /\ EntryRel(h.idx) = dyn_table[l - h.idx]
    <3>1. h.idx + 1 <= l
      BY <2>3, <2>5, <2>6
    <3> QED BY <2>3, <2>4, <2>5, <3>1 DEF HasRel, EntryRel
  <2>8. PICK k : k = received - h.idx
    BY Zenon
  <2>9. \A e \in Held(k) : e = EntryRel(h.idx)
    <3>1. \A j \in DOMAIN dyn_table : j + DecOldest = k + 1 => j = l - h.idx
      BY <2>3, <2>5, <2>8, SMTT(30)
    <3>2. \A p \in 1 .. n : enc_stream[p].at.ins + 1 # k
      <4>1. k \in Int /\ k <= received
        BY <2>3, <2>5, <2>8
      <4> QED BY <2>2, <2>5, <4>1
    <3> QED BY <2>2, <2>7, <3>1, <3>2, Zenon DEF Held
  <2>10. h.op = "dup" => h.entry \in Held(k)
    BY <2>2, <2>8, Zenon DEF SourceOk
  <2>11. h.op = "nameref" => \E e \in Held(k) : h.entry = [e EXCEPT !.val = h.val]
    BY <2>2, <2>8, Zenon DEF SourceOk
  <2> QED BY <2>7, <2>9, <2>10, <2>11, Zenon
\* lsqpack_dec_push_entry does so.
<1>PushTaken. ASSUME enc_stream # << >>, NEW h, h = Head(enc_stream), enc_stream' = Tail(enc_stream),
                     h.op # "capacity", PushEntry(h.entry), received' = received + 1,
                     UNCHANGED <<pvars, transit, closed, misread, refused>>
              PROVE  Taken(h)
  <2> USE <1>PushTaken
  <2>1. PICK n : n = Len(enc_stream)
    BY Zenon
  <2>2. /\ h \in Instruction /\ h.at.ins = received /\ h.at.low = DecOldest /\ h.at.cap = max_cap
    BY <2>1, HeadFacts, Zenon
  <2>3. PICK l : l = Len(dyn_table)
    BY Zenon
  <2>4. /\ l \in Nat /\ DOMAIN dyn_table = 1 .. l /\ received \in Nat /\ DecOldest = received - l + 1
        /\ l <= max_cap /\ l <= received /\ max_cap \in 0 .. MaxEntries /\ max_cap \in Nat
        /\ dyn_table \in Seq(Content) /\ last_id = IdOf(received)
    BY <2>3, Bounds, MType DEF SInv, DecoderInv, DecOldest
  <2>5. h.entry \in Content
    BY <2>2, Zenon DEF Instruction
  <2>6. PICK t : t = Append(dyn_table, h.entry)
    BY Zenon
  <2>7. /\ t \in Seq(Content) /\ Len(t) = l + 1 /\ t[l + 1] = h.entry
        /\ \A j \in 1 .. l : t[j] = dyn_table[j]
    BY <2>3, <2>4, <2>5, <2>6
  <2>8. /\ dyn_table' = NewestOf(t, max_cap) /\ last_id' = IdPlus(last_id, 1)
        /\ UNCHANGED <<largest_known_id, max_cap, dec_stream, dec_error>>
    BY <2>6, Zenon DEF PushEntry
  <2>9. PICK m : m = Len(dyn_table')
    BY Zenon
  <2>10. /\ dyn_table' \in Seq(Content) /\ m = IF l + 1 <= max_cap THEN l + 1 ELSE max_cap
         /\ DOMAIN dyn_table' = 1 .. m
         /\ \A j \in 1 .. m : dyn_table'[j] = t[j + (l + 1) - m]
    <3>1. /\ dyn_table' \in Seq(Content) /\ m = IF Len(t) <= max_cap THEN Len(t) ELSE max_cap
          /\ \A j \in 1 .. m : dyn_table'[j] = t[j + Len(t) - m]
      BY <2>4, <2>7, <2>8, <2>9, <1>NewestIs, Zenon
    <3>2. dyn_table' \in Seq(Content)
      BY <3>1, Zenon
    <3>3. DOMAIN dyn_table' = 1 .. m
      BY <2>9, <3>2
    <3> QED BY <2>7, <3>1, <3>3, Zenon
  <2>11. m \in Nat /\ m <= l + 1 /\ m <= max_cap
    BY <2>4, <2>10
  <2>12. DecOldest' = received + 2 - m
    BY <2>4, <2>9, <2>11 DEF DecOldest
  <2>13. After(h) = [ins |-> received + 1, low |-> received + 2 - m, cap |-> max_cap]
    <3>1. After(h) = Shrunk(received + 1, DecOldest, max_cap)
      BY <2>2, Zenon DEF After
    <3>2. (IF DecOldest + max_cap <= received + 1 THEN (received + 1) - max_cap + 1 ELSE DecOldest)
          = received + 2 - m
      <4>1. DecOldest + max_cap <= received + 1 <=> ~(l + 1 <= max_cap)
        BY <2>4
      <4>2. m = IF l + 1 <= max_cap THEN l + 1 ELSE max_cap
        BY <2>10, Zenon
      <4>3. /\ DecOldest = received + 2 - (l + 1)
            /\ (received + 1) - max_cap + 1 = received + 2 - max_cap
        BY <2>4
      <4> QED BY <4>1, <4>2, <4>3, Zenon
    <3> QED BY <3>1, <3>2, Zenon DEF Shrunk
  <2>14. last_id' = IdOf(received')
    <3>1. received \in Int /\ 1 \in Int
      BY <2>4
    <3> QED BY <2>4, <2>8, <3>1, IdShift, Zenon
  <2>15. ASSUME NEW k \in DecOldest' .. received
         PROVE  /\ k + 1 - DecOldest' \in DOMAIN dyn_table'
                /\ dyn_table'[k + 1 - DecOldest'] = dyn_table[k + 1 - DecOldest]
    <3>1. PICK j : j = k + 1 - DecOldest'
      BY Zenon
    <3>2. j \in 1 .. m /\ j + (l + 1) - m \in 1 .. l /\ j + (l + 1) - m = k + 1 - DecOldest
      BY <2>4, <2>11, <2>12, <3>1
    <3>3. dyn_table'[j] = t[j + (l + 1) - m]
      BY <2>10, <3>2, Zenon
    <3>4. t[j + (l + 1) - m] = dyn_table[j + (l + 1) - m]
      BY <2>7, <3>2, Zenon
    <3> QED BY <2>10, <3>1, <3>2, <3>3, <3>4, Zenon
  <2>16. ASSUME DecOldest' <= received + 1
         PROVE  /\ received + 2 - DecOldest' \in DOMAIN dyn_table'
                /\ dyn_table'[received + 2 - DecOldest'] = h.entry
    <3>1. received + 2 - DecOldest' = m /\ m \in 1 .. m /\ m + (l + 1) - m = l + 1
      BY <2>4, <2>11, <2>12, <2>16
    <3> QED BY <2>7, <2>10, <3>1, Zenon
  <2>17. Len(dyn_table') <= max_cap' /\ Len(dyn_table') <= received'
    BY <2>4, <2>8, <2>9, <2>11
  <2>18. received' = After(h).ins /\ DecOldest' = After(h).low /\ max_cap' = After(h).cap
    BY <2>8, <2>12, <2>13
  <2> QED BY <2>4, <2>8, <2>10, <2>14, <2>15, <2>16, <2>17, <2>18, Zenon DEF Taken
\* A capacity does so.
<1>CapacityTaken. ASSUME enc_stream # << >>, NEW h, h = Head(enc_stream), enc_stream' = Tail(enc_stream),
                         h.op = "capacity", max_cap' = h.cap, dyn_table' = NewestOf(dyn_table, h.cap),
                         UNCHANGED <<last_id, largest_known_id, dec_stream, dec_error, received,
                                     pvars, transit, closed, misread, refused>>
                  PROVE  Taken(h)
  <2> USE <1>CapacityTaken
  <2>1. PICK n : n = Len(enc_stream)
    BY Zenon
  <2>2. /\ h \in Instruction /\ h.at.ins = received /\ h.at.low = DecOldest
    BY <2>1, HeadFacts, Zenon
  <2>3. PICK l : l = Len(dyn_table)
    BY Zenon
  <2>4. /\ l \in Nat /\ DOMAIN dyn_table = 1 .. l /\ received \in Nat /\ DecOldest = received - l + 1
        /\ l <= received /\ dyn_table \in Seq(Content) /\ last_id = IdOf(received)
    BY <2>3, Bounds DEF SInv, DecoderInv, DecOldest
  <2>5. PICK c : c = h.cap
    BY Zenon
  <2>6. c \in 0 .. MaxEntries /\ c \in Nat
    BY <2>2, <2>5, MType DEF Instruction
  <2>7. PICK m : m = Len(dyn_table')
    BY Zenon
  <2>8. /\ dyn_table' \in Seq(Content) /\ m = IF l <= c THEN l ELSE c
        /\ DOMAIN dyn_table' = 1 .. m
        /\ \A j \in 1 .. m : dyn_table'[j] = dyn_table[j + l - m]
    <3>1. /\ dyn_table' \in Seq(Content) /\ m = IF l <= c THEN l ELSE c
          /\ \A j \in 1 .. m : dyn_table'[j] = dyn_table[j + l - m]
      BY <2>3, <2>4, <2>5, <2>6, <2>7, <1>NewestIs, ZenonT(60)
    <3>2. DOMAIN dyn_table' = 1 .. m
      BY <2>7, <3>1
    <3> QED BY <3>1, <3>2, Zenon
  <2>9. m \in Nat /\ m <= l /\ m <= c
    BY <2>4, <2>6, <2>8
  <2>10. DecOldest' = received + 1 - m
    BY <2>4, <2>7, <2>9 DEF DecOldest
  <2>11. After(h) = [ins |-> received, low |-> received + 1 - m, cap |-> c]
    <3>1. After(h) = Shrunk(received, DecOldest, c)
      BY <2>2, <2>5, Zenon DEF After
    <3>2. (IF DecOldest + c <= received THEN received - c + 1 ELSE DecOldest) = received + 1 - m
      BY <2>4, <2>6, <2>8
    <3> QED BY <3>1, <3>2, Zenon DEF Shrunk
  <2>12. ASSUME NEW k \in DecOldest' .. received
         PROVE  /\ k + 1 - DecOldest' \in DOMAIN dyn_table'
                /\ dyn_table'[k + 1 - DecOldest'] = dyn_table[k + 1 - DecOldest]
    <3>1. PICK j : j = k + 1 - DecOldest'
      BY Zenon
    <3>2. j \in 1 .. m /\ j + l - m = k + 1 - DecOldest
      BY <2>4, <2>9, <2>10, <3>1
    <3> QED BY <2>8, <3>1, <3>2, Zenon
  <2>13. Len(dyn_table') <= max_cap' /\ Len(dyn_table') <= received'
    BY <2>4, <2>5, <2>7, <2>9
  <2>14. received' = After(h).ins /\ DecOldest' = After(h).low /\ max_cap' = After(h).cap
    BY <2>5, <2>10, <2>11
  <2> QED BY <2>4, <2>5, <2>6, <2>8, <2>12, <2>13, <2>14, Zenon DEF Taken
\* It leads to the table that the rest of the instructions were written for.
<1>TakenTables. ASSUME NEW h, Taken(h)
                PROVE  /\ EncoderInv' /\ DecoderInv' /\ StreamInv' /\ ContentsInv'
                       /\ Oldest' = Oldest /\ Known' = Known /\ received' \in Nat
                       /\ \A k \in Nat : k >= Oldest => Held(k) \subseteq Held(k)'
  <2> USE <1>TakenTables
  <2> DEFINE q == enc_stream
  <2>1. PICK n : n = Len(enc_stream)
    BY Zenon
  <2>2. /\ n \in Nat \ {0} /\ DOMAIN q = 1 .. n /\ h = q[1] /\ h \in Instruction
        /\ h.at.ins = received /\ After(h) = StateAt(2)
        /\ \A p \in 1 .. n : q[p] \in Instruction /\ q[p].at.ins \in Nat /\ q[p].at.low \in Nat
    BY <2>1, HeadFacts, Zenon DEF Taken
  <2>3. /\ q \in Seq(Instruction) /\ q # << >> /\ q' = Tail(q)
        /\ UNCHANGED <<peer, contents, outstanding, transit, closed, largest_known_id, dec_stream>>
    BY Zenon DEF SInv, StreamInv, Taken, pvars
  <2>4. /\ q' \in Seq(Instruction) /\ Len(q') = n - 1 /\ DOMAIN q' = 1 .. n - 1
        /\ \A p \in 1 .. n - 1 : p + 1 \in 1 .. n /\ q'[p] = q[p + 1]
    BY <2>1, <2>2, <2>3
  <2>5. Oldest' = Oldest /\ Live' = Live /\ Now' = Now
    BY <2>3, Zenon DEF Oldest, Live, Now
  <2>6. \A p \in Nat \ {0} : StateAt(p)' = StateAt(p + 1)
    <3>1. TAKE p \in Nat \ {0}
    <3>2. p \in 1 .. n - 1 <=> p + 1 \in 1 .. n
      BY <2>2
    <3> QED BY <2>2, <2>4, <2>5, <3>2, Zenon DEF StateAt
  <2>7. DecNow' = StateAt(2)
    <3>1. /\ received' = After(h).ins /\ DecOldest' = After(h).low /\ max_cap' = After(h).cap
      BY Zenon DEF Taken
    <3>2. \E a, b, c : After(h) = [ins |-> a, low |-> b, cap |-> c]
      BY Zenon DEF After, Shrunk
    <3> QED BY <2>2, <3>1, <3>2, Zenon DEF DecNow
  <2>8. /\ received' = StateAt(2).ins /\ DecOldest' = StateAt(2).low
        /\ received' \in Nat /\ DecOldest' \in Nat /\ received <= received'
    <3>1. received' = StateAt(2).ins /\ DecOldest' = StateAt(2).low
      BY <2>7 DEF DecNow
    <3>2. Len(dyn_table') \in Nat /\ Len(dyn_table') <= received'
      BY DEF Taken
    <3>3. received' \in Nat /\ received <= received'
      <4>1. After(h).ins = IF h.op = "capacity" THEN received ELSE received + 1
        BY <2>2, Zenon DEF After, Shrunk
      <4>2. received' = After(h).ins
        BY Zenon DEF Taken
      <4>3. received \in Nat
        BY Bounds, Zenon
      <4> QED BY <4>1, <4>2, <4>3
    <3>4. DecOldest' \in Nat
      BY <3>2, <3>3 DEF DecOldest
    <3> QED BY <3>1, <3>3, <3>4, Zenon
  <2>9. ASSUME NEW r \in 2 .. n + 1
        PROVE  StateAt(2).ins <= StateAt(r).ins /\ StateAt(2).low <= StateAt(r).low
    <3>1. CASE n = 1
      <4>1. r = 2
        BY <3>1, <2>9
      <4> QED BY <2>8, <4>1
    <3>2. CASE n # 1
      <4>1. 2 \in DOMAIN q /\ r \in 2 .. Len(q) + 1
        BY <2>1, <2>2, <3>2
      <4>2. q[2].at.ins <= StateAt(r).ins /\ q[2].at.low <= StateAt(r).low
        BY <4>1, Zenon DEF SInv, StreamInv
      <4>3. StateAt(2) = q[2].at
        BY <4>1, Zenon DEF StateAt
      <4> QED BY <4>2, <4>3, Zenon
    <3> QED BY <3>1, <3>2, Zenon
  <2>10. received' <= peer.ins /\ DecOldest' <= Oldest
    <3>1. n + 1 \in 2 .. n + 1 /\ n + 1 \notin DOMAIN q
      BY <2>2
    <3>2. StateAt(n + 1) = Now
      BY <3>1, Zenon DEF StateAt
    <3> QED BY <2>8, <2>9, <3>1, <3>2 DEF Now
  <2>11. Known' = Known
    <3>1. PICK a : a = received'
      BY Zenon
    <3>2. PICK b : b = Known
      BY Zenon
    <3>3. a \in Nat /\ b \in Nat /\ b <= a /\ a <= b + MaxEntries
      <4>1. /\ b \in Nat /\ b <= received /\ peer.ins < Oldest + MaxEntries /\ peer.acked <= b
            /\ Oldest <= peer.acked + 1 /\ Oldest \in Nat /\ peer.acked \in Nat
            /\ peer.ins \in Nat /\ received \in Nat /\ MaxEntries \in Nat
        BY <3>2, Bounds, MType, Zenon
      <4>2. a \in Nat /\ received <= a /\ a <= peer.ins
        BY <2>8, <2>10, <3>1, Zenon
      <4> QED BY <4>1, <4>2
    <3>4. a \in Int /\ b \in Int /\ a - b \in 0 .. M - 1
      <4>1. MaxEntries <= M - 1 /\ M \in Nat /\ MaxEntries \in Nat
        BY MType
      <4> QED BY <3>3, <4>1
    <3>5. IdMinus(IdOf(a), IdOf(b)) = a - b
      BY <3>4, IdDistance, Zenon
    <3>6. last_id' = IdOf(a) /\ largest_known_id' = IdOf(b)
      BY <2>3, <3>1, <3>2, Bounds, Zenon DEF Taken
    <3>7. Known' = a - IdMinus(IdOf(a), IdOf(b))
      BY <3>1, <3>6, Zenon DEF Known, IdMinus
    <3>8. Known' = b
      BY <3>4, <3>5, <3>7
    <3> QED BY <3>2, <3>8, Zenon
  <2>13. EncoderInv'
    BY <2>3, <2>5, Zenon DEF SInv, EncoderInv
  <2>14. DecoderInv'
    BY <2>3, <2>8, <2>11, Zenon DEF SInv, DecoderInv, Taken
  <2>15. StreamInv'
    <3>1. StateAt(1)' = DecNow'
      <4>1. StateAt(1)' = StateAt(1 + 1)
        BY <2>6
      <4> QED BY <2>7, <4>1
    <3>2. ASSUME NEW p \in 1 .. n - 1
          PROVE  /\ After(q'[p]) = StateAt(p + 1)'
                 /\ \A r \in p .. n : /\ q'[p].at.ins <= StateAt(r)'.ins
                                      /\ q'[p].at.low <= StateAt(r)'.low
      <4>1. /\ p + 1 \in DOMAIN q /\ q'[p] = q[p + 1] /\ p \in Nat \ {0} /\ p + 1 \in Nat \ {0}
            /\ n \in Nat
        BY <2>2, <2>4
      <4>2. PICK s : s = p + 1
        BY Zenon
      <4>3. /\ After(q[s]) = StateAt(s + 1)
            /\ \A r \in s .. n + 1 : /\ q[s].at.ins <= StateAt(r).ins
                                     /\ q[s].at.low <= StateAt(r).low
        BY <2>1, <4>1, <4>2, Zenon DEF SInv, StreamInv
      <4>4. StateAt(s)' = StateAt(s + 1)
        BY <2>6, <4>1, <4>2, Zenon
      <4>5. ASSUME NEW r \in p .. n
            PROVE  q'[p].at.ins <= StateAt(r)'.ins /\ q'[p].at.low <= StateAt(r)'.low
        <5>1. r \in Nat \ {0} /\ r + 1 \in s .. n + 1
          BY <4>1, <4>2
        <5>2. StateAt(r)' = StateAt(r + 1)
          BY <2>6, <5>1, Zenon
        <5> QED BY <4>1, <4>2, <4>3, <5>1, <5>2, Zenon
      <4>6. After(q'[p]) = StateAt(p + 1)'
        BY <4>1, <4>2, <4>3, <4>4, Zenon
      <4> QED BY <4>5, <4>6, Zenon
    <3>3. Len(q') + 1 = n
      BY <2>2, <2>4
    <3> QED BY <2>4, <3>1, <3>2, <3>3, Zenon DEF StreamInv
  <2>16. ASSUME NEW k \in Nat, k >= DecOldest' PROVE Held(k) \subseteq Held(k)'
    <3>1. SUFFICES ASSUME NEW e \in Held(k) PROVE e \in Held(k)'
      BY Zenon
    <3>2. ASSUME NEW j \in DOMAIN dyn_table, j + DecOldest = k + 1, e = dyn_table[j]
          PROVE  e \in Held(k)'
      <4>1. Len(dyn_table) \in Nat /\ DOMAIN dyn_table = 1 .. Len(dyn_table)
            /\ DecOldest = received - Len(dyn_table) + 1 /\ received \in Nat
        BY Bounds DEF SInv, DecoderInv, DecOldest
      <4>2. k <= received /\ j = k + 1 - DecOldest
        BY <3>2, <4>1
      <4>3. k \in DecOldest' .. received
        BY <2>8, <2>16, <4>1, <4>2
      <4>4. PICK i : i = k + 1 - DecOldest'
        BY Zenon
      <4>5. i \in DOMAIN dyn_table' /\ dyn_table'[i] = e
        BY <3>2, <4>2, <4>3, <4>4, Zenon DEF Taken
      <4>6. i + DecOldest' = k + 1
        BY <2>8, <4>4
      <4> QED BY <4>5, <4>6, Zenon DEF Held
    <3>3. ASSUME NEW p \in DOMAIN q, q[p].op # "capacity", q[p].at.ins + 1 = k, e = q[p].entry
          PROVE  e \in Held(k)'
      <4>1. CASE p = 1
        <5>1. h.op # "capacity" /\ k = received + 1 /\ e = h.entry /\ received \in Nat
          BY <2>2, <3>3, <4>1, Bounds, Zenon
        <5>2. DecOldest' <= received + 1
          BY <2>16, <5>1, Zenon
        <5>3. PICK i : i = received + 2 - DecOldest'
          BY Zenon
        <5>4. i \in DOMAIN dyn_table' /\ dyn_table'[i] = e
          BY <5>1, <5>2, <5>3, Zenon DEF Taken
        <5>5. i + DecOldest' = k + 1
          BY <2>8, <5>1, <5>3
        <5> QED BY <5>4, <5>5, Zenon DEF Held
      <4>2. CASE p # 1
        <5>1. PICK i : i = p - 1
          BY Zenon
        <5>2. i \in 1 .. n - 1 /\ i + 1 = p
          BY <2>2, <4>2, <5>1
        <5>3. i \in DOMAIN q' /\ q'[i] = q[p]
          BY <2>4, <5>2, Zenon
        <5> QED BY <3>3, <5>3, Zenon DEF Held
      <4> QED BY <4>1, <4>2, Zenon
    <3> QED BY <3>1, <3>2, <3>3, Zenon DEF Held
  <2>17. ContentsInv'
    <3>1. \A k \in Live : k \in Nat /\ k >= DecOldest'
      BY <2>8, <2>10, Bounds, SMTT(30)
    <3>2. \A k \in Live' : contents'[k] \in Held(k)'
      BY <2>3, <2>5, <2>16, <3>1, Zenon DEF SInv, ContentsInv
    <3>3. ASSUME NEW p \in 1 .. n - 1 PROVE SourceOk(q[p])'
      <4>1. PICK i : i = q'[p]
        BY Zenon
      <4>2. p + 1 \in 2 .. n + 1 /\ p + 1 \in DOMAIN q /\ i = q[p + 1] /\ i \in Instruction
            /\ i.at.ins \in Nat /\ i.at.low \in Nat
        BY <2>2, <2>4, <4>1, SMTT(90)
      <4>3. SourceOk(i)
        BY <4>2, Zenon DEF SInv, ContentsInv
      <4>4. DecOldest' <= i.at.low
        <5>1. StateAt(p + 1) = i.at
          BY <4>2, Zenon DEF StateAt
        <5> QED BY <2>8, <2>9, <4>2, <5>1, Zenon
      <4>5. i.op \in {"nameref", "dup"} => Held(i.at.ins - i.idx) \subseteq Held(i.at.ins - i.idx)'
        <5>1. SUFFICES ASSUME i.op \in {"nameref", "dup"}
                       PROVE  Held(i.at.ins - i.idx) \subseteq Held(i.at.ins - i.idx)'
          BY Zenon
        <5>2. i.idx \in Nat /\ i.at.low + i.idx <= i.at.ins
          BY <4>2, <4>3, <5>1, Zenon DEF Instruction, SourceOk
        <5>3. PICK k : k = i.at.ins - i.idx
          BY Zenon
        <5>4. k \in Nat /\ k >= DecOldest'
          BY <2>8, <4>2, <4>4, <5>2, <5>3
        <5> QED BY <2>16, <5>3, <5>4, Zenon
      <4>6. SourceOk(i)'
        BY <4>3, <4>5, Zenon DEF SourceOk
      <4> QED BY <4>1, <4>6, Zenon
    <3> QED BY <2>4, <3>2, <3>3, Zenon DEF ContentsInv
  <2>18. \A k \in Nat : k >= Oldest => Held(k) \subseteq Held(k)'
    BY <2>8, <2>10, <2>16, Bounds, SMTT(30)
  <2> QED BY <2>5, <2>8, <2>11, <2>13, <2>14, <2>15, <2>17, <2>18, Zenon
\* qdec_process_blocked_headers unblocks the blocks whose last entry arrives.
<1>UnblockInv. ASSUME NEW e, PushEntry(e), received' = received + 1, transit' = transit
               PROVE  ContextsInv'
  <2> USE <1>UnblockInv
  <2>1. PICK id : id = IdPlus(last_id, 1)
    BY Zenon
  <2>2. PICK U : U = Unblocking(id)
    BY Zenon
  <2>3. /\ hbrcs' = [b \in DOMAIN hbrcs |->
                       IF b \in U THEN [hbrcs[b] EXCEPT !.blocked = FALSE] ELSE hbrcs[b]]
        /\ n_blocked' = n_blocked - Cardinality(U)
    BY <2>1, <2>2, Zenon DEF PushEntry
  <2>4. received \in Nat /\ last_id = IdOf(received) /\ id = IdOf(received + 1)
    <3>1. received \in Nat /\ last_id = IdOf(received)
      BY Zenon DEF SInv, DecoderInv
    <3>2. IdPlus(IdOf(received), 1) = IdOf(received + 1)
      BY <3>1, IdShift
    <3> QED BY <2>1, <3>1, <3>2, Zenon
  <2>5. /\ U \subseteq Blocked /\ \A x \in Blocked : x \in U <=> hbrcs[x].largest_ref = id
    BY <2>2, Zenon DEF Unblocking, Blocked
  <2>6. /\ DOMAIN hbrcs' = DOMAIN hbrcs
        /\ \A x \in DOMAIN hbrcs : /\ x \notin U => hbrcs'[x] = hbrcs[x]
                                   /\ x \in U => hbrcs'[x] = [hbrcs[x] EXCEPT !.blocked = FALSE]
    BY <2>3, Zenon
  <2>7. DOMAIN hbrcs \subseteq Hblocks /\ BlockedExact
    BY Zenon DEF SInv, ContextsInv
  <2>8. ASSUME NEW x \in DOMAIN hbrcs, NEW w, w = Head(transit[x])
        PROVE  /\ transit[x] # << >> /\ ContextOk(hbrcs[x], w) /\ w.needs \in Nat
               /\ hbrcs[x].at >= 1 => (hbrcs[x].blocked <=> w.needs > received)
               /\ hbrcs[x].blocked => (hbrcs[x].largest_ref = id <=> w.needs = received + 1)
    <3>1. transit[x] # << >> /\ ContextOk(hbrcs[x], w)
      BY <2>8, Zenon DEF SInv, ContextsInv
    <3>2. hbrcs[x].at >= 1 => (hbrcs[x].blocked <=> w.needs > received)
      BY <2>7, <2>8, Zenon DEF BlockedExact
    <3>3. /\ w.needs \in Nat
          /\ w.needs # 0 => LargestRef(w) = IdOf(w.needs) /\ w.needs <= received + MaxEntries
      BY <2>7, <2>8, <3>1, HeadWire, Zenon
    <3>4. ASSUME hbrcs[x].blocked
          PROVE  hbrcs[x].largest_ref = id <=> w.needs = received + 1
      <4>1. hbrcs[x].at = 1 /\ w.needs # 0 /\ hbrcs[x].largest_ref = LargestRef(w)
        <5>1. hbrcs[x].at = 1 /\ w.needs # 0
          BY <3>1, <3>4, Zenon DEF ContextOk
        <5> QED BY <3>1, <5>1 DEF ContextOk
      <4>2. w.needs > received
        BY <3>2, <3>4, <4>1
      <4>3. PICK k : k = w.needs
        BY Zenon
      <4>4. PICK r : r = received + 1
        BY Zenon
      <4>5. k \in Int /\ r \in Int /\ k - r \in 1 - M .. M - 1
        <5>1. k \in Nat /\ received < k /\ k <= received + MaxEntries
          BY <3>3, <4>1, <4>2, <4>3, Zenon
        <5> QED BY <2>4, <4>4, <5>1, MType
      <4>6. IdOf(k) = IdOf(r) => k = r
        BY <4>5, <1>IdInjective, Zenon
      <4> QED BY <2>4, <3>3, <4>1, <4>3, <4>4, <4>6, Zenon
    <3> QED BY <3>1, <3>2, <3>3, <3>4, Zenon
  <2>9. ASSUME NEW x \in DOMAIN hbrcs, NEW w, w = Head(transit[x])
        PROVE  /\ ContextOk(hbrcs'[x], w)
               /\ hbrcs'[x].at >= 1 => (hbrcs'[x].blocked <=> w.needs > received + 1)
    <3>1. /\ ContextOk(hbrcs[x], w) /\ w.needs \in Nat /\ hbrcs[x] \in Context
          /\ hbrcs[x].at >= 1 => (hbrcs[x].blocked <=> w.needs > received)
          /\ hbrcs[x].blocked => (hbrcs[x].largest_ref = id <=> w.needs = received + 1)
      BY <2>8, <2>9, Zenon DEF ContextOk
    <3>2. CASE x \in U
      <4>1. x \in Blocked /\ hbrcs[x].blocked
        BY <2>5, <3>2, Zenon DEF Blocked
      <4>2. hbrcs[x].largest_ref = id
        BY <2>5, <3>2, <4>1, Zenon
      <4>3. w.needs = received + 1
        BY <3>1, <4>1, <4>2, Zenon
      <4>4. PICK c : c = hbrcs[x]
        BY Zenon
      <4>5. PICK d : d = hbrcs'[x]
        BY Zenon
      <4>6. /\ d \in Context /\ d.at = c.at /\ d.largest_ref = c.largest_ref
            /\ d.largest_used = c.largest_used /\ d.blocked = FALSE
        <5>1. d = [c EXCEPT !.blocked = FALSE] /\ c \in Context
          BY <2>6, <3>1, <3>2, <4>4, <4>5, Zenon
        <5> QED BY <5>1, Zenon DEF Context
      <4>7. ContextOk(d, w)
        <5>1. ContextOk(c, w)
          BY <3>1, <4>4, Zenon
        <5> QED BY <4>6, <5>1, Zenon DEF ContextOk
      <4>8. ~(w.needs > received + 1)
        BY <2>4, <4>3
      <4> QED BY <4>5, <4>6, <4>7, <4>8, Zenon
    <3>3. CASE x \notin U
      <4>1. hbrcs'[x] = hbrcs[x]
        BY <2>6, <3>3, Zenon
      <4>2. CASE hbrcs[x].blocked
        <5>1. hbrcs[x].largest_ref # id
          BY <2>5, <3>3, <4>2, Zenon DEF Blocked
        <5>2. hbrcs[x].at = 1
          BY <3>1, <4>2, Zenon DEF ContextOk
        <5>3. w.needs > received /\ w.needs # received + 1
          BY <3>1, <4>2, <5>1, <5>2
        <5>4. w.needs > received + 1
          BY <2>4, <3>1, <5>3
        <5> QED BY <3>1, <4>1, <4>2, <5>4, Zenon
      <4>3. CASE ~hbrcs[x].blocked
        <5>1. hbrcs[x].at >= 1 => ~(w.needs > received + 1)
          BY <2>4, <3>1, <4>3
        <5> QED BY <3>1, <4>1, <4>3, <5>1, Zenon
      <4> QED BY <4>2, <4>3, Zenon
    <3> QED BY <3>2, <3>3, Zenon
  <2>10. Blocked' = Blocked \ U
    <3>1. \A x \in U : hbrcs[x] \in Context
      BY <2>5, <2>8, Zenon DEF Blocked, ContextOk
    <3>2. \A x \in U : x \in DOMAIN hbrcs /\ hbrcs'[x].blocked = FALSE
      BY <2>5, <2>6, <3>1, Zenon DEF Blocked, Context
    <3> QED BY <2>6, <3>2, Zenon DEF Blocked
  <2>11. n_blocked' = Cardinality(Blocked')
    <3>1. PICK B : B = Blocked
      BY Zenon
    <3>2. IsFiniteSet(B) /\ n_blocked = Cardinality(B) /\ B \cap U = U
      BY <2>5, <3>1, BlockedFacts, Zenon
    <3>3. Cardinality(B \ U) = Cardinality(B) - Cardinality(B \cap U)
      BY <3>2, Zenon DEF Facts, DifferenceFact
    <3> QED BY <2>3, <2>10, <3>1, <3>2, <3>3, Zenon
  <2>12. BlockedExact'
    <3>1. \A x \in DOMAIN hbrcs' : hbrcs'[x].at >= 1 =>
             (hbrcs'[x].blocked <=> Head(transit'[x]).needs > received')
      BY <2>6, <2>9, Zenon
    <3> QED BY <2>11, <3>1, Zenon DEF BlockedExact, Blocked
  <2>13. \A x \in DOMAIN hbrcs' : transit'[x] # << >> /\ ContextOk(hbrcs'[x], Head(transit'[x]))
    BY <2>6, <2>8, <2>9, Zenon
  <2> QED BY <2>6, <2>7, <2>12, <2>13, Zenon DEF ContextsInv
<1>1. PICK h : h = Head(enc_stream)
  BY Zenon
<1>2. /\ enc_stream # << >> /\ enc_stream' = Tail(enc_stream)
      /\ UNCHANGED <<pvars, transit, closed, misread, refused>>
      /\ received' = IF h.op = "capacity" THEN received ELSE received + 1
  BY <1>1, Zenon DEF EncIn
<1>3. PICK n : n = Len(enc_stream)
  BY Zenon
<1>4. h \in Instruction
  BY <1>1, <1>2, <1>3, HeadFacts, Zenon
<1>5. Taken(h) /\ ContextsInv'
  <2>1. ASSUME h.op # "capacity", PushEntry(h.entry) PROVE Taken(h) /\ ContextsInv'
    <3>1. Taken(h)
      BY <1>1, <1>2, <2>1, <1>PushTaken, Zenon
    <3> QED BY <1>2, <2>1, <3>1, <1>UnblockInv, Zenon
  <2>2. CASE h.op = "insert" /\ EncInsert(h.entry)
    BY <2>1, <2>2, Zenon DEF EncInsert
  <2>3. CASE h.op = "nameref" /\ EncInsertNameRef(h.idx, h.val)
    <3>1. HasRel(h.idx) /\ h.entry = [EntryRel(h.idx) EXCEPT !.val = h.val]
      BY <1>1, <1>2, <2>3, <1>SourceIs, Zenon
    <3> QED BY <2>1, <2>3, <3>1, Zenon DEF EncInsertNameRef
  <2>4. CASE h.op = "dup" /\ EncDuplicate(h.idx)
    <3>1. HasRel(h.idx) /\ h.entry = EntryRel(h.idx)
      BY <1>1, <1>2, <2>4, <1>SourceIs, Zenon
    <3> QED BY <2>1, <2>4, <3>1, Zenon DEF EncDuplicate
  <2>5. CASE h.op = "capacity" /\ EncSetCapacity(h.cap)
    <3>1. h.cap <= MaxEntries
      BY <1>4, <2>5, MType DEF Instruction
    <3>2. /\ max_cap' = h.cap /\ dyn_table' = NewestOf(dyn_table, h.cap)
          /\ UNCHANGED <<last_id, largest_known_id, hbrcs, n_blocked, dec_stream, dec_error>>
      BY <2>5, <3>1, Zenon DEF EncSetCapacity
    <3>3. received' = received
      BY <1>2, <2>5, Zenon
    <3>4. Taken(h)
      BY <1>1, <1>2, <2>5, <3>2, <3>3, <1>CapacityTaken, Zenon
    <3>5. ContextsInv'
      BY <1>2, <3>2, <3>3, FrameContexts, Zenon DEF SInv
    <3> QED BY <3>4, <3>5, Zenon
  <2> QED BY <1>1, <2>2, <2>3, <2>4, <2>5, Zenon DEF EncIn
<1>6. /\ EncoderInv' /\ DecoderInv' /\ StreamInv' /\ ContentsInv'
      /\ Oldest' = Oldest /\ Known' = Known
      /\ \A k \in Nat : k >= Oldest => Held(k) \subseteq Held(k)'
  BY <1>5, <1>TakenTables, Zenon
<1>7. dec_stream' = dec_stream /\ dec_error' = dec_error
  BY <1>5, Zenon DEF Taken
<1>8. OutstandingInv'
  BY <1>2, <1>6, FrameOutstanding, Zenon DEF pvars
<1>9. ReportsInv'
  BY <1>2, <1>6, <1>7, FrameReports, Zenon DEF SInv, pvars
<1>10. TransitInv'
  BY <1>2, <1>6, <1>7, FrameTransit, Zenon DEF pvars
<1> QED BY <1>2, <1>5, <1>6, <1>7, <1>8, <1>9, <1>10, Zenon DEF SInv, NoError, NoMisread

-----------------------------------------------------------------------------
(***************************************************************************)
(* The decoder reads a block.                                              *)
(***************************************************************************)

\* A block that has to wait is on a stream the encoder counts as at risk.
LEMMA WaitingAtRisk ==
    ASSUME Facts, SInv, NEW x \in Hblocks, transit[x] # << >>, Head(transit[x]).needs > received
    PROVE  x \in StreamsAtRisk
<1>1. PICK w : w = Head(transit[x])
  BY Zenon
<1>2. 1 \in DOMAIN transit[x] /\ w = transit[x][1] /\ w.needs \in Nat
  BY <1>1, HeadWire, Zenon
<1>3. w.needs # 0 /\ w.needs > peer.acked
  BY <1>1, <1>2, Bounds
<1>4. \E k \in DOMAIN outstanding[x] : outstanding[x][k].max_id = w.needs
  BY <1>2, <1>3, TransitFacts, Zenon
<1> QED BY <1>3, <1>4, Zenon DEF StreamsAtRisk

\* So are all blocks that are blocked, and those streams are within the limit.
LEMMA BlockedAtRisk ==
    ASSUME Facts, SInv
    PROVE  /\ Blocked \subseteq StreamsAtRisk /\ IsFiniteSet(StreamsAtRisk)
           /\ Cardinality(StreamsAtRisk) <= MaxBlockedStreams /\ MaxBlockedStreams \in Nat
<1>1. ASSUME NEW x \in Blocked PROVE x \in StreamsAtRisk
  <2>1. x \in DOMAIN hbrcs /\ hbrcs[x].blocked /\ x \in Hblocks
    BY <1>1, BlockedFacts, Zenon DEF Blocked
  <2>2. transit[x] # << >> /\ ContextOk(hbrcs[x], Head(transit[x]))
    BY <2>1, Zenon DEF SInv, ContextsInv
  <2>3. hbrcs[x].at = 1
    BY <2>1, <2>2, Zenon DEF ContextOk
  <2>4. Head(transit[x]).needs > received
    BY <2>1, <2>3 DEF SInv, ContextsInv, BlockedExact
  <2> QED BY <2>1, <2>2, <2>4, WaitingAtRisk, Zenon
<1>2. StreamsAtRisk \subseteq Hblocks /\ IsFiniteSet(Hblocks)
  BY DecoderAssumption, Zenon DEF StreamsAtRisk
<1>3. IsFiniteSet(StreamsAtRisk)
  BY <1>2, Zenon DEF Facts, SubsetFact
<1> QED BY <1>1, <1>3, DecoderAssumption, Zenon DEF SInv, OutstandingInv

-----------------------------------------------------------------------------

\* A header block the decoder reads, whole or in part, keeps the invariant.
LEMMA ReadBlockInv ==
    ASSUME Facts, SInv, \E b \in Hblocks : ReadSome(b)
    PROVE  SInv'
\* qdec_in_future tells the entries that have not arrived from those that have.
<1>FutureIff. ASSUME NEW r \in Int, NEW n \in Int, last_id = IdOf(r),
                     r < n + MaxEntries, n <= r + MaxEntries
              PROVE  InFuture(IdOf(n)) <=> n > r
  <2> USE <1>FutureIff
  <2> DEFINE q == IdOf(r)
             d == n - r
             x == IdOf(n)
  <2>1. q \in 0 .. M - 1 /\ x \in 0 .. M - 1 /\ d \in Int
    BY IdShift
  <2>2. x = (q + d) % M
    <3>1. IdPlus(q, d) = IdOf(r + d) /\ r + d = n
      BY <2>1, IdShift
    <3> QED BY <3>1, Zenon DEF IdPlus, M
  <2>3. d > -MaxEntries /\ d <= MaxEntries /\ (n > r <=> d > 0)
    BY MType
  <2> HIDE DEF q, d, x
  <2>4. \/ q + d \in 0 .. M - 1 /\ x = q + d
        \/ q + d \in -M .. -1 /\ x = q + d + M
        \/ q + d \in M .. 2 * M - 1 /\ x = q + d - M
    <3>1. q + d \in Int /\ M \in Nat \ {0}
      BY <2>1, MType
    <3>2. q + d \in 0 .. M - 1 \/ q + d \in -M .. -1 \/ q + d \in M .. 2 * M - 1
      BY <2>1, <2>3, MType
    <3> DEFINE y == q + d
    <3>3. x = y % M /\ y \in Int
      BY <2>2, <3>1, Zenon
    <3> HIDE DEF y
    <3>4. /\ y \in 0 .. M - 1 => y % M = y
          /\ y \in -M .. -1 => y % M = y + M
          /\ y \in M .. 2 * M - 1 => y % M = y - M
      BY <3>1, <3>3, Zenon DEF Facts, NearModFact
    <3>5. y \in 0 .. M - 1 \/ y \in -M .. -1 \/ y \in M .. 2 * M - 1
      BY <3>2, Zenon DEF y
    <3>6. \/ y \in 0 .. M - 1 /\ x = y
          \/ y \in -M .. -1 /\ x = y + M
          \/ y \in M .. 2 * M - 1 /\ x = y - M
      BY <3>3, <3>4, <3>5, Zenon
    <3> QED BY <2>1, <3>1, <3>6 DEF y
  <2>5. InFuture(x) <=> IF q < MaxEntries THEN x > q /\ x <= q + MaxEntries
                        ELSE ~(x <= q /\ x >= q - MaxEntries + 1)
    BY Zenon DEF InFuture, q
  <2>6. InFuture(x) <=> d > 0
    <3>1. CASE q < MaxEntries
      BY <2>1, <2>3, <2>4, <2>5, <3>1, MType
    <3>2. CASE ~(q < MaxEntries)
      BY <2>1, <2>3, <2>4, <2>5, <3>2, MType
    <3> QED BY <3>1, <3>2, Zenon
  <2> QED BY <2>3, <2>6, Zenon DEF x
\* The context with which a block is read on.
<1>ReadContext. ASSUME NEW b \in Hblocks, transit[b] # << >>, NEW w, w = Head(transit[b]),
                       b \in DOMAIN hbrcs => ~hbrcs[b].blocked,
                       NEW c, c = IF b \in DOMAIN hbrcs THEN hbrcs[b] ELSE NewContext
                PROVE  /\ c \in Context /\ ContextOk(c, w) /\ c.blocked = FALSE /\ b \notin Blocked
                       /\ c.at >= 1 => ~(w.needs > received)
  <2> USE <1>ReadContext
  <2>1. b \notin Blocked
    BY Zenon DEF Blocked
  <2>2. CASE b \in DOMAIN hbrcs
    <3>1. ContextOk(c, w) /\ (c.at >= 1 => (c.blocked <=> w.needs > received))
      BY <2>2, Zenon DEF SInv, ContextsInv, BlockedExact
    <3>2. c \in Context /\ ~c.blocked
      BY <2>2, <3>1, Zenon DEF ContextOk
    <3>3. c.blocked = FALSE
      BY <3>2, Zenon DEF Context
    <3> QED BY <2>1, <3>1, <3>2, <3>3, Zenon
  <2>3. CASE b \notin DOMAIN hbrcs
    <3>1. PICK f : f = FALSE
      BY Zenon
    <3>2. c \in Context /\ c.at = 0 /\ c.blocked = FALSE
      <4>1. c = [at |-> 0, largest_ref |-> 0, base_index |-> 0, largest_used |-> f, blocked |-> f]
        BY <2>3, <3>1, Zenon DEF NewContext
      <4>2. f \in BOOLEAN
        BY <3>1, Zenon
      <4>3. c \in Context /\ c.at = 0 /\ c.blocked = f
        BY <4>1, <4>2 DEF Context
      <4> QED BY <3>1, <4>3, Zenon
    <3>3. w \in Wires
      BY HeadWire, Zenon DEF NeedsLive
    <3>4. Len(w.lines) \in Nat
      BY <3>3 DEF Wires
    <3>5. 0 < Pieces(w)
      BY <3>4 DEF Pieces
    <3>6. ContextOk(c, w)
      BY <3>2, <3>5 DEF ContextOk
    <3> QED BY <2>1, <3>2, <3>6, SMTT(30)
  <2> QED BY <2>2, <2>3, Zenon
\* A line of a block that does not wait finds its entry, and it is the one meant.
<1>LineFound. ASSUME NEW w, NeedsLive(w), ~(w.needs > received),
                     NEW i \in DOMAIN w.ids, w.ids[i] # 0
              PROVE  HasAbs(LineId(w, i)) /\ EntryAbs(LineId(w, i)) = w.means[i]
  <2> USE <1>LineFound
  <2>1. PICK k : k = w.ids[i]
    BY Zenon
  <2>2. PICK l : l = Len(dyn_table)
    BY Zenon
  <2>3. /\ l \in Nat /\ DOMAIN dyn_table = 1 .. l /\ received \in Nat
        /\ DecOldest = received - l + 1 /\ last_id = IdOf(received)
    BY <2>2, Bounds DEF SInv, DecoderInv, DecOldest
  <2>4. k \in Nat /\ DecOldest <= k /\ k <= received /\ received < k + MaxEntries
    <3>1. w.needs \in Nat /\ k \in Oldest .. w.needs
      BY <2>1, Zenon DEF NeedsLive, Wires
    <3>2. /\ Oldest \in Nat /\ DecOldest \in Nat /\ DecOldest <= Oldest /\ received <= peer.ins
          /\ peer.ins < Oldest + MaxEntries /\ peer.ins \in Nat /\ MaxEntries \in Nat
      BY Bounds, MType, Zenon
    <3>3. w.needs <= received
      BY <2>3, <3>1
    <3> QED BY <2>3, <3>1, <3>2, <3>3
  <2>5. LineId(w, i) = IdOf(k)
    BY <2>1, Zenon DEF NeedsLive, WireOk
  <2>6. IdMinus(last_id, LineId(w, i)) = received - k
    <3>1. received \in Int /\ k \in Int /\ received - k \in 0 .. M - 1
      BY <2>3, <2>4, MType
    <3>2. IdMinus(IdOf(received), IdOf(k)) = received - k
      BY <3>1, IdDistance, Zenon
    <3> QED BY <2>3, <2>5, <3>2, Zenon
  <2>7. PICK g : g = received - k
    BY Zenon
  <2>8. g \in Nat /\ g + 1 <= l /\ l - g \in 1 .. l /\ (l - g) + DecOldest = k + 1
    BY <2>3, <2>4, <2>7
  <2>9. HasAbs(LineId(w, i)) /\ EntryAbs(LineId(w, i)) = dyn_table[l - g]
    BY <2>2, <2>6, <2>7, <2>8, Zenon DEF HasAbs, HasRel, EntryAbs, EntryRel
  <2>10. w.means[i] \in Held(k)
    BY <2>1, Zenon DEF NeedsLive, WireHeld
  <2>11. \A e \in Held(k) : e = dyn_table[l - g]
    <3>1. \A j \in DOMAIN dyn_table : j + DecOldest = k + 1 => j = l - g
      BY <2>3, <2>4, <2>7
    <3>2. \A p \in DOMAIN enc_stream : enc_stream[p].at.ins + 1 # k
      <4>1. SUFFICES ASSUME NEW p \in DOMAIN enc_stream PROVE enc_stream[p].at.ins + 1 # k
        BY Zenon
      <4>2. enc_stream # << >>
        BY <4>1
      <4>3. PICK h : h = Head(enc_stream)
        BY Zenon
      <4>4. PICK n : n = Len(enc_stream)
        BY Zenon
      <4>5. /\ DOMAIN enc_stream = 1 .. n
            /\ \A r \in 1 .. n : enc_stream[r].at.ins \in Nat /\ received <= enc_stream[r].at.ins
        BY <4>2, <4>3, <4>4, HeadFacts, Zenon
      <4>6. enc_stream[p].at.ins \in Nat /\ received <= enc_stream[p].at.ins
        BY <4>1, <4>5, Zenon
      <4> QED BY <2>3, <2>4, <4>6
    <3> QED BY <3>1, <3>2, Zenon DEF Held
  <2> QED BY <2>9, <2>10, <2>11, Zenon
\* The lines a call reads pass check_dyn_table_errors and are not misread.
<1>LinesRead. ASSUME NEW w, NeedsLive(w), NEW c, ContextOk(c, w),
                     NEW upto \in 0 .. Pieces(w), upto >= 1 => ~(w.needs > received)
              PROVE  /\ \A i \in DynLines(c, w, upto) :
                           /\ i \in DOMAIN w.ids /\ w.ids[i] # 0 /\ w.needs # 0
                           /\ HasAbs(LineId(w, i)) /\ EntryAbs(LineId(w, i)) = w.means[i]
                     /\ \A i \in 1 .. upto - 2 :
                           /\ i \in DOMAIN w.ids
                           /\ w.ids[i] # 0 => i \in DynLines(c, w, upto) \/ i \in 1 .. c.at - 2
  <2> USE <1>LinesRead
  <2>1. /\ w \in Wires /\ WireOk(w) /\ c \in Context
    BY Zenon DEF NeedsLive, ContextOk
  <2>2. PICK l : l = Len(w.ids)
    BY Zenon
  <2>3. l \in Nat /\ DOMAIN w.ids = 1 .. l /\ Len(w.lines) = l /\ c.at \in Nat
    BY <2>1, <2>2, SMTT(30) DEF Wires, WireOk, Context
  <2>4. upto \in 0 .. l + 2
    BY <2>3, Zenon DEF Pieces
  <2>5. \A i \in 1 .. upto - 2 : i \in DOMAIN w.ids /\ upto >= 1
    BY <2>3, <2>4
  <2>6. \A i \in DOMAIN w.ids : w.lines[i].kind = "lit" <=> w.ids[i] = 0
    BY <2>1, Zenon DEF WireOk
  <2>7. ASSUME NEW i \in DynLines(c, w, upto)
        PROVE  /\ i \in DOMAIN w.ids /\ w.ids[i] # 0 /\ w.needs # 0
               /\ HasAbs(LineId(w, i)) /\ EntryAbs(LineId(w, i)) = w.means[i]
    <3>1. i \in 1 .. upto - 2 /\ w.lines[i].kind # "lit"
      BY <2>7, Zenon DEF DynLines
    <3>2. i \in DOMAIN w.ids /\ w.ids[i] # 0 /\ ~(w.needs > received)
      BY <2>5, <2>6, <3>1, Zenon
    <3>3. w.needs # 0
      BY <3>2, Zenon DEF NeedsLive
    <3> QED BY <3>2, <3>3, <1>LineFound, Zenon
  <2>8. ASSUME NEW i \in 1 .. upto - 2, w.ids[i] # 0
        PROVE  i \in DynLines(c, w, upto) \/ i \in 1 .. c.at - 2
    <3>1. i \in DOMAIN w.ids /\ w.lines[i].kind # "lit"
      BY <2>5, <2>6, <2>8, Zenon
    <3>2. i + 2 > c.at \/ i \in 1 .. c.at - 2
      BY <2>3, <2>4, <2>8
    <3> QED BY <2>8, <3>1, <3>2, Zenon DEF DynLines
  <2> QED BY <2>5, <2>7, <2>8, Zenon
\* What a context becomes when its block is read on.
<1>ReadToIs. ASSUME NEW w, w \in Wires, NEW c \in Context, NEW upto \in Nat
             PROVE  LET d == ReadTo(c, w, upto) IN
                    /\ d \in Context /\ d.at = upto /\ d.blocked = c.blocked
                    /\ upto >= 1 => d.largest_ref = LargestRef(w)
                    /\ d.largest_used <=> (c.largest_used \/ \E i \in DynLines(c, w, upto) :
                                                               LineId(w, i) = LargestRef(w))
  <2> USE <1>ReadToIs
  <2> DEFINE used == c.largest_used \/ \E i \in DynLines(c, w, upto) : LineId(w, i) = LargestRef(w)
             ref == IF upto >= 1 THEN LargestRef(w) ELSE c.largest_ref
             base == IF upto >= 2 THEN BaseIndex(w) ELSE c.base_index
  <2>1. ReadTo(c, w, upto) = [at |-> upto, largest_ref |-> ref, base_index |-> base,
                              largest_used |-> used, blocked |-> c.blocked]
    <3>1. ReadTo(c, w, upto) = [c EXCEPT !.at = upto, !.largest_ref = ref, !.base_index = base,
                                         !.largest_used = used]
      BY Zenon DEF ReadTo
    <3>2. used \in BOOLEAN
      BY Zenon DEF Context
    <3> HIDE DEF used, ref, base
    <3> QED BY <3>1, <3>2, Zenon DEF Context
  <2>2. w.ric \in Nat /\ w.delta \in Nat
    BY Zenon DEF Wires
  <2>3. LargestRef(w) \in Nat
    <3>1. w.ric + M - 2 \in Int
      BY <2>2, MType
    <3>2. (w.ric + M - 2) % M \in 0 .. M - 1
      BY <3>1, ModRange, Zenon
    <3> QED BY <3>2, MType DEF LargestRef, IdMinus, M
  <2>4. BaseIndex(w) \in Nat
    <3>1. LargestRef(w) + M - (w.delta + 1) \in Int /\ LargestRef(w) + w.delta \in Int
      BY <2>2, <2>3, MType
    <3>2. /\ (LargestRef(w) + M - (w.delta + 1)) % M \in 0 .. M - 1
          /\ (LargestRef(w) + w.delta) % M \in 0 .. M - 1
      BY <3>1, ModRange, Zenon
    <3>3. IdMinus(LargestRef(w), w.delta + 1) \in Nat /\ IdPlus(LargestRef(w), w.delta) \in Nat
      BY <3>2, MType DEF IdMinus, IdPlus, M
    <3> QED BY <3>3, Zenon DEF BaseIndex
  <2>5. used \in BOOLEAN /\ ref \in Nat /\ base \in Nat /\ c.blocked \in BOOLEAN
    BY <2>3, <2>4, Zenon DEF Context
  <2> HIDE DEF ref, base, used
  <2>6. /\ ReadTo(c, w, upto) \in Context /\ ReadTo(c, w, upto).at = upto
        /\ ReadTo(c, w, upto).blocked = c.blocked /\ ReadTo(c, w, upto).largest_ref = ref
        /\ ReadTo(c, w, upto).largest_used = used
    BY <2>1, <2>5 DEF Context
  <2>7. upto >= 1 => ref = LargestRef(w)
    BY Zenon DEF ref
  <2>8. ReadTo(c, w, upto).largest_used <=> used
    BY <2>6, Zenon
  <2> QED BY <2>6, <2>7, <2>8, Zenon DEF used
\* There is room for one more among the blocked blocks.
<1>RoomToBlock. ASSUME NEW b \in Hblocks, transit[b] # << >>, Head(transit[b]).needs > received,
                       b \notin Blocked
                PROVE  n_blocked < MaxBlockedStreams
  <2> USE <1>RoomToBlock
  <2>2. b \in StreamsAtRisk
    BY WaitingAtRisk, Zenon
  <2>3. PICK S : S = StreamsAtRisk
    BY Zenon
  <2>4. PICK B : B = Blocked
    BY Zenon
  <2>5. /\ IsFiniteSet(S) /\ Cardinality(S) <= MaxBlockedStreams /\ MaxBlockedStreams \in Nat
    BY <2>3, BlockedAtRisk, Zenon
  <2>6. B \cup {b} \subseteq S
    BY <2>2, <2>3, <2>4, BlockedAtRisk, Zenon
  <2>7. Cardinality(B \cup {b}) <= Cardinality(S)
    BY <2>5, <2>6, Zenon DEF Facts, SubsetFact
  <2>8. IsFiniteSet(B) /\ n_blocked = Cardinality(B) /\ n_blocked \in Nat
    BY <2>4, BlockedFacts, Zenon
  <2>9. Cardinality(B \cup {b}) = Cardinality(B) + 1
    BY <2>4, <2>8, Zenon DEF Facts, AddFact
  <2>10. Cardinality(S) \in Nat
    BY <2>5, Zenon DEF Facts, SizeFact
  <2> QED BY <2>5, <2>7, <2>8, <2>9, <2>10
\* The context of a block is kept or replaced.
<1>WithContextInv. ASSUME NEW b \in Hblocks, transit[b] # << >>, NEW w, w = Head(transit[b]), NEW d,
                          ContextOk(d, w), d.at >= 1 => (d.blocked <=> w.needs > received), b \notin Blocked,
                          hbrcs' = WithContext(b, d),
                          n_blocked' = IF d.blocked THEN n_blocked + 1 ELSE n_blocked,
                          UNCHANGED <<transit, received>>
                   PROVE  ContextsInv'
  <2> USE <1>WithContextInv
  <2>1. /\ DOMAIN hbrcs' = DOMAIN hbrcs \cup {b} /\ hbrcs'[b] = d
        /\ \A x \in DOMAIN hbrcs : x # b => hbrcs'[x] = hbrcs[x]
    BY Zenon DEF WithContext
  <2>2. DOMAIN hbrcs \subseteq Hblocks /\ BlockedExact
    BY Zenon DEF SInv, ContextsInv
  <2>3. \A x \in DOMAIN hbrcs' : transit'[x] # << >> /\ ContextOk(hbrcs'[x], Head(transit'[x]))
    BY <2>1, Zenon DEF SInv, ContextsInv
  <2>4. \A x \in DOMAIN hbrcs' : hbrcs'[x].at >= 1 =>
           (hbrcs'[x].blocked <=> Head(transit'[x]).needs > received')
    BY <2>1, <2>2, Zenon DEF BlockedExact
  <2>5. n_blocked' = Cardinality(Blocked')
    <3>1. PICK B : B = Blocked
      BY Zenon
    <3>2. IsFiniteSet(B) /\ n_blocked = Cardinality(B) /\ b \notin B
      BY <3>1, BlockedFacts, Zenon
    <3>3. CASE d.blocked
      <4>1. Blocked' = B \cup {b}
        BY <2>1, <3>1, <3>3, Zenon DEF Blocked
      <4>2. Cardinality(B \cup {b}) = Cardinality(B) + 1
        BY <3>2, Zenon DEF Facts, AddFact
      <4> QED BY <3>2, <3>3, <4>1, <4>2, Zenon
    <3>4. CASE ~d.blocked
      <4>1. Blocked' = B
        BY <2>1, <3>1, <3>2, <3>4, Zenon DEF Blocked
      <4> QED BY <3>2, <3>4, <4>1, Zenon
    <3> QED BY <3>3, <3>4, Zenon
  <2>6. BlockedExact'
    BY <2>4, <2>5, Zenon DEF BlockedExact, Blocked
  <2> QED BY <2>1, <2>2, <2>3, <2>6, Zenon DEF ContextsInv
\* The context of a block that has been read goes.
<1>WithoutContextInv. ASSUME NEW b \in Hblocks, b \notin Blocked, hbrcs' = WithoutContext(b),
                             UNCHANGED <<n_blocked, received>>, transit' = [transit EXCEPT ![b] = Tail(@)]
                      PROVE  ContextsInv'
  <2> USE <1>WithoutContextInv
  <2>1. /\ DOMAIN hbrcs' = DOMAIN hbrcs \ {b} /\ \A x \in DOMAIN hbrcs' : hbrcs'[x] = hbrcs[x]
    BY Zenon DEF WithoutContext
  <2>2. DOMAIN hbrcs \subseteq Hblocks /\ BlockedExact /\ n_blocked = Cardinality(Blocked)
    BY BlockedFacts, Zenon DEF SInv, ContextsInv
  <2>3. \A x \in DOMAIN hbrcs' : /\ x \in DOMAIN hbrcs /\ hbrcs'[x] = hbrcs[x]
                                 /\ transit'[x] = transit[x]
    BY <2>1, <2>2, Zenon DEF SInv, TransitInv
  <2>4. Blocked' = Blocked
    BY <2>1, Zenon DEF Blocked
  <2>5. \A x \in DOMAIN hbrcs' : hbrcs'[x].at >= 1 =>
           (hbrcs'[x].blocked <=> Head(transit'[x]).needs > received')
    BY <2>2, <2>3, Zenon DEF BlockedExact
  <2>6. BlockedExact'
    BY <2>2, <2>4, <2>5, Zenon DEF BlockedExact, Blocked
  <2>7. \A x \in DOMAIN hbrcs' : transit'[x] # << >> /\ ContextOk(hbrcs'[x], Head(transit'[x]))
    BY <2>3, Zenon DEF SInv, ContextsInv
  <2> QED BY <2>1, <2>2, <2>6, <2>7, Zenon DEF ContextsInv
\* qdec_maybe_update_largest_known: the decoder knows at least the entries that
\* the acknowledged block needs, and no fewer than before.
<1>KnownAfterAck. ASSUME NEW k \in Nat, Oldest <= k, k <= received,
                         MaybeUpdateLargestKnown(IdOf(k)), UNCHANGED <<received, last_id>>
                  PROVE  /\ largest_known_id' \in 0 .. M - 1 /\ Known' \in Nat
                         /\ Known <= Known' /\ k <= Known'
  <2> USE <1>KnownAfterAck
  <2>1. PICK g : g = Known
    BY Zenon
  <2>2. /\ g \in Nat /\ received \in Nat /\ MaxEntries \in Nat /\ M = MaxEntries + MaxEntries
        /\ MaxEntries >= 1 /\ k < g + MaxEntries + 1 /\ g < k + MaxEntries /\ g <= received
        /\ received < k + MaxEntries /\ last_id = IdOf(received) /\ largest_known_id = IdOf(g)
    <3>1. /\ Known \in Nat /\ received \in Nat /\ peer.ins \in Nat /\ Oldest \in Nat
          /\ peer.acked \in Nat /\ Known <= received /\ received <= peer.ins
          /\ peer.ins < Oldest + MaxEntries /\ Oldest <= peer.acked + 1 /\ peer.acked <= Known
          /\ largest_known_id = IdOf(Known)
      BY Bounds, Zenon
    <3>2. last_id = IdOf(received)
      BY Zenon DEF SInv, DecoderInv
    <3> QED BY <2>1, <3>1, <3>2, MType
  <2>3. \A j \in Nat : j <= received /\ received - j \in 0 .. M - 1 /\ largest_known_id' = IdOf(j)
                       => Known' = j
    <3>1. TAKE j \in Nat
    <3>2. SUFFICES ASSUME j <= received, received - j \in 0 .. M - 1, largest_known_id' = IdOf(j)
                   PROVE  Known' = j
      BY Zenon
    <3>3. IdMinus(IdOf(received), IdOf(j)) = received - j
      BY <2>2, <3>2, IdDistance
    <3>4. Known' = received - IdMinus(IdOf(received), IdOf(j))
      BY <2>2, <3>2, Zenon DEF Known, IdMinus
    <3> QED BY <2>2, <3>3, <3>4
  <2>4. IdOf(k) \in 0 .. M - 1 /\ IdOf(g) \in 0 .. M - 1
    <3>1. k \in Int /\ g \in Int /\ 0 \in Int
      BY <2>2
    <3> QED BY <3>1, IdShift, Zenon
  <2>5. CASE k > g
    <3>1. k - g \in 0 .. M - 1 /\ k - g \in 1 .. MaxEntries /\ k \in Int /\ g \in Int
      BY <2>2, <2>5
    <3>2. IdMinus(IdOf(k), IdOf(g)) = k - g
      BY <3>1, IdDistance, Zenon
    <3>3. largest_known_id' = IdOf(k)
      BY <2>2, <3>1, <3>2, Zenon DEF MaybeUpdateLargestKnown
    <3>4. received - k \in 0 .. M - 1
      BY <2>2
    <3>5. Known' = k
      BY <2>3, <3>3, <3>4, Zenon
    <3> QED BY <2>1, <2>2, <2>4, <2>5, <3>3, <3>5
  <2>6. CASE ~(k > g)
    <3>1. IdMinus(IdOf(k), IdOf(g)) \notin 1 .. MaxEntries
      <4>1. CASE k = g
        <5>1. k - g \in 0 .. M - 1 /\ k - g = 0 /\ k \in Int /\ g \in Int
          BY <2>2, <4>1
        <5>2. IdMinus(IdOf(k), IdOf(g)) = 0
          BY <5>1, IdDistance, Zenon
        <5> QED BY <5>2, <2>2
      <4>2. CASE k # g
        <5>1. k - g \in 1 - M .. -1 /\ k \in Int /\ g \in Int
          BY <2>2, <2>6, <4>2
        <5>2. IdMinus(IdOf(k), IdOf(g)) = k - g + M
          BY <5>1, IdDistance, Zenon
        <5>3. k - g + M > MaxEntries
          BY <2>2
        <5> QED BY <2>2, <5>2, <5>3
      <4> QED BY <4>1, <4>2, Zenon
    <3>2. largest_known_id' = IdOf(g)
      BY <2>2, <3>1, Zenon DEF MaybeUpdateLargestKnown
    <3>3. received - g \in 0 .. M - 1
      BY <2>2
    <3>4. Known' = g
      BY <2>2, <2>3, <3>2, <3>3, Zenon
    <3> QED BY <2>1, <2>2, <2>4, <2>6, <3>2, <3>4
  <2> QED BY <2>5, <2>6, Zenon
\* The block at the head of a stream has been read and, if it refers to entries,
\* acknowledged: the rest corresponds to the header infos as before.
<1>FinishTransit. ASSUME NEW b \in Hblocks, transit[b] # << >>, NEW w, w = Head(transit[b]),
                         transit' = [transit EXCEPT ![b] = Tail(@)], UNCHANGED <<closed, outstanding>>,
                         \A k : Held(k)' = Held(k),
                         NEW one, one = (IF w.needs # 0 THEN 1 ELSE 0),
                         Cardinality(AcksOf(b)') = Cardinality(AcksOf(b)) + one,
                         \A x \in Hblocks : x # b => Cardinality(AcksOf(x)') = Cardinality(AcksOf(x))
                  PROVE  TransitInv'
  <2> USE <1>FinishTransit
  <2>1. PICK n : n = Len(transit[b])
    BY Zenon
  <2>2. PICK s : s = transit[b]
    BY Zenon
  <2>3. s \in Seq(Wires) /\ s # << >> /\ n \in Nat \ {0} /\ DOMAIN s = 1 .. n /\ w = s[1]
    <3>1. transit[b] \in Seq(Wires)
      BY Zenon DEF SInv, TransitInv
    <3> QED BY <2>1, <2>2, <3>1
  <2>4. /\ Tail(s) \in Seq(Wires) /\ Len(Tail(s)) = n - 1 /\ DOMAIN Tail(s) = 1 .. n - 1
        /\ \A i \in 1 .. n - 1 : i + 1 \in 1 .. n /\ Tail(s)[i] = s[i + 1]
    BY <2>1, <2>2, <2>3
  <2>5. /\ transit' \in [Hblocks -> Seq(Wires)] /\ transit'[b] = Tail(s)
        /\ \A x \in Hblocks : x # b => transit'[x] = transit[x]
    <3>1. transit \in [Hblocks -> Seq(Wires)]
      BY Zenon DEF SInv, TransitInv
    <3> QED BY <2>2, <2>4, <3>1, Zenon
  <2>6. b \notin closed
    BY HeadWire, Zenon
  <2>7. closed' \subseteq Hblocks /\ \A x \in closed' : transit'[x] = << >>
    BY <2>5, <2>6, Zenon DEF SInv, TransitInv
  <2>8. \A x \in Hblocks \ closed : x # b => InOrder(x)'
    <3>1. TAKE x \in Hblocks \ closed
    <3>2. HAVE x # b
    <3>3. /\ Cardinality(AcksOf(x)') = Cardinality(AcksOf(x)) /\ outstanding'[x] = outstanding[x]
          /\ transit'[x] = transit[x]
      BY <2>5, <3>2, Zenon
    <3> QED BY <3>3, FrameStream, Zenon
  <2>9. PICK a : a = Cardinality(AcksOf(b))
    BY Zenon
  <2>10. a \in Nat /\ one \in {0, 1} /\ Cardinality(AcksOf(b)') = a + one
    BY <2>9, PositionSets, Zenon
  <2>11. ASSUME NEW i \in 0 .. n - 1
         PROVE  /\ Cardinality(RefBlocks(b, i + 1)) \in Nat
                /\ Cardinality(RefBlocks(b, i)') = Cardinality(RefBlocks(b, i + 1)) - one
    <3>1. PICK m : m = i + 1
      BY Zenon
    <3>2. m \in Nat /\ m \in 1 .. n /\ i = m - 1 /\ m \in 0 .. Len(transit[b])
      BY <2>1, <2>3, <3>1
    <3>3. PICK R : R = RefBlocks(b, m)
      BY Zenon
    <3>4. PICK T : T = RefBlocks(b, i)'
      BY Zenon
    <3>5. R \in SUBSET (1 .. m) /\ Cardinality(R) \in Nat
      BY <3>2, <3>3, PositionSets, Zenon
    <3>6. \A j \in 1 .. m - 1 : j \in 1 .. n - 1 /\ j + 1 \in 1 .. m
      BY <2>3, <3>2
    <3>7. R = { j \in 1 .. m : s[j].needs # 0 } /\ T = { j \in 1 .. m - 1 : Tail(s)[j].needs # 0 }
      BY <2>2, <2>5, <3>2, <3>3, <3>4, Zenon DEF RefBlocks
    <3>8. T = { j \in 1 .. m - 1 : j + 1 \in R }
      BY <2>4, <3>6, <3>7, Zenon
    <3>9. Cardinality(T) = Cardinality(R) - (IF 1 \in R THEN 1 ELSE 0)
      BY <3>2, <3>5, <3>8, CountTail, Zenon
    <3>10. 1 \in R <=> w.needs # 0
      BY <2>3, <3>2, <3>7
    <3> QED BY <3>1, <3>3, <3>4, <3>5, <3>9, <3>10, Zenon
  <2>12. CountOk(b) /\ \A i \in DOMAIN transit[b] : BlockOk(transit[b][i], Info(b, i))
                                                    /\ WireHeld(transit[b][i])
    BY <2>6, Zenon DEF SInv, TransitInv
  <2>13. CountOk(b)'
    <3>1. PICK m : m = n - 1
      BY Zenon
    <3>2. m \in 0 .. n - 1 /\ m + 1 = n /\ Len(transit'[b]) = m
      BY <2>3, <2>4, <2>5, <3>1, SMTT(30)
    <3>3. RefBlocks(b, Len(transit[b]))' = RefBlocks(b, m)'
      BY <3>2, Zenon DEF RefBlocks
    <3>4. PICK r : r = Cardinality(RefBlocks(b, n))
      BY Zenon
    <3>5. r \in Nat /\ Cardinality(RefBlocks(b, m)') = r - one
      BY <2>11, <3>2, <3>4, Zenon
    <3>6. Len(outstanding[b]) = a + r
      BY <2>1, <2>9, <2>12, <3>4, Zenon DEF CountOk
    <3>7. Len(outstanding[b]) = (a + one) + (r - one)
      BY <2>10, <3>5, <3>6
    <3> QED BY <2>10, <3>3, <3>5, <3>7, Zenon DEF CountOk
  <2>14. ASSUME NEW i \in 1 .. n - 1 PROVE Info(b, i)' = Info(b, i + 1)
    <3>1. PICK r : r = Cardinality(RefBlocks(b, i + 1))
      BY Zenon
    <3>2. i \in 0 .. n - 1
      BY <2>3
    <3>3. r \in Nat /\ Cardinality(RefBlocks(b, i)') = r - one
      BY <2>11, <3>1, <3>2, Zenon
    <3>4. (a + one) + (r - one) = a + r
      BY <2>10, <3>3
    <3>5. /\ Info(b, i)' = outstanding[b][(a + one) + (r - one)]
          /\ Info(b, i + 1) = outstanding[b][a + r]
      BY <2>9, <2>10, <3>1, <3>3, Zenon DEF Info
    <3> QED BY <3>4, <3>5, Zenon
  <2>15. ASSUME NEW i \in 1 .. n - 1
         PROVE  /\ BlockOk(transit[b][i], Info(b, i))'
                /\ WireHeld(transit[b][i])'
    <3>1. PICK v : v = transit'[b][i]
      BY Zenon
    <3>2. i + 1 \in DOMAIN transit[b] /\ v = transit[b][i + 1]
      BY <2>2, <2>3, <2>4, <2>5, <3>1, Zenon
    <3>3. BlockOk(v, Info(b, i + 1)) /\ WireHeld(v)
      BY <2>12, <3>2, Zenon
    <3>4. WireHeld(v)'
      BY <3>3, Zenon DEF WireHeld
    <3>5. BlockOk(v, Info(b, i)')
      BY <2>14, <3>3, Zenon
    <3> QED BY <3>1, <3>4, <3>5, Zenon
  <2>16. InOrder(b)'
    BY <2>4, <2>5, <2>13, <2>15, Zenon DEF InOrder
  <2> QED BY <2>5, <2>7, <2>8, <2>16, Zenon DEF TransitInv, InOrder
\* The acknowledgement of the block at the head of a stream.
<1>FinishReports. ASSUME NEW b \in Hblocks, transit[b] # << >>, NEW w, w = Head(transit[b]),
                         w.needs # 0, NEW r, r = [op |-> "ack", hblock |-> b],
                         dec_stream' = Append(dec_stream, r), UNCHANGED <<peer, closed, outstanding>>,
                         Known' \in Nat, Known <= Known', w.needs <= Known'
                  PROVE  /\ ReportsInv'
                         /\ Cardinality(AcksOf(b)') = Cardinality(AcksOf(b)) + 1
                         /\ \A x \in Hblocks : x # b => Cardinality(AcksOf(x)') = Cardinality(AcksOf(x))
  <2> USE <1>FinishReports
  <2>1. PICK n : n = Len(dec_stream)
    BY Zenon
  <2>2. r \in Report /\ r.op = "ack" /\ r.hblock = b
    BY Zenon DEF Report
  <2>3. /\ n \in Nat /\ DOMAIN dec_stream = 1 .. n /\ dec_stream' \in Seq(Report)
        /\ \A j \in 1 .. n : dec_stream'[j] = dec_stream[j]
        /\ Icis' = Icis
        /\ \A x : CancelsOf(x)' = CancelsOf(x)
        /\ \A x : x # b => AcksOf(x)' = AcksOf(x)
        /\ AcksOf(b)' = AcksOf(b) \cup {n + 1}
    <3>1. /\ n \in Nat /\ DOMAIN dec_stream = 1 .. n /\ dec_stream' \in Seq(Report)
          /\ \A j \in 1 .. n : dec_stream'[j] = dec_stream[j]
          /\ Icis' = Icis \cup (IF r.op = "ici" THEN {n + 1} ELSE {})
      BY <2>1, <2>2, AppendShift, Zenon
    <3>2. \A x : /\ AcksOf(x)' = AcksOf(x) \cup
                        (IF r.op = "ack" /\ r.hblock = x THEN {n + 1} ELSE {})
                 /\ CancelsOf(x)' = CancelsOf(x) \cup
                        (IF r.op = "cancel" /\ r.hblock = x THEN {n + 1} ELSE {})
      BY <2>1, <2>2, AppendShift
    <3> QED BY <2>2, <3>1, <3>2, Zenon
  <2>4. PICK a : a = Cardinality(AcksOf(b))
    BY Zenon
  <2>5. a \in Nat /\ Cardinality(AcksOf(b)') = a + 1
    <3>1. PICK S : S = AcksOf(b)
      BY Zenon
    <3>2. S \in SUBSET (1 .. n) /\ a \in Nat
      BY <2>1, <2>4, <3>1, PositionSets, Zenon
    <3>3. Cardinality(S \cup {n + 1}) = Cardinality(S) + 1
      BY <2>3, <3>2, CountAppend, Zenon
    <3> QED BY <2>3, <2>4, <3>1, <3>2, <3>3, Zenon
  <2>6. a + 1 \in DOMAIN outstanding[b] /\ outstanding[b][a + 1].max_id = w.needs
    <3>1. 1 \in DOMAIN transit[b] /\ w = transit[b][1]
      BY HeadWire, Zenon
    <3>2. Cardinality(RefBlocks(b, 1)) = 1
      <4>1. RefBlocks(b, 1) = {1}
        BY <3>1 DEF RefBlocks
      <4> QED BY <4>1, Zenon DEF Facts, SingletonFact
    <3>3. /\ a + Cardinality(RefBlocks(b, 1)) \in DOMAIN outstanding[b]
          /\ outstanding[b][a + Cardinality(RefBlocks(b, 1))].max_id = w.needs
      BY <2>4, <3>1, TransitFacts, Zenon
    <3> QED BY <3>2, <3>3, Zenon
  <2>7. AcksOk(b)'
    <3>1. AcksOk(b)
      BY Zenon DEF SInv, ReportsInv
    <3>2. CancelsOf(b) = {}
      <4>1. b \notin closed
        BY HeadWire, Zenon
      <4> QED BY <3>1, <4>1, Zenon DEF AcksOk
    <3>3. Len(outstanding[b]) \in Nat /\ DOMAIN outstanding[b] = 1 .. Len(outstanding[b])
      BY PositionSets, ZenonT(60)
    <3>4. a + 1 <= Len(outstanding[b])
      BY <2>5, <2>6, <3>3, SMTT(30)
    <3>5. ASSUME NEW i \in 1 .. a + 1 PROVE outstanding[b][i].max_id <= Known'
      <4>1. CASE i = a + 1
        BY <2>6, <4>1, ZenonT(60)
      <4>2. CASE i # a + 1
        <5>1. i \in 1 .. a /\ i \in DOMAIN outstanding[b]
          BY <2>5, <3>3, <3>4, <4>2, SMTT(30)
        <5>2. outstanding[b][i].max_id <= Known
          BY <2>4, <3>1, <5>1, Zenon DEF AcksOk
        <5>3. PICK S : S = [min_id : Nat, max_id : Nat]
          BY Zenon
        <5>4. outstanding[b] \in Seq(S)
          BY <5>3, Zenon DEF SInv, OutstandingInv
        <5>5. outstanding[b][i] \in S
          BY <5>1, <5>4, SeqElem, Zenon
        <5>6. outstanding[b][i].max_id \in Nat /\ Known \in Nat
          BY <5>3, <5>5, Bounds, Zenon
        <5> QED BY <5>2, <5>6, SMTT(30)
      <4> QED BY <4>1, <4>2, Zenon
    <3> QED BY <2>3, <2>5, <3>2, <3>4, <3>5, Zenon DEF AcksOk
  <2>8. \A x \in Hblocks : x # b => AcksOk(x)'
    BY <2>3, AcksKept, Zenon
  <2>9. \E upto \in [Icis' -> 0 .. Known'] : IcisOk(upto)'
    <3>1. Icis \subseteq 1 .. n
      BY <2>3, Zenon DEF Icis
    <3> QED BY <2>3, <3>1, IcisKept, Zenon
  <2>10. \A x \in Hblocks : x # b => Cardinality(AcksOf(x)') = Cardinality(AcksOf(x))
    BY <2>3, Zenon
  <2> QED BY <2>3, <2>4, <2>5, <2>7, <2>8, <2>9, <2>10, Zenon DEF ReportsInv
\* lsqpack_dec_header_in and lsqpack_dec_header_read keep the invariant: they do
\* not fail, and no line is misread.
<1>Read. ASSUME NEW b \in Hblocks, transit[b] # << >>,
                NEW upto \in 0 .. Pieces(Head(transit[b])), ReadBlock(b, upto)
         PROVE  SInv'
  <2> USE <1>Read
  <2>1. PICK w : w = Head(transit[b])
    BY Zenon
  <2>2. PICK c : c = IF b \in DOMAIN hbrcs THEN hbrcs[b] ELSE NewContext
    BY Zenon
  <2> DEFINE Waits == c.at = 0 /\ upto >= 1 /\ RefSet(w) /\ InFuture(LargestRef(w))
  <2>3. /\ HeaderProcess(b, c, w, upto)
        /\ b \in DOMAIN hbrcs => ~hbrcs[b].blocked /\ upto > hbrcs[b].at
        /\ transit' = IF b \in DOMAIN hbrcs' THEN transit ELSE [transit EXCEPT ![b] = Tail(@)]
        /\ misread' = (misread \/
               (/\ ~dec_error'
                /\ ~(b \in DOMAIN hbrcs' /\ hbrcs'[b].blocked)
                /\ \E i \in DynLines(c, w, upto) : EntryAbs(LineId(w, i)) # w.means[i]))
        /\ UNCHANGED <<pvars, enc_stream, closed, received, refused>>
    BY <2>1, <2>2, Zenon DEF ReadBlock, HeaderIn, HeaderRead
  <2>4. /\ c \in Context /\ ContextOk(c, w) /\ c.blocked = FALSE /\ b \notin Blocked
        /\ c.at >= 1 => ~(w.needs > received)
    BY <2>1, <2>2, <2>3, <1>ReadContext, Zenon
  <2>5. /\ NeedsLive(w) /\ w \in Wires /\ w.needs \in Nat /\ received \in Nat
        /\ w.needs = 0 => w.ric = 0
        /\ w.needs # 0 => /\ w.ric = (w.needs % M) + 1 /\ LargestRef(w) = IdOf(w.needs)
                          /\ received < w.needs + MaxEntries
                          /\ w.needs <= received + MaxEntries
    BY <2>1, HeadWire, Bounds, Zenon DEF NeedsLive
  <2>6. PrefixOk(w) /\ (RefSet(w) <=> w.needs # 0)
    <3>1. CASE w.needs = 0
      BY <2>5, <3>1, MType, SMTT(30) DEF PrefixOk, RefSet, M
    <3>2. CASE w.needs # 0
      <4>1. PICK r : r = w.needs % M
        BY Zenon
      <4>2. r \in 0 .. M - 1
        <5>1. w.needs \in Int
          BY <2>5
        <5> QED BY <4>1, <5>1, ModRange, Zenon
      <4>3. w.ric = r + 1
        BY <2>5, <3>2, <4>1, Zenon
      <4>4. w.ric <= M /\ w.ric # 0
        BY <4>2, <4>3, MType
      <4> QED BY <3>2, <4>4, Zenon DEF PrefixOk, RefSet, M
    <3> QED BY <3>1, <3>2, Zenon
  <2>7. Waits <=> c.at = 0 /\ upto >= 1 /\ w.needs > received
    <3>1. w.needs # 0 => (InFuture(LargestRef(w)) <=> w.needs > received)
      <4>1. HAVE w.needs # 0
      <4>2. last_id = IdOf(received)
        BY Zenon DEF SInv, DecoderInv
      <4>3. received \in Int /\ w.needs \in Int
        BY <2>5, SMTT(30)
      <4>4. InFuture(IdOf(w.needs)) <=> w.needs > received
        BY <2>5, <4>1, <4>2, <4>3, <1>FutureIff, Zenon
      <4> QED BY <2>5, <4>1, <4>4, Zenon
    <3>2. w.needs > received => w.needs # 0
      BY <2>5, SMTT(30)
    <3> QED BY <2>6, <3>1, <3>2, Zenon
  <2>8. upto \in Nat /\ upto \in 0 .. Pieces(w) /\ Pieces(w) \in Nat /\ Pieces(w) >= 2
    <3>1. Len(w.lines) \in Nat
      BY <2>5 DEF Wires
    <3> QED BY <2>1, <3>1, SMTT(30) DEF Pieces
  <2>9. c.at \in Nat
    BY <2>4, Zenon DEF Context
  <2>10. ~dec_error /\ ~misread /\ ~refused /\ UNCHANGED <<last_id, dyn_table, max_cap>>
    BY <2>3, Zenon DEF SInv, NoError, NoMisread, HeaderProcess
  <2> HIDE DEF Waits
  <2>11. ASSUME UNCHANGED <<transit, dec_stream, largest_known_id>>, ContextsInv', ~dec_error',
                ~misread'
         PROVE  SInv'
    <3>1. /\ EncoderInv' /\ DecoderInv' /\ StreamInv' /\ ContentsInv'
          /\ Oldest' = Oldest /\ Known' = Known /\ \A k : Held(k)' = Held(k)
      BY <2>3, <2>10, <2>11, FrameTables, Zenon DEF pvars
    <3>2. OutstandingInv'
      BY <2>3, <3>1, FrameOutstanding, Zenon DEF pvars
    <3>3. ReportsInv'
      BY <2>3, <2>11, <3>1, FrameReports, Zenon DEF SInv, pvars
    <3>4. TransitInv'
      BY <2>3, <2>11, <3>1, FrameTransit, Zenon DEF pvars
    <3> QED BY <2>3, <2>10, <2>11, <3>1, <3>2, <3>3, <3>4, Zenon DEF SInv, NoError, NoMisread
  <2>12. CASE Waits
    <3>1. PICK d : d = ReadTo(c, w, 1)
      BY Zenon
    <3>2. /\ d \in Context /\ d.at = 1 /\ d.largest_ref = LargestRef(w)
      <4>1. 1 \in Nat /\ 1 >= 1
        BY SMTT(30)
      <4>2. /\ ReadTo(c, w, 1) \in Context /\ ReadTo(c, w, 1).at = 1
            /\ ReadTo(c, w, 1).largest_ref = LargestRef(w)
        BY <2>4, <2>5, <4>1, <1>ReadToIs, SMTT(30)
      <4> QED BY <3>1, <4>2, Zenon
    <3>3. w.needs > received /\ w.needs # 0 /\ c.at = 0 /\ upto >= 1
      BY <2>5, <2>7, <2>12, SMTT(30)
    <3>4. n_blocked < MaxBlockedStreams
      BY <2>1, <2>4, <3>3, <1>RoomToBlock, Zenon
    <3>5. PICK e : e = [d EXCEPT !.blocked = TRUE]
      BY Zenon
    <3>6. /\ hbrcs' = WithContext(b, e) /\ n_blocked' = n_blocked + 1
          /\ UNCHANGED <<largest_known_id, dec_stream, dec_error>>
      <4>1. StashBlocked(b, d)
        BY <2>3, <2>6, <2>12, <3>1, Zenon DEF HeaderProcess, Waits
      <4> QED BY <3>4, <3>5, <4>1, Zenon DEF StashBlocked
    <3>7. e \in Context /\ e.at = 1 /\ e.largest_ref = LargestRef(w) /\ e.blocked = TRUE
      <4>1. PICK t : t = TRUE
        BY Zenon
      <4>2. e = [d EXCEPT !.blocked = t] /\ t \in BOOLEAN
        BY <3>5, <4>1, Zenon
      <4>3. e \in Context /\ e.at = 1 /\ e.largest_ref = LargestRef(w) /\ e.blocked = t
        BY <3>2, <4>2, Zenon DEF Context
      <4> QED BY <4>1, <4>3, Zenon
    <3>8. ContextOk(e, w)
      <4>1. 1 < Pieces(w)
        BY <2>8
      <4>2. \A i \in 1 .. e.at - 2 : FALSE
        BY <3>7
      <4> QED BY <3>3, <3>7, <4>1, <4>2, Zenon DEF ContextOk
    <3>9. b \in DOMAIN hbrcs' /\ hbrcs'[b] = e
      BY <3>6, Zenon DEF WithContext
    <3>10. transit' = transit /\ ~misread' /\ ~dec_error'
      BY <2>3, <2>10, <3>6, <3>7, <3>9, Zenon
    <3>11. e.at >= 1 => (e.blocked <=> w.needs > received)
      BY <3>3, <3>7, Zenon
    <3>12. n_blocked' = IF e.blocked THEN n_blocked + 1 ELSE n_blocked
      BY <3>6, <3>7, Zenon
    <3>13. ContextsInv'
      BY <2>1, <2>3, <2>4, <3>6, <3>8, <3>10, <3>11, <3>12, <1>WithContextInv, Zenon
    <3> QED BY <2>11, <3>6, <3>10, <3>13, Zenon
  <2>13. CASE ~Waits
    <3>1. upto >= 1 => ~(w.needs > received)
      BY <2>4, <2>7, <2>9, <2>13
    <3>2. /\ \A i \in DynLines(c, w, upto) :
                /\ i \in DOMAIN w.ids /\ w.ids[i] # 0 /\ w.needs # 0
                /\ HasAbs(LineId(w, i)) /\ EntryAbs(LineId(w, i)) = w.means[i]
          /\ \A i \in 1 .. upto - 2 :
                /\ i \in DOMAIN w.ids
                /\ w.ids[i] # 0 => i \in DynLines(c, w, upto) \/ i \in 1 .. c.at - 2
      BY <2>4, <2>5, <2>8, <3>1, <1>LinesRead, Zenon
    <3>3. PICK d : d = ReadTo(c, w, upto)
      BY Zenon
    <3>4. /\ d \in Context /\ d.at = upto /\ d.blocked = FALSE
          /\ upto >= 1 => d.largest_ref = LargestRef(w)
          /\ d.largest_used <=> (c.largest_used \/ \E i \in DynLines(c, w, upto) :
                                                     LineId(w, i) = LargestRef(w))
      <4>1. c \in Context /\ w \in Wires /\ upto \in Nat /\ c.blocked = FALSE
        BY <2>4, <2>5, <2>8, Zenon
      <4>2. /\ d \in Context /\ d.at = upto /\ d.blocked = c.blocked
            /\ upto >= 1 => d.largest_ref = LargestRef(w)
        BY <3>3, <4>1, <1>ReadToIs, SMTT(30)
      <4>3. d.largest_used <=> (c.largest_used \/ \E i \in DynLines(c, w, upto) :
                                                     LineId(w, i) = LargestRef(w))
        BY <3>3, <4>1, <1>ReadToIs, Zenon
      <4> QED BY <4>1, <4>2, <4>3, Zenon
    <3>5. \A i \in 1 .. upto - 2 : w.ids[i] # 0 /\ LineId(w, i) = LargestRef(w) => d.largest_used
      <4>1. SUFFICES ASSUME NEW i \in 1 .. upto - 2, w.ids[i] # 0, LineId(w, i) = LargestRef(w)
                     PROVE  d.largest_used
        BY Zenon
      <4>2. CASE i \in DynLines(c, w, upto)
        BY <3>4, <4>1, <4>2, Zenon
      <4>3. CASE i \in 1 .. c.at - 2
        BY <2>4, <3>4, <4>1, <4>3, Zenon DEF ContextOk
      <4> QED BY <3>2, <4>1, <4>2, <4>3, Zenon
    <3>6. LinesOk(c, w, upto)
      <4>1. \A i \in DynLines(c, w, upto) : HasAbs(LineId(w, i))
        BY <3>2, Zenon
      <4>2. Len(w.lines) = Len(w.ids) /\ w.ids # << >> /\ w.lines # << >>
        <5>1. Len(w.lines) = Len(w.ids) /\ w.ids # << >>
          BY <2>5, Zenon DEF NeedsLive, WireOk
        <5>2. w.ids \in Seq(Nat)
          BY <2>5, Zenon DEF Wires
        <5>3. Len(w.ids) # 0
          BY <5>1, <5>2
        <5> QED BY <5>1, <5>3, Zenon
      <4>3. ASSUME upto = Pieces(w), RefSet(w) PROVE d.largest_used
        <5>1. w.needs # 0 /\ w.needs \in RefsOf(w.ids)
          BY <2>5, <2>6, <4>3, Zenon DEF NeedsLive, WireOk
        <5>2. PICK i \in DOMAIN w.ids : w.ids[i] = w.needs
          BY <5>1, Zenon DEF RefsOf
        <5>3. LineId(w, i) = LargestRef(w)
          BY <2>5, <5>1, <5>2, Zenon DEF NeedsLive, WireOk
        <5>4. w.ids \in Seq(Nat)
          BY <2>5, Zenon DEF Wires
        <5>5. i \in 1 .. upto - 2
          <6>1. Len(w.ids) \in Nat /\ i \in 1 .. Len(w.ids)
            BY <5>2, <5>4
          <6> QED BY <4>2, <4>3, <6>1, SMTT(30) DEF Pieces
        <5> QED BY <3>5, <5>1, <5>2, <5>3, <5>5, Zenon
      <4>4. ASSUME ~RefSet(w), NEW i \in DOMAIN w.lines PROVE w.lines[i].kind = "lit"
        <5>1. w.needs = 0
          BY <2>6, <4>4, Zenon
        <5>2. i \in DOMAIN w.ids
          <6>1. w.ids \in Seq(Nat) /\ w.lines \in Seq([kind : {"lit", "rel", "post"}, idx : Nat])
            BY <2>5, Zenon DEF Wires
          <6> QED BY <4>2, <4>4, <6>1
        <5>3. w.ids[i] = 0
          BY <2>5, <5>1, <5>2, Zenon DEF NeedsLive, WireOk, RefsOf
        <5> QED BY <2>5, <5>2, <5>3, Zenon DEF NeedsLive, WireOk
      <4> QED BY <3>3, <4>1, <4>2, <4>3, <4>4, Zenon DEF LinesOk
    <3>7. ASSUME dec_error' = dec_error PROVE ~misread' /\ ~dec_error'
      BY <2>3, <2>10, <3>2, <3>7, Zenon
    <3>8. CASE upto < Pieces(w)
      <4>1. /\ hbrcs' = WithContext(b, d)
            /\ UNCHANGED <<n_blocked, largest_known_id, dec_stream, dec_error>>
        BY <2>3, <2>6, <2>13, <3>3, <3>6, <3>8, Zenon DEF HeaderProcess, Waits
      <4>2. ContextOk(d, w)
        BY <3>4, <3>5, <3>8, Zenon DEF ContextOk
      <4>3. transit' = transit
        BY <2>3, <4>1, Zenon DEF WithContext
      <4>4. d.at >= 1 => (d.blocked <=> w.needs > received)
        BY <3>1, <3>4, Zenon
      <4>5. n_blocked' = IF d.blocked THEN n_blocked + 1 ELSE n_blocked
        BY <3>4, <4>1, Zenon
      <4>6. ContextsInv'
        BY <2>1, <2>3, <2>4, <4>1, <4>2, <4>3, <4>4, <4>5, <1>WithContextInv, Zenon
      <4> QED BY <2>11, <3>7, <4>1, <4>3, <4>6, Zenon
    <3>9. CASE ~(upto < Pieces(w))
      <4>1. upto = Pieces(w) /\ ~(w.needs > received)
        BY <2>8, <3>1, <3>9, SMTT(30)
      <4>2. PICK r : r = [op |-> "ack", hblock |-> b]
        BY Zenon
      <4>3. /\ hbrcs' = WithoutContext(b) /\ UNCHANGED <<n_blocked, dec_error>>
            /\ IF w.needs # 0
               THEN /\ dec_stream' = Append(dec_stream, r)
                    /\ MaybeUpdateLargestKnown(LargestRef(w))
               ELSE UNCHANGED <<dec_stream, largest_known_id>>
        BY <2>3, <2>6, <2>13, <3>6, <3>9, <4>2, Zenon DEF HeaderProcess, Waits
      <4>4. transit' = [transit EXCEPT ![b] = Tail(@)]
        BY <2>3, <4>3, Zenon DEF WithoutContext
      <4>5. ContextsInv'
        BY <2>3, <2>4, <4>3, <4>4, <1>WithoutContextInv, Zenon
      <4>6. ~misread' /\ ~dec_error'
        BY <3>7, <4>3, Zenon
      <4>7. CASE w.needs # 0
        <5>1. PICK k : k = w.needs
          BY Zenon
        <5>2. k \in Nat /\ Oldest <= k /\ k <= received
          BY <2>5, <4>1, <4>7, <5>1, Bounds, SMTT(30) DEF NeedsLive
        <5>3. MaybeUpdateLargestKnown(IdOf(k))
          BY <2>5, <4>3, <4>7, <5>1, Zenon
        <5>4. /\ largest_known_id' \in 0 .. M - 1 /\ Known' \in Nat
              /\ Known <= Known' /\ w.needs <= Known'
          BY <2>3, <2>10, <5>1, <5>2, <5>3, <1>KnownAfterAck, Zenon
        <5>5. /\ EncoderInv' /\ DecoderInv' /\ StreamInv' /\ ContentsInv'
              /\ Oldest' = Oldest /\ \A j : Held(j)' = Held(j)
          BY <2>3, <2>10, <5>4, FrameKnown, Zenon DEF pvars
        <5>6. OutstandingInv'
          BY <2>3, <5>5, FrameOutstanding, Zenon DEF pvars
        <5>7. dec_stream' = Append(dec_stream, r) /\ UNCHANGED <<peer, closed, outstanding>>
          BY <2>3, <4>3, <4>7, Zenon DEF pvars
        <5>8. /\ ReportsInv'
              /\ Cardinality(AcksOf(b)') = Cardinality(AcksOf(b)) + 1
              /\ \A x \in Hblocks : x # b => Cardinality(AcksOf(x)') = Cardinality(AcksOf(x))
          BY <2>1, <4>2, <4>7, <5>4, <5>7, <1>FinishReports, Zenon
        <5>9. PICK one : one = (IF w.needs # 0 THEN 1 ELSE 0)
          BY Zenon
        <5>10. Cardinality(AcksOf(b)') = Cardinality(AcksOf(b)) + one
          BY <4>7, <5>8, <5>9, Zenon
        <5>11. TransitInv'
          BY <2>1, <4>4, <5>5, <5>7, <5>8, <5>9, <5>10, <1>FinishTransit, Zenon
        <5> QED BY <2>3, <2>10, <4>5, <4>6, <5>5, <5>6, <5>8, <5>11, Zenon DEF SInv, NoError, NoMisread
      <4>8. CASE w.needs = 0
        <5>1. UNCHANGED <<dec_stream, largest_known_id>>
          BY <4>3, <4>8, Zenon
        <5>2. /\ EncoderInv' /\ DecoderInv' /\ StreamInv' /\ ContentsInv'
              /\ Oldest' = Oldest /\ Known' = Known /\ \A k : Held(k)' = Held(k)
          BY <2>3, <2>10, <5>1, FrameTables, Zenon DEF pvars
        <5>3. OutstandingInv'
          BY <2>3, <5>2, FrameOutstanding, Zenon DEF pvars
        <5>4. ReportsInv'
          BY <2>3, <5>1, <5>2, FrameReports, Zenon DEF SInv, pvars
        <5>5. \A x : AcksOf(x)' = AcksOf(x)
          BY <5>1, ZenonT(60) DEF AcksOf
        <5>6. PICK one : one = (IF w.needs # 0 THEN 1 ELSE 0)
          BY Zenon
        <5>7. Cardinality(AcksOf(b)') = Cardinality(AcksOf(b)) + one
          BY <4>8, <5>5, <5>6, PositionSets
        <5>8. UNCHANGED <<closed, outstanding>>
          BY <2>3, Zenon DEF pvars
        <5>9. TransitInv'
          BY <2>1, <4>4, <5>2, <5>5, <5>6, <5>7, <5>8, <1>FinishTransit, Zenon
        <5> QED BY <2>3, <2>10, <4>5, <4>6, <5>2, <5>3, <5>4, <5>9, Zenon DEF SInv, NoError, NoMisread
      <4> QED BY <4>7, <4>8, Zenon
    <3> QED BY <3>8, <3>9, Zenon
  <2> QED BY <2>12, <2>13, Zenon
<1> QED BY <1>Read, Zenon DEF ReadSome

\* A session begins with nothing in flight.
LEMMA InitSInv ==
    ASSUME Facts, SInit
    PROVE  SInv
<1> DEFINE Infos == [min_id : Nat, max_id : Nat]
<1>1. /\ last_id = M - 1 /\ largest_known_id = M - 1 /\ dyn_table = << >>
      /\ max_cap = MaxEntries /\ hbrcs = << >> /\ n_blocked = 0 /\ dec_stream = << >>
      /\ dec_error = FALSE
      /\ peer = [ins |-> 0, acked |-> 0, last_ici |-> 0, cap |-> MaxEntries]
      /\ contents = << >> /\ outstanding = [b \in Hblocks |-> << >>] /\ enc_stream = << >>
      /\ transit = [b \in Hblocks |-> << >>] /\ closed = {} /\ received = 0
      /\ misread = FALSE /\ refused = FALSE
  BY Zenon DEF SInit, DInit, M
<1>2. M \in Nat /\ M >= 2 /\ MaxEntries \in Nat \ {0}
  BY MType, Zenon
<1>3. Live = {} /\ Cardinality(Live) = 0 /\ Oldest = 1
  <2>1. Live = {}
    BY <1>1 DEF Live
  <2>2. Cardinality(Live) = 0
    BY <2>1, Zenon DEF Facts, EmptyFact
  <2> QED BY <1>1, <2>1, <2>2 DEF Oldest
<1>4. IdOf(0) = M - 1
  <2>1. M - 1 \in 0 .. M - 1 /\ M - 1 \in Int /\ M \in Nat \ {0}
    BY <1>2
  <2>2. PICK x : x = M - 1
    BY Zenon
  <2>3. x % M = x
    BY <2>1, <2>2, Zenon DEF Facts, NearModFact
  <2>4. 0 + M - 1 = x
    BY <1>2, <2>2
  <2> QED BY <2>2, <2>3, <2>4, Zenon DEF IdOf, M
<1>5. Known = 0 /\ DecOldest = 1
  <2>1. IdMinus(IdOf(0), IdOf(0)) = 0 - 0
    BY <1>2, IdDistance
  <2>2. Len(dyn_table) = 0
    BY <1>1, Zenon
  <2> QED BY <1>1, <1>4, <2>1, <2>2 DEF Known, DecOldest
<1>6. EncoderInv
  <2>1. contents \in [1 .. 0 -> Content]
    BY <1>1
  <2> QED BY <1>1, <1>2, <1>3, <2>1 DEF EncoderInv
<1>7. DecoderInv
  <2>1. dyn_table \in Seq(Content) /\ Len(dyn_table) = 0
    BY <1>1
  <2>2. largest_known_id \in 0 .. M - 1
    BY <1>1, <1>2
  <2> QED BY <1>1, <1>2, <1>4, <1>5, <2>1, <2>2, SMTT(30) DEF DecoderInv, M
<1>8. OutstandingInv
  <2>1. << >> \in Seq(Infos)
    OBVIOUS
  <2>2. outstanding \in [Hblocks -> Seq(Infos)] /\ \A b \in Hblocks : DOMAIN outstanding[b] = {}
    <3>1. PICK S : S = Seq(Infos)
      BY Zenon
    <3>2. outstanding \in [Hblocks -> S]
      BY <1>1, <2>1, <3>1, Zenon
    <3>3. \A b \in Hblocks : DOMAIN outstanding[b] = {}
      BY <1>1
    <3> QED BY <3>1, <3>2, <3>3, Zenon
  <2>3. StreamsAtRisk = {}
    BY <2>2, Zenon DEF StreamsAtRisk
  <2>4. Cardinality(StreamsAtRisk) <= MaxBlockedStreams
    BY <2>3, DecoderAssumption DEF Facts, EmptyFact
  <2> QED BY <2>2, <2>4, Zenon DEF OutstandingInv
<1>9. StreamInv
  <2>1. enc_stream \in Seq(Instruction) /\ DOMAIN enc_stream = {}
    BY <1>1
  <2>2. Now = DecNow
    BY <1>1, <1>3, <1>5, Zenon DEF Now, DecNow
  <2> QED BY <2>1, <2>2, Zenon DEF StreamInv, StateAt
<1>10. ContentsInv
  <2>1. DOMAIN enc_stream = {}
    BY <1>1
  <2> QED BY <1>3, <2>1, Zenon DEF ContentsInv
<1>11. \A b : AcksOf(b) = {} /\ CancelsOf(b) = {}
  BY <1>1 DEF AcksOf, CancelsOf
<1>12. Icis = {}
  BY <1>1 DEF Icis
<1>13. ReportsInv
  <2>1. dec_stream \in Seq(Report)
    BY <1>1
  <2>2. \A b \in Hblocks : AcksOk(b)
    <3>1. \A b \in Hblocks : Cardinality(AcksOf(b)) = 0 /\ Len(outstanding[b]) = 0
      BY <1>1, <1>11, Zenon DEF Facts, EmptyFact
    <3> QED BY <1>11, <3>1 DEF AcksOk
  <2>3. \E upto \in [Icis -> 0 .. Known] : IcisOk(upto)
    <3>1. PICK u : u = [j \in Icis |-> 0]
      BY Zenon
    <3>2. u \in [Icis -> 0 .. Known] /\ IcisOk(u)
      BY <1>12, <3>1, Zenon DEF IcisOk
    <3> QED BY <3>2, Zenon
  <2> QED BY <2>1, <2>2, <2>3, Zenon DEF ReportsInv
<1>14. TransitInv
  <2>1. << >> \in Seq(Wires)
    OBVIOUS
  <2>2. transit \in [Hblocks -> Seq(Wires)]
    <3>1. PICK S : S = Seq(Wires)
      BY Zenon
    <3>2. transit \in [Hblocks -> S]
      BY <1>1, <2>1, <3>1, Zenon
    <3> QED BY <3>1, <3>2, Zenon
  <2>3. ASSUME NEW b \in Hblocks
        PROVE  DOMAIN transit[b] = {} /\ CountOk(b)
    <3>1. Len(transit[b]) = 0 /\ DOMAIN transit[b] = {} /\ Len(outstanding[b]) = 0
      BY <1>1
    <3>2. RefBlocks(b, Len(transit[b])) = {}
      BY <3>1 DEF RefBlocks
    <3>3. Cardinality(RefBlocks(b, Len(transit[b]))) = 0 /\ Cardinality(AcksOf(b)) = 0
      BY <1>11, <3>2, Zenon DEF Facts, EmptyFact
    <3> QED BY <3>1, <3>3 DEF CountOk
  <2> QED BY <1>1, <2>2, <2>3, Zenon DEF TransitInv
<1>15. ContextsInv
  <2>1. DOMAIN hbrcs = {}
    BY <1>1
  <2>2. { b \in DOMAIN hbrcs : hbrcs[b].blocked } = {}
    BY <2>1, Zenon
  <2>3. Cardinality({ b \in DOMAIN hbrcs : hbrcs[b].blocked }) = 0
    BY <2>2, Zenon DEF Facts, EmptyFact
  <2>4. BlockedExact
    BY <1>1, <2>1, <2>3, Zenon DEF BlockedExact
  <2> QED BY <2>1, <2>4, Zenon DEF ContextsInv
<1>16. NoError /\ NoMisread
  BY <1>1, Zenon DEF NoError, NoMisread
<1> QED BY <1>6, <1>7, <1>8, <1>9, <1>10, <1>13, <1>14, <1>15, <1>16, Zenon DEF SInv

-----------------------------------------------------------------------------
INSTANCE Arithmetic

\* SInv is inductive: whatever the two ends do, and in whatever order the
\* instructions, the reports and the pieces of blocks are taken.
THEOREM SInvInductive ==
    ASSUME SInv, [SNext]_svars
    PROVE  SInv'
<1> USE FactsHold
<1>1. CASE UNCHANGED svars
  <2>1. /\ EncoderInv' /\ DecoderInv' /\ StreamInv' /\ ContentsInv'
        /\ Oldest' = Oldest /\ Known' = Known /\ \A k : Held(k)' = Held(k)
    BY <1>1, FrameTables, Zenon DEF svars, dvars
  <2>2. OutstandingInv'
    BY <1>1, <2>1, FrameOutstanding, Zenon DEF svars
  <2>3. ReportsInv'
    BY <1>1, <2>1, FrameReports, Zenon DEF SInv, svars, dvars
  <2>4. TransitInv'
    BY <1>1, <2>1, FrameTransit, Zenon DEF svars, dvars
  <2>5. ContextsInv'
    BY <1>1, FrameContexts, Zenon DEF SInv, svars, dvars
  <2>6. NoError' /\ NoMisread'
    BY <1>1, Zenon DEF SInv, NoError, NoMisread, svars, dvars
  <2> QED BY <2>1, <2>2, <2>3, <2>4, <2>5, <2>6, Zenon DEF SInv
<1>2. CASE \/ PeerInsert
           \/ \E k \in Live : PeerInsertNameRef(k) \/ PeerDuplicate(k)
           \/ \E c \in Caps : PeerSetCapacity(c)
  BY <1>2, PeerTableInv, Zenon
<1>3. CASE \E b \in Hblocks, n \in 1 .. MaxLines :
               \E ids \in [1 .. n -> Live \cup {0}], base \in Bases : PeerBlock(b, ids, base)
  BY <1>3, PeerBlockInv, Zenon
<1>4. CASE PeerDecoderIn
  BY <1>4, PeerDecoderInInv, Zenon
<1>5. CASE EncIn
  BY <1>5, EncInInv, Zenon
<1>6. CASE \E b \in Hblocks : ReadSome(b)
  BY <1>6, ReadBlockInv, ZenonT(60)
<1>7. CASE AppWriteIci
  BY <1>7, AppWriteIciInv, Zenon
<1>8. ASSUME NEW b \in Hblocks, AppCancel(b) \/ AppUnref(b) PROVE SInv'
  BY <1>8, AppCancelInv, AppUnrefInv, Zenon
<1> QED BY <1>1, <1>2, <1>3, <1>4, <1>5, <1>6, <1>7, <1>8, Zenon DEF SNext, Bases

\* Every behaviour of a session satisfies SInv.
THEOREM SInvariance == SSpec => []SInv
<1>1. SInit => SInv
  BY FactsHold, InitSInv, Zenon
<1>2. SInv /\ [SNext]_svars => SInv'
  BY SInvInductive, Zenon
<1> QED BY <1>1, <1>2, PTL DEF SSpec

\* However late the decoder reads a header block, and however often its IDs have
\* wrapped around, each line is given the entry the encoder referred to.
THEOREM NeverMisread == SSpec => []NoMisread
<1>1. SInv => NoMisread
  BY Zenon DEF SInv
<1> QED BY <1>1, SInvariance, PTL

\* Neither end makes a call of the other fail: no Required Insert Count, index,
\* capacity, acknowledgement or increment is refused, and the limit on blocked
\* streams is kept.
THEOREM NeverError == SSpec => []NoError
<1>1. SInv => NoError
  BY Zenon DEF SInv
<1> QED BY <1>1, SInvariance, PTL

\* A block waits exactly while an entry it needs has not arrived, and
\* qpd_n_blocked counts the blocks that wait.
THEOREM BlockedAlwaysExact == SSpec => []BlockedExact
<1>1. SInv => BlockedExact
  BY ZenonT(60) DEF SInv, ContextsInv
<1> QED BY <1>1, SInvariance, PTL

\* qpd_largest_known_id covers what the encoder takes for acknowledged.
THEOREM KnownAlwaysCovers == SSpec => []KnownCovers
<1>1. SInv => KnownCovers
  BY ZenonT(60) DEF SInv, DecoderInv, KnownCovers, Known
<1> QED BY <1>1, SInvariance, PTL

\* Type correctness: the wrapped IDs stay below twice the entries, the table
\* within its capacity, and the blocked blocks within the limit.
THEOREM STypeCorrect == SSpec => []STypeOK
<1>1. SInv => STypeOK
  <2> SUFFICES ASSUME SInv PROVE STypeOK
    BY Zenon
  <2> USE FactsHold
  <2>1. {last_id, largest_known_id} \subseteq 0 .. 2 * MaxEntries - 1
    <3>1. received \in Int /\ 0 \in Int /\ last_id = IdOf(received)
      BY DEF SInv, DecoderInv
    <3>2. last_id \in 0 .. M - 1
      BY <3>1, IdShift, Zenon
    <3>3. largest_known_id \in 0 .. M - 1
      BY Zenon DEF SInv, DecoderInv, M
    <3> QED BY <3>2, <3>3, ZenonT(60) DEF M
  <2>2. /\ max_cap \in 0 .. MaxEntries /\ Len(dyn_table) <= max_cap
        /\ DOMAIN hbrcs \subseteq Hblocks /\ \A b \in DOMAIN hbrcs : hbrcs[b] \in Context
        /\ closed \subseteq Hblocks
    BY Zenon DEF SInv, DecoderInv, ContextsInv, ContextOk, TransitInv
  <2>3. n_blocked \in 0 .. MaxBlockedStreams
    <3>1. Cardinality(Blocked) <= Cardinality(StreamsAtRisk)
      BY BlockedAtRisk, Zenon DEF Facts, SubsetFact
    <3>2. Cardinality(StreamsAtRisk) \in Nat
      BY BlockedAtRisk, Zenon DEF Facts, SizeFact
    <3> QED BY <3>1, <3>2, BlockedFacts, BlockedAtRisk, SMTT(30)
  <2>4. peer.acked \in 0 .. peer.ins /\ peer.last_ici \in 0 .. peer.acked
    <3>1. peer.last_ici \in Nat /\ peer.last_ici <= peer.acked
      BY Zenon DEF SInv, EncoderInv
    <3>2. /\ peer.acked \in Nat /\ peer.ins \in Nat /\ peer.acked <= Known /\ Known \in Nat
          /\ Known <= received /\ received <= peer.ins /\ received \in Nat
      BY Bounds, Zenon
    <3> QED BY <3>1, <3>2, SMTT(30)
  <2>5. Live = peer.ins - Cardinality(Live) + 1 .. peer.ins
    BY Bounds, Zenon DEF Oldest
  <2> QED BY <2>1, <2>2, <2>3, <2>4, <2>5, Zenon DEF STypeOK
<1> QED BY <1>1, SInvariance, PTL
=============================================================================
