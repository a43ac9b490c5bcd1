--------------------------- MODULE SessionReports ---------------------------
(***************************************************************************)
(* The reports keep the inductive invariant of Session: those the encoder  *)
(* reads, and those the decoder writes when it gives a stream up or has    *)
(* inserts to report.                                                      *)
(***************************************************************************)
EXTENDS SessionEncoder

-----------------------------------------------------------------------------
(***************************************************************************)
(* The encoder reads a report.                                             *)
(***************************************************************************)

\* The blocks of stream b in transit and its header infos correspond.
InOrder(b) ==
    /\ CountOk(b)
    /\ \A i \in DOMAIN transit[b] : /\ BlockOk(transit[b][i], Info(b, i))
                                    /\ WireHeld(transit[b][i])

\* They do in a stream that a step leaves alone.
LEMMA FrameStream ==
    ASSUME Facts, SInv, NEW x \in Hblocks \ closed,
           Cardinality(AcksOf(x)') = Cardinality(AcksOf(x)),
           outstanding'[x] = outstanding[x], transit'[x] = transit[x],
           \A k \in Nat : k >= Oldest => Held(k) \subseteq Held(k)'
    PROVE  InOrder(x)'
<1>1. \A i : RefBlocks(x, i)' = RefBlocks(x, i)
  BY Zenon DEF RefBlocks
<1>2. CountOk(x) /\ \A i \in DOMAIN transit[x] : BlockOk(transit[x][i], Info(x, i))
  BY Zenon DEF SInv, TransitInv
<1>3. CountOk(x)' /\ \A i : Info(x, i)' = Info(x, i)
  BY <1>1, <1>2, Zenon DEF CountOk, Info
<1>4. ASSUME NEW i \in DOMAIN transit[x] PROVE WireHeld(transit[x][i])'
  <2>1. PICK w : w = transit[x][i]
    BY Zenon
  <2>2. NeedsLive(w)
    BY <2>1, TransitFacts, Zenon
  <2>3. ASSUME NEW n \in DOMAIN w.ids, w.ids[n] # 0 PROVE w.means[n] \in Held(w.ids[n])'
    <3>1. w.ids[n] \in Oldest .. w.needs /\ w.means[n] \in Held(w.ids[n])
      BY <2>2, <2>3, Zenon DEF NeedsLive, WireHeld
    <3>2. Oldest \in Nat /\ w.needs \in Nat
      BY <2>2, Bounds, Zenon DEF NeedsLive, Wires
    <3>3. w.ids[n] \in Nat /\ w.ids[n] >= Oldest
      BY <3>1, <3>2
    <3> QED BY <3>1, <3>3, Zenon
  <2>4. WireHeld(w)'
    BY <2>3, Zenon DEF WireHeld
  <2> QED BY <2>1, <2>4, Zenon
<1> QED BY <1>2, <1>3, <1>4, Zenon DEF InOrder

\* lsqpack_enc_decoder_in keeps the invariant.
LEMMA PeerDecoderInInv ==
    ASSUME Facts, SInv, PeerDecoderIn
    PROVE  SInv'
\* The tables, when only what is acknowledged changes.
<1>FrameAcked. ASSUME UNCHANGED <<contents, enc_stream, received, max_cap, dyn_table,
                                        last_id, largest_known_id>>,
                      peer' \in [ins : Nat, acked : Nat, last_ici : Nat, cap : 0 .. MaxEntries],
                      peer'.ins = peer.ins, peer'.cap = peer.cap,
                      peer.acked <= peer'.acked, peer'.acked <= Known, peer'.last_ici <= peer'.acked
               PROVE  /\ EncoderInv' /\ DecoderInv' /\ StreamInv' /\ ContentsInv'
                      /\ Oldest' = Oldest /\ Known' = Known /\ \A k : Held(k)' = Held(k)
  <2> USE <1>FrameAcked
  <2>1. Oldest' = Oldest /\ Known' = Known /\ DecOldest' = DecOldest /\ Live' = Live
        /\ Now' = Now /\ DecNow' = DecNow
    BY Zenon DEF Oldest, Known, DecOldest, Live, Now, DecNow
  <2>2. \A k : Held(k)' = Held(k)
    BY <2>1, Zenon DEF Held
  <2>3. \A p : StateAt(p)' = StateAt(p)
    BY <2>1, Zenon DEF StateAt
  <2>4. \A i : SourceOk(i)' <=> SourceOk(i)
    BY <2>2, Zenon DEF SourceOk
  <2>5. EncoderInv'
    <3>1. Oldest \in 1 .. peer'.acked + 1
      <4>1. /\ Oldest \in Nat \ {0} /\ Oldest <= peer.acked + 1
            /\ peer.acked \in Nat /\ peer'.acked \in Nat
        BY Bounds, Zenon
      <4> QED BY <4>1
    <3> QED BY <2>1, <3>1, Zenon DEF SInv, EncoderInv
  <2>6. DecoderInv'
    BY <2>1, Zenon DEF SInv, DecoderInv
  <2>7. StreamInv'
    BY <2>1, <2>3, Zenon DEF SInv, StreamInv
  <2>8. ContentsInv'
    BY <2>1, <2>2, <2>4, Zenon DEF SInv, ContentsInv
  <2> QED BY <2>1, <2>2, <2>5, <2>6, <2>7, <2>8, Zenon
\* The reports move up when the first one is taken.
<1>TailShift. ASSUME dec_stream # << >>, dec_stream' = Tail(dec_stream), NEW n, n = Len(dec_stream)
              PROVE  /\ n \in Nat \ {0} /\ Head(dec_stream) = dec_stream[1] /\ dec_stream[1] \in Report
                     /\ DOMAIN dec_stream = 1 .. n
                     /\ dec_stream' \in Seq(Report) /\ DOMAIN dec_stream' = 1 .. n - 1
                     /\ \A j \in 1 .. n - 1 : j + 1 \in 1 .. n /\ dec_stream'[j] = dec_stream[j + 1]
                     /\ Icis' = { j \in 1 .. n - 1 : j + 1 \in Icis }
                     /\ \A b : /\ AcksOf(b)' = { j \in 1 .. n - 1 : j + 1 \in AcksOf(b) }
                               /\ CancelsOf(b)' = { j \in 1 .. n - 1 : j + 1 \in CancelsOf(b) }
  <2> USE <1>TailShift
  <2>1. dec_stream \in Seq(Report)
    BY Zenon DEF SInv, ReportsInv
  <2>2. /\ n \in Nat \ {0} /\ Head(dec_stream) = dec_stream[1] /\ DOMAIN dec_stream = 1 .. n
        /\ dec_stream[1] \in Report
        /\ dec_stream' \in Seq(Report) /\ DOMAIN dec_stream' = 1 .. n - 1
    BY <2>1
  <2>3. \A j \in 1 .. n - 1 : j + 1 \in 1 .. n /\ dec_stream'[j] = dec_stream[j + 1]
    BY <2>1, <2>2
  <2>4. Icis' = { j \in 1 .. n - 1 : j + 1 \in Icis }
    BY <2>2, <2>3, Zenon DEF Icis
  <2>5. \A b : AcksOf(b)' = { j \in 1 .. n - 1 : j + 1 \in AcksOf(b) }
    BY <2>2, <2>3, Zenon DEF AcksOf
  <2>6. \A b : CancelsOf(b)' = { j \in 1 .. n - 1 : j + 1 \in CancelsOf(b) }
    BY <2>2, <2>3, Zenon DEF CancelsOf
  <2> QED BY <2>2, <2>3, <2>4, <2>5, <2>6, Zenon
\* And an acknowledgement that is taken is no longer counted.
<1>AcksTail. ASSUME dec_stream # << >>, dec_stream' = Tail(dec_stream), NEW b \in Hblocks
             PROVE  Cardinality(AcksOf(b)') =
                        Cardinality(AcksOf(b)) - (IF 1 \in AcksOf(b) THEN 1 ELSE 0)
  <2> USE <1>AcksTail
  <2>1. PICK n : n = Len(dec_stream)
    BY Zenon
  <2>2. PICK S : S = AcksOf(b)
    BY Zenon
  <2>3. PICK T : T = AcksOf(b)'
    BY Zenon
  <2>4. n \in Nat /\ S \in SUBSET (1 .. n) /\ T = { j \in 1 .. n - 1 : j + 1 \in S }
    BY <2>1, <2>2, <2>3, <1>TailShift, PositionSets
  <2>5. Cardinality(T) = Cardinality(S) - (IF 1 \in S THEN 1 ELSE 0)
    BY <2>4, CountTail
  <2> QED BY <2>2, <2>3, <2>5, Zenon
\* The increments in flight still stay below what the decoder knew.
<1>IcisTail. ASSUME dec_stream # << >>, dec_stream' = Tail(dec_stream), Known' = Known,
                    peer'.last_ici \in Nat,
                    \/ peer'.last_ici = peer.last_ici
                    \/ /\ Head(dec_stream).op = "ici"
                       /\ peer'.last_ici = peer.last_ici + Head(dec_stream).count
             PROVE  \E upto \in [Icis' -> 0 .. Known'] : IcisOk(upto)'
  <2> USE <1>IcisTail
  <2>1. PICK n : n = Len(dec_stream)
    BY Zenon
  <2>2. PICK u \in [Icis -> 0 .. Known] : IcisOk(u)
    BY Zenon DEF SInv, ReportsInv
  <2>3. /\ n \in Nat \ {0} /\ Head(dec_stream) = dec_stream[1]
        /\ DOMAIN dec_stream = 1 .. n /\ DOMAIN dec_stream' = 1 .. n - 1
        /\ \A j \in 1 .. n - 1 : j + 1 \in 1 .. n /\ dec_stream'[j] = dec_stream[j + 1]
        /\ Icis' = { j \in 1 .. n - 1 : j + 1 \in Icis }
    BY <2>1, <1>TailShift, Zenon
  <2>4. PICK I : I = Icis'
    BY Zenon
  <2>5. PICK v : v = [j \in I |-> u[j + 1]]
    BY Zenon
  <2>6. \A j \in I : j \in 1 .. n - 1 /\ j + 1 \in Icis
    BY <2>3, <2>4, Zenon
  <2>7. v \in [I -> 0 .. Known]
    BY <2>2, <2>5, <2>6, Zenon
  <2>8. dec_stream \in Seq(Report) /\ peer.last_ici \in Nat /\ Known \in Nat
    BY Bounds, Zenon DEF SInv, ReportsInv, EncoderInv
  <2>9. ASSUME NEW j \in I
        PROVE  /\ peer'.last_ici + dec_stream'[j].count <= v[j]
               /\ \A k \in I : k < j => v[k] + dec_stream'[j].count <= v[j]
    <3>1. /\ j \in 1 .. n - 1 /\ j + 1 \in Icis
          /\ dec_stream'[j] = dec_stream[j + 1] /\ v[j] = u[j + 1]
      BY <2>3, <2>5, <2>6, Zenon
    <3>2. PICK c : c = dec_stream[j + 1].count
      BY Zenon
    <3>3. peer.last_ici + c <= u[j + 1] /\ \A k \in Icis : k < j + 1 => u[k] + c <= u[j + 1]
      BY <2>2, <3>1, <3>2, Zenon DEF IcisOk
    <3>4. c \in Nat /\ u[j + 1] \in Nat
      <4>1. dec_stream[j + 1] \in Report /\ dec_stream[j + 1].op = "ici"
        BY <2>3, <2>8, <3>1, SeqElem, Zenon DEF Icis
      <4>2. u[j + 1] \in 0 .. Known
        BY <2>2, <3>1, Zenon
      <4> QED BY <2>8, <3>2, <4>1, <4>2 DEF Report
    <3>5. peer'.last_ici + c <= u[j + 1]
      <4>1. CASE peer'.last_ici = peer.last_ici
        BY <3>3, <4>1, Zenon
      <4>2. CASE /\ dec_stream[1].op = "ici"
                 /\ peer'.last_ici = peer.last_ici + dec_stream[1].count
        <5>1. 1 \in Icis /\ 1 < j + 1
          BY <2>3, <3>1, <4>2 DEF Icis
        <5>2. u[1] + c <= u[j + 1] /\ peer'.last_ici <= u[1]
          BY <2>2, <3>3, <4>2, <5>1, Zenon DEF IcisOk
        <5>3. u[1] \in 0 .. Known
          BY <2>2, <5>1, Zenon
        <5> QED BY <2>8, <3>4, <5>2, <5>3, SMTT(30)
      <4> QED BY <2>3, <4>1, <4>2, Zenon
    <3>6. ASSUME NEW k \in I, k < j PROVE v[k] + c <= v[j]
      <4>1. k + 1 \in Icis /\ k + 1 < j + 1 /\ v[k] = u[k + 1]
        BY <2>5, <2>6, <3>1, <3>6
      <4> QED BY <3>1, <3>3, <4>1, Zenon
    <3> QED BY <3>1, <3>2, <3>5, <3>6, Zenon
  <2>10. IcisOk(v)'
    BY <2>4, <2>9, Zenon DEF IcisOk
  <2> QED BY <2>4, <2>7, <2>10, Zenon
\* The reports of a stream that the one taken is not about.
<1>AcksTailOk. ASSUME dec_stream # << >>, dec_stream' = Tail(dec_stream), Known' = Known,
                      NEW x \in Hblocks, 1 \notin AcksOf(x), outstanding'[x] = outstanding[x],
                      x \in closed /\ 1 \notin CancelsOf(x) => x \in closed'
               PROVE  AcksOk(x)'
  <2> USE <1>AcksTailOk
  <2>1. PICK n : n = Len(dec_stream)
    BY Zenon
  <2>2. /\ n \in Nat \ {0} /\ DOMAIN dec_stream = 1 .. n
        /\ AcksOf(x)' = { j \in 1 .. n - 1 : j + 1 \in AcksOf(x) }
        /\ CancelsOf(x)' = { j \in 1 .. n - 1 : j + 1 \in CancelsOf(x) }
    BY <2>1, <1>TailShift, Zenon
  <2>3. Cardinality(AcksOf(x)') = Cardinality(AcksOf(x))
    BY <1>AcksTail, PositionSets
  <2>4. AcksOk(x)
    BY Zenon DEF SInv, ReportsInv
  <2>5. ASSUME NEW j \in CancelsOf(x)'
        PROVE  /\ x \in closed' /\ CancelsOf(x)' = {j} /\ \A k \in AcksOf(x)' : k < j
    <3>1. j \in 1 .. n - 1 /\ j + 1 \in CancelsOf(x)
      BY <2>2, <2>5, Zenon
    <3>2. x \in closed /\ CancelsOf(x) = {j + 1} /\ \A k \in AcksOf(x) : k < j + 1
      BY <2>4, <3>1, Zenon DEF AcksOk
    <3>3. x \in closed'
      BY <3>1, <3>2
    <3>4. CancelsOf(x)' = {j}
      BY <2>2, <3>1, <3>2
    <3>5. \A k \in AcksOf(x)' : k < j
      BY <2>2, <3>1, <3>2
    <3> QED BY <3>3, <3>4, <3>5, Zenon
  <2> QED BY <2>3, <2>4, <2>5, Zenon DEF AcksOk
\* Fewer header infos, and more of them acknowledged, put no more streams at risk.
<1>RiskShrinks. ASSUME StreamsAtRisk' \subseteq StreamsAtRisk
                PROVE  Cardinality(StreamsAtRisk') <= MaxBlockedStreams
  <2> USE <1>RiskShrinks
  <2>1. PICK S : S = StreamsAtRisk
    BY Zenon
  <2>2. PICK T : T = StreamsAtRisk'
    BY Zenon
  <2>3. S \subseteq Hblocks /\ IsFiniteSet(Hblocks) /\ T \subseteq S
        /\ Cardinality(S) <= MaxBlockedStreams /\ MaxBlockedStreams \in Nat
    BY <2>1, <2>2, DecoderAssumption, Zenon DEF StreamsAtRisk, SInv, OutstandingInv
  <2>4. IsFiniteSet(S)
    BY <2>3, Zenon DEF Facts, SubsetFact
  <2>5. Cardinality(T) <= Cardinality(S) /\ IsFiniteSet(T)
    BY <2>3, <2>4, Zenon DEF Facts, SubsetFact
  <2>6. Cardinality(T) \in Nat /\ Cardinality(S) \in Nat
    BY <2>4, <2>5, Zenon DEF Facts, SizeFact
  <2>7. Cardinality(T) <= MaxBlockedStreams
    BY <2>3, <2>5, <2>6
  <2> QED BY <2>2, <2>7, Zenon
\* The greater of two numbers.
<1>MaxOfTwo. ASSUME NEW x \in Nat, NEW y \in Nat
             PROVE  MaxOf({x, y}) \in Nat /\ MaxOf({x, y}) >= x /\ MaxOf({x, y}) >= y
                    /\ (MaxOf({x, y}) = x \/ MaxOf({x, y}) = y)
  <2> USE <1>MaxOfTwo
  <2>1. \E z \in {x, y} : \A t \in {x, y} : t <= z
    <3>1. CASE x <= y
      BY <3>1
    <3>2. CASE ~(x <= y)
      BY <3>2
    <3> QED BY <3>1, <3>2, Zenon
  <2>2. MaxOf({x, y}) \in {x, y} /\ \A t \in {x, y} : t <= MaxOf({x, y})
    BY <2>1, Zenon DEF MaxOf
  <2> QED BY <2>2, Zenon
\* enc_proc_header_ack keeps the invariant, and finds the header info it is for.
<1>PeerHeaderAckInv. ASSUME dec_stream # << >>, dec_stream' = Tail(dec_stream), NEW b,
                            Head(dec_stream).op = "ack", b = Head(dec_stream).hblock, PeerHeaderAck(b),
                            UNCHANGED <<last_id, largest_known_id, dyn_table, max_cap, hbrcs, n_blocked,
                                        dec_error, enc_stream, transit, received, misread>>
                     PROVE  SInv'
  <2> USE <1>PeerHeaderAckInv
  <2> DEFINE Infos == [min_id : Nat, max_id : Nat]
             A == Cardinality(AcksOf(b))
  <2>1. PICK n : n = Len(dec_stream)
    BY Zenon
  <2>2. /\ n \in Nat \ {0} /\ Head(dec_stream) = dec_stream[1] /\ dec_stream[1] \in Report
        /\ DOMAIN dec_stream = 1 .. n /\ dec_stream' \in Seq(Report)
    BY <2>1, <1>TailShift, Zenon
  <2>3. b \in Hblocks /\ 1 \in AcksOf(b) /\ \A x : x # b => 1 \notin AcksOf(x)
    BY <2>2 DEF AcksOf, Report
  <2>4. \A x : 1 \notin CancelsOf(x)
    BY <2>2, Zenon DEF CancelsOf
  <2>5. /\ outstanding \in [Hblocks -> Seq(Infos)]
        /\ Len(outstanding[b]) \in Nat /\ DOMAIN outstanding[b] = 1 .. Len(outstanding[b])
    BY <2>3, PositionSets, Zenon DEF SInv, OutstandingInv
  <2>6. A \in Nat /\ A >= 1
    <3>1. Len(dec_stream) \in Nat /\ AcksOf(b) \subseteq 1 .. Len(dec_stream) /\ A \in Nat
      BY <2>3, PositionSets, Zenon
    <3> QED BY <2>3, <3>1, CountOne, Zenon
  <2>7. A <= Len(outstanding[b]) /\ \A i \in 1 .. A : outstanding[b][i].max_id <= Known
    BY <2>3, Zenon DEF SInv, ReportsInv, AcksOk
  <2>8. PICK s : s = outstanding[b]
    BY Zenon
  <2>9. s \in Seq(Infos) /\ Len(s) >= 1 /\ s # << >> /\ Len(s) \in Nat
    BY <2>3, <2>5, <2>6, <2>7, <2>8
  <2>10. PICK h : h = s[1]
    BY Zenon
  <2>11. h \in Infos /\ h.max_id <= Known /\ h.max_id \in Nat /\ h = Head(s)
    <3>1. 1 \in 1 .. A
      BY <2>6
    <3>2. h.max_id <= Known
      BY <2>7, <2>8, <2>10, <3>1, Zenon
    <3>3. h \in Infos /\ h = Head(s)
      <4> HIDE DEF Infos
      <4> QED BY <2>9, <2>10
    <3> QED BY <3>2, <3>3, Zenon
  <2>12. /\ Tail(s) \in Seq(Infos) /\ Len(Tail(s)) = Len(s) - 1 /\ DOMAIN Tail(s) = 1 .. Len(s) - 1
         /\ \A i \in 1 .. Len(s) - 1 : i + 1 \in DOMAIN s /\ Tail(s)[i] = s[i + 1]
    <3> HIDE DEF Infos
    <3> QED BY <2>9
  <2>13. /\ peer' = [peer EXCEPT !.acked = MaxOf({peer.acked, h.max_id})]
         /\ outstanding' = [outstanding EXCEPT ![b] = Tail(s)]
         /\ UNCHANGED <<contents, closed, refused>>
    BY <2>8, <2>9, <2>11, Zenon DEF PeerHeaderAck
  <2>14. /\ peer' \in [ins : Nat, acked : Nat, last_ici : Nat, cap : 0 .. MaxEntries]
         /\ peer'.ins = peer.ins /\ peer'.cap = peer.cap /\ peer'.last_ici = peer.last_ici
         /\ peer.acked <= peer'.acked /\ peer'.acked <= Known /\ peer'.last_ici <= peer'.acked
    <3>1. PICK m : m = MaxOf({peer.acked, h.max_id})
      BY Zenon
    <3>2. /\ peer.acked \in Nat /\ peer.acked <= Known
          /\ peer.last_ici <= peer.acked /\ peer.last_ici \in Nat
      BY Bounds, Zenon DEF SInv, EncoderInv
    <3>3. m \in Nat /\ m >= peer.acked /\ m <= Known
      BY <2>11, <3>1, <3>2, <1>MaxOfTwo, Zenon
    <3>4. peer' = [peer EXCEPT !.acked = m]
      BY <2>13, <3>1, Zenon
    <3> QED BY <3>2, <3>3, <3>4, NowType, SMTT(30)
  <2>15. /\ EncoderInv' /\ DecoderInv' /\ StreamInv' /\ ContentsInv'
         /\ Oldest' = Oldest /\ Known' = Known /\ \A k : Held(k)' = Held(k)
    BY <2>13, <2>14, <1>FrameAcked, Zenon
  <2>16. /\ outstanding' \in [Hblocks -> Seq(Infos)]
         /\ \A x \in Hblocks : x # b => outstanding'[x] = outstanding[x]
         /\ outstanding'[b] = Tail(s)
    BY <2>3, <2>5, <2>12, <2>13, Zenon
  <2>17. OutstandingInv'
    <3>1. ASSUME NEW x \in Hblocks, NEW i \in DOMAIN outstanding'[x]
          PROVE  \E k \in DOMAIN outstanding[x] : outstanding'[x][i] = outstanding[x][k]
      <4>1. CASE x # b
        BY <2>16, <3>1, <4>1, Zenon
      <4>2. CASE x = b
        BY <2>8, <2>12, <2>16, <3>1, <4>2, ZenonT(60)
      <4> QED BY <4>1, <4>2, Zenon
    <3>2. \A x \in Hblocks : \A i \in DOMAIN outstanding'[x] :
            /\ Oldest <= outstanding'[x][i].min_id
            /\ outstanding'[x][i].min_id <= outstanding'[x][i].max_id
            /\ outstanding'[x][i].max_id <= peer.ins
      BY <3>1, ZenonT(60) DEF SInv, OutstandingInv
    <3>3. StreamsAtRisk' \subseteq StreamsAtRisk
      <4>1. SUFFICES ASSUME NEW x \in StreamsAtRisk' PROVE x \in StreamsAtRisk
        BY Zenon
      <4>2. x \in Hblocks
        BY <4>1, Zenon DEF StreamsAtRisk
      <4>3. PICK i \in DOMAIN outstanding'[x] : outstanding'[x][i].max_id > peer'.acked
        BY <4>1, Zenon DEF StreamsAtRisk
      <4>4. PICK k \in DOMAIN outstanding[x] : outstanding'[x][i] = outstanding[x][k]
        BY <3>1, <4>2, Zenon
      <4>5. outstanding[x][k] \in Infos
        <5> HIDE DEF Infos
        <5> QED BY <2>5, <4>2, SeqElem, Zenon
      <4>6. outstanding[x][k].max_id \in Nat /\ peer.acked \in Nat /\ peer'.acked \in Nat
        BY <2>14, <4>5, Bounds, Zenon
      <4>7. outstanding[x][k].max_id > peer.acked
        BY <2>14, <4>3, <4>4, <4>6
      <4> QED BY <4>2, <4>7, Zenon DEF StreamsAtRisk
    <3>4. Cardinality(StreamsAtRisk') <= MaxBlockedStreams
      BY <3>3, <1>RiskShrinks, Zenon
    <3> QED BY <2>14, <2>15, <2>16, <3>2, <3>4, Zenon DEF OutstandingInv
  <2>18. PICK a : a = A
    BY Zenon
  <2>19. Cardinality(AcksOf(b)') = a - 1 /\ a \in Nat /\ a >= 1
    BY <2>3, <2>6, <2>18, <1>AcksTail, Zenon
  <2>20. \A x \in Hblocks : x # b => Cardinality(AcksOf(x)') = Cardinality(AcksOf(x))
    BY <2>3, <1>AcksTail, PositionSets
  <2>21. AcksOk(b)'
    <3>1. Cardinality(AcksOf(b)') <= Len(outstanding'[b])
      BY <2>7, <2>8, <2>9, <2>12, <2>16, <2>18, <2>19
    <3>2. \A i \in 1 .. a - 1 : outstanding'[b][i].max_id <= Known
      <4>1. TAKE i \in 1 .. a - 1
      <4>2. i + 1 \in 1 .. a /\ i \in 1 .. Len(s) - 1
        BY <2>7, <2>8, <2>9, <2>18, <2>19, SMTT(30)
      <4> QED BY <2>7, <2>8, <2>12, <2>16, <2>18, <4>2, Zenon
    <3>3. ASSUME NEW j \in CancelsOf(b)'
          PROVE  /\ b \in closed' /\ CancelsOf(b)' = {j} /\ \A k \in AcksOf(b)' : k < j
      <4>1. /\ AcksOf(b)' = { i \in 1 .. n - 1 : i + 1 \in AcksOf(b) }
            /\ CancelsOf(b)' = { i \in 1 .. n - 1 : i + 1 \in CancelsOf(b) }
        BY <2>1, <1>TailShift
      <4>2. j \in 1 .. n - 1 /\ j + 1 \in CancelsOf(b)
        BY <3>3, <4>1, Zenon
      <4>3. b \in closed /\ CancelsOf(b) = {j + 1} /\ \A k \in AcksOf(b) : k < j + 1
        BY <2>3, <4>2, Zenon DEF SInv, ReportsInv, AcksOk
      <4>4. CancelsOf(b)' = {j}
        BY <2>2, <4>1, <4>2, <4>3
      <4>5. \A k \in AcksOf(b)' : k < j
        BY <2>2, <4>1, <4>2, <4>3
      <4> QED BY <2>13, <4>3, <4>4, <4>5, Zenon
    <3> QED BY <2>15, <2>19, <3>1, <3>2, <3>3, Zenon DEF AcksOk
  <2>22. ReportsInv'
    <3>1. \A x \in Hblocks : x # b => AcksOk(x)'
      BY <2>3, <2>13, <2>15, <2>16, <1>AcksTailOk, Zenon
    <3>2. \E upto \in [Icis' -> 0 .. Known'] : IcisOk(upto)'
      BY <2>14, <2>15, <1>IcisTail, Zenon
    <3> QED BY <2>2, <2>21, <3>1, <3>2, Zenon DEF ReportsInv
  <2>23. TransitInv'
    <3>1. \A x \in Hblocks \ closed : x # b => InOrder(x)'
      BY <2>15, <2>16, <2>20, FrameStream, Zenon
    <3>2. ASSUME b \notin closed PROVE InOrder(b)'
      <4>1. \A i : RefBlocks(b, i)' = RefBlocks(b, i)
        BY Zenon DEF RefBlocks
      <4>2. CountOk(b) /\ \A i \in DOMAIN transit[b] : BlockOk(transit[b][i], Info(b, i))
                                                       /\ WireHeld(transit[b][i])
        BY <2>3, <3>2, Zenon DEF SInv, TransitInv
      <4>3. /\ Len(transit[b]) \in Nat /\ DOMAIN transit[b] = 1 .. Len(transit[b])
            /\ \A i \in 0 .. Len(transit[b]) : Cardinality(RefBlocks(b, i)) \in Nat
        BY <2>3, PositionSets, Zenon
      <4>4. CountOk(b)'
        <5>1. Len(transit[b]) \in 0 .. Len(transit[b])
          BY <4>3
        <5>2. Cardinality(RefBlocks(b, Len(transit[b]))) \in Nat
          BY <4>3, <5>1, Zenon
        <5>3. Len(s) = a + Cardinality(RefBlocks(b, Len(transit[b])))
          BY <2>8, <2>18, <4>2, Zenon DEF CountOk
        <5>4. Len(outstanding'[b]) = (a - 1) + Cardinality(RefBlocks(b, Len(transit[b])))
          BY <2>9, <2>12, <2>16, <2>19, <5>2, <5>3
        <5> QED BY <2>19, <4>1, <5>4, Zenon DEF CountOk
      <4>5. ASSUME NEW i \in DOMAIN transit[b] PROVE BlockOk(transit[b][i], Info(b, i)')
        <5>1. PICK v : v = transit[b][i]
          BY Zenon
        <5>2. PICK r : r = Cardinality(RefBlocks(b, i))
          BY Zenon
        <5>3. r \in Nat /\ (v.needs # 0 => r >= 1 /\ a + r \in DOMAIN s)
          <6>1. i \in 0 .. Len(transit[b])
            BY <4>3, <4>5
          <6>2. v.needs # 0 => r >= 1 /\ A + r \in DOMAIN outstanding[b]
            BY <2>3, <4>5, <5>1, <5>2, TransitFacts, Zenon
          <6> QED BY <2>8, <2>18, <4>3, <5>2, <6>1, <6>2, Zenon
        <5>4. Info(b, i) = s[a + r] /\ Info(b, i)' = Tail(s)[(a - 1) + r]
          BY <2>8, <2>16, <2>18, <2>19, <4>1, <5>2, Zenon DEF Info
        <5>5. v.needs # 0 => Tail(s)[(a - 1) + r] = s[a + r]
          <6>1. SUFFICES ASSUME v.needs # 0 PROVE Tail(s)[(a - 1) + r] = s[a + r]
            BY Zenon
          <6>2. PICK len \in Nat : len = Len(s)
            BY <2>9, Zenon
          <6>3. a \in Nat /\ r \in Nat /\ r >= 1 /\ a >= 1 /\ a + r \in 1 .. len
            <7>1. DOMAIN s = 1 .. len
              BY <2>9, <6>2
            <7> QED BY <2>19, <5>3, <6>1, <7>1, Zenon
          <6>4. (a - 1) + r \in 1 .. len - 1 /\ (a - 1) + r + 1 = a + r
            BY <6>2, <6>3
          <6> QED BY <2>12, <6>2, <6>4, Zenon
        <5>6. BlockOk(v, Info(b, i))
          BY <4>2, <4>5, <5>1, Zenon
        <5>7. BlockOk(v, Info(b, i)')
          BY <5>4, <5>5, <5>6, Zenon DEF BlockOk
        <5> QED BY <5>1, <5>7, Zenon
      <4>6. ASSUME NEW v, WireHeld(v) PROVE WireHeld(v)'
        BY <2>15, <4>6, Zenon DEF WireHeld
      <4>7. ASSUME NEW i \in DOMAIN transit[b] PROVE WireHeld(transit[b][i])'
        <5>1. PICK v : v = transit[b][i]
          BY Zenon
        <5>2. WireHeld(v)'
          BY <4>2, <4>6, <4>7, <5>1, Zenon
        <5> QED BY <5>1, <5>2, Zenon
      <4> QED BY <4>4, <4>5, <4>7, Zenon DEF InOrder
    <3> QED BY <2>13, <3>1, <3>2, Zenon DEF SInv, TransitInv, InOrder
  <2>24. ContextsInv'
    BY FrameContexts, Zenon DEF SInv
  <2> QED BY <2>13, <2>15, <2>17, <2>22, <2>23, <2>24, Zenon DEF SInv, NoError, NoMisread
\* enc_proc_ici keeps the invariant, and does not refuse the increment.
<1>PeerIciInv. ASSUME dec_stream # << >>, dec_stream' = Tail(dec_stream), NEW m,
                      Head(dec_stream).op = "ici", m = Head(dec_stream).count, PeerIci(m),
                      UNCHANGED <<last_id, largest_known_id, dyn_table, max_cap, hbrcs, n_blocked,
                                  dec_error, enc_stream, transit, received, misread>>
               PROVE  SInv'
  <2> USE <1>PeerIciInv
  <2> DEFINE Peers == [ins : Nat, acked : Nat, last_ici : Nat, cap : 0 .. MaxEntries]
  <2>1. PICK n : n = Len(dec_stream)
    BY Zenon
  <2>2. /\ n \in Nat \ {0} /\ Head(dec_stream) = dec_stream[1] /\ dec_stream[1] \in Report
        /\ DOMAIN dec_stream = 1 .. n /\ dec_stream' \in Seq(Report)
    BY <2>1, <1>TailShift, Zenon
  <2>3. m \in Nat \ {0} /\ 1 \in Icis /\ \A x : 1 \notin AcksOf(x) /\ 1 \notin CancelsOf(x)
    BY <2>2 DEF Icis, AcksOf, CancelsOf, Report
  <2>4. /\ peer \in Peers /\ peer.last_ici \in Nat /\ peer.acked \in Nat /\ peer.ins \in Nat
        /\ Known \in Nat /\ Known <= peer.ins /\ peer.acked <= Known /\ peer.last_ici <= peer.acked
    BY Bounds, NowType, SMTT(30) DEF SInv, EncoderInv
  <2>5. peer.last_ici + m <= Known
    <3>1. PICK u \in [Icis -> 0 .. Known] : IcisOk(u)
      BY Zenon DEF SInv, ReportsInv
    <3>2. peer.last_ici + m <= u[1] /\ u[1] \in 0 .. Known
      BY <2>2, <2>3, <3>1, Zenon DEF IcisOk
    <3> QED BY <2>3, <2>4, <3>2
  <2>6. /\ peer' = IF peer.last_ici + m > peer.acked
                   THEN [peer EXCEPT !.acked = peer.last_ici + m, !.last_ici = peer.last_ici + m]
                   ELSE peer
        /\ UNCHANGED <<contents, outstanding, closed, refused>>
    <3>1. ~(m = 0 \/ peer.last_ici + m > peer.ins)
      BY <2>3, <2>4, <2>5
    <3> QED BY <3>1, Zenon DEF PeerIci
  <2>7. /\ peer' \in Peers
        /\ peer'.ins = peer.ins /\ peer'.cap = peer.cap
        /\ peer.acked <= peer'.acked /\ peer'.acked <= Known /\ peer'.last_ici <= peer'.acked
        /\ peer'.last_ici = peer.last_ici \/ peer'.last_ici = peer.last_ici + m
    <3>1. CASE peer.last_ici + m > peer.acked
      <4>1. PICK l : l = peer.last_ici + m
        BY Zenon
      <4>2. l \in Nat /\ peer.acked <= l /\ l <= Known
        BY <2>3, <2>4, <2>5, <3>1, <4>1, SMTT(30)
      <4>3. peer' = [ins |-> peer.ins, acked |-> l, last_ici |-> l, cap |-> peer.cap]
        BY <2>4, <2>6, <3>1, <4>1, Zenon
      <4> QED BY <2>4, <4>1, <4>2, <4>3
    <3>2. CASE ~(peer.last_ici + m > peer.acked)
      BY <2>4, <2>6, <3>2
    <3> QED BY <3>1, <3>2, Zenon
  <2>8. /\ EncoderInv' /\ DecoderInv' /\ StreamInv' /\ ContentsInv'
        /\ Oldest' = Oldest /\ Known' = Known /\ \A k : Held(k)' = Held(k)
    BY <2>6, <2>7, <1>FrameAcked, Zenon
  <2>9. OutstandingInv'
    <3>1. StreamsAtRisk' \subseteq StreamsAtRisk
      <4>1. SUFFICES ASSUME NEW x \in StreamsAtRisk' PROVE x \in StreamsAtRisk
        BY Zenon
      <4>2. x \in Hblocks
        BY <4>1, Zenon DEF StreamsAtRisk
      <4>3. PICK i \in DOMAIN outstanding[x] : outstanding[x][i].max_id > peer'.acked
        BY <2>6, <4>1, Zenon DEF StreamsAtRisk
      <4>4. PICK S : S = [min_id : Nat, max_id : Nat]
        BY Zenon
      <4>5. outstanding[x] \in Seq(S)
        BY <4>2, <4>4, Zenon DEF SInv, OutstandingInv
      <4>6. outstanding[x][i] \in S
        BY <4>5, SeqElem, Zenon
      <4>7. outstanding[x][i].max_id \in Nat /\ peer'.acked \in Nat
        BY <2>7, <4>4, <4>6, Zenon
      <4>8. outstanding[x][i].max_id > peer.acked
        BY <2>4, <2>7, <4>3, <4>7
      <4> QED BY <4>2, <4>8, Zenon DEF StreamsAtRisk
    <3>2. Cardinality(StreamsAtRisk') <= MaxBlockedStreams
      BY <3>1, <1>RiskShrinks, Zenon
    <3> QED BY <2>6, <2>7, <2>8, <3>2, Zenon DEF SInv, OutstandingInv
  <2>10. ReportsInv'
    <3>1. \A x \in Hblocks : AcksOk(x)'
      BY <2>3, <2>6, <2>8, <1>AcksTailOk, Zenon
    <3>2. peer'.last_ici \in Nat
      BY <2>7, Zenon
    <3>3. \E upto \in [Icis' -> 0 .. Known'] : IcisOk(upto)'
      BY <2>7, <2>8, <3>2, <1>IcisTail, Zenon
    <3> QED BY <2>2, <3>1, <3>3, Zenon DEF ReportsInv
  <2>11. TransitInv'
    <3>1. \A x \in Hblocks : Cardinality(AcksOf(x)') = Cardinality(AcksOf(x))
      BY <2>3, <1>AcksTail, PositionSets
    <3>2. \A x \in Hblocks \ closed : InOrder(x)'
      BY <2>6, <2>8, <3>1, FrameStream, Zenon
    <3> QED BY <2>6, <3>2, Zenon DEF SInv, TransitInv, InOrder
  <2>12. ContextsInv'
    BY FrameContexts, Zenon DEF SInv
  <2> QED BY <2>6, <2>8, <2>9, <2>10, <2>11, <2>12, Zenon DEF SInv, NoError, NoMisread
\* enc_proc_stream_cancel keeps the invariant: nothing of the stream is under way.
<1>PeerStreamCancelInv. ASSUME dec_stream # << >>, dec_stream' = Tail(dec_stream), NEW b,
                               Head(dec_stream).op = "cancel", b = Head(dec_stream).hblock, PeerStreamCancel(b),
                               UNCHANGED <<last_id, largest_known_id, dyn_table, max_cap, hbrcs, n_blocked,
                                           dec_error, enc_stream, transit, received, misread>>
                        PROVE  SInv'
  <2> USE <1>PeerStreamCancelInv
  <2> DEFINE Infos == [min_id : Nat, max_id : Nat]
  <2>1. PICK n : n = Len(dec_stream)
    BY Zenon
  <2>2. /\ n \in Nat \ {0} /\ Head(dec_stream) = dec_stream[1] /\ dec_stream[1] \in Report
        /\ DOMAIN dec_stream = 1 .. n /\ dec_stream' \in Seq(Report)
        /\ AcksOf(b)' = { j \in 1 .. n - 1 : j + 1 \in AcksOf(b) }
        /\ CancelsOf(b)' = { j \in 1 .. n - 1 : j + 1 \in CancelsOf(b) }
    BY <2>1, <1>TailShift
  <2>3. /\ b \in Hblocks /\ 1 \in CancelsOf(b)
        /\ \A x : 1 \notin AcksOf(x) /\ (x # b => 1 \notin CancelsOf(x))
    BY <2>2 DEF CancelsOf, AcksOf, Report
  <2>4. b \in closed /\ CancelsOf(b) = {1} /\ \A k \in AcksOf(b) : k < 1
    BY <2>3, Zenon DEF SInv, ReportsInv, AcksOk
  <2>5. AcksOf(b)' = {} /\ CancelsOf(b)' = {}
    <3>1. AcksOf(b) \subseteq 1 .. n
      BY <2>2, Zenon DEF AcksOf
    <3>2. AcksOf(b) = {}
      BY <2>2, <2>4, <3>1
    <3>3. CancelsOf(b)' = {}
      BY <2>2, <2>4
    <3> QED BY <2>2, <3>2, <3>3, Zenon
  <2>6. /\ outstanding' = [outstanding EXCEPT ![b] = << >>] /\ closed' = closed \ {b}
        /\ UNCHANGED <<peer, contents, refused>>
    BY Zenon DEF PeerStreamCancel
  <2>7. /\ outstanding' \in [Hblocks -> Seq(Infos)] /\ outstanding'[b] = << >>
        /\ \A x \in Hblocks : x # b => outstanding'[x] = outstanding[x]
    <3>1. outstanding \in [Hblocks -> Seq(Infos)]
      BY Zenon DEF SInv, OutstandingInv
    <3>2. << >> \in Seq(Infos)
      OBVIOUS
    <3> HIDE DEF Infos
    <3> QED BY <2>3, <2>6, <3>1, <3>2, Zenon
  <2>8. /\ EncoderInv' /\ DecoderInv' /\ StreamInv' /\ ContentsInv'
        /\ Oldest' = Oldest /\ Known' = Known /\ \A k : Held(k)' = Held(k)
    BY <2>6, FrameTables, Zenon
  <2>9. OutstandingInv'
    <3>1. ASSUME NEW x \in Hblocks, NEW i \in DOMAIN outstanding'[x]
          PROVE  i \in DOMAIN outstanding[x] /\ outstanding'[x][i] = outstanding[x][i]
      <4>1. x # b
        BY <2>7, <3>1
      <4> QED BY <2>7, <3>1, <4>1, Zenon
    <3>2. \A x \in Hblocks : \A i \in DOMAIN outstanding'[x] :
            /\ Oldest <= outstanding'[x][i].min_id
            /\ outstanding'[x][i].min_id <= outstanding'[x][i].max_id
            /\ outstanding'[x][i].max_id <= peer.ins
      BY <3>1, Zenon DEF SInv, OutstandingInv
    <3>3. StreamsAtRisk' \subseteq StreamsAtRisk
      BY <2>6, <3>1, Zenon DEF StreamsAtRisk
    <3>4. Cardinality(StreamsAtRisk') <= MaxBlockedStreams
      BY <3>3, <1>RiskShrinks, Zenon
    <3> QED BY <2>6, <2>7, <2>8, <3>2, <3>4, Zenon DEF OutstandingInv
  <2>10. Cardinality(AcksOf(b)') = 0
    BY <2>5, Zenon DEF Facts, EmptyFact
  <2>11. ReportsInv'
    <3>1. \A x \in Hblocks : x # b => AcksOk(x)'
      BY <2>3, <2>6, <2>7, <2>8, <1>AcksTailOk, Zenon
    <3>2. Len(outstanding'[b]) = 0
      BY <2>7, Zenon
    <3>3. AcksOk(b)'
      BY <2>5, <2>10, <3>2 DEF AcksOk
    <3>4. peer'.last_ici = peer.last_ici /\ peer.last_ici \in Nat
      BY <2>6, NowType, Zenon
    <3>5. \E upto \in [Icis' -> 0 .. Known'] : IcisOk(upto)'
      BY <2>8, <3>4, <1>IcisTail, Zenon
    <3> QED BY <2>2, <3>1, <3>3, <3>5, Zenon DEF ReportsInv
  <2>12. TransitInv'
    <3>1. \A x \in Hblocks : Cardinality(AcksOf(x)') = Cardinality(AcksOf(x))
      BY <2>3, <1>AcksTail, PositionSets
    <3>2. \A x \in Hblocks \ closed : InOrder(x)'
      BY <2>4, <2>7, <2>8, <3>1, FrameStream, Zenon
    <3>3. transit[b] = << >> /\ transit'[b] = << >>
      BY <2>4, Zenon DEF SInv, TransitInv
    <3>4. Len(transit'[b]) = 0 /\ DOMAIN transit'[b] = {} /\ Len(outstanding'[b]) = 0
      BY <2>7, <3>3
    <3>5. Cardinality(RefBlocks(b, Len(transit[b]))') = 0
      <4>1. RefBlocks(b, Len(transit[b]))' = {}
        BY <3>4 DEF RefBlocks
      <4> QED BY <4>1, Zenon DEF Facts, EmptyFact
    <3>6. InOrder(b)'
      BY <2>10, <3>4, <3>5 DEF InOrder, CountOk
    <3> QED BY <2>6, <3>2, <3>6, Zenon DEF SInv, TransitInv, InOrder
  <2>13. ContextsInv'
    BY FrameContexts, Zenon DEF SInv
  <2> QED BY <2>6, <2>8, <2>9, <2>11, <2>12, <2>13, Zenon DEF SInv, NoError, NoMisread
<1>1. PICK h : h = Head(dec_stream)
  BY Zenon
<1>2. CASE h.op = "ack" /\ PeerHeaderAck(h.hblock)
  <2>1. PICK b : b = h.hblock
    BY Zenon
  <2> QED BY <1>1, <1>2, <2>1, <1>PeerHeaderAckInv, Zenon DEF PeerDecoderIn
<1>3. CASE h.op = "ici" /\ PeerIci(h.count)
  <2>1. PICK m : m = h.count
    BY Zenon
  <2> QED BY <1>1, <1>3, <2>1, <1>PeerIciInv, Zenon DEF PeerDecoderIn
<1>4. CASE h.op = "cancel" /\ PeerStreamCancel(h.hblock)
  <2>1. PICK b : b = h.hblock
    BY Zenon
  <2> QED BY <1>1, <1>4, <2>1, <1>PeerStreamCancelInv, Zenon DEF PeerDecoderIn
<1> QED BY <1>1, <1>2, <1>3, <1>4, Zenon DEF PeerDecoderIn

-----------------------------------------------------------------------------
(***************************************************************************)
(* The decoder writes a report.                                            *)
(***************************************************************************)

\* The decoder stream with one more report at its end.
LEMMA AppendShift ==
    ASSUME SInv, NEW r \in Report, dec_stream' = Append(dec_stream, r),
           NEW n, n = Len(dec_stream)
    PROVE  /\ n \in Nat /\ DOMAIN dec_stream = 1 .. n
           /\ dec_stream' \in Seq(Report) /\ DOMAIN dec_stream' = 1 .. n + 1
           /\ \A j \in 1 .. n : dec_stream'[j] = dec_stream[j]
           /\ dec_stream'[n + 1] = r
           /\ Icis' = Icis \cup (IF r.op = "ici" THEN {n + 1} ELSE {})
           /\ \A b : /\ AcksOf(b)' = AcksOf(b) \cup
                           (IF r.op = "ack" /\ r.hblock = b THEN {n + 1} ELSE {})
                     /\ CancelsOf(b)' = CancelsOf(b) \cup
                           (IF r.op = "cancel" /\ r.hblock = b THEN {n + 1} ELSE {})
<1>1. dec_stream \in Seq(Report)
  BY Zenon DEF SInv, ReportsInv
<1>2. /\ n \in Nat /\ DOMAIN dec_stream = 1 .. n
      /\ dec_stream' \in Seq(Report) /\ DOMAIN dec_stream' = 1 .. n + 1
      /\ \A j \in 1 .. n : dec_stream'[j] = dec_stream[j]
      /\ dec_stream'[n + 1] = r
  <2> HIDE DEF Report
  <2> QED BY <1>1
<1>3. 1 .. n + 1 = (1 .. n) \cup {n + 1}
  BY <1>2
<1>4. Icis' = Icis \cup (IF r.op = "ici" THEN {n + 1} ELSE {})
  BY <1>2, <1>3, Zenon DEF Icis
<1>5. ASSUME NEW b
      PROVE  /\ AcksOf(b)' = AcksOf(b) \cup
                   (IF r.op = "ack" /\ r.hblock = b THEN {n + 1} ELSE {})
             /\ CancelsOf(b)' = CancelsOf(b) \cup
                   (IF r.op = "cancel" /\ r.hblock = b THEN {n + 1} ELSE {})
  BY <1>2, <1>3 DEF AcksOf, CancelsOf
<1> QED BY <1>2, <1>4, <1>5, Zenon

\* The reports of a stream that the new one is not about.
LEMMA AcksKept ==
    ASSUME Facts, SInv, NEW x \in Hblocks, AcksOf(x)' = AcksOf(x), CancelsOf(x)' = CancelsOf(x),
           outstanding'[x] = outstanding[x], x \in closed => x \in closed',
           Known' \in Nat, Known <= Known'
    PROVE  AcksOk(x)'
<1>1. AcksOk(x)
  BY Zenon DEF SInv, ReportsInv
<1>2. ASSUME NEW i \in 1 .. Cardinality(AcksOf(x)) PROVE outstanding[x][i].max_id <= Known'
  <2>1. outstanding[x][i].max_id <= Known /\ Known \in Nat
    BY <1>1, Bounds, Zenon DEF AcksOk
  <2>2. PICK S : S = [min_id : Nat, max_id : Nat]
    BY Zenon
  <2>3. outstanding[x] \in Seq(S)
    BY <2>2, Zenon DEF SInv, OutstandingInv
  <2>4. i \in DOMAIN outstanding[x]
    <3>1. DOMAIN outstanding[x] = 1 .. Len(outstanding[x]) /\ Len(outstanding[x]) \in Nat
          /\ Cardinality(AcksOf(x)) \in Nat /\ Cardinality(AcksOf(x)) <= Len(outstanding[x])
      BY <1>1, PositionSets, Zenon DEF AcksOk
    <3> QED BY <3>1
  <2>5. outstanding[x][i] \in S
    BY <2>3, <2>4, SeqElem, Zenon
  <2>6. outstanding[x][i].max_id \in Nat
    BY <2>2, <2>5, Zenon
  <2> QED BY <2>1, <2>6
<1> QED BY <1>1, <1>2, Zenon DEF AcksOk

\* Increments already under way.
LEMMA IcisKept ==
    ASSUME Facts, SInv, Icis' = Icis, \A j \in Icis : dec_stream'[j] = dec_stream[j],
           peer' = peer, Known' \in Nat, Known <= Known'
    PROVE  \E upto \in [Icis' -> 0 .. Known'] : IcisOk(upto)'
<1>1. PICK u \in [Icis -> 0 .. Known] : IcisOk(u)
  BY Zenon DEF SInv, ReportsInv
<1>2. 0 .. Known \subseteq 0 .. Known'
  BY Bounds
<1>3. u \in [Icis' -> 0 .. Known']
  BY <1>2, Zenon
<1>4. IcisOk(u)'
  BY <1>1, Zenon DEF IcisOk
<1> QED BY <1>3, <1>4, Zenon

\* The decoder knows more; its table and the encoder's are as they were.
LEMMA FrameKnown ==
    ASSUME Facts, SInv, UNCHANGED <<peer, contents, enc_stream, received, max_cap, dyn_table, last_id>>,
           largest_known_id' \in 0 .. M - 1, Known' \in Nat, Known <= Known'
    PROVE  /\ EncoderInv' /\ DecoderInv' /\ StreamInv' /\ ContentsInv'
           /\ Oldest' = Oldest /\ \A k : Held(k)' = Held(k)
<1>1. Oldest' = Oldest /\ DecOldest' = DecOldest /\ Live' = Live
      /\ Now' = Now /\ DecNow' = DecNow
  BY Zenon DEF Oldest, DecOldest, Live, Now, DecNow
<1>2. \A k : Held(k)' = Held(k)
  BY <1>1, Zenon DEF Held
<1>3. \A p : StateAt(p)' = StateAt(p)
  BY <1>1, Zenon DEF StateAt
<1>4. \A i : SourceOk(i)' <=> SourceOk(i)
  BY <1>2, Zenon DEF SourceOk
<1>5. EncoderInv'
  BY <1>1, Zenon DEF SInv, EncoderInv
<1>6. peer.acked <= Known'
  BY Bounds
<1>7. DecoderInv'
  BY <1>6, Zenon DEF SInv, DecoderInv, M
<1>8. StreamInv'
  BY <1>1, <1>3, Zenon DEF SInv, StreamInv
<1>9. ContentsInv'
  BY <1>1, <1>2, <1>4, Zenon DEF SInv, ContentsInv
<1> QED BY <1>1, <1>2, <1>5, <1>7, <1>8, <1>9, Zenon

\* The header infos, when neither they nor the acknowledged ID change.
LEMMA FrameOutstanding ==
    ASSUME SInv, UNCHANGED <<outstanding, peer>>, Oldest' = Oldest
    PROVE  OutstandingInv'
<1>1. StreamsAtRisk' = StreamsAtRisk
  BY Zenon DEF StreamsAtRisk
<1> QED BY <1>1, Zenon DEF SInv, OutstandingInv

\* lsqpack_dec_write_ici keeps the invariant.
LEMMA AppWriteIciInv ==
    ASSUME Facts, SInv, AppWriteIci
    PROVE  SInv'
<1> DEFINE g == IdMinus(last_id, largest_known_id)
           r == [op |-> "ici", count |-> g]
<1>1. /\ last_id # largest_known_id /\ dec_stream' = Append(dec_stream, r)
      /\ largest_known_id' = last_id
      /\ UNCHANGED <<pvars, enc_stream, transit, closed, received, misread, refused, last_id,
                     dyn_table, max_cap, hbrcs, n_blocked, dec_error>>
  BY Zenon DEF AppWriteIci, WriteIci
<1>2. /\ received \in Nat /\ Known \in Nat /\ Known <= received
      /\ largest_known_id = IdOf(Known) /\ last_id = IdOf(received) /\ last_id \in 0 .. M - 1
      /\ peer.last_ici \in Nat /\ peer.last_ici <= Known
  <2>1. /\ received \in Nat /\ Known \in Nat /\ Known <= received
        /\ largest_known_id = IdOf(Known) /\ last_id = IdOf(received)
        /\ peer.acked \in Nat /\ peer.acked <= Known
    BY Bounds, Zenon DEF SInv, DecoderInv
  <2>2. last_id \in 0 .. M - 1
    BY <2>1, IdShift
  <2>3. peer.last_ici \in Nat /\ peer.last_ici <= peer.acked
    BY Zenon DEF SInv, EncoderInv
  <2> QED BY <2>1, <2>2, <2>3
<1>3. g = received - Known /\ g \in Nat \ {0}
  <2>1. g \in Int /\ Known = received - g
    <3>1. g = (last_id + M - largest_known_id) % M
      BY Zenon DEF IdMinus, M
    <3>2. largest_known_id \in 0 .. M - 1
      BY Zenon DEF SInv, DecoderInv, M
    <3>3. last_id + M - largest_known_id \in Int
      BY <1>2, <3>2, MType
    <3>4. g \in 0 .. M - 1
      BY <3>1, <3>3, ModRange, Zenon
    <3> QED BY <3>4, MType DEF Known
  <2>2. received # Known
    BY <1>1, <1>2, Zenon
  <2> HIDE DEF g
  <2> QED BY <1>2, <2>1, <2>2
<1>4. Known' = received
  <2>1. IdMinus(last_id, last_id) = received - received
    <3>1. received - received \in 0 .. M - 1
      BY <1>2, MType
    <3> QED BY <1>2, <3>1, IdDistance
  <2>2. IdMinus(last_id, largest_known_id)' = IdMinus(last_id, last_id)
    BY <1>1, Zenon DEF IdMinus
  <2> QED BY <1>1, <1>2, <2>1, <2>2 DEF Known
<1> HIDE DEF g
<1>5. r \in Report
  BY <1>3, Zenon DEF Report
<1>6. /\ EncoderInv' /\ DecoderInv' /\ StreamInv' /\ ContentsInv'
      /\ Oldest' = Oldest /\ \A k : Held(k)' = Held(k)
  BY <1>1, <1>2, <1>4, FrameKnown, Zenon DEF pvars
<1>7. OutstandingInv'
  BY <1>1, <1>6, FrameOutstanding, Zenon DEF pvars
<1>8. PICK n : n = Len(dec_stream)
  BY Zenon
<1>9. /\ n \in Nat /\ DOMAIN dec_stream = 1 .. n /\ dec_stream' \in Seq(Report)
      /\ \A j \in 1 .. n : dec_stream'[j] = dec_stream[j]
      /\ dec_stream'[n + 1] = r
      /\ Icis' = Icis \cup {n + 1}
      /\ \A b : AcksOf(b)' = AcksOf(b) /\ CancelsOf(b)' = CancelsOf(b)
  <2>1. PICK x : x = r
    BY Zenon
  <2>2. x.op = "ici" /\ x \in Report /\ dec_stream' = Append(dec_stream, x)
    BY <1>1, <1>5, <2>1, Zenon
  <2> HIDE DEF r
  <2>3. /\ n \in Nat /\ DOMAIN dec_stream = 1 .. n /\ dec_stream' \in Seq(Report)
        /\ \A j \in 1 .. n : dec_stream'[j] = dec_stream[j]
        /\ dec_stream'[n + 1] = x
    BY <1>8, <2>2, AppendShift, Zenon
  <2>4. Icis' = Icis \cup (IF x.op = "ici" THEN {n + 1} ELSE {})
    BY <1>8, <2>2, AppendShift, Zenon
  <2>5. \A b : /\ AcksOf(b)' = AcksOf(b) \cup
                      (IF x.op = "ack" /\ x.hblock = b THEN {n + 1} ELSE {})
               /\ CancelsOf(b)' = CancelsOf(b) \cup
                      (IF x.op = "cancel" /\ x.hblock = b THEN {n + 1} ELSE {})
    BY <1>8, <2>2, AppendShift, ZenonT(60)
  <2> QED BY <2>1, <2>2, <2>3, <2>4, <2>5, Zenon
<1>10. ReportsInv'
  <2>1. \A b \in Hblocks : AcksOk(b)'
    BY <1>1, <1>2, <1>4, <1>9, AcksKept, Zenon DEF pvars
  <2>2. PICK u \in [Icis -> 0 .. Known] : IcisOk(u)
    BY Zenon DEF SInv, ReportsInv
  <2>3. PICK v : v = [j \in Icis' |-> IF j \in Icis THEN u[j] ELSE received]
    BY Zenon
  <2>4. Icis \subseteq 1 .. n
    BY <1>9, Zenon DEF Icis
  <2>5. /\ \A j \in Icis : v[j] = u[j] /\ u[j] \in 0 .. Known
        /\ v[n + 1] = received
    <3>1. \A j \in Icis : j \in Icis'
      BY <1>9, Zenon
    <3>2. n + 1 \in Icis'
      BY <1>9, Zenon
    <3>3. n + 1 \notin Icis
      BY <1>9, <2>4
    <3>4. \A j \in Icis : v[j] = u[j]
      BY <2>3, <3>1, Zenon
    <3>5. v[n + 1] = received
      BY <2>3, <3>2, <3>3, Zenon
    <3> QED BY <2>2, <3>4, <3>5, Zenon
  <2>6. v \in [Icis' -> 0 .. Known']
    <3>1. \A j \in Icis' : (IF j \in Icis THEN u[j] ELSE received) \in 0 .. Known'
      BY <1>2, <1>4, <2>5
    <3> QED BY <2>3, <3>1, Zenon
  <2>7. ASSUME NEW j \in Icis'
        PROVE  /\ peer.last_ici + dec_stream'[j].count <= v[j]
               /\ \A k \in Icis' : k < j => v[k] + dec_stream'[j].count <= v[j]
    <3>1. CASE j \in Icis
      <4>1. j \in 1 .. n /\ dec_stream'[j] = dec_stream[j]
        BY <1>9, <2>4, <3>1, Zenon
      <4>2. \A k \in Icis' : k < j => k \in Icis
        BY <1>9, <4>1
      <4> QED BY <2>2, <2>5, <3>1, <4>1, <4>2, Zenon DEF IcisOk
    <3>2. CASE j = n + 1
      <4>1. dec_stream'[j].count = g
        BY <1>9, <3>2
      <4>2. \A k \in Icis' : k < j => k \in Icis
        BY <1>9, <2>4, <3>2
      <4>3. \A k \in Icis : v[k] \in 0 .. Known
        BY <2>5, Zenon
      <4> QED BY <1>2, <1>3, <2>5, <3>2, <4>1, <4>2, <4>3
    <3> QED BY <1>9, <2>7, <3>1, <3>2, Zenon
  <2>8. IcisOk(v)'
    BY <1>1, <2>7, Zenon DEF IcisOk, pvars
  <2> QED BY <1>9, <2>1, <2>6, <2>8, Zenon DEF ReportsInv
<1>11. TransitInv'
  <2>1. \A x \in Hblocks \ closed : InOrder(x)'
    BY <1>1, <1>6, <1>9, FrameStream, Zenon DEF pvars
  <2> QED BY <1>1, <2>1, Zenon DEF SInv, TransitInv, InOrder
<1>12. ContextsInv'
  BY <1>1, FrameContexts, Zenon DEF SInv
<1> QED BY <1>1, <1>6, <1>7, <1>10, <1>11, <1>12, Zenon DEF SInv, NoError, NoMisread

-----------------------------------------------------------------------------
(***************************************************************************)
(* The decoder gives a stream up.                                          *)
(***************************************************************************)

\* The contexts of blocked blocks.
Blocked == { x \in DOMAIN hbrcs : hbrcs[x].blocked }

\* They are finitely many, and as many as qpd_n_blocked says.
LEMMA BlockedFacts ==
    ASSUME Facts, SInv
    PROVE  /\ Blocked \subseteq Hblocks /\ IsFiniteSet(Blocked)
           /\ n_blocked = Cardinality(Blocked) /\ n_blocked \in Nat
<1>1. Blocked \subseteq Hblocks /\ n_blocked = Cardinality(Blocked)
  BY Zenon DEF SInv, ContextsInv, BlockedExact, Blocked
<1>2. IsFiniteSet(Blocked)
  BY <1>1, DecoderAssumption, Zenon DEF Facts, SubsetFact
<1> QED BY <1>1, <1>2, Zenon DEF Facts, SizeFact

\* destroy_header_block_read_ctx leaves the other contexts as they were.
LEMMA DestroyInv ==
    ASSUME Facts, SInv, NEW b \in Hblocks, Destroy(b), received' = received,
           transit' = [transit EXCEPT ![b] = << >>]
    PROVE  ContextsInv'
<1>1. /\ hbrcs' = [k \in DOMAIN hbrcs \ {b} |-> hbrcs[k]]
      /\ n_blocked' = IF b \in DOMAIN hbrcs /\ hbrcs[b].blocked THEN n_blocked - 1 ELSE n_blocked
  BY Zenon DEF Destroy, WithoutContext
<1>2. /\ DOMAIN hbrcs' = DOMAIN hbrcs \ {b} /\ \A x \in DOMAIN hbrcs' : hbrcs'[x] = hbrcs[x]
  BY <1>1, Zenon
<1>3. \A x \in Hblocks : x # b => transit'[x] = transit[x]
  BY Zenon DEF SInv, TransitInv
<1>4. DOMAIN hbrcs \subseteq Hblocks
  BY Zenon DEF SInv, ContextsInv
<1>5. \A x \in DOMAIN hbrcs' : /\ x \in DOMAIN hbrcs /\ hbrcs'[x] = hbrcs[x]
                               /\ transit'[x] = transit[x]
  BY <1>2, <1>3, <1>4, Zenon
<1>6. Blocked' = Blocked \ {b}
  BY <1>2 DEF Blocked
<1>7. n_blocked' = Cardinality(Blocked')
  <2>1. CASE b \in Blocked
    <3>1. Cardinality(Blocked \ {b}) = Cardinality(Blocked) - 1
      BY <2>1, BlockedFacts, Zenon DEF Facts, RemoveFact
    <3> QED BY <1>1, <1>6, <2>1, <3>1, BlockedFacts, Zenon DEF Blocked
  <2>2. CASE b \notin Blocked
    <3>1. Blocked \ {b} = Blocked
      BY <2>2, Zenon
    <3> QED BY <1>1, <1>6, <2>2, <3>1, BlockedFacts, Zenon DEF Blocked
  <2> QED BY <2>1, <2>2, Zenon
<1>8. BlockedExact'
  <2>1. \A x \in DOMAIN hbrcs' : hbrcs'[x].at >= 1 =>
           (hbrcs'[x].blocked <=> Head(transit'[x]).needs > received')
    BY <1>5, Zenon DEF SInv, ContextsInv, BlockedExact
  <2> QED BY <1>7, <2>1, Zenon DEF BlockedExact, Blocked
<1>9. \A x \in DOMAIN hbrcs' : transit'[x] # << >> /\ ContextOk(hbrcs'[x], Head(transit'[x]))
  BY <1>5, Zenon DEF SInv, ContextsInv
<1> QED BY <1>2, <1>4, <1>8, <1>9, Zenon DEF ContextsInv

\* A stream that is given up carries nothing any more.
LEMMA CloseTransit ==
    ASSUME Facts, SInv, NEW b \in Hblocks, transit' = [transit EXCEPT ![b] = << >>],
           closed' = closed \cup {b}, outstanding' = outstanding,
           \A k : Held(k)' = Held(k), \A x : AcksOf(x)' = AcksOf(x)
    PROVE  TransitInv'
<1>1. /\ transit' \in [Hblocks -> Seq(Wires)] /\ transit'[b] = << >>
      /\ \A x \in Hblocks : x # b => transit'[x] = transit[x]
  <2>1. transit \in [Hblocks -> Seq(Wires)]
    BY Zenon DEF SInv, TransitInv
  <2>2. << >> \in Seq(Wires)
    OBVIOUS
  <2> QED BY <2>1, <2>2, Zenon
<1>2. closed' \subseteq Hblocks /\ \A x \in closed' : transit'[x] = << >>
  BY <1>1, Zenon DEF SInv, TransitInv
<1>3. \A x \in Hblocks \ closed' : InOrder(x)'
  <2>1. TAKE x \in Hblocks \ closed'
  <2>2. x \in Hblocks \ closed /\ transit'[x] = transit[x]
    BY <1>1, Zenon
  <2> QED BY <2>2, FrameStream, Zenon
<1> QED BY <1>1, <1>2, <1>3, Zenon DEF TransitInv, InOrder

\* lsqpack_dec_cancel_stream keeps the invariant.
LEMMA AppCancelInv ==
    ASSUME Facts, SInv, NEW b \in Hblocks, AppCancel(b)
    PROVE  SInv'
<1>0. PICK r : r = [op |-> "cancel", hblock |-> b]
  BY Zenon
<1>1. /\ b \notin closed /\ Destroy(b) /\ dec_stream' = Append(dec_stream, r)
      /\ transit' = [transit EXCEPT ![b] = << >>] /\ closed' = closed \cup {b}
      /\ UNCHANGED <<pvars, enc_stream, received, misread, refused, last_id, largest_known_id,
                     dyn_table, max_cap, dec_error>>
  BY <1>0, Zenon DEF AppCancel, CancelStream
<1>2. r \in Report /\ r.op = "cancel" /\ r.hblock = b
  BY <1>0, Zenon DEF Report
<1>3. PICK n : n = Len(dec_stream)
  BY Zenon
<1>4. /\ n \in Nat /\ DOMAIN dec_stream = 1 .. n /\ dec_stream' \in Seq(Report)
      /\ \A j \in 1 .. n : dec_stream'[j] = dec_stream[j]
      /\ Icis' = Icis
      /\ \A x : AcksOf(x)' = AcksOf(x)
      /\ \A x : x # b => CancelsOf(x)' = CancelsOf(x)
      /\ CancelsOf(b)' = CancelsOf(b) \cup {n + 1}
  <2>0. r \in Report /\ dec_stream' = Append(dec_stream, r)
    BY <1>1, <1>2, Zenon
  <2>1. /\ n \in Nat /\ DOMAIN dec_stream = 1 .. n /\ dec_stream' \in Seq(Report)
        /\ \A j \in 1 .. n : dec_stream'[j] = dec_stream[j]
        /\ Icis' = Icis \cup (IF r.op = "ici" THEN {n + 1} ELSE {})
    BY <1>3, <2>0, AppendShift, Zenon
  <2>2. \A x : /\ AcksOf(x)' = AcksOf(x) \cup
                      (IF r.op = "ack" /\ r.hblock = x THEN {n + 1} ELSE {})
               /\ CancelsOf(x)' = CancelsOf(x) \cup
                      (IF r.op = "cancel" /\ r.hblock = x THEN {n + 1} ELSE {})
    BY <1>3, <2>0, AppendShift
  <2> QED BY <1>2, <2>1, <2>2, Zenon
<1>5. /\ EncoderInv' /\ DecoderInv' /\ StreamInv' /\ ContentsInv'
      /\ Oldest' = Oldest /\ Known' = Known /\ \A k : Held(k)' = Held(k)
  BY <1>1, FrameTables, Zenon DEF pvars
<1>6. OutstandingInv'
  BY <1>1, <1>5, FrameOutstanding, Zenon DEF pvars
<1>7. Known \in Nat /\ Known <= Known
  BY Bounds
<1>8. ReportsInv'
  <2>1. \A x \in Hblocks : x # b => AcksOk(x)'
    BY <1>1, <1>4, <1>5, <1>7, AcksKept, Zenon DEF pvars
  <2>2. AcksOk(b)
    BY Zenon DEF SInv, ReportsInv
  <2>3. CancelsOf(b) = {}
    BY <1>1, <2>2, Zenon DEF AcksOk
  <2>4. \A k \in AcksOf(b) : k < n + 1
    BY <1>4 DEF AcksOf
  <2>5. AcksOk(b)'
    BY <1>1, <1>4, <1>5, <2>2, <2>3, <2>4, Zenon DEF AcksOk, pvars
  <2>6. Icis \subseteq 1 .. n
    BY <1>4, Zenon DEF Icis
  <2>7. \E upto \in [Icis' -> 0 .. Known'] : IcisOk(upto)'
    BY <1>1, <1>4, <1>5, <1>7, <2>6, IcisKept, Zenon DEF pvars
  <2> QED BY <1>4, <2>1, <2>5, <2>7, Zenon DEF ReportsInv
<1>9. TransitInv'
  BY <1>1, <1>4, <1>5, CloseTransit, Zenon DEF pvars
<1>10. ContextsInv'
  BY <1>1, DestroyInv, Zenon
<1> QED BY <1>1, <1>5, <1>6, <1>8, <1>9, <1>10, Zenon DEF SInv, NoError, NoMisread

\* lsqpack_dec_unref_stream keeps the invariant.
LEMMA AppUnrefInv ==
    ASSUME Facts, SInv, NEW b \in Hblocks, AppUnref(b)
    PROVE  SInv'
<1>1. /\ b \notin closed /\ Destroy(b) /\ dec_stream' = dec_stream
      /\ transit' = [transit EXCEPT ![b] = << >>] /\ closed' = closed \cup {b}
      /\ UNCHANGED <<pvars, enc_stream, received, misread, refused, last_id, largest_known_id,
                     dyn_table, max_cap, dec_error>>
  BY Zenon DEF AppUnref, UnrefStream
<1>2. Icis' = Icis /\ \A x : AcksOf(x)' = AcksOf(x) /\ CancelsOf(x)' = CancelsOf(x)
  BY <1>1, Zenon DEF Icis, AcksOf, CancelsOf
<1>3. /\ EncoderInv' /\ DecoderInv' /\ StreamInv' /\ ContentsInv'
      /\ Oldest' = Oldest /\ Known' = Known /\ \A k : Held(k)' = Held(k)
  BY <1>1, FrameTables, Zenon DEF pvars
<1>4. OutstandingInv'
  BY <1>1, <1>3, FrameOutstanding, Zenon DEF pvars
<1>5. Known \in Nat /\ Known <= Known
  BY Bounds
<1>6. ReportsInv'
  <2>1. \A x \in Hblocks : AcksOk(x)'
    BY <1>1, <1>2, <1>3, <1>5, AcksKept, Zenon DEF pvars
  <2>2. \E upto \in [Icis' -> 0 .. Known'] : IcisOk(upto)'
    BY <1>1, <1>2, <1>3, <1>5, IcisKept, Zenon DEF pvars
  <2> QED BY <1>1, <2>1, <2>2, Zenon DEF SInv, ReportsInv
<1>7. TransitInv'
  BY <1>1, <1>2, <1>3, CloseTransit, Zenon DEF pvars
<1>8. ContextsInv'
  BY <1>1, DestroyInv, Zenon
<1> QED BY <1>1, <1>3, <1>4, <1>6, <1>7, <1>8, Zenon DEF SInv, NoError, NoMisread
=============================================================================
