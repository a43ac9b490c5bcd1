---------------------------- MODULE EncoderLemmas ----------------------------
(***************************************************************************)
(* Lemmas about the operators of Encoder: what inserting and evicting do   *)
(* to a table whose offsets are exact, what qenc_has_or_can_evict_at_least *)
(* promises, and what the programs that can be selected have in common.    *)
(***************************************************************************)
EXTENDS Encoder, LibraryFacts, TLAPS

\* CHOOSE finds the least element.
LEMMA LeastOfSet ==
    ASSUME Facts, NEW S \in SUBSET Nat, S # {}
    PROVE  LeastOf(S) \in S /\ \A y \in S : LeastOf(S) <= y
BY Zenon DEF Facts, LeastFact, LeastOf

\* qpe_dropped has at least one value.
LEMMA WordPositive == Word \in Nat \ {0}
BY FieldsAssumption, LimitsAssumption

\* The parts of a table.
LEMMA TableParts ==
    ASSUME NEW n \in Nat, NEW t, IsTable(t, n)
    PROVE  /\ DOMAIN t.entries \subseteq 1 .. n
           /\ \E i \in 1 .. n + 1 : DOMAIN t.entries = i .. n
           /\ \A k \in DOMAIN t.entries : t.entries[k] \in Entry
           /\ t.used \in Nat /\ t.dropped \in 0 .. Word - 1
<1>1. PICK i \in 1 .. n + 1 :
        t \in [entries : [i .. n -> Entry], used : Nat, dropped : 0 .. Word - 1]
  BY Zenon DEF IsTable
<1>2. t.entries \in [i .. n -> Entry] /\ t.used \in Nat /\ t.dropped \in 0 .. Word - 1
  BY <1>1, Zenon
<1>3. DOMAIN t.entries = i .. n
  BY <1>2, Zenon
<1> QED BY <1>2, <1>3

\* Offsets are below the width of the counters.
LEMMA OffRange ==
    ASSUME Facts, NEW n \in Nat, NEW t, IsTable(t, n), NEW k \in DOMAIN t.entries
    PROVE  /\ Off(t, k) \in 0 .. Word - 1
           /\ t.entries[k].size \in Nat
<1>1. t.entries[k] \in Entry /\ t.dropped \in Int
  BY TableParts, WordPositive
<1>2. t.entries[k].added_used - (t.dropped - t.entries[k].added_dropped) \in Int
  BY <1>1 DEF Entry
<1> QED BY <1>1, <1>2, WordPositive, Zenon DEF Facts, DivisionFact, Off, Entry

\* The numbers in a table are integers.
LEMMA TableNumbers ==
    ASSUME Facts, NEW n \in Nat, NEW t, IsTable(t, n)
    PROVE  /\ t.used \in Nat /\ t.dropped \in Int
           /\ \A k \in DOMAIN t.entries : /\ k \in 1 .. n
                                          /\ Off(t, k) \in Nat
                                          /\ t.entries[k].size \in Nat
<1>1. t.used \in Nat /\ t.dropped \in Int /\ DOMAIN t.entries \subseteq 1 .. n
  BY TableParts, WordPositive
<1>2. \A k \in DOMAIN t.entries : Off(t, k) \in 0 .. Word - 1 /\ t.entries[k].size \in Nat
  BY OffRange, Zenon
<1>3. \A k \in DOMAIN t.entries : Off(t, k) \in Nat /\ t.entries[k].size \in Nat
  BY <1>2, WordPositive
<1> QED BY <1>1, <1>3, Zenon

\* lsqpack_enc_push_entry adds one entry at the end.
IsPushed(u, t, n, name, val, hash, size) ==
    /\ IsTable(u, n + 1)
    /\ DOMAIN u.entries = DOMAIN t.entries \cup {n + 1}
    /\ \A k \in DOMAIN t.entries : u.entries[k] = t.entries[k]
    /\ LET e == u.entries[n + 1] IN
       /\ e.name = name /\ e.val = val /\ e.hash = hash /\ e.size = size
       /\ e.added_used = t.used /\ e.added_dropped = t.dropped
    /\ u.used = t.used + size /\ u.dropped = t.dropped

\* lsqpack_enc_push_entry does that.
LEMMA PushParts ==
    ASSUME NEW n \in Nat, NEW t, IsTable(t, n),
           NEW name \in Nat, NEW val \in Nat, NEW hash \in Nat, NEW size \in Nat
    PROVE  IsPushed(PushEntry(t, n + 1, name, val, hash, size), t, n,
                    name, val, hash, size)
<1> DEFINE u == PushEntry(t, n + 1, name, val, hash, size)
           e == [name |-> name, val |-> val, hash |-> hash, size |-> size,
                 added_used |-> t.used, added_dropped |-> t.dropped]
           f == [k \in DOMAIN t.entries \cup {n + 1} |->
                    IF k # n + 1 THEN t.entries[k] ELSE e]
<1>1. PICK i \in 1 .. n + 1 :
        t \in [entries : [i .. n -> Entry], used : Nat, dropped : 0 .. Word - 1]
  BY Zenon DEF IsTable
<1>2. t.entries \in [i .. n -> Entry] /\ t.used \in Nat /\ t.dropped \in 0 .. Word - 1
  BY <1>1, Zenon
<1>3. u = [entries |-> f, used |-> t.used + size, dropped |-> t.dropped]
  BY <1>1, Zenon DEF PushEntry
<1>4. DOMAIN t.entries \cup {n + 1} = i .. n + 1
  BY <1>2
<1>5. e \in Entry
  BY <1>2, WordPositive DEF Entry
<1>6. f \in [i .. n + 1 -> Entry]
  BY <1>2, <1>4, <1>5, Zenon
<1>7. \A k \in DOMAIN t.entries : f[k] = t.entries[k]
  BY <1>2
<1>8. f[n + 1] = e /\ DOMAIN f = DOMAIN t.entries \cup {n + 1}
  BY Zenon
<1> HIDE DEF u, f, e
<1>9. t.used + size \in Nat
  BY <1>2
<1>10. u \in [entries : [i .. n + 1 -> Entry], used : Nat, dropped : 0 .. Word - 1]
  BY <1>2, <1>3, <1>6, <1>9, Zenon
<1>11. IsTable(u, n + 1)
  BY <1>10 DEF IsTable
<1>12. u.entries = f /\ u.used = t.used + size /\ u.dropped = t.dropped
  BY <1>3, Zenon
<1>13. /\ e.name = name /\ e.val = val /\ e.hash = hash /\ e.size = size
       /\ e.added_used = t.used /\ e.added_dropped = t.dropped
  BY Zenon DEF e
<1>14. IsPushed(u, t, n, name, val, hash, size)
  BY <1>7, <1>8, <1>11, <1>12, <1>13, Zenon DEF IsPushed
<1> QED BY <1>14, Zenon DEF u

\* Inserting keeps the table packed; the new entry lies behind all others.
LEMMA PushPacked ==
    ASSUME Facts, NEW n \in Nat, NEW t, IsTable(t, n), Packed(t, n), t.used < Word,
           NEW name, NEW val, NEW hash, NEW size \in Nat,
           NEW u, IsPushed(u, t, n, name, val, hash, size)
    PROVE  /\ Packed(u, n + 1)
           /\ Off(u, n + 1) = t.used
           /\ \A k \in DOMAIN t.entries : Off(u, k) = Off(t, k)
<1> DEFINE D == DOMAIN t.entries
<1>1. /\ DOMAIN u.entries = D \cup {n + 1}
      /\ \A k \in D : u.entries[k] = t.entries[k]
      /\ u.entries[n + 1].size = size
      /\ u.entries[n + 1].added_used = t.used
      /\ u.entries[n + 1].added_dropped = t.dropped
      /\ u.used = t.used + size /\ u.dropped = t.dropped
  BY Zenon DEF IsPushed
<1>2. \A k \in D : Off(u, k) = Off(t, k)
  BY <1>1, Zenon DEF Off
<1>3. Off(u, n + 1) = t.used
  <2>1. t.used \in 0 .. Word - 1 /\ t.dropped \in Int
    BY TableParts, WordPositive
  <2>2. Off(u, n + 1) = t.used % Word
    BY <1>1, <2>1 DEF Off
  <2>3. NearModFact
    BY Zenon DEF Facts
  <2>4. PICK x : x = t.used
    BY Zenon
  <2>5. x \in Int /\ x \in 0 .. Word - 1
    BY <2>1, <2>4
  <2>6. x % Word = x
    BY <2>3, <2>5, WordPositive, Zenon DEF NearModFact
  <2> QED BY <2>2, <2>4, <2>6, Zenon
<1>4. PICK i \in 1 .. n + 1 : D = i .. n
  BY TableParts, Zenon
<1>5. \A k \in D : Off(t, k) \in Nat /\ t.entries[k].size \in Nat
  BY OffRange, WordPositive
<1>6. t.used \in Nat
  BY TableParts, Zenon
<1>7. \A k \in D : /\ k - 1 \notin D => Off(t, k) = 0
                   /\ k + 1 \in D => Off(t, k + 1) = Off(t, k) + t.entries[k].size
                   /\ k = n => t.used = Off(t, k) + t.entries[k].size
                   /\ Off(t, k) + t.entries[k].size <= t.used
  BY Zenon DEF Packed
<1>8. \A j, k \in D : j < k => Off(t, j) + t.entries[j].size <= Off(t, k)
  BY Zenon DEF Packed
<1>9. D = {} => t.used = 0
  BY Zenon DEF Packed
<1>10. \A k \in D : k # n + 1 /\ k - 1 # n + 1 /\ k \in Int
  BY <1>4
<1>11. \A k \in D \cup {n + 1} :
         /\ k - 1 \notin D \cup {n + 1} => Off(u, k) = 0
         /\ k + 1 \in D \cup {n + 1} => Off(u, k + 1) = Off(u, k) + u.entries[k].size
         /\ k = n + 1 => u.used = Off(u, k) + u.entries[k].size
         /\ Off(u, k) + u.entries[k].size <= u.used
  <2>1. ASSUME NEW k \in D
        PROVE  /\ k - 1 \notin D \cup {n + 1} => Off(u, k) = 0
               /\ k + 1 \in D \cup {n + 1} => Off(u, k + 1) = Off(u, k) + u.entries[k].size
               /\ k = n + 1 => u.used = Off(u, k) + u.entries[k].size
               /\ Off(u, k) + u.entries[k].size <= u.used
    <3>1. /\ Off(u, k) = Off(t, k) /\ u.entries[k].size = t.entries[k].size
          /\ Off(t, k) \in Nat /\ t.entries[k].size \in Nat
      BY <1>1, <1>2, <1>5, Zenon
    <3>2. k - 1 \notin D \cup {n + 1} => Off(u, k) = 0
      BY <1>7, <3>1, Zenon
    <3>3. k + 1 \in D \cup {n + 1} => Off(u, k + 1) = Off(u, k) + u.entries[k].size
      <4>1. CASE k + 1 \in D
        BY <1>2, <1>7, <3>1, <4>1, Zenon
      <4>2. CASE k + 1 = n + 1
        <5>1. k = n
          BY <1>10, <4>2
        <5> QED BY <1>3, <1>7, <3>1, <4>2, <5>1, Zenon
      <4> QED BY <4>1, <4>2, Zenon
    <3>4. Off(u, k) + u.entries[k].size <= u.used
      BY <1>1, <1>6, <1>7, <3>1
    <3> QED BY <1>10, <3>2, <3>3, <3>4, Zenon
  <2>2. n \in D \/ D = {}
    BY <1>4
  <2>3. n + 1 + 1 \notin D \cup {n + 1}
    BY <1>4
  <2>4. (n + 1) - 1 \notin D \cup {n + 1} => Off(u, n + 1) = 0
    BY <1>3, <1>9, <2>2
  <2>5. u.used = Off(u, n + 1) + u.entries[n + 1].size
    BY <1>1, <1>3, Zenon
  <2> QED BY <1>1, <1>3, <1>6, <2>1, <2>3, <2>4, <2>5
<1>12. \A j, k \in D \cup {n + 1} : j < k => Off(u, j) + u.entries[j].size <= Off(u, k)
  <2> SUFFICES ASSUME NEW j \in D \cup {n + 1}, NEW k \in D \cup {n + 1}, j < k
               PROVE  Off(u, j) + u.entries[j].size <= Off(u, k)
    BY Zenon
  <2>1. j \in D
    BY <1>4
  <2>2. CASE k \in D
    BY <1>1, <1>2, <1>8, <2>1, <2>2, Zenon
  <2>3. CASE k = n + 1
    BY <1>1, <1>2, <1>3, <1>7, <2>1, <2>3, Zenon
  <2> QED BY <2>2, <2>3, Zenon
<1>13. Packed(u, n + 1)
  BY <1>1, <1>11, <1>12, Zenon DEF Packed
<1> QED BY <1>2, <1>3, <1>13, Zenon

\* What qenc_remove_overflow_entries keeps.
Kept(t, capacity) == { k \in DOMAIN t.entries : t.used - Off(t, k) <= capacity }

\* It keeps the youngest entries.
LEMMA KeptInterval ==
    ASSUME Facts, NEW n \in Nat, NEW t, IsTable(t, n), Packed(t, n), NEW c \in Nat
    PROVE  /\ \A k \in Kept(t, c), l \in DOMAIN t.entries : k < l => l \in Kept(t, c)
           /\ Kept(t, c) # {} =>
                /\ LeastOf(Kept(t, c)) \in Kept(t, c)
                /\ Kept(t, c) = LeastOf(Kept(t, c)) .. n
<1> DEFINE K == Kept(t, c)
           m == LeastOf(K)
<1>1. PICK i \in 1 .. n + 1 : DOMAIN t.entries = i .. n
  BY TableParts, Zenon
<1>2. /\ t.used \in Nat
      /\ \A k \in DOMAIN t.entries : Off(t, k) \in Nat /\ t.entries[k].size \in Nat
  BY TableNumbers, Zenon
<1>3. ASSUME NEW k \in K, NEW l \in DOMAIN t.entries, k < l
      PROVE  l \in K
  <2>1. k \in DOMAIN t.entries /\ t.used - Off(t, k) <= c
    BY Zenon DEF Kept
  <2>2. Off(t, k) + t.entries[k].size <= Off(t, l)
    BY <1>3, <2>1, Zenon DEF Packed
  <2>3. t.used - Off(t, l) <= c
    BY <1>2, <2>1, <2>2
  <2> QED BY <2>3, Zenon DEF Kept
<1>4. ASSUME K # {}
      PROVE  m \in K /\ K = m .. n
  <2>1. K \in SUBSET Nat /\ K \subseteq i .. n
    BY <1>1 DEF Kept
  <2>2. m \in K /\ \A y \in K : m <= y
    BY <1>4, <2>1, LeastOfSet, Zenon
  <2> HIDE DEF m, K
  <2>3. \A l \in m .. n : l \in i .. n
    BY <2>1, <2>2
  <2>4. \A l \in m .. n : l = m \/ m < l
    BY <2>1, <2>2
  <2>5. \A l \in m .. n : l \in K
    BY <1>1, <1>3, <2>2, <2>3, <2>4, Zenon
  <2>6. \A l \in K : l \in m .. n
    BY <2>1, <2>2
  <2> QED BY <2>2, <2>5, <2>6, Zenon
<1> QED BY <1>3, <1>4, Zenon

\* The parts of what it leaves.
LEMMA RemoveParts ==
    ASSUME Facts, NEW n \in Nat, NEW t, IsTable(t, n), Packed(t, n), NEW c \in Nat
    PROVE  LET u == RemoveOverflow(t, c) IN
           /\ IsTable(u, n)
           /\ DOMAIN u.entries = Kept(t, c)
           /\ \A k \in Kept(t, c) : u.entries[k] = t.entries[k]
           /\ u.used \in 0 .. c /\ u.used <= t.used
           /\ u.used = IF Kept(t, c) = {} THEN 0
                       ELSE t.used - Off(t, LeastOf(Kept(t, c)))
           /\ u.dropped = (t.dropped + (t.used - u.used)) % Word
<1> DEFINE u == RemoveOverflow(t, c)
           K == Kept(t, c)
           f == [k \in K |-> t.entries[k]]
           b == IF K = {} THEN 0 ELSE t.used - Off(t, LeastOf(K))
           d == (t.dropped + (t.used - b)) % Word
<1>1. u = [entries |-> f, used |-> b, dropped |-> d]
  BY Zenon DEF RemoveOverflow, Kept
<1>2. /\ t.used \in Nat /\ t.dropped \in Int
      /\ \A k \in DOMAIN t.entries : Off(t, k) \in Nat
                                     /\ Off(t, k) + t.entries[k].size <= t.used
                                     /\ t.entries[k].size \in Nat
                                     /\ t.entries[k] \in Entry
  BY TableParts, TableNumbers, Zenon DEF Packed
<1>3. b \in 0 .. c /\ b <= t.used
  <2>1. CASE K = {}
    BY <1>2, <2>1
  <2>2. CASE K # {}
    <3>1. LeastOf(K) \in K
      BY <2>2, KeptInterval, Zenon
    <3> DEFINE m == LeastOf(K)
    <3>2. m \in DOMAIN t.entries /\ t.used - Off(t, m) <= c
      BY <3>1, Zenon DEF Kept
    <3> HIDE DEF m
    <3>3. t.used - Off(t, m) \in 0 .. c /\ t.used - Off(t, m) <= t.used
      BY <1>2, <3>2
    <3> QED BY <2>2, <3>3, Zenon DEF m
  <2> QED BY <2>1, <2>2, Zenon
<1>4. d \in 0 .. Word - 1
  <2> HIDE DEF b
  <2>1. t.dropped + (t.used - b) \in Int
    BY <1>2, <1>3
  <2> QED BY <2>1, WordPositive, Zenon DEF Facts, DivisionFact
<1>5. \E i \in 1 .. n + 1 : f \in [i .. n -> Entry]
  <2>0. K \subseteq DOMAIN t.entries
    BY Zenon DEF Kept
  <2>1. CASE K = {}
    <3>1. K = n + 1 .. n
      BY <2>1
    <3> QED BY <3>1, <2>1
  <2>2. CASE K # {}
    <3> DEFINE m == LeastOf(K)
    <3>1. m \in K /\ K = m .. n
      BY <2>2, KeptInterval, Zenon
    <3>2. DOMAIN t.entries \subseteq 1 .. n
      BY TableParts, Zenon
    <3> HIDE DEF m, K
    <3>3. m \in 1 .. n + 1
      BY <2>0, <3>1, <3>2
    <3>4. f \in [m .. n -> Entry]
      BY <1>2, <2>0, <3>1, Zenon
    <3> QED BY <3>3, <3>4, Zenon
  <2> QED BY <2>1, <2>2, Zenon
<1> HIDE DEF b, d, f, K, u
<1>6. u.entries = f /\ u.used = b /\ u.dropped = d
  BY <1>1, Zenon
<1>7. IsTable(u, n)
  <2>1. PICK i \in 1 .. n + 1 : f \in [i .. n -> Entry]
    BY <1>5, Zenon
  <2>2. u \in [entries : [i .. n -> Entry], used : Nat, dropped : 0 .. Word - 1]
    BY <1>1, <1>3, <1>4, <2>1
  <2> QED BY <2>2, Zenon DEF IsTable
<1> QED BY <1>3, <1>6, <1>7, Zenon DEF b, d, f, K, u

\* Offsets shrink by what was dropped, whether or not qpe_dropped has wrapped.
LEMMA RemoveOff ==
    ASSUME Facts, NEW n \in Nat, NEW t, IsTable(t, n), Packed(t, n), NEW c \in Nat,
           NEW k \in Kept(t, c)
    PROVE  LET u == RemoveOverflow(t, c) IN
           Off(u, k) = Off(t, k) - (t.used - u.used)
<1> DEFINE u == RemoveOverflow(t, c)
           K == Kept(t, c)
           m == LeastOf(K)
           d == t.used - u.used
           e == t.entries[k]
           x == e.added_used - (t.dropped - e.added_dropped)
<1>1. /\ u.entries[k] = e
      /\ u.used = t.used - Off(t, m)
      /\ u.dropped = (t.dropped + d) % Word
      /\ u.used \in Nat
  BY RemoveParts
<1>2. k \in DOMAIN t.entries /\ m \in DOMAIN t.entries /\ m \in K /\ K = m .. n
  <2>1. m \in K /\ K = m .. n
    BY KeptInterval, Zenon
  <2> QED BY <2>1, Zenon DEF Kept
<1>3. /\ t.used \in Nat /\ t.dropped \in Int
      /\ Off(t, m) \in Nat /\ Off(t, k) \in Nat
      /\ t.entries[m].size \in Nat
  BY <1>2, TableParts, OffRange, WordPositive
<1>4. e.added_used \in Int /\ e.added_dropped \in Int
  <2>1. e \in Entry
    BY <1>2, TableParts, Zenon
  <2> QED BY <2>1 DEF Entry
<1>5. Off(t, m) <= Off(t, k)
  <2>1. k = m \/ m < k
    <3>1. DOMAIN t.entries \subseteq Int
      BY TableParts
    <3> QED BY <1>2, <3>1
  <2>2. m < k => Off(t, m) + t.entries[m].size <= Off(t, k)
    BY <1>2, Zenon DEF Packed
  <2> QED BY <1>3, <2>1, <2>2
<1>6. Off(t, k) = x % Word
  BY Zenon DEF Off
<1>7. Off(u, k) = (e.added_used - (((t.dropped + d) % Word) - e.added_dropped)) % Word
  BY <1>1, Zenon DEF Off
<1> HIDE DEF u, K, m, e
<1>8. d = Off(t, m)
  BY <1>1, <1>3
<1> DEFINE y == (t.dropped + d) % Word
<1>9. y \in Int /\ t.dropped + d \in Int
  <2>1. t.dropped + d \in Int
    BY <1>3, <1>8
  <2> QED BY <2>1, WordPositive DEF Facts, DivisionFact
<1>10. e.added_used - (y - e.added_dropped) = (e.added_used + e.added_dropped) - y
  BY <1>4, <1>9
<1>11. ((e.added_used + e.added_dropped) - y) % Word
         = ((e.added_used + e.added_dropped) - (t.dropped + d)) % Word
  <2> DEFINE z == e.added_used + e.added_dropped
             v == t.dropped + d
  <2>1. z \in Int /\ v \in Int
    BY <1>4, <1>9
  <2> HIDE DEF z, v
  <2>2. (z - (v % Word)) % Word = (z - v) % Word
    BY <2>1, WordPositive, Zenon DEF Facts, DifferenceModFact
  <2> QED BY <2>2, Zenon DEF z, v
<1>12. (e.added_used + e.added_dropped) - (t.dropped + d) = x - d /\ x \in Int
  BY <1>3, <1>4, <1>8
<1>13. (x - d) % Word = (x % Word) - d
  <2>1. d \in Nat /\ d <= x % Word
    BY <1>3, <1>5, <1>6, <1>8, Zenon
  <2> QED BY <1>12, <2>1, WordPositive, Zenon DEF Facts, MinusModFact
<1> HIDE DEF x, d, y
<1> QED BY <1>6, <1>7, <1>10, <1>11, <1>12, <1>13, Zenon DEF d, y, u

\* Offsets grow with the ID.
LEMMA OffMonotone ==
    ASSUME Facts, NEW n \in Nat, NEW t, IsTable(t, n), Packed(t, n),
           NEW j \in DOMAIN t.entries, NEW k \in DOMAIN t.entries, j <= k
    PROVE  Off(t, j) <= Off(t, k)
<1>1. /\ j \in Int /\ k \in Int /\ Off(t, j) \in Nat /\ Off(t, k) \in Nat
      /\ t.entries[j].size \in Nat
  BY TableNumbers
<1>2. j < k => Off(t, j) + t.entries[j].size <= Off(t, k)
  BY Zenon DEF Packed
<1> QED BY <1>1, <1>2

\* Evicting keeps the table packed.
LEMMA RemovePacked ==
    ASSUME Facts, NEW n \in Nat, NEW t, IsTable(t, n), Packed(t, n), NEW c \in Nat
    PROVE  Packed(RemoveOverflow(t, c), n)
<1> DEFINE u == RemoveOverflow(t, c)
           K == Kept(t, c)
           m == LeastOf(K)
           d == t.used - u.used
<1>1. /\ DOMAIN u.entries = K
      /\ \A k \in K : u.entries[k] = t.entries[k]
      /\ u.used \in Nat /\ u.used <= t.used
      /\ u.used = IF K = {} THEN 0 ELSE t.used - Off(t, m)
  BY RemoveParts
<1>2. \A k \in K : Off(u, k) = Off(t, k) - d
  BY RemoveOff, Zenon
<1>3. K \subseteq DOMAIN t.entries
  BY Zenon DEF Kept
<1>4. K # {} => m \in K /\ K = m .. n
  BY KeptInterval, Zenon
<1>5. /\ t.used \in Nat
      /\ \A k \in DOMAIN t.entries : /\ k \in 1 .. n
                                     /\ Off(t, k) \in Nat
                                     /\ t.entries[k].size \in Nat
  BY TableNumbers, Zenon
<1> HIDE DEF u, K, m
<1>6. CASE K = {}
  BY <1>1, <1>6, Zenon DEF Packed, u
<1>7. CASE K # {}
  <2>1. d = Off(t, m) /\ d \in Nat /\ m \in Int
    BY <1>1, <1>3, <1>4, <1>5, <1>7
  <2>2. ASSUME NEW k \in K
        PROVE  /\ k - 1 \notin K => Off(u, k) = 0
               /\ k + 1 \in K => Off(u, k + 1) = Off(u, k) + u.entries[k].size
               /\ k = n => u.used = Off(u, k) + u.entries[k].size
               /\ Off(u, k) + u.entries[k].size <= u.used
    <3> HIDE DEF d
    <3>0. u.used = t.used - d
      BY <1>1, <1>7, <2>1, Zenon
    <3>1. /\ Off(u, k) = Off(t, k) - d /\ u.entries[k] = t.entries[k]
          /\ Off(t, k) \in Nat /\ t.entries[k].size \in Nat
          /\ k \in DOMAIN t.entries /\ k \in Int
      BY <1>1, <1>2, <1>3, <1>5
    <3>2. k - 1 \notin K => k = m
      BY <1>4, <1>7, <2>1, <3>1, SMTT(30)
    <3>3. k - 1 \notin K => Off(u, k) = 0
      BY <2>1, <3>1, <3>2
    <3>4. k + 1 \in K => Off(u, k + 1) = Off(u, k) + u.entries[k].size
      <4> SUFFICES ASSUME k + 1 \in K
                   PROVE  Off(u, k + 1) = Off(u, k) + u.entries[k].size
        BY Zenon
      <4>1. Off(t, k + 1) = Off(t, k) + t.entries[k].size
        BY <1>3, <3>1, Zenon DEF Packed
      <4>2. Off(u, k + 1) = Off(t, k + 1) - d
        BY <1>2, Zenon
      <4> QED BY <2>1, <3>1, <4>1, <4>2
    <3>5. k = n => t.used = Off(t, k) + t.entries[k].size
      BY <3>1, Zenon DEF Packed
    <3>6. Off(t, k) + t.entries[k].size <= t.used
      BY <3>1, Zenon DEF Packed
    <3> QED BY <1>5, <2>1, <3>0, <3>1, <3>3, <3>4, <3>5, <3>6
  <2>3. ASSUME NEW j \in K, NEW k \in K, j < k
        PROVE  Off(u, j) + u.entries[j].size <= Off(u, k)
    <3>1. Off(t, j) + t.entries[j].size <= Off(t, k)
      BY <1>3, <2>3, Zenon DEF Packed
    <3>2. /\ Off(u, j) = Off(t, j) - d /\ u.entries[j] = t.entries[j]
          /\ Off(t, j) \in Nat /\ t.entries[j].size \in Nat
          /\ Off(u, k) = Off(t, k) - d /\ Off(t, k) \in Nat
      BY <1>1, <1>2, <1>3, <1>5, Zenon
    <3> HIDE DEF d
    <3> QED BY <2>1, <3>1, <3>2
  <2> QED BY <1>1, <1>7, <2>2, <2>3, Zenon DEF Packed, u
<1> QED BY <1>6, <1>7, Zenon

\* Nothing is evicted that fits.
LEMMA RemoveNothing ==
    ASSUME Facts, NEW n \in Nat, NEW t, IsTable(t, n), NEW c \in Nat, t.used <= c
    PROVE  Kept(t, c) = DOMAIN t.entries
<1>1. \A k \in DOMAIN t.entries : Off(t, k) \in Nat
  BY TableNumbers, Zenon
<1>2. t.used \in Nat
  BY TableNumbers, Zenon
<1> QED BY <1>1, <1>2 DEF Kept

\* qenc_has_or_can_evict_at_least: when it says yes, an entry of that size finds
\* its place, and all that has to go for it can.
LEMMA RoomKeeps ==
    ASSUME Facts, ins_count \in Nat, IsTable(table, ins_count), Packed(table, ins_count),
           cur_max_capacity \in Nat, cur_max_capacity < Word,
           table.used <= cur_max_capacity,
           NEW name \in Nat, NEW val \in Nat, NEW hash \in Nat, NEW size \in Nat,
           HasRoom(size)
    PROVE  LET K == Kept(PushEntry(table, ins_count + 1, name, val, hash, size),
                         cur_max_capacity)
           IN  /\ ins_count + 1 \in K
               /\ \A k \in Live : k \notin K => Evictable(k)
<1> DEFINE t == PushEntry(table, ins_count + 1, name, val, hash, size)
           stay == { k \in Live : ~Evictable(k) }
           m == LeastOf(stay)
<1>0. IsPushed(t, table, ins_count, name, val, hash, size)
  BY PushParts, Zenon
<1> HIDE DEF t
<1>1. table.used < Word /\ table.used \in Nat
  <2>1. table.used \in Nat
    BY TableNumbers, Zenon
  <2> QED BY <2>1, WordPositive
<1>2. DOMAIN t.entries = Live \cup {ins_count + 1} /\ t.used = table.used + size
  BY <1>0, Zenon DEF IsPushed, Live
<1>3. /\ Off(t, ins_count + 1) = table.used
      /\ \A k \in Live : Off(t, k) = Off(table, k)
  BY <1>0, <1>1, PushPacked DEF Live
<1>4. \A k \in Live : k \in Nat /\ Off(table, k) \in Nat /\ Off(table, k) <= table.used
  <2>1. \A k \in Live : /\ k \in 1 .. ins_count
                        /\ Off(table, k) \in Nat /\ Entries(k).size \in Nat
    BY TableNumbers, Zenon DEF Live, Entries
  <2>2. \A k \in Live : Off(table, k) + Entries(k).size <= table.used
    BY Zenon DEF Packed, Live, Entries
  <2> QED BY <1>1, <2>1, <2>2
<1>5. size <= cur_max_capacity - table.used
                 + (IF stay = {} THEN table.used ELSE Off(table, m))
  BY Zenon DEF HasRoom
<1>6. stay # {} => m \in stay /\ \A y \in stay : m <= y
  <2>1. stay \in SUBSET Nat
    BY <1>4, Zenon
  <2> QED BY <2>1, LeastOfSet, Zenon
<1> HIDE DEF m
<1>7. size <= cur_max_capacity
  BY <1>1, <1>4, <1>5, <1>6
<1>8. ins_count + 1 \in Kept(t, cur_max_capacity)
  <2>1. t.used - Off(t, ins_count + 1) = size
    BY <1>1, <1>2, <1>3
  <2> QED BY <1>2, <1>7, <2>1, Zenon DEF Kept
<1>9. ASSUME NEW k \in Live, ~Evictable(k)
      PROVE  k \in Kept(t, cur_max_capacity)
  <2>1. k \in stay /\ m \in stay /\ m <= k
    BY <1>6, <1>9, Zenon
  <2>2. Off(table, m) <= Off(table, k)
    BY <2>1, OffMonotone, Zenon DEF Live
  <2>3. m \in Live
    BY <2>1, Zenon
  <2>4. size <= cur_max_capacity - table.used + Off(table, m)
    BY <1>5, <2>1, Zenon
  <2>5. table.used + size - Off(table, k) <= cur_max_capacity
    <3>1. Off(table, m) \in Nat /\ Off(table, k) \in Nat
      BY <1>4, <2>3, Zenon
    <3> QED BY <1>1, <2>2, <2>4, <3>1
  <2>6. k \in DOMAIN t.entries /\ t.used - Off(t, k) <= cur_max_capacity
    <3>1. k \in DOMAIN t.entries /\ t.used = table.used + size
      BY <1>2, Zenon
    <3>2. Off(t, k) = Off(table, k)
      BY <1>3, Zenon
    <3> QED BY <1>1, <1>4, <2>5, <3>1, <3>2
  <2> QED BY <2>6, Zenon DEF Kept
<1> QED BY <1>8, <1>9, Zenon DEF t

-----------------------------------------------------------------------------
\* The least ID other than 0.
LEMMA LeastIdOf ==
    ASSUME Facts, NEW S \in SUBSET Nat, NEW y \in S, y # 0
    PROVE  LeastId(S) \in S /\ LeastId(S) \in 1 .. y
<1>1. S \ {0} \in SUBSET Nat /\ S \ {0} # {}
  BY Zenon
<1>2. LeastOf(S \ {0}) \in S \ {0} /\ \A x \in S \ {0} : LeastOf(S \ {0}) <= x
  BY <1>1, LeastOfSet, Zenon
<1> DEFINE m == LeastOf(S \ {0})
<1>3. LeastId(S) = m
  BY <1>1, Zenon DEF LeastId
<1> HIDE DEF m
<1>4. m \in S /\ m # 0 /\ m <= y /\ m \in Nat /\ y \in Nat
  BY <1>1, <1>2, Zenon DEF m
<1> QED BY <1>3, <1>4

\* LeastId finds an ID of the set, or none.
LEMMA LeastIdRange ==
    ASSUME Facts, NEW S \in SUBSET Nat
    PROVE  LeastId(S) = 0 \/ LeastId(S) \in S
<1>1. CASE S \ {0} = {}
  BY <1>1, Zenon DEF LeastId
<1>2. CASE S \ {0} # {}
  <2>1. PICK y \in S : y # 0
    BY <1>2, Zenon
  <2> QED BY <2>1, LeastIdOf, Zenon
<1> QED BY <1>1, <1>2, Zenon

\* qenc_min_reffed_id covers every block, the one being encoded included, even
\* when it is the value stored before some blocks were released.
LEMMA MinReffedCovers ==
    ASSUME Facts, hinfos \in [Slots -> Hinfo], all_hinfos \subseteq Slots,
           MaxAbsId \in Nat,
           cur_header.hinfo \in {NULL} \cup all_hinfos,
           min_reffed \in {NotCached} \cup 0 .. MaxAbsId, CachedInv,
           NEW h \in all_hinfos, hinfos[h].min_id # 0
    PROVE  MinReffedId \in 1 .. hinfos[h].min_id
<1> DEFINE c == cur_header.hinfo
           M == { hinfos[k].min_id : k \in all_hinfos }
           x == IF min_reffed = NotCached THEN MinOfAll ELSE min_reffed
           C == IF c = NULL THEN {} ELSE {hinfos[c].min_id}
<1>1. \A k \in all_hinfos : hinfos[k].min_id \in Nat
  BY DEF Hinfo, Ids
<1>2. M \in SUBSET Nat /\ hinfos[h].min_id \in M
  BY <1>1, Zenon
<1>3. MinOfAll \in 1 .. hinfos[h].min_id
  BY <1>2, LeastIdOf, Zenon DEF MinOfAll
<1>4. x \in Nat
  <2>1. MinOfAll \in Nat
    BY <1>1, <1>3
  <2> QED BY <2>1 DEF NotCached
<1>5. C \in SUBSET Nat
  BY <1>1, Zenon
<1>6. MinReffedId = LeastId({x} \cup C)
  BY Zenon DEF MinReffedId
<1>7. CASE h = c
  <2>1. h # NULL
    BY DEF NULL, Slots
  <2>2. hinfos[h].min_id \in {x} \cup C
    BY <1>7, <2>1, Zenon
  <2> HIDE DEF x, C
  <2>3. LeastId({x} \cup C) \in 1 .. hinfos[h].min_id
    BY <1>4, <1>5, <2>2, LeastIdOf, Zenon
  <2> QED BY <1>6, <2>3, Zenon
<1>8. CASE h # c
  <2>1. x \in 1 .. hinfos[h].min_id
    BY <1>3, <1>8, Zenon DEF CachedInv
  <2> HIDE DEF x, C
  <2>2. LeastId({x} \cup C) \in 1 .. x
    BY <1>4, <1>5, <2>1, LeastIdOf
  <2>3. hinfos[h].min_id \in Nat
    BY <1>1, Zenon
  <2> QED BY <1>4, <1>6, <2>1, <2>2, <2>3
<1> QED BY <1>7, <1>8, Zenon

\* What may be evicted is acknowledged, and no block refers to it.
LEMMA EvictableUnused ==
    ASSUME Facts, hinfos \in [Slots -> Hinfo], all_hinfos \subseteq Slots,
           MaxAbsId \in Nat, max_acked_id \in Nat,
           cur_header.hinfo \in {NULL} \cup all_hinfos,
           min_reffed \in {NotCached} \cup 0 .. MaxAbsId,
           CachedInv, RefsInv, NEW k \in Nat, k # 0, Evictable(k)
    PROVE  k <= max_acked_id /\ \A h \in all_hinfos : k \notin refs[h]
<1>1. k <= max_acked_id /\ (MinReffedId = 0 \/ k < MinReffedId)
  BY Zenon DEF Evictable
<1>2. ASSUME NEW h \in all_hinfos, k \in refs[h]
      PROVE  FALSE
  <2>1. hinfos[h].min_id \in Nat /\ hinfos[h].max_id \in Nat
    BY DEF Hinfo, Ids
  <2>2. k \in hinfos[h].min_id .. hinfos[h].max_id
    BY <1>2, Zenon DEF RefsInv, RefsBracketed
  <2>3. hinfos[h].min_id # 0
    BY <2>1, <2>2 DEF RefsInv
  <2>4. MinReffedId \in 1 .. hinfos[h].min_id
    BY <2>3, MinReffedCovers, Zenon
  <2> QED BY <1>1, <2>1, <2>2, <2>4
<1> QED BY <1>1, <1>2, Zenon

-----------------------------------------------------------------------------
\* What every program that lsqpack_enc_encode selects for field f satisfies: the
\* entry found can be referenced, the line notes what it refers to, what is
\* inserted has room, and an entry referred to survives the insertion.
ProgramOk(p, f) ==
    /\ p.tab \in {"noop", "new", "new_name"}
    /\ p.ref_new \in BOOLEAN
    /\ p.found # 0 => p.found \in Live /\ CanRef(p.found) /\ UseDynTable
    /\ p.ref_new => CanRisk /\ p.tab # "noop"
    /\ p.hea \in {"indexed_new", "lit_name_new"} => p.ref_new
    /\ p.hea \in {"indexed_dyn", "lit_name_dyn"} =>
         /\ p.found # 0
         /\ p.tab # "noop" => /\ p.tab = "new"
                              /\ SafeToDup(p.found)
                              /\ Entries(p.found).size = f.nsize + f.vsize
    /\ p.tab # "noop" => /\ ins_count < MaxAbsId
                         /\ UseDynTable
                         /\ HasRoom(InsertedSize(p, f))

\* Programs for a field that the dynamic table has.
LEMMA FullMatchOk ==
    ASSUME Facts, NEW f \in Fields, NEW index \in BOOLEAN, Live \subseteq Nat \ {0},
           UseDynTable, index => ins_count < MaxAbsId, SizesInv,
           NEW p \in FullMatch(Matches(f), index)
    PROVE  ProgramOk(p, f)
<1> DEFINE M == Matches(f)
           k == LeastOf(M)
           l == LeastOf(M \ {k})
<1>1. M # {} /\ M \in SUBSET Nat /\ M \subseteq Live
  BY Zenon DEF FullMatch, Matches
<1>2. k \in M
  BY <1>1, LeastOfSet, Zenon
<1>3. k \in Live /\ k # 0 /\ Entries(k).size = f.nsize + f.vsize
  BY <1>1, <1>2, Zenon DEF SizesInv, Matches
<1>4. CASE M = {k}
  <2>1. p \in OneMatch(k, index)
    BY <1>1, <1>4, Zenon DEF FullMatch
  <2> HIDE DEF k, M
  <2>2. CASE index /\ p = Program("dup", "indexed_new", "new", TRUE, k)
             /\ CanRef(k) /\ CanRisk /\ Duplicable(k)
    BY <1>3, <2>2, Zenon DEF ProgramOk, Program, InsertedSize, Duplicable
  <2>3. CASE index /\ p = Program("dup", "indexed_dyn", "new", FALSE, k)
             /\ CanRef(k) /\ SafeToDup(k) /\ Duplicable(k)
    BY <1>3, <2>3, Zenon DEF ProgramOk, Program, InsertedSize, Duplicable
  <2>4. CASE p = RefProgram(k) /\ CanRef(k)
    BY <1>3, <2>4, Zenon DEF ProgramOk, Program, RefProgram
  <2> QED BY <2>1, <2>2, <2>3, <2>4, Zenon DEF OneMatch
<1>5. CASE M # {k}
  <2>1. M \ {k} # {} /\ M \ {k} \in SUBSET Nat
    BY <1>1, <1>2, <1>5, Zenon
  <2>2. l \in M
    BY <2>1, LeastOfSet, Zenon
  <2>3. l \in Live /\ l # 0
    BY <1>1, <2>2, Zenon
  <2>4. p \in TwoMatches(k, l)
    BY <1>1, <1>5, Zenon DEF FullMatch
  <2> HIDE DEF k, l, M
  <2>5. (p = RefProgram(l) /\ CanRef(l)) \/ (p = RefProgram(k) /\ CanRef(k))
    BY <2>4, Zenon DEF TwoMatches, CanRef
  <2>6. CASE p = RefProgram(l) /\ CanRef(l)
    BY <2>3, <2>6, Zenon DEF ProgramOk, Program, RefProgram
  <2>7. CASE p = RefProgram(k) /\ CanRef(k)
    BY <1>3, <2>7, Zenon DEF ProgramOk, Program, RefProgram
  <2> QED BY <2>5, <2>6, <2>7, Zenon
<1> QED BY <1>4, <1>5, Zenon

\* Programs for a field whose name the dynamic table has.
LEMMA NameMatchOk ==
    ASSUME Facts, NEW f \in Fields, NEW index \in BOOLEAN, Live \subseteq Nat \ {0},
           UseDynTable, index => ins_count < MaxAbsId,
           NameMatches(f, index) # {},
           NEW p \in DynName(LeastOf(NameMatches(f, index)), index)
    PROVE  ProgramOk(p, f)
<1> DEFINE N == NameMatches(f, index)
           k == LeastOf(N)
<1>1. N \in SUBSET Nat
  BY Zenon DEF NameMatches
<1>2. k \in N
  BY <1>1, LeastOfSet, Zenon
<1>3. k \in Live /\ k # 0 /\ CanRef(k) /\ (index => HasRoom(f.nsize + f.vsize))
  BY <1>2, Zenon DEF NameMatches
<1> HIDE DEF k, N
<1>4. CASE p = Program("none", "lit_name_dyn", "noop", FALSE, k)
  BY <1>3, <1>4, Zenon DEF ProgramOk, Program
<1>5. CASE /\ index /\ CanRisk
           /\ p = Program("ins_nameref_dynamic", "indexed_new", "new", TRUE, k)
  BY <1>3, <1>5, Zenon DEF ProgramOk, Program, InsertedSize
<1> QED BY <1>4, <1>5, Zenon DEF DynName, k, N

\* Programs for a field of which the dynamic table has nothing that can be used.
LEMMA OtherProgramsOk ==
    ASSUME NEW f \in Fields, NEW index \in BOOLEAN, NEW dup \in BOOLEAN,
           index => UseDynTable /\ ins_count < MaxAbsId,
           NEW p \in StaticName(f, dup, index) \cup NoMatch(f, dup, index)
    PROVE  ProgramOk(p, f)
<1> USE DEF ProgramOk, Program, InsertedSize
<1>1. CASE p = Program("none", "lit_name_stat", "noop", FALSE, 0)
  BY <1>1, Zenon
<1>2. CASE p = Program("none", "lit", "noop", FALSE, 0)
  BY <1>2, Zenon
<1>3. CASE /\ index /\ HasRoom(f.nsize + f.vsize) /\ CanRisk
           /\ p = Program("ins_nameref_static", "indexed_new", "new", TRUE, 0)
  BY <1>3, Zenon
<1>4. CASE /\ index /\ HasRoom(f.nsize + f.vsize)
           /\ p = Program("ins_nameref_static", "lit_name_stat", "new", FALSE, 0)
  BY <1>4, Zenon
<1>5. CASE /\ index /\ HasRoom(f.nsize + f.vsize) /\ CanRisk
           /\ p = Program("ins_lit", "indexed_new", "new", TRUE, 0)
  BY <1>5, Zenon
<1>6. CASE /\ index /\ HasRoom(f.nsize + f.vsize)
           /\ p = Program("ins_lit", "lit", "new", FALSE, 0)
  BY <1>6, Zenon
<1>7. CASE /\ index /\ HasRoom(f.nsize) /\ CanRisk
           /\ p = Program("ins_lit_name", "lit_name_new", "new_name", TRUE, 0)
  BY <1>7, Zenon
<1>8. CASE /\ index /\ HasRoom(f.nsize)
           /\ p = Program("ins_lit_name", "lit", "new_name", FALSE, 0)
  BY <1>8, Zenon
<1> HIDE DEF ProgramOk, Program, InsertedSize
<1> QED BY <1>1, <1>2, <1>3, <1>4, <1>5, <1>6, <1>7, <1>8, Zenon DEF StaticName, NoMatch

\* Whatever lsqpack_enc_encode finds, the program it selects is such a program.
LEMMA SelectOk ==
    ASSUME Facts, NEW f \in Fields, NEW use_dyn \in BOOLEAN, NEW index \in BOOLEAN,
           Live \subseteq Nat \ {0}, SizesInv,
           use_dyn => UseDynTable, index => use_dyn /\ ins_count < MaxAbsId,
           NEW p \in Select(f, use_dyn, index)
    PROVE  ProgramOk(p, f)
<1> DEFINE M == IF use_dyn THEN Matches(f) ELSE {}
           N == IF use_dyn THEN NameMatches(f, index) ELSE {}
<1>1. CASE p \in FullMatch(M, index)
  <2>1. use_dyn
    BY <1>1, Zenon DEF FullMatch
  <2> QED BY <1>1, <2>1, FullMatchOk, Zenon
<1>2. CASE N # {} /\ p \in DynName(LeastOf(N), index)
  <2>1. use_dyn
    BY <1>2, Zenon
  <2> QED BY <1>2, <2>1, NameMatchOk, Zenon
<1>3. CASE p \in StaticName(f, M # {}, index) \cup NoMatch(f, M # {}, index)
  <2> DEFINE dup == M # {}
  <2>1. dup \in BOOLEAN
    BY Zenon
  <2> HIDE DEF dup
  <2>2. p \in StaticName(f, dup, index) \cup NoMatch(f, dup, index)
    BY <1>3, Zenon DEF dup
  <2> QED BY <2>1, <2>2, OtherProgramsOk, Zenon
<1> QED BY <1>1, <1>2, <1>3, Zenon DEF Select

\* So is the one selected after an insertion was given up.
LEMMA ProgramsOk ==
    ASSUME Facts, NEW f \in Fields, NEW fl \in Flags, Live \subseteq Nat \ {0}, SizesInv,
           NEW p \in Programs(f, fl)
    PROVE  ProgramOk(p, f)
<1> DEFINE use_dyn == fl # "no_dyn" /\ UseDynTable /\ RealMaxCapacity \div Overhead > 0
           index == fl = "none" /\ use_dyn /\ ins_count < MaxAbsId
<1>1. /\ use_dyn \in BOOLEAN /\ index \in BOOLEAN
      /\ use_dyn => UseDynTable
      /\ index => use_dyn /\ ins_count < MaxAbsId
  BY Zenon DEF UseDynTable
<1>2. \/ p = Program("none", "indexed_stat", "noop", FALSE, 0)
      \/ p \in Select(f, use_dyn, index)
      \/ p \in Select(f, use_dyn, FALSE)
  BY Zenon DEF Programs
<1> HIDE DEF use_dyn, index
<1>3. CASE p = Program("none", "indexed_stat", "noop", FALSE, 0)
  BY <1>3, Zenon DEF ProgramOk, Program
<1>4. CASE p \in Select(f, use_dyn, index)
  BY <1>1, <1>4, SelectOk, Zenon
<1>5. CASE p \in Select(f, use_dyn, FALSE)
  BY <1>1, <1>5, SelectOk, Zenon
<1> QED BY <1>2, <1>3, <1>4, <1>5, Zenon

-----------------------------------------------------------------------------
(***************************************************************************)
(* What an operation does to the table.                                    *)
(***************************************************************************)

\* Table u is the encoder's after an insert that evicted what it had to.
IsInserted(u, name, val, hash, size) ==
    /\ IsTable(u, ins_count + 1) /\ Packed(u, ins_count + 1)
    /\ u.used <= cur_max_capacity
    /\ ins_count + 1 \in DOMAIN u.entries
    /\ DOMAIN u.entries \subseteq Live \cup {ins_count + 1}
    /\ \A k \in Live \cap DOMAIN u.entries : u.entries[k] = Entries(k)
    /\ LET e == u.entries[ins_count + 1] IN
       e.name = name /\ e.val = val /\ e.hash = hash /\ e.size = size
    /\ \A k \in Live \ DOMAIN u.entries : Evictable(k)
    /\ \A k \in Live : table.used + size - Off(table, k) <= cur_max_capacity =>
          k \in DOMAIN u.entries

\* Inserting what there is room for: lsqpack_enc_push_entry followed by
\* qenc_remove_overflow_entries.
LEMMA InsertCorrect ==
    ASSUME Facts, HTypeOK, IsTable(table, ins_count), OffsetsInv,
           NEW name \in Nat, NEW val \in Nat, NEW hash \in Nat, NEW size \in Nat,
           HasRoom(size)
    PROVE  IsInserted(RemoveOverflow(PushEntry(table, ins_count + 1, name, val,
                                               hash, size), cur_max_capacity),
                      name, val, hash, size)
<1> DEFINE n == ins_count
           c == cur_max_capacity
           t == PushEntry(table, n + 1, name, val, hash, size)
           u == RemoveOverflow(t, c)
<1>1. /\ n \in Nat /\ c \in Nat /\ c < Word /\ table.used \in Nat
      /\ table.used <= c /\ table.used < Word /\ Packed(table, n)
  <2>1. n \in Nat /\ c \in Nat /\ c <= RealMaxCapacity
    BY LimitsAssumption DEF HTypeOK
  <2>2. c < Word /\ Word \in Nat
    BY <2>1, FieldsAssumption, LimitsAssumption
  <2>3. table.used <= c /\ Packed(table, n)
    BY Zenon DEF OffsetsInv
  <2>4. table.used \in Nat
    BY <2>1, TableNumbers, Zenon
  <2>5. table.used < Word
    BY <2>1, <2>2, <2>3, <2>4
  <2> QED BY <2>1, <2>2, <2>3, <2>4, <2>5, Zenon
<1>2. IsPushed(t, table, n, name, val, hash, size)
  BY <1>1, PushParts, Zenon
<1>3. n + 1 \in Kept(t, c) /\ \A k \in Live : k \notin Kept(t, c) => Evictable(k)
  BY <1>1, RoomKeeps, Zenon
<1> HIDE DEF t
<1>4. /\ IsTable(t, n + 1) /\ t.used = table.used + size
      /\ DOMAIN t.entries = Live \cup {n + 1}
      /\ \A k \in Live : t.entries[k] = Entries(k)
      /\ t.entries[n + 1].name = name /\ t.entries[n + 1].val = val
      /\ t.entries[n + 1].hash = hash /\ t.entries[n + 1].size = size
  BY <1>2, Zenon DEF IsPushed, Live, Entries
<1>5. /\ Packed(t, n + 1)
      /\ \A k \in Live : Off(t, k) = Off(table, k)
  BY <1>1, <1>2, PushPacked DEF Live
<1> DEFINE m == n + 1
<1>5a. m \in Nat
  BY <1>1
<1> HIDE DEF m
<1>6. /\ IsTable(u, n + 1) /\ DOMAIN u.entries = Kept(t, c)
      /\ \A k \in Kept(t, c) : u.entries[k] = t.entries[k]
      /\ u.used \in 0 .. c
  <2>1. IsTable(t, m) /\ Packed(t, m)
    BY <1>4, <1>5, Zenon DEF m
  <2>2. /\ IsTable(u, m) /\ DOMAIN u.entries = Kept(t, c)
        /\ \A k \in Kept(t, c) : u.entries[k] = t.entries[k]
        /\ u.used \in 0 .. c
    BY <1>1, <1>5a, <2>1, RemoveParts
  <2> QED BY <2>2, Zenon DEF m
<1>7. Packed(u, n + 1)
  <2>1. IsTable(t, m) /\ Packed(t, m)
    BY <1>4, <1>5, Zenon DEF m
  <2>2. Packed(u, m)
    BY <1>1, <1>5a, <2>1, RemovePacked, Zenon
  <2> QED BY <2>2, Zenon DEF m
<1> HIDE DEF u
<1>8. ASSUME NEW k \in Live, table.used + size - Off(table, k) <= c
      PROVE  k \in DOMAIN u.entries
  <2>1. k \in DOMAIN t.entries
    BY <1>4, Zenon
  <2>2. t.used = table.used + size /\ Off(t, k) = Off(table, k)
    BY <1>4, <1>5, Zenon
  <2>3. Off(table, k) \in Nat
    BY <1>1, TableNumbers, Zenon DEF Live
  <2>4. t.used - Off(t, k) <= c
    BY <1>1, <1>8, <2>2, <2>3
  <2> QED BY <2>1, <2>4, <1>6, Zenon DEF Kept
<1>9. u.used <= c
  BY <1>1, <1>6
<1>10. DOMAIN u.entries \subseteq Live \cup {n + 1}
  BY <1>4, <1>6, Zenon DEF Kept
<1>11. IsInserted(u, name, val, hash, size)
  BY <1>3, <1>4, <1>6, <1>7, <1>8, <1>9, <1>10, Zenon DEF IsInserted
<1> QED BY <1>11, Zenon DEF u, t

\* Evicting down to a capacity that the table fits changes no entry.
LEMMA RemoveCorrect ==
    ASSUME Facts, HTypeOK, IsTable(table, ins_count), OffsetsInv, NEW c \in Nat
    PROVE  LET u == RemoveOverflow(table, c) IN
           /\ IsTable(u, ins_count) /\ Packed(u, ins_count) /\ u.used <= c
           /\ DOMAIN u.entries \subseteq Live
           /\ \A k \in DOMAIN u.entries : u.entries[k] = Entries(k)
           /\ cur_max_capacity <= c => DOMAIN u.entries = Live
<1> DEFINE u == RemoveOverflow(table, c)
<1>1. /\ ins_count \in Nat /\ Packed(table, ins_count)
      /\ table.used \in Nat /\ cur_max_capacity \in Nat
      /\ table.used <= cur_max_capacity
  BY LimitsAssumption, TableNumbers DEF HTypeOK, OffsetsInv
<1>2. /\ IsTable(u, ins_count) /\ DOMAIN u.entries = Kept(table, c)
      /\ \A k \in Kept(table, c) : u.entries[k] = table.entries[k]
      /\ u.used \in 0 .. c
  BY <1>1, RemoveParts
<1>3. Packed(u, ins_count)
  BY <1>1, RemovePacked, Zenon
<1>4. cur_max_capacity <= c => Kept(table, c) = Live
  BY <1>1, RemoveNothing DEF Live
<1> HIDE DEF u
<1>5. u.used <= c
  BY <1>2
<1>6. Kept(table, c) \subseteq Live
  BY Zenon DEF Kept, Live
<1>7. /\ IsTable(u, ins_count) /\ Packed(u, ins_count) /\ u.used <= c
      /\ DOMAIN u.entries \subseteq Live
      /\ \A k \in DOMAIN u.entries : u.entries[k] = Entries(k)
      /\ cur_max_capacity <= c => DOMAIN u.entries = Live
  BY <1>2, <1>3, <1>4, <1>5, <1>6, Zenon DEF Entries
<1> QED BY <1>7, Zenon DEF u
=============================================================================
