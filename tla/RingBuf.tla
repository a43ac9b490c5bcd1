------------------------------- MODULE RingBuf -------------------------------
(***************************************************************************)
(* The ring buffer that holds the decoder's dynamic table: an array of      *)
(* nalloc slots, of which those from tail up to, and not including, head    *)
(* are in use.  The array doubles when it is full.  Slots that were never   *)
(* written hold None.                                                       *)
(***************************************************************************)
EXTENDS Integers, Sequences

CONSTANTS
    RingInit,   \* slots of the first array, 4 in the code
    None

ASSUME RingInitAssumption == RingInit \in Nat /\ RingInit >= 2

RingNew == [nalloc |-> 0, head |-> 0, tail |-> 0, els |-> << >>]

\* ringbuf_count
RingCount(rb) ==
    IF rb.head >= rb.tail THEN rb.head - rb.tail
    ELSE rb.nalloc - (rb.tail - rb.head)

\* ringbuf_full
RingFull(rb) == IF rb.nalloc = 0 THEN TRUE ELSE (rb.head + 1) % rb.nalloc = rb.tail

\* ringbuf_get_head: the element that was added off-th from last.
RingGetHead(rb, off) == rb.els[(rb.nalloc + rb.head - off) % rb.nalloc]

\* Faulty: what is in two pieces is copied as it lies, the front before the tail.
RingGrownAsItLies(rb) ==
    IF rb.nalloc = 0
    THEN [rb EXCEPT !.nalloc = RingInit, !.els = [i \in 0 .. RingInit - 1 |-> None]]
    ELSE [nalloc |-> 2 * rb.nalloc, head |-> RingCount(rb), tail |-> 0,
          els |-> [i \in 0 .. 2 * rb.nalloc - 1 |->
                     IF i < rb.head THEN rb.els[i]
                     ELSE IF i < RingCount(rb) THEN rb.els[rb.tail + i - rb.head]
                     ELSE None]]

\* The two ways ringbuf_add makes a larger array: what is in one piece goes to the
\* front, and of what is in two pieces the part at the tail goes to the end.
RingGrown(rb) ==
    LET n == rb.nalloc IN
    IF n = 0
    THEN [rb EXCEPT !.nalloc = RingInit, !.els = [i \in 0 .. RingInit - 1 |-> None]]
    ELSE IF rb.head >= rb.tail
    THEN [nalloc |-> 2 * n, head |-> rb.head - rb.tail, tail |-> 0,
          els |-> [i \in 0 .. 2 * n - 1 |->
                     IF i <= rb.head - rb.tail THEN rb.els[rb.tail + i] ELSE None]]
    ELSE [nalloc |-> 2 * n, head |-> rb.head, tail |-> rb.tail + n,
          els |-> [i \in 0 .. 2 * n - 1 |->
                     IF i <= rb.head THEN rb.els[i]
                     ELSE IF i >= n + rb.tail THEN rb.els[i - n] ELSE None]]

\* An array that is not full is given an element.
RingPut(rb, el) ==
    [nalloc |-> rb.nalloc, head |-> (rb.head + 1) % rb.nalloc, tail |-> rb.tail,
     els |-> [rb.els EXCEPT ![rb.head] = el]]

\* ringbuf_add, when there is memory for the array it needs.
RingAdd(rb, el) == RingPut(IF RingFull(rb) THEN RingGrown(rb) ELSE rb, el)

\* k times ringbuf_advance_tail: the k oldest elements are out.
RingAdvanced(rb, k) ==
    IF k = 0 THEN rb
    ELSE [nalloc |-> rb.nalloc, head |-> rb.head, tail |-> (rb.tail + k) % rb.nalloc,
          els |-> rb.els]

\* What the iterator (ringbuf_iter_first, ringbuf_iter_next) visits, oldest first.
RingSeq(rb) ==
    [i \in 1 .. RingCount(rb) |-> rb.els[(rb.tail + i - 1) % rb.nalloc]]
=============================================================================
