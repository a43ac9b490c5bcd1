------------------------------ MODULE TableSpec ------------------------------
(***************************************************************************)
(* What a decoder promises of its dynamic table.  Instructions are executed *)
(* one at a time, in order and whole; an insertion makes room by evicting   *)
(* the oldest entries, its own included when it is larger than the table.   *)
(*                                                                         *)
(* An instruction is refused only if it cannot be executed: it refers to an *)
(* entry that is not there, sets a capacity above the limit, or inserts an  *)
(* entry that is malformed or does not fit.  After that, or after running   *)
(* out of memory, nothing more is executed.                                 *)
(***************************************************************************)
EXTENDS Integers, Sequences, FiniteSetsExt

CONSTANTS
    MaxCapacity,    \* qpd_max_capacity
    Overhead,       \* DYNAMIC_ENTRY_OVERHEAD
    StaticNames,    \* names of the static table
    Instructions

VARIABLES
    table,      \* entries, oldest first
    capacity,
    todo,       \* instructions sent and not executed
    status

tvars == <<table, capacity, todo, status>>

Size(e) == Len(e.name) + Len(e.val) + Overhead

\* The table from the entry that is i-th oldest on.
From(t, i) == SubSeq(t, i, Len(t))
SizeOf(t) == MapThenSumSet(LAMBDA i : Size(t[i]), DOMAIN t)
Evicted(t, cap) ==
    From(t, Min({ i \in 1 .. Len(t) + 1 : SizeOf(From(t, i)) <= cap }))

\* Names and entries that instructions refer to: the newest entry has index 0.
HasEntry(idx) == idx < Len(table)
Entry(idx) == table[Len(table) - idx]
HasName(ref) == CASE ref.kind = "static"  -> ref.idx < Len(StaticNames)
                  [] ref.kind = "dynamic" -> HasEntry(ref.idx)
                  [] OTHER                -> TRUE
Name(ref) == CASE ref.kind = "static"  -> StaticNames[ref.idx + 1]
               [] ref.kind = "dynamic" -> Entry(ref.idx).name
               [] OTHER                -> ref.str

Valid(i) == CASE i.op = "insert"   -> HasName(i.name) /\ i.coding # "garbled"
              [] i.op = "dup"      -> HasEntry(i.idx)
              [] i.op = "capacity" -> i.cap <= MaxCapacity
Inserted(i) == IF i.op = "insert" THEN [name |-> Name(i.name), val |-> i.val]
               ELSE Entry(i.idx)

TInit ==
    /\ table = << >>
    /\ capacity = MaxCapacity
    /\ todo = << >>
    /\ status = "ok"

Send(i) ==
    /\ todo' = Append(todo, i)
    /\ UNCHANGED <<table, capacity, status>>

Execute ==
    /\ status = "ok"
    /\ todo # << >>
    /\ Valid(Head(todo))
    /\ capacity' = IF Head(todo).op = "capacity" THEN Head(todo).cap ELSE capacity
    /\ table' = Evicted(IF Head(todo).op = "capacity" THEN table
                        ELSE Append(table, Inserted(Head(todo))), capacity')
    /\ todo' = Tail(todo)
    /\ UNCHANGED status

Refuse ==
    /\ status = "ok"
    /\ todo # << >>
    /\ \/ ~Valid(Head(todo))
       \/ Head(todo).op = "insert" /\ Size(Inserted(Head(todo))) > capacity
    /\ status' = "error"
    /\ UNCHANGED <<table, capacity, todo>>

NoMemory ==
    /\ status = "ok"
    /\ todo # << >>
    /\ status' = "nomem"
    /\ UNCHANGED <<table, capacity, todo>>

Close ==
    /\ status # "closed"
    /\ status' = "closed"
    /\ table' = << >>
    /\ UNCHANGED <<capacity, todo>>

TNext ==
    \/ \E i \in Instructions : Send(i)
    \/ Execute
    \/ Refuse
    \/ NoMemory
    \/ Close

TSpec == TInit /\ [][TNext]_tvars
=============================================================================
