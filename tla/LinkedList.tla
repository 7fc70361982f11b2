----------------------------- MODULE LinkedList -----------------------------
(***************************************************************************)
(* The client list of test_2/list.c at the level of its pointers: two     *)
(* sentinel nodes, head and tail, that list_init allocates and that hold   *)
(* no data, with the real nodes linked between them by next and prev.      *)
(* Every operation runs to completion before the next (the server is one   *)
(* thread), so an operation is one step: its pointer assignments, in the   *)
(* code's order, give the new next and prev.  malloc hands out any free    *)
(* node; free returns it and leaves its fields as they were.               *)
(***************************************************************************)
EXTENDS Naturals, Sequences, SequencesExt, FiniteSets

CONSTANTS
    Values,   \* what an entry holds (a pid)
    Nodes,    \* addresses malloc can return for real nodes
    HeadN,    \* the head sentinel
    TailN,    \* the tail sentinel
    Null      \* NULL

ASSUME {HeadN, TailN, Null} \cap Nodes = {}

VARIABLES
    next, prev,      \* the node fields
    data,            \* data[n]: the value n's payload holds
    alloc,           \* real nodes currently allocated
    logical_length   \* L->logical_length

vars == <<next, prev, data, alloc, logical_length>>

Slots == Nodes \cup {HeadN, TailN}
NoValue == Null

(* The nodes met walking next from the head (prev from the tail), up to *)
(* the other sentinel; the fuel stops the walk on a cycle.               *)
RECURSIVE WalkNext(_, _), WalkPrev(_, _)
WalkNext(n, fuel) ==
    IF n \in {TailN, Null} \/ fuel = 0 THEN <<>> ELSE <<n>> \o WalkNext(next[n], fuel - 1)
WalkPrev(n, fuel) ==
    IF n \in {HeadN, Null} \/ fuel = 0 THEN <<>> ELSE <<n>> \o WalkPrev(prev[n], fuel - 1)

Chain == WalkNext(next[HeadN], Cardinality(Nodes) + 1)
BackChain == WalkPrev(prev[TailN], Cardinality(Nodes) + 1)

\* The values of the list, front to back: the refinement mapping.
Elems == [i \in 1..Len(Chain) |-> data[Chain[i]]]

-----------------------------------------------------------------------------
\* list_init: head->next = tail, tail->prev = head, both data NULL.
list_init ==
    /\ next = [n \in Slots |-> IF n = HeadN THEN TailN ELSE Null]
    /\ prev = [n \in Slots |-> IF n = TailN THEN HeadN ELSE Null]
    /\ data = [n \in Slots |-> NoValue]
    /\ alloc = {}
    /\ logical_length = 0

TypeOK ==
    /\ next \in [Slots -> Slots \cup {Null}]
    /\ prev \in [Slots -> Slots \cup {Null}]
    /\ data \in [Slots -> Values \cup {NoValue}]
    /\ alloc \subseteq Nodes
    /\ logical_length \in 0..Cardinality(Nodes)

\* malloc of a node and of its payload, memcpy of the value.
Alloc(new, v) ==
    /\ new \in Nodes \ alloc
    /\ alloc' = alloc \cup {new}
    /\ data' = [data EXCEPT ![new] = v]
    /\ logical_length' = logical_length + 1

\* list_push_front: new goes between head and head->next.
list_push_front(v) ==
    \E new \in Nodes \ alloc :
        LET temp == next[HeadN]
        IN /\ Alloc(new, v)
           /\ next' = [next EXCEPT ![HeadN] = new, ![new] = temp]
           /\ prev' = [prev EXCEPT ![new] = HeadN, ![temp] = new]

\* Mutation: list_push_back without tail->prev = new.
list_push_back_no_tail_prev(v) ==
    \E new \in Nodes \ alloc :
        LET p == prev[TailN]
        IN /\ Alloc(new, v)
           /\ next' = [next EXCEPT ![p] = new, ![new] = TailN]
           /\ prev' = [prev EXCEPT ![new] = p]

\* list_push_back: new goes between tail->prev and tail.
list_push_back(v) ==
    \E new \in Nodes \ alloc :
        LET p == prev[TailN]
        IN /\ Alloc(new, v)
           /\ next' = [next EXCEPT ![p] = new, ![new] = TailN]
           /\ prev' = [prev EXCEPT ![new] = p, ![TailN] = new]

\* Unlink n between q = n->prev and r = n->next and free(n): the node
\* goes back to malloc, its payload is not freed (free_fn is never called).
Unlink(n) ==
    LET q == prev[n]
        r == next[n]
    IN /\ next' = [next EXCEPT ![q] = r]
       /\ prev' = [prev EXCEPT ![r] = q]
       /\ alloc' = alloc \ {n}
       /\ logical_length' = logical_length - 1
       /\ UNCHANGED data

\* list_pop_front (on an empty list it only prints an error).
list_pop_front == next[HeadN] # TailN /\ Unlink(next[HeadN])

\* Mutation: list_pop_back without its test for an empty list.
list_pop_back_no_empty_check == Unlink(prev[TailN])

\* list_pop_back (on an empty list it does nothing).
list_pop_back == prev[TailN] # HeadN /\ Unlink(prev[TailN])

\* list_remove_node for a real node (the sentinels are refused).
list_remove_node(n) == n \in alloc /\ Unlink(n)

\* Mutation: list_remove_pid without the break: every match is unlinked
\* (p = p->next still finds the successor in the freed node).
list_remove_pid_no_break(v) ==
    LET hits == {n \in ToSet(Chain) : data[n] = v}
        ends == <<HeadN>> \o SelectSeq(Chain, LAMBDA n : data[n] # v) \o <<TailN>>
        at(n) == SelectInSeq(ends, LAMBDA m : m = n)
    IN /\ hits # {}
       /\ next' = [n \in Slots |-> IF at(n) \in 1..Len(ends) - 1 THEN ends[at(n) + 1] ELSE next[n]]
       /\ prev' = [n \in Slots |-> IF at(n) \in 2..Len(ends) THEN ends[at(n) - 1] ELSE prev[n]]
       /\ alloc' = alloc \ hits
       /\ logical_length' = logical_length - Cardinality(hits)
       /\ UNCHANGED data

\* list_remove_pid: walk from the front, unlink the first node holding v.
list_remove_pid(v) ==
    LET i == SelectInSeq(Chain, LAMBDA n : data[n] = v)
    IN i > 0 /\ list_remove_node(Chain[i])

Init == list_init

Next ==
    \/ \E v \in Values : list_push_front(v) \/ list_push_back(v) \/ list_remove_pid(v)
    \/ list_pop_front \/ list_pop_back

Spec == Init /\ [][Next]_vars

-----------------------------------------------------------------------------
(* Properties.                                                             *)

\* The links stay a well-formed doubly linked list after any sequence of
\* operations: walking next from head passes exactly the allocated nodes
\* and ends at tail, walking prev from tail meets them in reverse, and
\* logical_length counts them.
DoublyLinked ==
    /\ ToSet(Chain) = alloc /\ Len(Chain) = Cardinality(alloc)
    /\ next[IF Chain = <<>> THEN HeadN ELSE Chain[Len(Chain)]] = TailN
    /\ BackChain = Reverse(Chain)
    /\ logical_length = Len(Chain)

\* The pointer list implements the sequence of ListSeq.
Abstract == INSTANCE ListSeq WITH elems <- Elems, MaxLen <- Cardinality(Nodes)
ImplementsListSeq == Abstract!Spec

=============================================================================
