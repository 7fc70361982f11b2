------------------------------ MODULE ListSeq ------------------------------
(***************************************************************************)
(* What the client list of test_2/list.c (declared in pp_1_server/list.h)  *)
(* promises: an ordered sequence of values with insertion at either end,   *)
(* removal at either end, and removal of the first entry equal to a value. *)
(* Removing from an empty list changes nothing.  Capacity and uniqueness   *)
(* are not the list's business (the server checks them).                   *)
(***************************************************************************)
EXTENDS Sequences, SequencesExt

CONSTANTS Values,  \* what an entry may hold
          MaxLen   \* bound on the length (the memory the model gives malloc)

VARIABLE elems

Init == elems = <<>>

PushFront(v) == Len(elems) < MaxLen /\ elems' = <<v>> \o elems
PushBack(v) == Len(elems) < MaxLen /\ elems' = Append(elems, v)
PopFront == elems # <<>> /\ elems' = Tail(elems)
PopBack == elems # <<>> /\ elems' = Front(elems)
RemoveValue(v) == Contains(elems, v) /\ elems' = RemoveFirst(elems, v)

Next ==
    \/ \E v \in Values : PushFront(v) \/ PushBack(v) \/ RemoveValue(v)
    \/ PopFront \/ PopBack

Spec == Init /\ [][Next]_elems
=============================================================================
