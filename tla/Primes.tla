------------------------------- MODULE Primes -------------------------------
(***************************************************************************)
(* The prime finder of src/pa_1/primes.c.  main() tests every num from 1   *)
(* up, prints each prime and pushes it into a circular_buffer of capacity  *)
(* 5; SIGINT and SIGQUIT run report(), which pops five entries and prints  *)
(* them as the "Last 5 Found Primes", then exit(0).                        *)
(*                                                                         *)
(* The buffer is modelled at the level of its int slots: buffer is slot 0, *)
(* head and tail are slot indices, and a pointer step of cb->size bytes is *)
(* one int slot (cb->size = sizeof(int)).  cb_init sets buffer_end to      *)
(* the int pointer buffer + capacity + size, slot CAPACITY + SIZE, while   *)
(* malloc() gave CAPACITY slots.  Slots that no push has written hold      *)
(* Garbage (malloc does not clear them).                                   *)
(*                                                                         *)
(* A signal can arrive between any two steps of main, so the push is split *)
(* where the handler could see it: the memcpy with the head advance, then  *)
(* count++, then the printf.                                               *)
(***************************************************************************)
EXTENDS Integers, Sequences, FiniteSets

CONSTANTS
    CAPACITY,   \* cb_init(&buff, 5, sizeof(int)): the slots malloc'd
    SIZE,       \* sizeof(int), the bytes cb->size adds to buffer_end
    LONG_MAX,   \* the bound of main's for loop (num < LONG_MAX)
    Garbage     \* the contents of a slot malloc returned uninitialized

ASSUME CAPACITY \in Nat \ {0} /\ SIZE \in Nat \ {0} /\ LONG_MAX \in Nat

VARIABLES
    pc,        \* main: "test", "copy", "count", "print", "done"; "exit"
    num,       \* main's loop variable
    numFound,  \* num_found
    mem,       \* mem[s]: the int in slot s
    head,      \* cb->head
    tail,      \* cb->tail
    count,     \* cb->count
    printed,   \* the primes main has printed (history)
    reported   \* what report() printed: <<>> before, then the popped values

vars == <<pc, num, numFound, mem, head, tail, count, printed, reported>>

\* cb->buffer_end as a slot index.
EndSlot == CAPACITY + SIZE
Slots == 0..EndSlot - 1

-----------------------------------------------------------------------------
(* is_prime, and the reference it is checked against.                     *)

\* The trial division loop: for (i = 3; i*i <= num; i += 2).
RECURSIVE HasOddDivisor_strict(_, _)
HasOddDivisor_strict(n, i) ==
    IF i * i >= n THEN FALSE ELSE n % i = 0 \/ HasOddDivisor_strict(n, i + 2)

RECURSIVE HasOddDivisor(_, _)
HasOddDivisor(n, i) ==
    IF i * i > n THEN FALSE ELSE n % i = 0 \/ HasOddDivisor(n, i + 2)

is_prime(n) ==
    CASE n < 2      -> FALSE
      [] n = 2      -> TRUE
      [] n % 2 = 0  -> FALSE
      [] OTHER      -> ~HasOddDivisor(n, 3)

\* A prime has no divisor between 2 and itself.
IsPrimeRef(n) == n >= 2 /\ \A d \in 2..n - 1 : n % d # 0

-----------------------------------------------------------------------------

\* The slot after s, with cb_push_back's and cb_pop_front's wrap test
\* (== buffer_end).
NextSlot(s) == IF s + 1 = EndSlot THEN 0 ELSE s + 1

\* cb_init() has run and the handlers are installed.
Init ==
    /\ pc = "test"
    /\ num = 1
    /\ numFound = 0
    /\ mem = [s \in Slots |-> Garbage]
    /\ head = 0 /\ tail = 0 /\ count = 0
    /\ printed = {}
    /\ reported = <<>>

\* The test of the for loop and is_prime(num): a prime goes on to the push
\* (after num_found++), anything else to the next num; at LONG_MAX main
\* returns.
Test ==
    /\ pc = "test"
    /\ \/ /\ num < LONG_MAX /\ is_prime(num)
          /\ numFound' = numFound + 1 /\ pc' = "copy"
          /\ UNCHANGED num
       \/ /\ num < LONG_MAX /\ ~is_prime(num)
          /\ num' = num + 1
          /\ UNCHANGED <<pc, numFound>>
       \/ /\ num >= LONG_MAX
          /\ pc' = "done"
          /\ UNCHANGED <<num, numFound>>
    /\ UNCHANGED <<mem, head, tail, count, printed, reported>>

\* Mutation: head advanced before the memcpy.
Copy_advance_first ==
    /\ pc = "copy"
    /\ mem' = [mem EXCEPT ![NextSlot(head)] = num]
    /\ head' = NextSlot(head)
    /\ pc' = "count"
    /\ UNCHANGED <<num, numFound, tail, count, printed, reported>>

\* cb_push_back: the full test only sets error, which main ignores; memcpy
\* into the head slot, then head advances and wraps at buffer_end.
Copy ==
    /\ pc = "copy"
    /\ mem' = [mem EXCEPT ![head] = num]
    /\ head' = NextSlot(head)
    /\ pc' = "count"
    /\ UNCHANGED <<num, numFound, tail, count, printed, reported>>

\* cb_push_back: cb->count++.
Count ==
    /\ pc = "count"
    /\ count' = count + 1
    /\ pc' = "print"
    /\ UNCHANGED <<num, numFound, mem, head, tail, printed, reported>>

\* printf("%lu \n", num), then num++.
PrintPrime ==
    /\ pc = "print"
    /\ printed' = printed \cup {num}
    /\ num' = num + 1
    /\ pc' = "test"
    /\ UNCHANGED <<numFound, mem, head, tail, count, reported>>

\* The slot k pops after s: cb_pop_front's tail += size, wrapping at
\* buffer_end, k times.
SlotAfter(s, k) == (s + k) % EndSlot

\* report(): five cb_pop_front calls; once count is 0 a pop fails and report
\* stops ("buffer empty").  Then the handler's exit(0).
NumPopped(c) == IF c < 5 THEN c ELSE 5

\* int_handler / quit_handler: signal(sig, SIG_IGN), report(), exit(0).
\* main is suspended wherever it is; the handler runs to exit.
Interrupt ==
    /\ pc \in {"test", "copy", "count", "print"}
    /\ reported' = [i \in 1..NumPopped(count) |-> mem[SlotAfter(tail, i - 1)]]
    /\ tail' = SlotAfter(tail, NumPopped(count))
    /\ count' = count - NumPopped(count)
    /\ pc' = "exit"
    /\ UNCHANGED <<num, numFound, mem, head, printed>>

Next == Test \/ Copy \/ Count \/ PrintPrime \/ Interrupt

Spec == Init /\ [][Next]_vars

-----------------------------------------------------------------------------
(* Properties.                                                             *)

\* main prints exactly the primes below num: is_prime's trial division
\* (i*i <= num, odd i) neither misses a prime nor lets a composite through.
PrimesFoundSoFar ==
    pc = "test" => printed = {n \in 1..num - 1 : IsPrimeRef(n)}

\* Whatever instruction of cb_push_back the signal interrupts, report()
\* prints only primes main has found, never a slot malloc left
\* uninitialized (count is incremented only after the memcpy).
ReportShowsFoundPrimes ==
    \A i \in 1..Len(reported) :
        reported[i] # Garbage /\ IsPrimeRef(reported[i])

=============================================================================
