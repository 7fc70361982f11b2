------------------------------ MODULE Producer ------------------------------
(***************************************************************************)
(* The shared-memory producer of src/pe_3/producer.c and the consumers it  *)
(* serves.  The producer puts num_items work items into the shared buffer  *)
(* (in counts the items it holds), posts sem_2 once per item, waits on     *)
(* sem_1 when in == BUF_SIZE, and after production polls until in == 0,    *)
(* then sets is_finished and posts sem_2 MAX_NUM_CONSUMERS times.          *)
(*                                                                         *)
(* sem_3 is the mutex around the buffer.  Every section the producer runs  *)
(* between lock_shared_mem() and unlock_shared_mem() is one action, and so *)
(* is every consumer section under the mutex: the buffer is only touched   *)
(* inside them, so no other interleaving is observable.                    *)
(*                                                                         *)
(* The consumer program is not in the repository.  The consumers here do   *)
(* what the producer's comments ask of them: wait on sem_2, then under the *)
(* mutex exit if is_finished, else take one item (in--) and, if is_full,   *)
(* post sem_1.  Whether a consumer clears is_full when it posts is not     *)
(* said anywhere; ConsumerClearsFull chooses.                              *)
(*                                                                         *)
(* `bool finished` (line 258) is never initialized; its value on entry to  *)
(* the polling loop is chosen from FinishedInit.                           *)
(***************************************************************************)
EXTENDS Integers

CONSTANTS
    Consumers,          \* consumer processes (model values)
    NumItems,           \* argv[1], the items to produce
    BUF_SIZE,           \* slots of work[]
    MAX_NUM_CONSUMERS,  \* sem_2 posts after the last item is consumed
    FinishedInit,       \* values the uninitialized `finished` can hold
    ConsumerClearsFull  \* a consumer resets is_full when it posts sem_1

VARIABLES
    ppc,         \* producer: "loop", "waitc", "relock", "drain", "done"
    i,           \* the production loop counter
    finished,    \* the producer's local `finished`
    in,          \* buffer->in
    isFull,      \* buffer->is_full
    isFinished,  \* buffer->is_finished
    sem1,        \* value of sem_1 (buffer not full)
    sem2,        \* value of sem_2 (work ready)
    semsLinked,  \* the named semaphores exist (before unlink_all)
    cpc          \* cpc[k]: where consumer k is

vars == <<ppc, i, finished, in, isFull, isFinished, sem1, sem2, semsLinked, cpc>>

\* sem_1 = 0 (buffer full), sem_2 = 0 (no work ready); sem_3 = 1 is the
\* mutex, implicit in the atomic sections.
initialize_sems == sem1 = 0 /\ sem2 = 0 /\ semsLinked = TRUE

initialize_buffer == in = 0 /\ isFull = FALSE /\ isFinished = FALSE

\* main() after removing old semaphores, initialize_shared_mem(),
\* initialize_sems() and the locked initialize_buffer().
Init ==
    /\ ppc = "loop"
    /\ i = 0
    /\ finished \in FinishedInit
    /\ initialize_buffer
    /\ initialize_sems
    /\ cpc = [k \in Consumers |-> "idle"]

TypeOK ==
    /\ ppc \in {"loop", "waitc", "relock", "drain", "done"}
    /\ i \in 0..NumItems
    /\ finished \in BOOLEAN /\ isFull \in BOOLEAN /\ isFinished \in BOOLEAN
    /\ in \in Int /\ sem1 \in Nat /\ sem2 \in Nat
    /\ semsLinked \in BOOLEAN
    /\ cpc \in [Consumers -> {"idle", "wait", "crit", "done"}]

-----------------------------------------------------------------------------
(* The producer, producer.c main().                                        *)

\* work[in] = item; out = in; in++; signal_consumer(); unlock_shared_mem();
\* then the next iteration of the for loop.
AddItem ==
    /\ in' = in + 1
    /\ sem2' = sem2 + 1
    /\ i' = i + 1
    /\ ppc' = "loop"

\* lock_shared_mem(); if in == BUF_SIZE, set is_full and unlock to wait for
\* a consumer, otherwise add the item.
Produce ==
    /\ ppc = "loop" /\ i < NumItems
    /\ IF in = BUF_SIZE
          THEN /\ isFull' = TRUE /\ ppc' = "waitc"
               /\ UNCHANGED <<i, in, sem2>>
          ELSE AddItem /\ UNCHANGED isFull
    /\ UNCHANGED <<finished, isFinished, sem1, semsLinked, cpc>>

\* Mutation: the producer goes on without waiting on sem_1.
WaitForConsumer_no_wait ==
    /\ ppc = "waitc"
    /\ sem1' = sem1 - 1
    /\ ppc' = "relock"
    /\ UNCHANGED <<i, finished, in, isFull, isFinished, sem2, semsLinked, cpc>>

\* wait_for_consumer(): sem_wait(sem_1).
WaitForConsumer ==
    /\ ppc = "waitc" /\ sem1 > 0
    /\ sem1' = sem1 - 1
    /\ ppc' = "relock"
    /\ UNCHANGED <<i, finished, in, isFull, isFinished, sem2, semsLinked, cpc>>

\* lock_shared_mem() again and add the item, without testing in again.
Relock ==
    /\ ppc = "relock"
    /\ AddItem
    /\ UNCHANGED <<finished, isFull, isFinished, sem1, semsLinked, cpc>>

\* The for loop ends after num_items iterations.
ProductionDone ==
    /\ ppc = "loop" /\ i = NumItems
    /\ ppc' = "drain"
    /\ UNCHANGED <<i, finished, in, isFull, isFinished, sem1, sem2, semsLinked, cpc>>

\* Mutation: one sem_2 post instead of one per possible consumer.
PollConsumed_one_post ==
    /\ ppc = "drain" /\ ~finished /\ in = 0
    /\ isFinished' = TRUE /\ finished' = TRUE
    /\ sem2' = sem2 + 1
    /\ UNCHANGED <<ppc, i, in, isFull, sem1, semsLinked, cpc>>

\* One locked pass of while(!finished) that finds in == 0: set
\* is_finished and finished, post sem_2 MAX_NUM_CONSUMERS times.
PollConsumed ==
    /\ ppc = "drain" /\ ~finished /\ in = 0
    /\ isFinished' = TRUE /\ finished' = TRUE
    /\ sem2' = sem2 + MAX_NUM_CONSUMERS
    /\ UNCHANGED <<ppc, i, in, isFull, sem1, semsLinked, cpc>>

\* A locked pass that finds items left, then usleep(): no state changes.
PollBusy ==
    /\ ppc = "drain" /\ ~finished /\ in # 0
    /\ UNCHANGED vars

\* The loop is left (or never entered, when `finished` starts true);
\* sleep() and unlink_all() remove the semaphores' names.
Unlink ==
    /\ ppc = "drain" /\ finished
    /\ ppc' = "done" /\ semsLinked' = FALSE
    /\ UNCHANGED <<i, finished, in, isFull, isFinished, sem1, sem2, cpc>>

ProducerStep ==
    \/ Produce \/ WaitForConsumer \/ Relock \/ ProductionDone
    \/ PollConsumed \/ PollBusy \/ Unlink

-----------------------------------------------------------------------------
(* The consumers, as the producer's comments describe them.                *)

\* sem_open() of the producer's semaphores; it fails once they are unlinked.
ConsumerStart(k) ==
    /\ cpc[k] = "idle"
    /\ cpc' = [cpc EXCEPT ![k] = IF semsLinked THEN "wait" ELSE "done"]
    /\ UNCHANGED <<ppc, i, finished, in, isFull, isFinished, sem1, sem2, semsLinked>>

\* sem_wait(sem_2).
ConsumerWait(k) ==
    /\ cpc[k] = "wait" /\ sem2 > 0
    /\ sem2' = sem2 - 1
    /\ cpc' = [cpc EXCEPT ![k] = "crit"]
    /\ UNCHANGED <<ppc, i, finished, in, isFull, isFinished, sem1, semsLinked>>

\* Under sem_3: exit once is_finished; else take an item if there is one
\* and, when is_full, post sem_1.
ConsumerTake(k) ==
    /\ cpc[k] = "crit"
    /\ \/ /\ isFinished
          /\ cpc' = [cpc EXCEPT ![k] = "done"]
          /\ UNCHANGED <<in, isFull, sem1>>
       \/ /\ ~isFinished
          /\ cpc' = [cpc EXCEPT ![k] = "wait"]
          /\ in' = IF in > 0 THEN in - 1 ELSE in
          /\ sem1' = IF in > 0 /\ isFull THEN sem1 + 1 ELSE sem1
          /\ isFull' = IF ConsumerClearsFull THEN isFull /\ in = 0 ELSE isFull
    /\ UNCHANGED <<ppc, i, finished, isFinished, sem2, semsLinked>>

Next ==
    \/ ProducerStep
    \/ \E k \in Consumers : ConsumerStart(k) \/ ConsumerWait(k) \/ ConsumerTake(k)

Spec == Init /\ [][Next]_vars

\* The producer runs whenever its semaphore wait can return; a started
\* consumer keeps consuming.  Nobody is obliged to start a consumer.
FairSpec ==
    /\ Spec /\ WF_vars(ProducerStep)
    /\ \A k \in Consumers : WF_vars(ConsumerWait(k) \/ ConsumerTake(k))

-----------------------------------------------------------------------------
(* Properties.                                                             *)

\* Every consumer that has started waiting for work is eventually released
\* and exits: "Post to signal_consumer semaphore to make sure no clients
\* get stuck waiting for production" (lines 330-337).
ConsumersReleased ==
    \A k \in Consumers : cpc[k] = "wait" ~> cpc[k] = "done"
=============================================================================
