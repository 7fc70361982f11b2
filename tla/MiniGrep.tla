------------------------------ MODULE MiniGrep ------------------------------
(***************************************************************************)
(* The recursive string search of src/pp_2: queue_utils.c (the work queue) *)
(* and mini_grep.c (serial_search, parallel_search_static,                 *)
(* parallel_search_dynamic and their worker threads).                      *)
(*                                                                         *)
(* The file system is a value that does not change during a run: what     *)
(* lstat(), opendir(), readdir_r() and fopen() report for every path, and  *)
(* for a readable regular file the number of tokens strstr() matches (the  *)
(* count the strtok/strstr loop adds, its content abstracted away).        *)
(*                                                                         *)
(* serial_search and the static search share no state between threads     *)
(* (each worker has its own queue and its own RESULTS[thread_id]), so they *)
(* are operators.  The dynamic search's file-finding threads all insert    *)
(* into SHARED.queue_files, so that phase is a state machine whose steps   *)
(* are the threads' accesses to the shared queue.                          *)
(***************************************************************************)
EXTENDS Integers, Sequences, Functions

CONSTANTS
    Paths,          \* path names (model values)
    Root,           \* argv[2]
    Trees,          \* the file systems a run may start in
    NUM_THREADS     \* argv[3]

\* What lstat() and the following opendir() / fopen() report for a path.
Kinds == {"dir", "dir_noperm", "reg", "reg_noperm", "lnk", "other", "missing"}

\* A file system: kind of every path, the entries readdir_r() returns for a
\* directory (without "." and ".."), and the matches in a regular file.
FS == [kind : [Paths -> Kinds], children : [Paths -> Seq(Paths)],
       hits : [Paths -> Nat]]

Threads == 0..NUM_THREADS - 1
NoThread == -1

Sum(f) == FoldFunction(LAMBDA x, y : x + y, 0, f)
Least(a, b) == IF a < b THEN a ELSE b

-----------------------------------------------------------------------------
(* The reference: the occurrences of the search string in the readable     *)
(* regular files below Root, reached through directories and never through *)
(* symbolic links.                                                         *)

RECURSIVE Occurrences(_, _)
Occurrences(fs, p) ==
    CASE fs.kind[p] = "reg" -> fs.hits[p]
      [] fs.kind[p] = "dir" ->
            Sum([j \in DOMAIN fs.children[p] |-> Occurrences(fs, fs.children[p][j])])
      [] OTHER -> 0

-----------------------------------------------------------------------------
(* queue_utils.c: create_queue, insert_element, remove_element and         *)
(* num_elements, on a queue seen as the sequence from head to tail.        *)

create_queue == <<>>
insert_element(q, e) == Append(q, e)
remove_element(q) == Tail(q)
num_elements(q) == Len(q)

-----------------------------------------------------------------------------
(* The sequential search.                                                  *)

\* One element taken from the queue: lstat(), then a symbolic link is
\* ignored, a directory's entries are inserted (nothing when opendir()
\* fails), a regular file adds its matches (nothing when fopen() fails),
\* anything else is ignored.
Visit(fs, p) ==
    [enq  |-> IF fs.kind[p] = "dir" THEN fs.children[p] ELSE <<>>,
     hits |-> IF fs.kind[p] = "reg" THEN fs.hits[p] ELSE 0]

\* Mutation: the loop stops while one element is left (a test of
\* head != tail, whose tail remove_element never resets).
RECURSIVE SearchQueue_drop_last(_, _, _)
SearchQueue_drop_last(fs, q, acc) ==
    IF Len(q) <= 1 THEN acc
    ELSE LET v == Visit(fs, Head(q))
         IN SearchQueue_drop_last(fs, remove_element(q) \o v.enq, acc + v.hits)

\* while (queue->head != NULL): remove the head, visit it, and go on with
\* the entries it inserted at the tail.
RECURSIVE SearchQueue(_, _, _)
SearchQueue(fs, q, acc) ==
    IF q = <<>> THEN acc
    ELSE LET v == Visit(fs, Head(q))
         IN SearchQueue(fs, remove_element(q) \o v.enq, acc + v.hits)

\* serial_search: the queue starts with argv[2] itself.
serial_search(fs) == SearchQueue(fs, insert_element(create_queue, Root), 0)

-----------------------------------------------------------------------------
(* The static search, parallel_search_static.                              *)

\* The main thread lists argv[2] only when lstat() says it is a directory:
\* the queue then holds its entries; argv[2] itself is never searched.
RootEntries(fs) == IF fs.kind[Root] = "dir" THEN fs.children[Root] ELSE <<>>

round_up(dividend, divisor) == (dividend + (divisor - 1)) \div divisor

\* Mutation: items per thread rounded down.
Distribute_floor(q) ==
    LET ipt == Len(q) \div NUM_THREADS
    IN [t \in Threads |-> SubSeq(q, Least(t * ipt, Len(q)) + 1, Least((t + 1) * ipt, Len(q)))]

\* The loop that hands thread t the next round_up(num_el, NUM_THREADS)
\* elements removed from the queue, while there are any.
Distribute(q) ==
    LET ipt == round_up(num_elements(q), NUM_THREADS)
    IN [t \in Threads |-> SubSeq(q, Least(t * ipt, Len(q)) + 1, Least((t + 1) * ipt, Len(q)))]

\* Each static worker searches its elements as serial_search does; the
\* main thread joins them and adds up RESULTS[].
parallel_search_static(fs) ==
    LET parts == Distribute(RootEntries(fs))
    IN Sum([t \in Threads |-> SearchQueue(fs, parts[t], 0)])

-----------------------------------------------------------------------------
(* The dynamic search's keyword-searching thread: only the regular files   *)
(* of its elements, no descent.                                            *)

SearchFiles(fs, q) ==
    Sum([j \in DOMAIN q |-> IF fs.kind[q[j]] = "reg" THEN fs.hits[q[j]] ELSE 0])

-----------------------------------------------------------------------------
(* parallel_search_dynamic as a state machine.                             *)

VARIABLES
    fs,      \* the file system of this run
    mpc,     \* main thread: "start", "find", "search", "done"
    tpc,     \* tpc[t]: worker t: "idle", "run", "lock", "ins", "search", "exit"
    lq,      \* lq[t]: worker t's own queue
    pend,    \* pend[t]: the regular file worker t is inserting
    snap,    \* snap[t]: the length of the shared queue insert_element read
    shared,  \* SHARED.queue_files
    mutex,   \* holder of mutex_shared, or NoThread
    res,     \* RESULTS[]
    result   \* the count parallel_search_dynamic returns

vars == <<fs, mpc, tpc, lq, pend, snap, shared, mutex, res, result>>

Init ==
    /\ fs \in Trees
    /\ mpc = "start"
    /\ tpc = [t \in Threads |-> "idle"]
    /\ lq = [t \in Threads |-> <<>>]
    /\ pend = [t \in Threads |-> Root]
    /\ snap = [t \in Threads |-> 0]
    /\ shared = create_queue
    /\ mutex = NoThread
    /\ res = [t \in Threads |-> 0]
    /\ result = 0

TypeOK ==
    /\ fs \in FS
    /\ mpc \in {"start", "find", "search", "done"}
    /\ tpc \in [Threads -> {"idle", "run", "lock", "ins", "search", "exit"}]
    /\ lq \in [Threads -> Seq(Paths)] /\ pend \in [Threads -> Paths]
    /\ snap \in [Threads -> Nat] /\ shared \in Seq(Paths)
    /\ mutex \in Threads \cup {NoThread}
    /\ res \in [Threads -> Nat] /\ result \in Nat

\* SHARED_init(), the listing of argv[2], and the creation of the file
\* finding threads, each with its round_up share of the listed entries.
MainStartFinders ==
    /\ mpc = "start"
    /\ LET q == RootEntries(fs)
       IN lq' = Distribute(q)
    /\ tpc' = [t \in Threads |-> "run"]
    /\ mpc' = "find"
    /\ UNCHANGED <<fs, pend, snap, shared, mutex, res, result>>

\* parallel_search_dynamic_files_thread, one element of its queue: a
\* directory's entries go to its own queue; a regular file (readable or
\* not: no fopen() here) is to be inserted into the shared queue.
FilesThreadStep(t) ==
    /\ tpc[t] = "run" /\ lq[t] # <<>>
    /\ LET p == Head(lq[t])
       IN /\ lq' = [lq EXCEPT ![t] = remove_element(@) \o
                               (IF fs.kind[p] = "dir" THEN fs.children[p] ELSE <<>>)]
          /\ IF fs.kind[p] \in {"reg", "reg_noperm"}
                THEN tpc' = [tpc EXCEPT ![t] = "lock"] /\ pend' = [pend EXCEPT ![t] = p]
                ELSE UNCHANGED <<tpc, pend>>
    /\ UNCHANGED <<fs, mpc, snap, shared, mutex, res, result>>

\* The thread's queue is empty: it returns.
FilesThreadExit(t) ==
    /\ tpc[t] = "run" /\ lq[t] = <<>>
    /\ tpc' = [tpc EXCEPT ![t] = "exit"]
    /\ UNCHANGED <<fs, mpc, lq, pend, snap, shared, mutex, res, result>>

\* Mutation: SHARED_insert_file_element without pthread_mutex_lock().
SharedLock_none(t) ==
    /\ tpc[t] = "lock"
    /\ snap' = [snap EXCEPT ![t] = Len(shared)]
    /\ tpc' = [tpc EXCEPT ![t] = "ins"]
    /\ UNCHANGED <<fs, mpc, lq, pend, shared, mutex, res, result>>

\* SHARED_insert_file_element: pthread_mutex_lock(&mutex_shared), then
\* insert_element reads head and tail.
SharedLock(t) ==
    /\ tpc[t] = "lock" /\ mutex = NoThread
    /\ mutex' = t
    /\ snap' = [snap EXCEPT ![t] = Len(shared)]
    /\ tpc' = [tpc EXCEPT ![t] = "ins"]
    /\ UNCHANGED <<fs, mpc, lq, pend, shared, res, result>>

\* insert_element links the element after the tail it read (an element
\* another thread linked there since is lost), then the unlock.
SharedInsert(t) ==
    /\ tpc[t] = "ins"
    /\ shared' = insert_element(SubSeq(shared, 1, snap[t]), pend[t])
    /\ mutex' = IF mutex = t THEN NoThread ELSE mutex
    /\ tpc' = [tpc EXCEPT ![t] = "run"]
    /\ UNCHANGED <<fs, mpc, lq, pend, snap, res, result>>

\* All file finding threads joined: SHARED.queue_files is handed out to
\* the keyword searching threads as before.
MainStartSearchers ==
    /\ mpc = "find" /\ \A t \in Threads : tpc[t] = "exit"
    /\ lq' = Distribute(shared)
    /\ shared' = create_queue
    /\ tpc' = [t \in Threads |-> "search"]
    /\ mpc' = "search"
    /\ UNCHANGED <<fs, pend, snap, mutex, res, result>>

\* parallel_search_dynamic_search_thread: RESULTS[thread_id] is the count
\* of its regular files.
SearchThread(t) ==
    /\ tpc[t] = "search"
    /\ res' = [res EXCEPT ![t] = SearchFiles(fs, lq[t])]
    /\ lq' = [lq EXCEPT ![t] = <<>>]
    /\ tpc' = [tpc EXCEPT ![t] = "exit"]
    /\ UNCHANGED <<fs, mpc, pend, snap, shared, mutex, result>>

\* Join the searchers and add up RESULTS[].
MainTally ==
    /\ mpc = "search" /\ \A t \in Threads : tpc[t] = "exit"
    /\ result' = Sum(res)
    /\ mpc' = "done"
    /\ UNCHANGED <<fs, tpc, lq, pend, snap, shared, mutex, res>>

\* main() has printed both counts and exits.
Finished ==
    /\ mpc = "done"
    /\ UNCHANGED vars

Next ==
    \/ MainStartFinders \/ MainStartSearchers \/ MainTally \/ Finished
    \/ \E t \in Threads :
          \/ FilesThreadStep(t) \/ FilesThreadExit(t)
          \/ SharedLock(t) \/ SharedInsert(t) \/ SearchThread(t)

Spec == Init /\ [][Next]_vars

-----------------------------------------------------------------------------
(* Properties.                                                             *)

\* serial_search counts every match in every readable regular file below
\* argv[2], skipping symbolic links and unreadable entries.
SerialCountsAll == serial_search(fs) = Occurrences(fs, Root)

\* parallel_search_static, splitting the entries of argv[2] among
\* NUM_THREADS workers, counts the same.
StaticCountsAll == parallel_search_static(fs) = Occurrences(fs, Root)

\* parallel_search_dynamic counts the same, whatever the order in which
\* the file finding threads insert into SHARED.queue_files.
DynamicCountsAll == mpc = "done" => result = Occurrences(fs, Root)

=============================================================================
