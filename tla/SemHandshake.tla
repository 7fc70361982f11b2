---------------------------- MODULE SemHandshake ----------------------------
(***************************************************************************)
(* The semaphore handshake of src/test_2/produce.c and consume.c.  produce *)
(* opens wja35_pc_sem_1..3 with O_CREAT and initial value 0 (an existing   *)
(* semaphore keeps its value) and blocks in sem_wait(sem_3); consume opens *)
(* the existing semaphores without O_CREAT (exit on failure) and posts     *)
(* sem_3.  Neither program unlinks anything.  consume opens                *)
(* "wja35_pc_sem_3" for its sem_2 as well, so it never needs sem_2.        *)
(*                                                                         *)
(* Each sem_open() is its own step: another process can run between them. *)
(***************************************************************************)
EXTENDS Integers, Sequences

CONSTANTS
    Produces,   \* runs of the produce program (model values)
    Consumes    \* runs of the consume program (model values)

VARIABLES
    linked,   \* names of the semaphores that exist, a subset of 1..3
    val,      \* val[n]: value of semaphore n (meaningful when n \in linked)
    ppc,      \* ppc[p]: sem_open calls produce run p has made, then Waiting, Done
    cpc,      \* cpc[c]: sem_open calls consume run c has made, then Done, Failed
    posts,    \* sem_post(sem_3) calls made by consume runs (history)
    passes,   \* sem_wait(sem_3) calls of produce runs that returned (history)
    postsAt   \* postsAt[p]: posts made when produce run p opened sem_3 (history)

vars == <<linked, val, ppc, cpc, posts, passes, postsAt>>

\* The semaphore names produce opens, in order.
ProduceOpens == <<1, 2, 3>>
\* The semaphore names consume opens, in order (consume.c:29, 36, 43).
ConsumeOpens == <<1, 3, 3>>

\* Program counter values after the three sem_open() calls.
Waiting == 3
Done == 4
Failed == 5

Init ==
    /\ linked = {}
    /\ val = [n \in 1..3 |-> 0]
    /\ ppc = [p \in Produces |-> 0]
    /\ cpc = [c \in Consumes |-> 0]
    /\ posts = 0
    /\ passes = 0
    /\ postsAt = [p \in Produces |-> 0]

TypeOK ==
    /\ linked \subseteq 1..3
    /\ val \in [1..3 -> Nat]
    /\ ppc \in [Produces -> 0..Done]
    /\ cpc \in [Consumes -> 0..Failed]
    /\ posts \in Nat /\ passes \in Nat
    /\ postsAt \in [Produces -> Nat]

-----------------------------------------------------------------------------

\* Initial value produce gives each semaphore it creates (produce.c:41-43).
CreateValue(n) == 0

\* sem_open(name, O_CREAT, perms, value): creates the semaphore when the
\* name is free; an existing one is opened with the value it has.
ProduceOpen(p) ==
    /\ ppc[p] \in 0..2
    /\ LET n == ProduceOpens[ppc[p] + 1]
       IN /\ linked' = linked \cup {n}
          /\ val' = IF n \in linked THEN val ELSE [val EXCEPT ![n] = CreateValue(n)]
    /\ ppc' = [ppc EXCEPT ![p] = @ + 1]
    /\ postsAt' = IF ppc[p] = 2 THEN [postsAt EXCEPT ![p] = posts] ELSE postsAt
    /\ UNCHANGED <<cpc, posts, passes>>

\* sem_wait(sem_3) returns once the value is positive, then exit().
ProduceWait(p) ==
    /\ ppc[p] = Waiting
    /\ val[3] > 0
    /\ val' = [val EXCEPT ![3] = @ - 1]
    /\ ppc' = [ppc EXCEPT ![p] = Done]
    /\ passes' = passes + 1
    /\ UNCHANGED <<linked, cpc, posts, postsAt>>

\* sem_open(name, 0): fails with ENOENT when the name does not exist, and
\* consume exits.
ConsumeOpen(c) ==
    /\ cpc[c] \in 0..2
    /\ LET n == ConsumeOpens[cpc[c] + 1]
       IN cpc' = [cpc EXCEPT ![c] = IF n \notin linked THEN Failed ELSE @ + 1]
    /\ UNCHANGED <<linked, val, ppc, posts, passes, postsAt>>

\* sem_post(sem_3).
ConsumePost(c) ==
    /\ cpc[c] = 3
    /\ val' = [val EXCEPT ![3] = @ + 1]
    /\ cpc' = [cpc EXCEPT ![c] = Done]
    /\ posts' = posts + 1
    /\ UNCHANGED <<linked, ppc, passes, postsAt>>

Next ==
    \/ \E p \in Produces : ProduceOpen(p) \/ ProduceWait(p)
    \/ \E c \in Consumes : ConsumeOpen(c) \/ ConsumePost(c)

Spec == Init /\ [][Next]_vars

-----------------------------------------------------------------------------

\* A run of produce gets past sem_wait(sem_3) only on a post that a run of
\* consume made after this produce opened sem_3 ("Server: wait(sem_3) -
\* waiting for shared memory access" is released by "Client: post(sem_3)
\* - releasing shared memory").  It is about produce.c:43, whose O_CREAT
\* keeps the value of a sem_3 that no program of test_2 ever unlinks.
PassOnFreshPost ==
    [][\A p \in Produces : ProduceWait(p) => posts > postsAt[p]]_vars

=============================================================================
