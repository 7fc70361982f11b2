# TLA+ models of Drexel_ECE_353

This directory holds TLA+ specifications of the chat room in `src/pp_1_server`,
`src/pp_1_client` and `src/test_2/list.c`, of the sequence-number server in
`src/pp_1`, of the shared-memory programs in `src/pe_3` and `src/test_2`, and of
the file search in `src/pp_2`, together with the TLC configurations that check
them. `PROJECT.json` records each component, each
run, the mutants that show every checked property can fail, the source lines
each definition models, the findings and the hazards.

## Inventory of the system

| part | source | state | operations |
|---|---|---|---|
| Client registry | `test_2/list.c`, `pp_1_server/list.h` | head and tail sentinels, `next`/`prev`/`data` of every node, `logical_length` | `list_init`, `list_push_front`, `list_push_back`, `list_pop_front`, `list_pop_back`, `list_remove_node`, `list_remove_pid`, `list_contains`, `list_front`, `list_back` |
| Transport | `server.c`, `client.c` | `SERVER_FIFO`, one FIFO per client pid (path exists, who has it open, the bytes in the pipe) | `mkfifo`, `open` (blocking or `O_NONBLOCK`), `write`, `read`, `poll`, `close`, `unlink` |
| Protocol codec | `chat.h`, `server.c`, `client.c` | `struct request`, `struct response` (fixed 528-byte records) | `req_format_*`, `resp_format_OK/FAIL/msg` |
| Server loop | `server.c` `main` | client list, `seq_num`, the request being handled, `msg_success`, broadcast cursor `p` | one branch per request kind; `send_sys_response`, `send_msg`, `client_remove` |
| Client loop | `client.c` `main` | program counter, `int_sys_flag`, `conn_alive`, the leaked read descriptors of its FIFO | `client_connect`, heartbeat `client_send`, menu, `client_read_messages`, message send, `client_disconnect`, `int_sys_handler`, `exit_handler` |

How they interact: every client writes its requests into the single
`SERVER_FIFO`. The server reads them one at a time and handles each one fully
before it reads the next. A broadcast is a walk over the list. Every answer
and every chat message goes into the recipient's FIFO, and the recipient
blocks in `check_sys_response` until a record arrives. The client takes
*whatever* record comes first as the answer.

What makes it hard:
- Several client processes write into one pipe.
- Chat messages and answers share one FIFO.
- Opens and writes can block.
- Signals arrive without `SA_RESTART`.
- Clients can be killed and skip `exit_handler`.
- The broadcast loop unlinks and frees nodes while it walks them.

The rest of the repository is a set of independent exercises:
- `pp_1`: the sequence-number FIFO server this chat room grew from.
- `pe_3` and `test_2/produce.c`, `consume.c`: shared memory with POSIX semaphores.
- `pp_2`: a multi-threaded file search over a work queue.
- `pe_2/echo_chamber.c`: a parent and a forked child per line of work, talking over two pipes.
- Pipe, fork and setjmp demos.
- A prime finder.

`PROJECT.json` lists each of them. `pp_1`, `pe_3`, the `test_2` semaphore
pair, `pp_2`, the prime finder (`pa_1/primes.c`) and the echo chamber are
modelled (below); the other demos and `signal_handler_thread.c` are not.

## Modules

**`ChatRoom.tla`** (instantiated by `MC_ChatRoom.tla`) composes the server
loop, the clients and the pipes.

State:
- `registry`: the client list as a sequence of pids.
- `srvFifo`: the records queued in `SERVER_FIFO`.
- `cliFifo[c]`: the records queued in each client's FIFO.
- `fifoExists[c]`: the FIFO path is on disk.
- `hasReader[c]`: some process holds the FIFO open for reading.
- `writerSeen[c]`: a writer has opened the FIFO since the client started waiting, which is what a blocking `open(O_RDONLY)` needs in order to return.
- `wclosed[c]`: a writer has written into the FIFO and closed it since the client last read it, which is what makes `poll()` report `POLLHUP`.
- `srv`: the server's position within the handling of one request: `pc`, request, target, list position, `msg_success`, and `seq_num` (advanced by `seq_len` where the code advances it).
- Per client: `cpc` (where `main()` is), `waitFor` (which call is waiting for an answer), `intFlag` (`int_sys_flag`).
- Bounds: `choices` and `nsent`.
- History variables used only by properties: `delivered`, `snap` (the list when a broadcast began), `visited`.

Server actions. Each `Serve*` action is one branch of the request dispatch in `server.c` `main`. Each delivery is split into the two steps that can block or fail:
- `*Open`: `open(O_WRONLY)`. It blocks while the FIFO has no reader and fails once the path is unlinked.
- `*Write`: `write`. It blocks on a full pipe and fails with `EPIPE` when there is no reader.

Which actions deliver what:
- `send_sys_response` is `RespOpen`/`RespWrite`.
- `send_msg` is `MsgOpen`/`MsgWrite`.
- The broadcast loop is `BcastNext`/`BcastOpen`/`BcastWrite`/`BcastEnd`.

When `client_remove` frees the current node, `p = p->next` reads the freed node. With glibc the `next` field survives `free()`, so the walk continues with the successor. The model keeps the list position, which now holds that successor.

Client actions:
- `ClientStart`: `mkfifo`, `atexit`, and the connect request.
- `ClientRecv`: `check_sys_response`.
- `ClientLoop`: the top of the main loop and the heartbeat.
- `ClientChoose`: the menu.
- `ClientDrain`: `client_read_messages`.
- `DrainSpin`: one more pass of its `while (!fifo_is_empty(fd))` loop when `poll()` reports `POLLHUP` on an empty FIFO (`HangUp`): `read()` returns 0 and nothing changes.
- `ClientSend`: `req_format_message` and `client_send`.
- `ClientDisconnect`.
- `ClientInterrupt`: `SIGINT`/`SIGQUIT`.
- `ClientCrash`: a kill that skips `exit_handler`, enabled by the constant `Crashes`.

How the system calls are modelled:
- A request is one atomic `write` of a record smaller than `PIPE_BUF`.
- `client_send` and `client_disconnect` open `SERVER_FIFO` with `O_NONBLOCK`, so their write fails on a full server pipe. `client_connect`'s write blocks instead.
- The descriptors that `check_sys_response` and `client_read_messages` open are never closed, so once a client has started it keeps a reader on its own FIFO until it exits.

**`LinkedList.tla`** (instantiated by `MC_LinkedList.tla`) models `list.c` at the level of its pointers:
- It has a head and a tail sentinel, and a set of node addresses that malloc can hand out.
- State: `next`, `prev`, `data`, the allocated nodes and `logical_length`. Payloads are never freed (`free_fn` is unused), so they carry no state of their own.
- Each `list_*` operation is one action whose primed `next`/`prev` follow the code's assignments.
- `list_remove_pid` unlinks the first match through `list_remove_node`, as the code does.

**`ListSeq.tla`** is the abstract list: a sequence with push and pop at both ends and removal of the first occurrence of a value. `LinkedList` maps the walk from the head to this sequence (`Elems`) and is checked to implement `ListSeq!Spec`.

**`SeqNum.tla`** (instantiated by `MC_SeqNum.tla`) models `pp_1/server.c` and
`pp_1/client.c`.
- State: `srvFifo` (requests queued in `SERVER_FIFO`, at most `SrvCap`), `srv` (`pc`, the request read, `seq_num`), and per client `exists` (its FIFO is on disk), `pipe` (the responses written into it), `cpc` and `got`.
- Server actions: `ServerRead` (`read`), `ServerOpenFails` (`open` of a missing FIFO fails, the request is abandoned, `seq_num` is unchanged) and `ServerRespond` (`open` meets the client's blocking `open(O_RDONLY)`, `write`, `close`, `seq_num += seq_len`).
- Client actions: `ClientStart` (`mkfifo`, `atexit`), `ClientWrite` (one blocking `write` of the request), `ClientRead` (`read`, then `exit` and `remove_fifo`), and `ClientKilled`: `client.c` installs no signal handler, so Ctrl-C ends it without running `remove_fifo`, and its FIFO stays on disk with no reader.
- The client never assigns its `struct request req`. That read of an uninitialized value is a nondeterministic choice: `pid` among the client pids and `Junk` (a pid with no FIFO), `seq_len` in `SeqLens`.
- `client.c:26` calls `unmask(0)`, which does not link; it is modelled as the `umask(0)` it is meant to be, which does not affect the protocol.

**`Producer.tla`** (instantiated by `MC_Producer.tla`) models `pe_3/producer.c`.
- State: the producer's `ppc`, `i`, `finished`; the shared `in`, `is_full`, `is_finished`; the values of `sem_1` and `sem_2`, and whether the semaphores are still linked; each consumer's `cpc`.
- Each section the producer runs under the `sem_3` mutex is one action (`Produce`, `Relock`, `PollConsumed`, `PollBusy`), as are `wait_for_consumer` (`WaitForConsumer`), the end of the for loop (`ProductionDone`) and `unlink_all` (`Unlink`). The buffer is touched only under the mutex, so no finer interleaving is observable.
- `bool finished` (line 258) is never initialized; `FinishedInit` gives the values it may hold.
- The consumer program is not in the repository. The consumers are an environment that does what the producer's comments ask: wait on `sem_2`, then under the mutex exit on `is_finished`, else take an item and post `sem_1` when `is_full`. Whether a consumer clears `is_full` is said nowhere; `ConsumerClearsFull` chooses, and `producer_main` takes TRUE. With FALSE, a consumer posts `sem_1` on every take once the buffer was full, a stale count lets the producer past `wait_for_consumer` with `in == BUF_SIZE`, and it writes `work[BUF_SIZE]`, which is `buffer->in` itself. Since that depends on a program that is not here, no run checks it (hazard `producer.c:293`).

**`SemHandshake.tla`** (instantiated by `MC_SemHandshake.tla`) models `test_2/produce.c` and `test_2/consume.c`, any number of runs of each, in any order. Each `sem_open` is its own step (`ProduceOpen`, `ConsumeOpen`), then `ProduceWait` (`sem_wait(sem_3)`) and `ConsumePost` (`sem_post(sem_3)`). `produce` creates with `O_CREAT` (an existing semaphore keeps its value); `consume` opens without it and exits when a name is missing. Nothing unlinks the names. The history variable `postsAt` records, for each run of `produce`, how many posts `consume` had made when it opened `sem_3`.

**`MiniGrep.tla`** (instantiated by `MC_MiniGrep.tla`) models `pp_2/mini_grep.c` and `pp_2/queue_utils.c`.
- The file system is a constant record per run: the kind `lstat`/`opendir`/`fopen` report for each path (directory, unreadable directory, regular file, unreadable file, link, other, missing), each directory's listing in `readdir` order, and each file's number of matches.
- `Occurrences` is the reference count. `serial_search` and the static search are pure operators: `SearchQueue` (RECURSIVE) is the `while (queue->head != NULL)` loop, `Visit` one element of it, `Distribute` the hand-out of `round_up(num_el, NUM_THREADS)` elements per thread. The static workers share nothing, so their result does not depend on the interleaving.
- `parallel_search_dynamic` is a state machine: the main thread lists `argv[2]` and starts the file-finding threads (`MainStartFinders`); each thread walks its queue (`FilesThreadStep`, `FilesThreadExit`) and inserts regular files into `SHARED.queue_files` in two steps under `mutex_shared` (`SharedLock` reads the tail, `SharedInsert` links after it); then the searchers (`MainStartSearchers`, `SearchThread`) and the tally (`MainTally`).

**`Primes.tla`** (instantiated by `MC_Primes.tla`) models `pa_1/primes.c`.
- `is_prime` is an operator (the trial-division loop `HasOddDivisor` is RECURSIVE); `IsPrimeRef` is the reference it is checked against.
- The `circular_buffer` is modelled at the level of its int slots: `mem`, `head`, `tail`, `count`. A pointer step of `cb->size` bytes is one slot. `cb_init` puts `buffer_end` at slot `CAPACITY + SIZE` (an int pointer plus a byte count), while `malloc` gave `CAPACITY` slots; unwritten slots hold `Garbage`.
- main's loop is `Test` (the loop test, `is_prime`, `num_found++`), `Copy` (`cb_push_back` up to the wrap test: full test, `memcpy`, head advance), `Count` (`count++`) and `PrintPrime` (`printf`, `num++`). `LONG_MAX` is the loop's bound.
- `Interrupt` is `int_handler`/`quit_handler`: `report()` pops up to five entries (`SlotAfter`, `NumPopped`) and the process exits. It can happen before any step of main.

**`EchoChamber.tla`** (instantiated by `MC_EchoChamber.tla`) models `pe_2/echo_chamber.c`.
- The parent is `ParentFork` (the loop test, `pipe`, `fork`), `TypeLine` and `GetTextEOF` (`get_text`), `ParentWrite`, `ParentWait`, `ParentRead`, `ParentPrint` and `ParentExit`. The child is `ChildRead` and `ChildWrite` (`get_upper`, `write`, `exit`).
- A string is the lines it holds and whether `toupper` was applied (`Upper`). The child starts with a copy of the parent's buffer, which holds the previous iteration's output (the zeroed `calloc` buffer in the first iteration).
- The file is built with `-std=c99`, where glibc's `signal()` has System V semantics, without `SA_RESTART`. `CtrlC` sends SIGINT to the parent and to a living child. `ParentHandles` and `ChildHandles` set the flag, and a call the process is blocked in fails with EINTR (`BlockedInGetText`, `BlockedInWait`, `BlockedInRead`, the child's `read`).
- Writing a non-empty text into `fd0` after the child has exited raises SIGPIPE, which kills the parent.

## Runs

| run | cfg | expect | what it shows |
|---|---|---|---|
| chat_main | `ChatRoom.cfg` | pass | With three clients that may be killed at any point, a broadcast that unlinks an unreachable member in the middle of the list and goes on from the freed node's `next` still writes to each other member at most once and never to its sender (`GlobalDeliveredOnce`). When the walk reaches the tail it has tried every member the list held at the start, the one after the unlinked member included, and it answers OK only if all of them got the message (`BroadcastCovered`). |
| chat_exit_leaves_entry | `V_ExitedClientsDeregistered.cfg` | violation | A `SIGINT` during the blocking wait for the connect answer fails `check_sys_response` with `EINTR`. The client exits without `disconnect_client`, and the server registers it anyway. |
| chat_answer_mixup | `V_AnswerIsNotAMessage.cfg` | violation | `check_sys_response` takes a chat message for the server's answer. TLC's shortest case is c1's direct message to its own pid, written into c1's FIFO ahead of its OK. c1's message reaching c2 during c2's heartbeat wait does the same, and c2 exits without disconnecting. |
| chat_crash_hang | `V_CrashHang.cfg` | violation | A killed client's FIFO stays on disk without a reader, and the server blocks forever in `open()`. |
| chat_drain_spin | `V_DrainSpin.cfg` | violation | After the server writes into a draining client's FIFO and closes it, `poll()` reports `POLLHUP` on the empty FIFO and `client_read_messages` never leaves its loop. |
| list_refines | `LinkedList.cfg` | pass | Every sequence of list operations keeps the links well formed (forward walk = allocated nodes, backward walk = its reverse, `logical_length` = length) and refines `ListSeq`. |
| seqnum_kill_hang | `V_SeqNumKillHang.cfg` | violation | A client killed by Ctrl-C after writing its request leaves its FIFO without a reader; the server's blocking `open()` of it (`server.c:73`) never returns, against the comment that a failed open abandons the request and moves on. |
| producer_main | `Producer.cfg` | pass | With two consumers, four items and a one-slot buffer, every consumer that started waiting is released once all items are consumed. |
| handshake_stale_post | `V_PassOnFreshPost.cfg` | violation | A run of `produce` gets past `sem_wait(sem_3)` on a post `consume` made before that `produce` opened the semaphore. In TLC's trace one `produce` waits, `consume` posts, and a second `produce` that opens `sem_3` afterwards takes the post and leaves the first one waiting: `sem_3` keeps its value across runs (`O_CREAT` without `O_EXCL`, never unlinked). |
| grep_main | `MiniGrep.cfg` | pass | For three file systems with a directory at `argv[2]`, the serial, static and dynamic searches all count the matches of every readable regular file, in every interleaving of the dynamic search's threads. |
| primes_main | `Primes.cfg` | pass | main prints exactly the primes below 40 (`PrimesFoundSoFar`). A SIGINT/SIGQUIT before any step of `cb_push_back` makes `report()` print only found primes, never an uninitialized slot, even after `head` wraps and overwrites (`ReportShowsFoundPrimes`). |
| echo_signal_race | `V_EchoOfInput.cfg` | violation | In TLC's trace the parent has read a line and left `get_text` at Ctrl-D; then Ctrl-C interrupts the child's `read` of `fd0` (the parent is not blocked, so only its flag is set). The child does not check `n` and upper-cases the buffer it inherited at `fork`, the zeroed `calloc` buffer of the first iteration; the parent writes its line into `fd0`, waits, and prints the child's empty answer instead of the line. In a later iteration the child's buffer holds the previous answer. |

Each property of a passing run has a mutant in `PROJECT.json`: an operator
next to the definition it mutates that reproduces a plausible bug in that
code (for example, the capacity test off by one, a broadcast that restarts
from the head after unlinking a member, or steps over the node after it,
`list_push_back` without `tail->prev = new`, a single final `sem_2` post, the search loop stopping one element
early, items per thread rounded down, the trial division stopping at `i*i < num`, `head` advanced before the `memcpy`, or `SHARED_insert_file_element` without
the mutex). TLC finds the property violated once the mutant replaces the
original.

Found while modelling and recorded as hazards, without a run of their own:
`seq_num`
advances per recipient and twice for a direct message (spec §4.3 says once
per request); a consumer that leaves `is_full` set lets the producer write
`work[BUF_SIZE]`; `consume` started before `produce` leaves `produce` blocked;
a `pp_1` client whose uninitialized `req.pid` names no FIFO waits forever in `open()` of its own FIFO; a regular file at `argv[2]` is counted by `serial_search` but not by the
parallel searches; `elements[MAX_ELEMENTS_Q]` is filled without a bound; the uninitialized
`finished` of `producer.c:258` skipping the final `sem_2` posts
(`FinishedInit = {TRUE}` shows it); `cb_init`'s `buffer_end` 9 ints past a 5-int block (the
invariant `head < CAPACITY` fails at the fifth prime); `report()` printing the oldest five
entries as the "Last 5 Found Primes".

## Bounds, and why they are enough

- **Chat clients.** `chat_main` runs three clients, the fewest for a broadcast to meet an unreachable member with another member after it (sender, unreachable member, member). `MAX_NUM_CLIENTS` is 3, so all fit. The constraint `RequestBound` (in `MC_ChatRoom`) caps the requests of all clients together at 6: three connects, a heartbeat cut short by an interrupt (the client exits still listed), and another client's heartbeat and global message; TLC reaches the walk unlinking a member in the middle of the list within it. The violation runs keep two clients, which is enough for their traces.
- **Chat pipes.** `SrvFifoCap` is 2 records. It is reached, so the `O_NONBLOCK` failure paths of `client_send` and `client_disconnect` fire. `CliFifoCap` is 2. `MaxChoices` is 1: it bounds the menu choices other than `q` per client, which bounds how many chat messages a client sends.
- **List model.** `LinkedList` uses three node addresses and two values. That allows duplicate values (which `list_remove_pid` must tell apart), removal from the middle, and reuse of freed addresses.
- **pp_1.** Three clients, `SrvCap` 1 (so a client's `write` blocks), `seq_len` 0 or 1, and pids among the clients and `Junk`. A request naming another client, a missing FIFO, a full pipe, a killed client and the server waiting in `open()` for a client that is itself blocked in `write()` on the full pipe (which needs `SrvCap + 2` clients) all occur; TLC's shortest violation of `ServerProgress` is the kill.
- **pe_3.** Four items through a one-slot buffer make the producer wait on `sem_1` several times; two consumers, with `MAX_NUM_CONSUMERS` 2, are each released by a final post.
- **test_2.** Two runs of each program cover a second `produce` finding `sem_3` already created, with a value left by an earlier post.
- **pp_2.** Five paths in three trees: nested directories, a link, an unreadable file and directory, a missing entry, a subdirectory listed last, and files spread over both threads' shares. Two threads are enough for two inserts into `SHARED.queue_files` to race.

- **primes.c.** The loop is cut at `num = 40`: 12 primes, so the buffer fills, `count` passes `capacity` and `head` wraps at `buffer_end` and overwrites, and the signal can arrive at each of these points.
- **echo_chamber.c.** Two lines, three iterations and one Ctrl-C. The signal can land in every blocking call of either process, in the first iteration (child buffer empty) and in a later one (child buffer holding an earlier output), and after stdin's EOF.

## Fairness

`ChatRoom.FairSpec` (used by the chat liveness runs) gives weak fairness to the server's step and to each client's
`ClientProgram`:
- The server is a single process that runs whenever one of its system calls can return.
- `ClientProgram` covers receiving an answer, the heartbeat at the top of the loop, draining the FIFO, and sending the disconnect. A client process runs these without waiting for anyone.

Left without fairness, because they wait for the user or for the environment:
- starting a client;
- the menu choice and the typed message;
- signals;
- kills.

`SeqNum.FairSpec` gives weak fairness to the server and to each started client's write and read; starting a client is up to the user. `Producer.FairSpec` gives weak fairness to the producer and to each started consumer's wait and take; nobody is obliged to start a consumer. `SemHandshake`, `MiniGrep`, `Primes` and `EchoChamber` are checked for safety only. `chat_main` has no deadlock check: a killed client can stop the whole room (the server blocks in `open()` of its FIFO, `chat_crash_hang`, and the remaining clients block writing into the full `SERVER_FIFO`), which is a real halt of the system. `Primes` has no deadlock check, because the program ends: by `return 0` or by the handler's `exit(0)`.

## Not modelled, and why

- **Message text and byte-level buffers.** `get_text_EOF` overflowing its 512-byte buffer, and the terminal colours, are below the record abstraction.
- **Pid reuse.** A restarted client with the pid of a stale list entry needs restarts in `ChatRoom`; it is a hazard without a property.
- **The pe_3 consumer.** It is not in the repository; its behaviour is taken from the producer's comments.
- **`readdir_r` errors in the middle of a listing, and `malloc` failures** in `pp_2`: the first stops a listing early, the second exits; the file systems here list fully.
- **Undefined behaviour on a missing `argv[2]`** (`mini_grep.c:459`, `881`): the element is freed and used, `file_stats` is read uninitialized and `readdir_r` gets `NULL`. These end in a crash, not a state the search continues from.
- **`signal_handler_thread.c`**: two functions that no program in the repository calls (no `main`).
- **`pe_2/pipes_gen_filter.c`**: it `execl`s `./gen_numbers`, `./filter_pos_nums` and `./calc_avg`, which are not in the repository, so the pipeline's behaviour is unknown. A failed `execl` of `./calc_avg` (line 112, which has no `exit`) falls through into the parent's code, a hazard without a property.
- **The fork/setjmp demos** (`test/main.c`, `hw_1`, `hw_1_2`): one fixed sequence of steps each.
- **Bytes in `echo_chamber.c`.** `get_text` writes past its 257-byte buffer on long input, and `get_upper` never terminates `out`. Both are below the model's level of lines. Also left out: a second Ctrl-C, and `pipe()` or `fork()` failing.
- **primes.c past 2^32.** `is_prime(num)` truncates the `unsigned long` to `unsigned int`, and `memcpy` keeps 4 bytes. Both need values TLC's 32-bit integers cannot hold.
- **printf in the signal handlers** (not async-signal-safe) is below the model's one-step `printf`.

## Plan for later work

1. **Restarts.** Restart clients with a reused pid, and check how a stale entry makes `new_client` fail.
2. **Pointer list in the server.** Compose `LinkedList` into the broadcast walk so that the use-after-free in `p = p->next` is explicit. The freed node's `next` is then a nondeterministic choice, to cover allocators that poison freed memory.
3. **Shared semaphore names.** `produce.c`, `consume.c` and `producer.c` use the same names `wja35_pc_sem_1..3`; `consume` posting `producer.c`'s mutex `sem_3` breaks its mutual exclusion. A composition of `SemHandshake` and `Producer` would show it.
