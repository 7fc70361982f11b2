---------------------------- MODULE EchoChamber ----------------------------
(***************************************************************************)
(* src/pe_2/echo_chamber.c.  Each iteration of main's loop creates two     *)
(* pipes and forks: the parent reads stdin until EOF (get_text), writes    *)
(* the text into fd0, waits for its children and reads the child's answer *)
(* from fd1; the child reads fd0, upper-cases (get_upper) and writes fd1.  *)
(* SIGINT/SIGQUIT set int_flag, "quitting on next iteration".              *)
(*                                                                         *)
(* The file is built with -std=c99, where glibc's signal() has System V    *)
(* semantics: no SA_RESTART.  A Ctrl-C reaches the whole foreground        *)
(* process group, so the parent and the child each run the handler, and a  *)
(* read(), fgetc() or wait() they are blocked in fails with EINTR.  One    *)
(* Ctrl-C is modelled (the handler then sets SIG_IGN).                     *)
(*                                                                         *)
(* Text is abstracted to the lines the user entered (a tty delivers whole  *)
(* lines) and whether it was upper-cased; pipe capacity is never reached   *)
(* (the texts are one atomic write of at most 256 bytes).  pipe() and      *)
(* fork() failures (exit(-1)) are left out.                                *)
(***************************************************************************)
EXTENDS Integers, Sequences

CONSTANTS
    Lines,     \* lines the user may type (model values)
    MaxLines,  \* lines typed in one run of the program
    MaxIter,   \* iterations of the while loop (it never ends on its own)
    NoData     \* an empty pipe

VARIABLES
    ppc,       \* parent: "top", "get_text", "write", "wait", "read", "print",
               \* "exited", "killed"
    cpc,       \* the current child: "read", "write", "zombie", "none"
    intFlag,   \* the parent's int_flag
    sigP,      \* a SIGINT pending for the parent
    sigC,      \* a SIGINT pending for the child
    pressed,   \* the user has pressed Ctrl-C
    stdinEOF,  \* stdin's end-of-file indicator (sticky)
    typed,     \* lines typed so far
    text,      \* what get_text has read in this iteration
    pbuf,      \* the parent's buffer
    cbuf,      \* the child's copy of buffer
    fd0,       \* the data in pipe fd0, or NoData
    fd0Closed, \* the parent has closed fd0[1]
    fd1,       \* the data in pipe fd1, or NoData
    iter       \* iterations started

vars == <<ppc, cpc, intFlag, sigP, sigC, pressed, stdinEOF, typed, text, pbuf, cbuf,
          fd0, fd0Closed, fd1, iter>>

\* A string: the lines it holds and whether toupper() was applied.
Empty == [lines |-> <<>>, up |-> FALSE]

\* get_upper: toupper() of every character up to the terminator; out
\* (the child's copy of the never written, zeroed upper) stays terminated.
Upper(s) == IF s.lines = <<>> THEN s ELSE [s EXCEPT !.up = TRUE]

\* The child holds fd0[0] and fd1[1] until it exits.
ChildAlive == cpc \in {"read", "write"}

\* The handlers are installed and buffer and upper calloc'd.
Init ==
    /\ ppc = "top" /\ cpc = "none"
    /\ intFlag = FALSE /\ sigP = FALSE /\ sigC = FALSE /\ pressed = FALSE
    /\ stdinEOF = FALSE /\ typed = 0 /\ text = Empty
    /\ pbuf = Empty /\ cbuf = Empty
    /\ fd0 = NoData /\ fd0Closed = FALSE /\ fd1 = NoData
    /\ iter = 0

-----------------------------------------------------------------------------
(* The parent.                                                             *)

\* while (int_flag == 0): pipe() twice and fork(); the child starts with a
\* copy of buffer and no pending signal.
ParentFork ==
    /\ ppc = "top" /\ ~intFlag /\ iter < MaxIter
    /\ ppc' = "get_text" /\ cpc' = "read"
    /\ cbuf' = pbuf /\ sigC' = FALSE
    /\ fd0' = NoData /\ fd0Closed' = FALSE /\ fd1' = NoData
    /\ text' = Empty /\ iter' = iter + 1
    /\ UNCHANGED <<intFlag, sigP, pressed, stdinEOF, typed, pbuf>>

\* The loop test finds int_flag set: free() and exit(EXIT_SUCCESS).
ParentExit ==
    /\ ppc = "top" /\ intFlag
    /\ ppc' = "exited"
    /\ UNCHANGED <<cpc, intFlag, sigP, sigC, pressed, stdinEOF, typed, text, pbuf, cbuf,
                   fd0, fd0Closed, fd1, iter>>

\* get_text: fgetc() returns the line the user entered.
TypeLine ==
    /\ ppc = "get_text" /\ ~stdinEOF /\ typed < MaxLines
    /\ \E l \in Lines : text' = [text EXCEPT !.lines = Append(@, l)]
    /\ typed' = typed + 1
    /\ UNCHANGED <<ppc, cpc, intFlag, sigP, sigC, pressed, stdinEOF, pbuf, cbuf,
                   fd0, fd0Closed, fd1, iter>>

\* get_text ends at EOF: typed now (Ctrl-D), or at once when the stream's
\* end-of-file indicator is already set; buffer[i] = '\0'.
GetTextEOF ==
    /\ ppc = "get_text"
    /\ stdinEOF' = TRUE
    /\ pbuf' = text /\ ppc' = "write"
    /\ UNCHANGED <<cpc, intFlag, sigP, sigC, pressed, typed, text, cbuf,
                   fd0, fd0Closed, fd1, iter>>

\* close(fd0[0]), close(fd1[1]), write(fd0[1], buffer, strlen(buffer)),
\* close(fd0[1]).  Writing a non-empty text into fd0 once the child has
\* exited (no reader left) raises SIGPIPE, which kills the parent.
ParentWrite ==
    /\ ppc = "write"
    /\ \/ /\ pbuf.lines = <<>> \/ ChildAlive
          /\ fd0' = IF pbuf.lines = <<>> THEN fd0 ELSE pbuf
          /\ fd0Closed' = TRUE /\ ppc' = "wait"
       \/ /\ pbuf.lines # <<>> /\ ~ChildAlive
          /\ ppc' = "killed"
          /\ UNCHANGED <<fd0, fd0Closed>>
    /\ UNCHANGED <<cpc, intFlag, sigP, sigC, pressed, stdinEOF, typed, text, pbuf, cbuf,
                   fd1, iter>>

\* while (wait(&status) > 0): reap the child, then ECHILD ends the loop.
ParentWait ==
    /\ ppc = "wait" /\ cpc \in {"zombie", "none"}
    /\ cpc' = "none" /\ ppc' = "read"
    /\ UNCHANGED <<intFlag, sigP, sigC, pressed, stdinEOF, typed, text, pbuf, cbuf,
                   fd0, fd0Closed, fd1, iter>>

\* read(fd1[0], buffer, 256) once data is there or the writer is gone
\* (n = 0); buffer[n] = '\0'.
ParentRead ==
    /\ ppc = "read" /\ (fd1 # NoData \/ ~ChildAlive)
    /\ pbuf' = IF fd1 # NoData THEN fd1 ELSE Empty
    /\ fd1' = NoData /\ ppc' = "print"
    /\ UNCHANGED <<cpc, intFlag, sigP, sigC, pressed, stdinEOF, typed, text, cbuf,
                   fd0, fd0Closed, iter>>

\* printf("%s", buffer), and back to the loop test.
ParentPrint ==
    /\ ppc = "print"
    /\ ppc' = "top"
    /\ UNCHANGED <<cpc, intFlag, sigP, sigC, pressed, stdinEOF, typed, text, pbuf, cbuf,
                   fd0, fd0Closed, fd1, iter>>

-----------------------------------------------------------------------------
(* The child (case 0 of the switch).                                       *)

\* n = read(fd0[0], buffer, 256) once the parent wrote or closed fd0[1];
\* buffer[n] = '\0'.
ChildRead ==
    /\ cpc = "read" /\ (fd0 # NoData \/ fd0Closed)
    /\ cbuf' = IF fd0 # NoData THEN fd0 ELSE Empty
    /\ fd0' = NoData /\ cpc' = "write"
    /\ UNCHANGED <<ppc, intFlag, sigP, sigC, pressed, stdinEOF, typed, text, pbuf,
                   fd0Closed, fd1, iter>>

\* get_upper(buffer, upper), write(fd1[1], upper, 256), close, free, exit.
ChildWrite ==
    /\ cpc = "write"
    /\ fd1' = Upper(cbuf) /\ cpc' = "zombie"
    /\ UNCHANGED <<ppc, intFlag, sigP, sigC, pressed, stdinEOF, typed, text, pbuf, cbuf,
                   fd0, fd0Closed, iter>>

-----------------------------------------------------------------------------
(* Ctrl-C (or Ctrl-\), and the handlers.                                   *)

\* The terminal sends SIGINT to the parent and to a living child.
CtrlC ==
    /\ ~pressed /\ ppc \notin {"exited", "killed"}
    /\ pressed' = TRUE /\ sigP' = TRUE /\ sigC' = ChildAlive
    /\ UNCHANGED <<ppc, cpc, intFlag, stdinEOF, typed, text, pbuf, cbuf,
                   fd0, fd0Closed, fd1, iter>>

\* Where the parent sits in a blocking call: fgetc() on a tty with no line
\* entered, wait() for a living child, read() of an empty fd1 whose writer
\* is still open.
BlockedInGetText == ppc = "get_text" /\ ~stdinEOF
BlockedInWait == ppc = "wait" /\ ChildAlive
BlockedInRead == ppc = "read" /\ fd1 = NoData /\ ChildAlive

\* int_handler in the parent sets int_flag.  A blocked fgetc() fails, so
\* get_text ends with the lines read so far; a blocked wait() returns -1 and
\* ends the wait loop; a blocked read() of fd1 returns -1 and buffer keeps
\* the text (buffer[-1] = '\0' writes the zero high byte of malloc's size
\* word with glibc, which changes nothing).
ParentHandles ==
    /\ sigP /\ ppc \notin {"exited", "killed"}
    /\ sigP' = FALSE /\ intFlag' = TRUE
    /\ \/ BlockedInGetText /\ pbuf' = text /\ ppc' = "write"
       \/ BlockedInWait /\ ppc' = "read" /\ UNCHANGED pbuf
       \/ BlockedInRead /\ ppc' = "print" /\ UNCHANGED pbuf
       \/ ~BlockedInGetText /\ ~BlockedInWait /\ ~BlockedInRead /\ UNCHANGED <<ppc, pbuf>>
    /\ UNCHANGED <<cpc, sigC, pressed, stdinEOF, typed, text, cbuf, fd0, fd0Closed, fd1, iter>>

\* int_handler in the child: read() of fd0 blocked on an empty pipe fails,
\* n = -1, and the child goes on with the buffer fork() gave it: the zeroed
\* calloc() buffer in the first iteration, the previous answer later.  The
\* parent may meanwhile have left get_text at EOF: the signal that ends
\* the child's read need not interrupt the parent at all.
ChildHandles ==
    /\ sigC /\ ChildAlive
    /\ sigC' = FALSE
    /\ cpc' = IF cpc = "read" /\ fd0 = NoData /\ ~fd0Closed THEN "write" ELSE cpc
    /\ UNCHANGED <<ppc, intFlag, sigP, pressed, stdinEOF, typed, text, pbuf, cbuf,
                   fd0, fd0Closed, fd1, iter>>

Next ==
    \/ ParentFork \/ ParentExit \/ TypeLine \/ GetTextEOF \/ ParentWrite
    \/ ParentWait \/ ParentRead \/ ParentPrint
    \/ ChildRead \/ ChildWrite
    \/ CtrlC \/ ParentHandles \/ ChildHandles

Spec == Init /\ [][Next]_vars

-----------------------------------------------------------------------------
(* Properties.                                                             *)

=============================================================================
