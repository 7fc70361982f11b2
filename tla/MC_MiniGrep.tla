----------------------------- MODULE MC_MiniGrep -----------------------------
(* File systems for checking MiniGrep with TLC.                            *)
EXTENDS MiniGrep, TLC

CONSTANTS r, a, b, c, d

\* Build a file system from the kinds and directory listings given; paths
\* not mentioned are missing.
MkFS(kinds, listing, hits) ==
    [kind     |-> [p \in Paths |-> IF p \in DOMAIN kinds THEN kinds[p] ELSE "missing"],
     children |-> [p \in Paths |-> IF p \in DOMAIN listing THEN listing[p] ELSE <<>>],
     hits     |-> [p \in Paths |-> IF p \in DOMAIN hits THEN hits[p] ELSE 0]]

\* A nested directory, a symbolic link, two files with matches.
T1 == MkFS((r :> "dir" @@ a :> "dir" @@ b :> "reg" @@ c :> "lnk" @@ d :> "reg"),
           (r :> <<a, b, c>> @@ a :> <<d>>),
           (b :> 1 @@ d :> 2))

\* An unreadable file with matches next to readable ones, and a file in
\* a subdirectory listed last.
T2 == MkFS((r :> "dir" @@ a :> "reg" @@ b :> "reg_noperm" @@ c :> "dir" @@ d :> "reg"),
           (r :> <<a, b, c>> @@ c :> <<d>>),
           (a :> 1 @@ b :> 5 @@ d :> 1))

\* An unreadable directory, and an entry removed before its lstat().
T3 == MkFS((r :> "dir" @@ a :> "dir_noperm" @@ b :> "dir" @@ c :> "reg" @@ d :> "missing"),
           (r :> <<a, b>> @@ b :> <<c, d>>),
           (c :> 1))

DirTrees == {T1, T2, T3}
=============================================================================
