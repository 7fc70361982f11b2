\* Three file systems with a directory at argv[2], two threads.
CONSTANTS
    r = r
    a = a
    b = b
    c = c
    d = d
    Paths = {r, a, b, c, d}
    Root = r
    Trees <- DirTrees
    NUM_THREADS = 2
SPECIFICATION Spec
INVARIANT SerialCountsAll
INVARIANT StaticCountsAll
INVARIANT DynamicCountsAll
