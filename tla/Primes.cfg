\* main up to num = 40 (12 primes, so head wraps at buffer_end and slots are
\* overwritten), with SIGINT/SIGQUIT possible before any step.  The program
\* ends (return 0 or the handler's exit(0)), so deadlock is not checked.
CONSTANTS CAPACITY <- MC_CAPACITY  SIZE <- MC_SIZE  LONG_MAX = 40  Garbage = Garbage
SPECIFICATION Spec
CHECK_DEADLOCK FALSE
INVARIANT PrimesFoundSoFar
INVARIANT ReportShowsFoundPrimes
