------------------------------ MODULE MCComblk ------------------------------
\* Commands of each kind; the long one has data and is longer than the FIFO.
EXTENDS ComblkInv

Serial == [kind |-> "ptr", op |-> "serial", size |-> 1, data |-> 0, pages |-> 0,
           rsize |-> 3, handler |-> "a"]
UserCode == [Serial EXCEPT !.op = "usercode"]
Long  == [kind |-> "cmd", op |-> "long", size |-> 2, data |-> 1, pages |-> 0,
          rsize |-> 2, handler |-> "b"]
Paged == [kind |-> "paged", op |-> "isp", size |-> 1, data |-> 0, pages |-> 2,
          rsize |-> 2, handler |-> "c"]

MCRequests == {Serial, UserCode, Long, Paged}
MCPointers == {Serial, UserCode}

\* What the theorems assume of the commands and of the environment.
ASSUME MCEnv == Env
=============================================================================
