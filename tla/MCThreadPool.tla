---------------------------- MODULE MCThreadPool ----------------------------
\* The calls of main.c: three tasks, all for worker 0, and the beginning of
\* its stress test, a task not in the list among them.
EXTENDS ThreadPool

CONSTANTS t1, t2, t3, t4

Make(t)   == [op |-> "init", task |-> t]
Assign(t) == [op |-> "assign", task |-> t]
Signal    == [op |-> "dispatch", task |-> NULL]

mcScript ==
  <<Make(t1), Make(t2), Make(t3), Assign(t1), Signal, Assign(t2), Assign(t3),
    Signal, Signal, Assign(t4), Make(t4), Assign(t4), Signal>>
=============================================================================
