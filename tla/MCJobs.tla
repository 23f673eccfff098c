------------------------------- MODULE MCJobs -------------------------------
(***************************************************************************)
(* Small instances of Jobs.                                                *)
(***************************************************************************)
EXTENDS Jobs

MCClaim == [j \in Jobs |-> 1]
NoPosts == [j \in Jobs |-> 0]
OnePost == [j \in Jobs |-> 1]
Once == [j \in Jobs |-> 1]
Twice == [j \in Jobs |-> 2]
NeverRetry == [j \in Jobs |-> {}]
RetryFailures == [j \in Jobs |-> {"process_failed", "start_failed", "postcondition_retryable",
                                  "timed_out"}]
NoOrder == {}
\* b whatever becomes of a, c only if b succeeds
Fork == {<<"b", "a", "terminal">>, <<"c", "b", "success">>}
RetryExits == [j \in Jobs |-> {"process_failed"}]
ForkOnce == [j \in Jobs |-> IF j = "a" THEN 2 ELSE 1]
\* Nothing waits for c, so only a and b are canceled.
LastRuns == ~jobs["c"].cancel
=============================================================================
