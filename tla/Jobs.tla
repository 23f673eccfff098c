-------------------------------- MODULE Jobs --------------------------------
(***************************************************************************)
(* The native Job lifecycle: the scheduler that turns a pending Job into   *)
(* an Attempt with a Lease, the runner thread that drives its Invocations  *)
(* inside Job Objects, the reconciler that closes uncertain Containments,  *)
(* daemon crashes, reboots and the recovery at the next start.             *)
(*                                                                         *)
(* An Invocation is <<job, attempt, place>>: place 0 is the primary one,   *)
(* the others are its postconditions in their order.  Jobs have neither    *)
(* Conditions nor quiet windows, and claim one scalar resource.  Bounded   *)
(* waits may end either way; a deadline may be seen as passed by any check *)
(* of a Timed Job.  Identity probes of an earlier generation may fail to   *)
(* answer, which leaves everything as it is.                               *)
(*                                                                         *)
(* The operating system, as the code relies on it: a terminated tree goes  *)
(* away at the kernel's own time, its root perhaps first; closing the last *)
(* handle of a Job Object (kill-on-close, at daemon death) takes the tree  *)
(* as a whole, and what had lost its root is gone when a new daemon looks. *)
(***************************************************************************)
EXTENDS Naturals, FiniteSets, FiniteSetsExt

CONSTANTS Jobs,
          Claim,         \* [Jobs -> Nat]: units of the one scalar resource
          Capacity,
          Posts,         \* [Jobs -> Nat]: postconditions of a Job
          MaxAttempts,   \* [Jobs -> Nat]: retry.max_attempts
          Retryable,     \* [Jobs -> SUBSET Verdicts]: retry.retryable
          Timed,         \* Jobs with a timeout
          After,         \* set of <<successor, predecessor, kind>>
          MaxGenerations,\* bound: daemon generations
          MaxFaults      \* bound: Store calls that fail

Stops == {"canceled", "timed_out"}
Verdicts == Stops \cup {"succeeded", "process_failed", "start_failed", "interrupted",
                        "postcondition_retryable", "postcondition_failed"}
Codes == {0, 1, 2}   \* success / accepted, retryable by a postcondition, anything else

Attempts == UNION {{j} \X (1..MaxAttempts[j]) : j \in Jobs}
Invocations == UNION {{a[1]} \X {a[2]} \X (0..Posts[a[1]]) : a \in Attempts}
Of(a) == {i \in Invocations : i[1] = a[1] /\ i[2] = a[2]}

ASSUME JobsAssumption ==
    /\ Claim \in [Jobs -> Nat] /\ Capacity \in Nat
    /\ Posts \in [Jobs -> Nat] /\ MaxAttempts \in [Jobs -> Nat \ {0}]
    /\ Retryable \in [Jobs -> SUBSET Verdicts] /\ Timed \subseteq Jobs
    /\ After \subseteq Jobs \X Jobs \X {"success", "failure", "terminal"}
    /\ MaxGenerations \in Nat \ {0} /\ MaxFaults \in Nat

VARIABLES
    jobs,          \* jobs
    attempts,      \* attempts, and the Lease of each
    invocations,   \* invocations, and the Containment of each
    permissions,   \* the authority registry's native start permissions
    daemon,        \* the running daemon generation
    registry,      \* LiveContainments: the Job Object handles the daemon holds
    runners,       \* the runner thread of each Job
    evidence,      \* what the reactor and a force-clear request have read
    tree,          \* OS: the process tree in each Job Object
    killed,        \* OS: trees being terminated
    ran,           \* history: Invocations whose user code was released
    faults         \* Store calls that failed

rowVars == <<jobs, attempts, invocations, permissions>>
osVars == <<tree, killed, ran>>
vars == <<rowVars, daemon, registry, runners, evidence, osVars, faults>>

JobRow == [state : {"pending", "active", "final"},
           outcome : {"none", "succeeded", "failed", "skipped", "interrupted"} \cup Stops,
           cancel : BOOLEAN, index : Nat, backoff : BOOLEAN]
AttemptRow == [state : {"none", "starting", "running", "settled"},
               verdict : Verdicts \cup {"none"}, result : Verdicts \cup {"none"},
               lease : {"none", "granted", "released"}]
InvocationRow == [state : {"none", "prepared", "started", "exited", "resolved"},
                  class : {"none", "accepted", "retryable", "failed"},
                  cont : {"none", "creating", "live", "uncertain", "empty", "cleared"},
                  generation : Nat, root : BOOLEAN,
                  resolution : {"none", "proven_empty", "reboot", "forced"}]
Runner == [at : {"idle", "spawn", "launch", "created", "journaled", "started", "release",
                 "running", "stopping", "exited", "draining", "failing", "guarded",
                 "relocking", "unproven", "transfer", "outer", "resolve", "record",
                 "validate", "prepare", "settle", "finish"},
           place : Nat, released : BOOLEAN, stop : Stops \cup {"none"},
           exit : Codes, class : {"none", "accepted", "retryable", "failed"},
           verdict : Verdicts \cup {"none"}, ok : BOOLEAN]

NoInvocation == [state |-> "none", class |-> "none", cont |-> "none", generation |-> 0,
                 root |-> FALSE, resolution |-> "none"]
Idle == [at |-> "idle", place |-> 0, released |-> FALSE, stop |-> "none", exit |-> 0,
         class |-> "none", verdict |-> "none", ok |-> FALSE]

Init ==
    /\ jobs = [j \in Jobs |-> [state |-> "pending", outcome |-> "none", cancel |-> FALSE,
                               index |-> 0, backoff |-> FALSE]]
    /\ attempts = [a \in Attempts |-> [state |-> "none", verdict |-> "none",
                                       result |-> "none", lease |-> "none"]]
    /\ invocations = [i \in Invocations |-> NoInvocation]
    /\ permissions = {}
    /\ daemon = [generation |-> 1, up |-> TRUE, boot |-> 0]
    /\ registry = [i \in Invocations |-> "absent"]
    /\ runners = [j \in Jobs |-> Idle]
    /\ evidence = [who \in {"reactor", "peer"} |-> {}]
    /\ tree = [i \in Invocations |-> "none"] /\ killed = {} /\ ran = {}
    /\ faults = 0

-----------------------------------------------------------------------------
(***************************************************************************)
(* Operators on the rows.                                                  *)
(***************************************************************************)
Current(j) == <<j, jobs[j].index>>
Invocation(j) == <<j, jobs[j].index, runners[j].place>>
Alive(i) == tree[i] \in {"running", "orphans"}
RootGone(i) == tree[i] \in {"orphans", "gone"}
Open(row) == row.cont \in {"creating", "live", "uncertain"}

\* Slip: an uncertain Containment counts as closed.
ClosedUnlessLive(rows, a) == \A i \in Of(a) : rows[i].cont \notin {"creating", "live"}

\* CLOSED_CONTAINMENT_STATES
Closed(rows, a) == \A i \in Of(a) : ~Open(rows[i])

Granted == {a \in Attempts : attempts[a].lease = "granted"}
Used(held) == MapThenSumSet(LAMBDA a : Claim[a[1]], held)

\* Slip: a verdict is stored as the outcome of the Job.
outcome_as_verdict(v) == v

outcome_for_verdict(v) == IF v \in Stops \cup {"succeeded", "interrupted"} THEN v ELSE "failed"

\* An Attempt settles; its Lease goes once every Containment is closed.
SettledRow(a, v, rows) ==
    [attempts[a] EXCEPT !.state = "settled", !.verdict = v,
                        !.lease = IF Closed(rows, a) THEN "released" ELSE @]

\* reconcile_native_start_permissions
Unproven(rows) == {i \in permissions : Open(rows[i]) \/ rows[i].state # "resolved"}

\* One mutex guards the Store.  Each step below that uses it takes and drops
\* it, but for a runner that is half way through one of these.  It is not
\* reentrant: who is "relocking" waits for itself.
Holding == {"journaled", "guarded", "relocking", "record", "finish"}
StoreFree(others) == daemon.up /\ \A j \in others : runners[j].at \notin Holding

At(j, places) == daemon.up /\ runners[j].at \in places
AtFree(j, places) == At(j, places) /\ StoreFree(Jobs \ {j})
Goto(j, place) == runners' = [runners EXCEPT ![j].at = place]

-----------------------------------------------------------------------------
(***************************************************************************)
(* The scheduler and the requests.                                         *)
(***************************************************************************)
Satisfied(kind, outcome) ==
    kind = "terminal" \/ <<kind, outcome>> \in {<<"success", "succeeded">>, <<"failure", "failed">>}

\* Slip: a predecessor that waits for its retry is not waited for.
WaitingForActive(j) == \E d \in After : d[1] = j /\ jobs[d[2]].state = "active"

Waiting(j) == \E d \in After : d[1] = j /\ jobs[d[2]].state # "final"
Impossible(j) == \E d \in After :
    /\ d[1] = j
    /\ jobs[d[2]].state = "final"
    /\ ~Satisfied(d[3], jobs[d[2]].outcome)

Due(j) == StoreFree(Jobs) /\ jobs[j].state = "pending" /\ ~jobs[j].backoff

Skip(j) ==
    /\ Due(j) /\ Impossible(j)
    /\ jobs' = [jobs EXCEPT ![j].state = "final", ![j].outcome = "skipped"]
    /\ UNCHANGED <<attempts, invocations, permissions, daemon, registry, runners, evidence,
                   osVars, faults>>

Prepared == [NoInvocation EXCEPT !.state = "prepared", !.cont = "creating",
                                 !.generation = daemon.generation]

\* prepare_job_inner on its way to Ready; queue order and reservations may
\* hold a Job back, and never admit what does not fit.
Prepare(j) ==
    LET a == <<j, jobs[j].index + 1>> IN
    /\ Due(j) /\ ~Impossible(j) /\ ~Waiting(j)
    /\ Used(Granted) + Claim[j] <= Capacity
    /\ jobs' = [jobs EXCEPT ![j].state = "active", ![j].index = @ + 1]
    /\ attempts' = [attempts EXCEPT ![a].state = "starting", ![a].lease = "granted"]
    /\ invocations' = [invocations EXCEPT ![<<j, a[2], 0>>] = Prepared]
    /\ runners' = [runners EXCEPT ![j] = [Idle EXCEPT !.at = "spawn"]]
    /\ UNCHANGED <<permissions, daemon, registry, evidence, osVars, faults>>

RetryDue(j) ==
    /\ daemon.up /\ jobs[j].state = "pending" /\ jobs[j].backoff
    /\ jobs' = [jobs EXCEPT ![j].backoff = FALSE]
    /\ UNCHANGED <<attempts, invocations, permissions, daemon, registry, runners, evidence,
                   osVars, faults>>

\* Slip: a final Job can still be canceled.
cancel_jobsAnyState(j) ==
    /\ StoreFree(Jobs) /\ ~jobs[j].cancel
    /\ jobs' = [jobs EXCEPT ![j] = IF @.state = "active" THEN [@ EXCEPT !.cancel = TRUE]
                 ELSE [@ EXCEPT !.cancel = TRUE, !.state = "final", !.outcome = "canceled"]]
    /\ UNCHANGED <<attempts, invocations, permissions, daemon, registry, runners, evidence,
                   osVars, faults>>

cancel_jobs(j) ==
    /\ StoreFree(Jobs) /\ jobs[j].state # "final" /\ ~jobs[j].cancel
    /\ jobs' = [jobs EXCEPT ![j] = IF @.state = "active" THEN [@ EXCEPT !.cancel = TRUE]
                 ELSE [@ EXCEPT !.cancel = TRUE, !.state = "final", !.outcome = "canceled",
                                !.backoff = FALSE]]
    /\ UNCHANGED <<attempts, invocations, permissions, daemon, registry, runners, evidence,
                   osVars, faults>>

\* mark_finished, for a thread that could not be spawned
mark_finished(j) ==
    LET a == Current(j)
        v == IF jobs[j].cancel THEN "canceled" ELSE "start_failed"
    IN  /\ invocations' = [invocations EXCEPT ![Invocation(j)].state = "resolved",
                                              ![Invocation(j)].cont = "empty"]
        /\ attempts' = [attempts EXCEPT ![a] = SettledRow(a, v, invocations')]
        /\ jobs' = [jobs EXCEPT ![j].state = "final", ![j].outcome = outcome_for_verdict(v)]
        /\ permissions' = Unproven(invocations')

Spawn(j) ==
    /\ \/ At(j, {"spawn"}) /\ Goto(j, "launch") /\ UNCHANGED <<rowVars, faults>>
       \/ AtFree(j, {"spawn"}) /\ Goto(j, "idle") /\ mark_finished(j) /\ UNCHANGED faults
       \/ /\ AtFree(j, {"spawn"}) /\ Goto(j, "idle") /\ UNCHANGED rowVars
          /\ faults < MaxFaults /\ faults' = faults + 1
    /\ UNCHANGED <<daemon, registry, evidence, osVars>>

-----------------------------------------------------------------------------
(***************************************************************************)
(* One Invocation, from its Job Object to proven cleanup.                  *)
(***************************************************************************)

\* A Store write of the runner fails, and it goes on elsewhere.
StoreFails(j, place) ==
    /\ faults < MaxFaults /\ faults' = faults + 1
    /\ Goto(j, place)

\* TerminateJobObject
Terminate(j) == killed' = killed \cup {Invocation(j)}

\* What the runner makes of an Invocation that left run_inner.
Classified(code) == <<"accepted", "retryable", "failed">>[code + 1]
\* Slip: the exit code of a postcondition is not looked at.
VerdictOfPrimary(r, ok) ==
    IF r.stop # "none" THEN r.stop
    ELSE IF ok THEN IF r.place > 0 THEN r.verdict
                    ELSE IF r.exit = 0 THEN "succeeded" ELSE "process_failed"
    ELSE IF r.released THEN "interrupted"
    ELSE IF r.place = 0 THEN "start_failed" ELSE "postcondition_failed"

\* Slip: an error after the release is taken for a failed start.
VerdictUnreleased(r, ok) ==
    IF r.stop # "none" THEN r.stop
    ELSE IF ok /\ r.place = 0 THEN IF r.exit = 0 THEN "succeeded" ELSE "process_failed"
    ELSE IF ok THEN <<r.verdict, "postcondition_retryable", "postcondition_failed">>[r.exit + 1]
    ELSE IF r.place = 0 THEN "start_failed" ELSE "postcondition_failed"

Verdict(r, ok) ==
    IF r.stop # "none" THEN r.stop
    ELSE IF ok THEN
        IF r.place = 0 THEN IF r.exit = 0 THEN "succeeded" ELSE "process_failed"
        ELSE <<r.verdict, "postcondition_retryable", "postcondition_failed">>[r.exit + 1]
    ELSE IF r.released THEN "interrupted"
    ELSE IF r.place = 0 THEN "start_failed" ELSE "postcondition_failed"
Class(r, ok) ==
    IF ok THEN IF r.place = 0 \/ r.stop # "none" THEN "none" ELSE Classified(r.exit)
    ELSE IF Verdict(r, ok) = "postcondition_failed" THEN "failed" ELSE "none"

\* run_inner returns with cleanup proven: the registration is dropped.
Left(j, ok) ==
    runners' = [runners EXCEPT ![j] = [@ EXCEPT !.at = "resolve", !.ok = ok,
                   !.verdict = Verdict(runners[j], ok), !.class = Class(runners[j], ok)]]

Leave(j, ok) == Left(j, ok) /\ registry' = [registry EXCEPT ![Invocation(j)] = "retired"]

Launch(j) ==
    /\ At(j, {"launch"})
    /\ \/ /\ Left(j, FALSE)     \* refused before CreateProcessW succeeded
          /\ \E registered \in {"absent", "retired"} :
                registry' = [registry EXCEPT ![Invocation(j)] = registered]
          /\ UNCHANGED tree
       \/ /\ tree' = [tree EXCEPT ![Invocation(j)] = "suspended"]
          /\ registry' = [registry EXCEPT ![Invocation(j)] = "live"]
          /\ Goto(j, "created")
    /\ UNCHANGED <<rowVars, daemon, evidence, killed, ran, faults>>

\* What fails from CreateProcessW on without the mutex: the image, the root's
\* identity, the threads that drain the pipes.
StartFails(j) ==
    /\ At(j, {"created", "started"})
    /\ Goto(j, "failing") /\ Terminate(j)
    /\ UNCHANGED <<rowVars, daemon, registry, evidence, tree, ran, faults>>

\* mark_started_with_ticket journals the permission, then commits the row, in
\* one hold of the mutex.  The registry may refuse, with no write failing: a
\* reset may be pending, the permissions may be at their limit.
record_native_start(j) ==
    /\ AtFree(j, {"created"})
    /\ \/ /\ permissions' = permissions \cup {Invocation(j)}
          /\ Goto(j, "journaled")
          /\ UNCHANGED killed
       \/ Goto(j, "guarded") /\ Terminate(j) /\ UNCHANGED permissions
    /\ UNCHANGED <<jobs, attempts, invocations, daemon, registry, evidence, tree, ran, faults>>

mark_started(j) ==
    /\ At(j, {"journaled"})
    /\ \/ /\ invocations' = [invocations EXCEPT ![Invocation(j)].state = "started",
                              ![Invocation(j)].cont = "live", ![Invocation(j)].root = TRUE]
          /\ attempts' = [attempts EXCEPT ![Current(j)].state = "running"]
          /\ Goto(j, "started")
          /\ UNCHANGED <<killed, faults>>
       \/ /\ StoreFails(j, "guarded") /\ Terminate(j)
          /\ UNCHANGED <<invocations, attempts>>
    /\ UNCHANGED <<jobs, permissions, daemon, registry, evidence, tree, ran>>

\* A start record that failed: its guard lives until run_inner returns.  With
\* the Job Object empty it does; without, the macro locks the mutex again.
prestart_try(j) ==
    /\ At(j, {"guarded"})
    /\ \/ tree[Invocation(j)] = "gone" /\ Leave(j, FALSE)
       \/ tree[Invocation(j)] # "gone" /\ Goto(j, "relocking") /\ UNCHANGED registry
    /\ UNCHANGED <<rowVars, daemon, evidence, osVars, faults>>

\* Why a check of the runner may stop the Invocation.  Before the release and
\* between postconditions a cancel request, read under the mutex, comes before
\* the deadline; the loop over a running root looks at the deadline first.
Late(j) == IF j \in Timed THEN {"timed_out"} ELSE {}
StopSeen(j) == IF jobs[j].cancel THEN {"canceled"} ELSE {"none"} \cup Late(j)

StopAt(j, stop) ==
    /\ runners' = [runners EXCEPT ![j].at = "stopping", ![j].stop = stop]
    /\ Terminate(j)

pending_stop(j) ==
    /\ AtFree(j, {"started"})
    /\ \E stop \in StopSeen(j) :
          IF stop = "none" THEN Goto(j, "release") /\ UNCHANGED killed ELSE StopAt(j, stop)
    /\ UNCHANGED <<rowVars, daemon, registry, evidence, tree, ran, faults>>

\* Slip: the request is not looked at again before ResumeThread.
ReleaseUnasked(j) ==
    /\ AtFree(j, {"release"})
    /\ tree' = [tree EXCEPT ![Invocation(j)] = "running"]
    /\ ran' = ran \cup {Invocation(j)}
    /\ runners' = [runners EXCEPT ![j].at = "running", ![j].released = TRUE]
    /\ UNCHANGED <<rowVars, daemon, registry, evidence, killed, faults>>

\* One hold of the mutex: the check again, then ResumeThread.
Release(j) ==
    LET i == Invocation(j) IN
    /\ AtFree(j, {"release"})
    /\ \E stop \in StopSeen(j) :
          IF stop # "none" THEN StopAt(j, stop) /\ UNCHANGED <<tree, ran>>
          ELSE \/ /\ tree' = [tree EXCEPT ![i] = "running"] /\ ran' = ran \cup {i}
                  /\ runners' = [runners EXCEPT ![j].at = "running", ![j].released = TRUE]
                  /\ UNCHANGED killed
               \/ Goto(j, "failing") /\ Terminate(j) /\ UNCHANGED <<tree, ran>>
    /\ UNCHANGED <<rowVars, daemon, registry, evidence, faults>>

SeeExit(j) ==
    /\ At(j, {"running", "stopping"}) /\ RootGone(Invocation(j))
    /\ \E code \in Codes :
          runners' = [runners EXCEPT ![j].at = "exited", ![j].exit = code]
    /\ UNCHANGED <<rowVars, daemon, registry, evidence, osVars, faults>>

StopRunning(j) ==
    /\ AtFree(j, {"running"})
    /\ \E stop \in Late(j) \cup (StopSeen(j) \ {"none"}) : StopAt(j, stop)
    /\ UNCHANGED <<rowVars, daemon, registry, evidence, tree, ran, faults>>

\* A wait fails, or the bound on the root's exit passes.
WaitFails(j) ==
    /\ At(j, {"running", "stopping"})
    /\ Goto(j, "failing") /\ Terminate(j)
    /\ UNCHANGED <<rowVars, daemon, registry, evidence, tree, ran, faults>>

mark_root_exited(j) ==
    /\ AtFree(j, {"exited"})
    /\ Terminate(j)
    /\ \/ /\ invocations' = [invocations EXCEPT ![Invocation(j)].state = "exited"]
          /\ Goto(j, "draining")
          /\ UNCHANGED faults
       \/ StoreFails(j, "failing") /\ UNCHANGED invocations
    /\ UNCHANGED <<jobs, attempts, permissions, daemon, registry, evidence, tree, ran>>

\* Slip: the exit of the root is taken for proof of an empty Job Object.
DrainRoot(j) ==
    /\ At(j, {"draining"})
    /\ RootGone(Invocation(j)) /\ \E ok \in BOOLEAN : Leave(j, ok)
    /\ UNCHANGED <<rowVars, daemon, evidence, osVars, faults>>

\* wait_job_empty, and the drains' join: proof, or a second wait after a
\* second TerminateJobObject.
Drain(j) ==
    /\ At(j, {"draining"})
    /\ \/ tree[Invocation(j)] = "gone" /\ \E ok \in BOOLEAN : Leave(j, ok)
       \/ Goto(j, "failing") /\ UNCHANGED registry
    /\ UNCHANGED <<rowVars, daemon, evidence, osVars, faults>>

DrainFailed(j) ==
    /\ At(j, {"failing"})
    /\ \/ tree[Invocation(j)] = "gone" /\ Leave(j, FALSE)
       \/ tree[Invocation(j)] # "gone" /\ Goto(j, "unproven") /\ UNCHANGED registry
    /\ UNCHANGED <<rowVars, daemon, evidence, osVars, faults>>

\* Slip: a Job whose cleanup is unproven is tried again.
mark_uncertainRetrying(j) ==
    LET i == Invocation(j)
        a == Current(j)
    IN  /\ invocations' = [invocations EXCEPT ![i].state = "resolved", ![i].cont = "uncertain"]
        /\ attempts' = [attempts EXCEPT ![a].state = "settled", ![a].verdict = "interrupted"]
        /\ jobs' = [jobs EXCEPT ![j] =
              IF jobs[j].index < MaxAttempts[j] /\ ~jobs[j].cancel
              THEN [@ EXCEPT !.state = "pending"]
              ELSE [@ EXCEPT !.state = "final", !.outcome = "interrupted"]]
        /\ UNCHANGED permissions

mark_uncertain(j) ==
    LET i == Invocation(j)
        a == Current(j)
    IN  /\ invocations' = [invocations EXCEPT ![i].state = "resolved", ![i].cont = "uncertain"]
        /\ attempts' = [attempts EXCEPT ![a].state = "settled", ![a].verdict = "interrupted"]
        /\ jobs' = [jobs EXCEPT ![j].state = "final", ![j].outcome = "interrupted"]
        /\ UNCHANGED permissions

\* persist_uncertain_cleanup, after the start and, for StartFails, before it.
\* When it fails the registration and the Job Object are dropped on the way
\* out to finish_failed_invocation.
Persist(j) ==
    /\ AtFree(j, {"unproven"})
    /\ \/ mark_uncertain(j) /\ Goto(j, "transfer") /\ UNCHANGED <<registry, faults>>
       \/ /\ StoreFails(j, "outer") /\ UNCHANGED rowVars
          /\ registry' = [registry EXCEPT ![Invocation(j)] = "retired"]
    /\ UNCHANGED <<daemon, evidence, osVars>>

PersistAgain(j) ==
    /\ AtFree(j, {"outer"})
    /\ \/ mark_uncertain(j) /\ Goto(j, "idle") /\ UNCHANGED faults
       \/ StoreFails(j, "idle") /\ UNCHANGED rowVars
    /\ UNCHANGED <<daemon, registry, evidence, osVars>>

\* Slip: the handle is dropped and its entry with it.
transfer_to_nobody(j) ==
    /\ At(j, {"transfer"})
    /\ registry' = [registry EXCEPT ![Invocation(j)] = "absent"]
    /\ Goto(j, "idle")
    /\ UNCHANGED <<rowVars, daemon, evidence, osVars, faults>>

\* An entry that is not live is an error, which drops the registration; the
\* runner's own is live.  A notification that cannot be spawned after it loses
\* a wake-up of the reconciler and nothing else.
transfer_to_reconciler(j) ==
    /\ At(j, {"transfer"})
    /\ registry' = [registry EXCEPT ![Invocation(j)] =
                       CASE @ = "live" -> "reconciler" [] @ = "reconciler" -> "retired"
                         [] OTHER -> @]
    /\ Goto(j, "idle")
    /\ UNCHANGED <<rowVars, daemon, evidence, osVars, faults>>

-----------------------------------------------------------------------------
(***************************************************************************)
(* Settlement.  After an error in the two commits of a completed           *)
(* Invocation, finish_completed_invocation tries them again (ok = FALSE)   *)
(* and goes on to settle in the same hold of the mutex, as                 *)
(* finish_failed_invocation does.                                          *)
(***************************************************************************)
Onward(j) ==
    LET r == runners[j] IN
    IF ~r.ok THEN "finish"
    ELSE IF r.stop = "none" /\ r.place < Posts[j] /\ (r.place = 0 \/ r.class = "accepted")
         THEN "validate" ELSE "settle"

mark_invocation_resolved(j) ==
    invocations' = [invocations EXCEPT ![Invocation(j)].state = "resolved",
                       ![Invocation(j)].class = runners[j].class,
                       ![Invocation(j)].cont = "empty"]

\* The error of a failed retirement of permissions comes after the commit.
Resolve(j) ==
    LET clear == registry' = [registry EXCEPT ![Invocation(j)] = "absent"] IN
    /\ AtFree(j, {"resolve"})
    /\ \/ /\ mark_invocation_resolved(j)
          /\ permissions' = Unproven(invocations')
          /\ IF runners[j].place = 0 THEN Goto(j, "record") /\ UNCHANGED registry
             ELSE Goto(j, Onward(j)) /\ clear
          /\ UNCHANGED faults
       \/ /\ faults < MaxFaults /\ faults' = faults + 1
          /\ mark_invocation_resolved(j) \/ UNCHANGED invocations
          /\ runners' = [runners EXCEPT ![j].ok = FALSE,
                            ![j].at = IF runners[j].ok THEN "resolve" ELSE "idle"]
          /\ UNCHANGED <<permissions, registry>>
    /\ UNCHANGED <<jobs, attempts, daemon, evidence, osVars>>

record_primary_result(j) ==
    /\ At(j, {"record"})
    /\ \/ /\ attempts[Current(j)].result \in {"none", runners[j].verdict}
          /\ attempts' = [attempts EXCEPT ![Current(j)].result = runners[j].verdict]
          /\ registry' = [registry EXCEPT ![Invocation(j)] = "absent"]
          /\ Goto(j, Onward(j))
          /\ UNCHANGED faults
       \/ /\ faults < MaxFaults /\ faults' = faults + 1
          /\ runners' = [runners EXCEPT ![j].ok = FALSE,
                            ![j].at = IF runners[j].ok THEN "resolve" ELSE "idle"]
          /\ UNCHANGED <<attempts, registry>>
    /\ UNCHANGED <<jobs, invocations, permissions, daemon, evidence, osVars>>

Validate(j) ==
    /\ AtFree(j, {"validate"})
    /\ \/ /\ \E stop \in StopSeen(j) :
                IF stop = "none" THEN Goto(j, "prepare")
                ELSE runners' = [runners EXCEPT ![j].at = "settle", ![j].verdict = stop]
          /\ UNCHANGED faults
       \/ /\ faults < MaxFaults /\ faults' = faults + 1
          /\ runners' = [runners EXCEPT ![j].at = "settle", ![j].verdict = "interrupted"]
    /\ UNCHANGED <<rowVars, daemon, registry, evidence, osVars>>

prepare_postcondition(j) ==
    LET next == <<j, jobs[j].index, runners[j].place + 1>> IN
    /\ AtFree(j, {"prepare"})
    /\ \/ /\ attempts[Current(j)].result # "none" /\ attempts[Current(j)].lease = "granted"
          /\ invocations[<<j, jobs[j].index, 0>>].cont = "empty"
          /\ invocations' = [invocations EXCEPT ![next] = Prepared]
          /\ runners' = [runners EXCEPT ![j] = [Idle EXCEPT !.at = "launch",
                            !.place = next[3], !.verdict = runners[j].verdict]]
          /\ UNCHANGED faults
       \/ /\ faults < MaxFaults /\ faults' = faults + 1
          /\ runners' = [runners EXCEPT ![j].at = "settle",
                                        ![j].verdict = "postcondition_failed"]
          /\ UNCHANGED invocations
    /\ UNCHANGED <<jobs, attempts, permissions, daemon, registry, evidence, osVars>>

\* Slip: a retry is granted whatever was asked of the Job meanwhile.
MayRetryCanceled(j, v) == jobs[j].index < MaxAttempts[j] /\ v \in Retryable[j]

MayRetry(j, v) == ~jobs[j].cancel /\ jobs[j].index < MaxAttempts[j] /\ v \in Retryable[j]

settle_attempt(j, v) ==
    LET a == Current(j)
        final == IF jobs[j].cancel THEN "canceled" ELSE v
    IN  /\ attempts' = [attempts EXCEPT ![a] = SettledRow(a, final, invocations)]
        /\ jobs' = [jobs EXCEPT ![j] =
              IF MayRetry(j, v) THEN [@ EXCEPT !.state = "pending", !.backoff = TRUE]
              ELSE [@ EXCEPT !.state = "final", !.outcome = outcome_for_verdict(final)]]

Settle(j) ==
    /\ AtFree(j, {"settle", "finish"})
    /\ \/ /\ settle_attempt(j, runners[j].verdict)
          /\ Goto(j, "idle")
          /\ UNCHANGED faults
       \/ StoreFails(j, "idle") /\ UNCHANGED <<jobs, attempts>>
    /\ UNCHANGED <<invocations, permissions, daemon, registry, evidence, osVars>>

-----------------------------------------------------------------------------
(***************************************************************************)
(* Reconciliation.  Evidence is read outside the mutex and committed later.*)
(***************************************************************************)
Uncertain(i) == invocations[i].cont = "uncertain"

\* Slip: a boundary the reconciler has taken over counts as empty.
AutomaticTaken(i) ==
    LET g == invocations[i].generation IN
    IF g <= daemon.boot THEN {"reboot"}
    ELSE IF g = daemon.generation THEN
        IF registry[i] \in {"retired", "reconciler"} THEN {"proven_empty"} ELSE {}
    ELSE IF ~invocations[i].root \/ RootGone(i) THEN {"proven_empty"} ELSE {}

\* What probe_reconciliation_candidate concludes when its probes answer.
Automatic(i) ==
    LET g == invocations[i].generation IN
    IF g <= daemon.boot THEN {"reboot"}
    ELSE IF g = daemon.generation THEN
        IF \/ registry[i] = "retired"
           \/ registry[i] \in {"live", "reconciler"} /\ tree[i] = "gone"
        THEN {"proven_empty"} ELSE {}
    ELSE IF ~invocations[i].root \/ RootGone(i) THEN {"proven_empty"} ELSE {}

\* A force-clear whose automatic probe was undecided for want of an answer.
Forced(i) ==
    LET g == invocations[i].generation IN
    IF /\ g > daemon.boot /\ g < daemon.generation
       /\ ~invocations[i].root \/ RootGone(i)
    THEN {"forced"} ELSE {}

\* clearance_authorization_evidence: the boundaries whose membership was asked
Authorizing == {i \in Invocations : Open(invocations[i])
                                    /\ invocations[i].generation = daemon.generation}

Probe(who, i, resolution) ==
    /\ StoreFree(Jobs) /\ evidence[who] = {} /\ Uncertain(i)
    /\ evidence' = [evidence EXCEPT ![who] =
                       {[invocation |-> i, resolution |-> resolution, asked |-> Authorizing]}]
    /\ UNCHANGED <<rowVars, daemon, registry, runners, osVars, faults>>

ProbeCandidate(i) == \E resolution \in Automatic(i) : Probe("reactor", i, resolution)

force_clear_containment(i) ==
    /\ \A x \in Authorizing : registry[x] # "absent"
    /\ \E resolution \in Automatic(i) \cup Forced(i) : Probe("peer", i, resolution)

\* Slip: a resolution closes the Containment and forgets the Lease.
commit_resolution_only(who) ==
    \E e \in evidence[who] :
        /\ StoreFree(Jobs)
        /\ evidence' = [evidence EXCEPT ![who] = {}]
        /\ invocations' = [invocations EXCEPT ![e.invocation].cont = "cleared"]
        /\ permissions' = Unproven(invocations')
        /\ UNCHANGED <<jobs, attempts, daemon, registry, runners, osVars, faults>>

commit_containment_resolution(who) ==
    \E e \in evidence[who] :
        LET i == e.invocation
            a == <<i[1], i[2]>>
            current == Uncertain(i) /\ (e.resolution = "forced" => e.asked = Authorizing)
        IN  /\ StoreFree(Jobs)
            /\ evidence' = [evidence EXCEPT ![who] = {}]
            /\ IF ~current THEN UNCHANGED <<attempts, invocations, permissions, registry>>
               ELSE /\ invocations' = [invocations EXCEPT ![i].cont = "cleared",
                                                          ![i].resolution = e.resolution]
                    /\ attempts' = [attempts EXCEPT ![a].lease =
                          IF attempts[a].state = "settled" /\ Closed(invocations', a)
                          THEN "released" ELSE @]
                    /\ permissions' = Unproven(invocations')
                    /\ registry' = [registry EXCEPT ![i] = "absent"]
            /\ UNCHANGED <<jobs, daemon, runners, osVars, faults>>

-----------------------------------------------------------------------------
(***************************************************************************)
(* The operating system, and daemons that come and go.                     *)
(***************************************************************************)
RootExits(i) ==
    /\ tree[i] = "running" /\ i \notin killed
    /\ \E left \in {"orphans", "gone"} : tree' = [tree EXCEPT ![i] = left]
    /\ UNCHANGED <<rowVars, daemon, registry, runners, evidence, killed, ran, faults>>

Reap(i) ==
    /\ i \in killed /\ tree[i] \in {"suspended", "running", "orphans"}
    /\ \/ tree' = [tree EXCEPT ![i] = "gone"]
       \/ /\ tree[i] = "running" /\ registry[i] \in {"live", "reconciler"}
          /\ tree' = [tree EXCEPT ![i] = "orphans"]
    /\ UNCHANGED <<rowVars, daemon, registry, runners, evidence, killed, ran, faults>>

Crash ==
    /\ daemon.up /\ daemon.generation < MaxGenerations
    /\ \E reboot \in BOOLEAN :
          /\ daemon' = [daemon EXCEPT !.up = FALSE,
                           !.boot = IF reboot THEN daemon.generation ELSE @]
          /\ tree' = [i \in Invocations |->
                IF \/ tree[i] = "orphans"
                   \/ reboot /\ tree[i] # "none"
                THEN "gone" ELSE tree[i]]
    /\ killed' = {i \in Invocations : tree'[i] \in {"suspended", "running"}}
    /\ runners' = [j \in Jobs |-> Idle]
    /\ registry' = [i \in Invocations |-> "absent"]
    /\ evidence' = [who \in DOMAIN evidence |-> {}]
    /\ UNCHANGED <<rowVars, ran, faults>>

\* recover_interrupted, then attach_authority
Restart ==
    LET verdict(a) == IF attempts[a].state = "starting" THEN "start_failed" ELSE "interrupted"
    IN  /\ ~daemon.up
        /\ daemon' = [daemon EXCEPT !.up = TRUE, !.generation = @ + 1]
        /\ invocations' = [i \in Invocations |->
              IF invocations[i].state = "none" THEN NoInvocation
              ELSE [invocations[i] EXCEPT !.state = "resolved",
                       !.cont = IF @ \in {"creating", "live"} THEN "uncertain" ELSE @]]
        /\ attempts' = [a \in Attempts |->
              IF attempts[a].state \in {"starting", "running"}
              THEN SettledRow(a, verdict(a), invocations')
              ELSE IF attempts[a].lease = "granted" /\ Closed(invocations', a)
              THEN [attempts[a] EXCEPT !.lease = "released"] ELSE attempts[a]]
        /\ jobs' = [j \in Jobs |->
              IF jobs[j].state # "active" THEN jobs[j]
              ELSE [jobs[j] EXCEPT !.state = "final",
                                   !.outcome = outcome_for_verdict(verdict(Current(j)))]]
        /\ permissions' = Unproven(invocations')
        /\ UNCHANGED <<registry, runners, evidence, osVars, faults>>

\* What a runner does by itself; a call that fails is the system's doing.
RunnerStep(j) ==
    \/ Spawn(j) \/ Launch(j) \/ record_native_start(j) \/ mark_started(j)
    \/ prestart_try(j) \/ pending_stop(j) \/ Release(j) \/ SeeExit(j) \/ StopRunning(j)
    \/ mark_root_exited(j) \/ Drain(j) \/ DrainFailed(j)
    \/ Persist(j) \/ PersistAgain(j) \/ transfer_to_reconciler(j)
    \/ Resolve(j) \/ record_primary_result(j) \/ Validate(j) \/ prepare_postcondition(j)
    \/ Settle(j)

Next ==
    \/ \E j \in Jobs : Skip(j) \/ Prepare(j) \/ RetryDue(j) \/ cancel_jobs(j)
                     \/ RunnerStep(j) \/ StartFails(j) \/ WaitFails(j)
    \/ \E i \in Invocations :
          ProbeCandidate(i) \/ force_clear_containment(i) \/ RootExits(i) \/ Reap(i)
    \/ \E who \in DOMAIN evidence : commit_containment_resolution(who)
    \/ Crash \/ Restart

Spec == Init /\ [][Next]_vars

\* The scheduler's threads run, the kernel reaps what was terminated, the
\* reactor retries candidates, and the service manager restarts the daemon.
\* A root need not exit by itself, no wait need fail, and nobody need cancel or
\* force anything.
Fairness ==
    /\ \A j \in Jobs : WF_vars(RunnerStep(j))
    /\ \A i \in Invocations : WF_vars(Reap(i)) /\ WF_vars(ProbeCandidate(i))
    /\ \A who \in {"reactor", "peer"} : WF_vars(commit_containment_resolution(who))
    /\ WF_vars(Restart)

FairSpec == Spec /\ Fairness

-----------------------------------------------------------------------------
(***************************************************************************)
(* Properties.                                                             *)
(***************************************************************************)

\* Every row keeps the values its column admits, and no two evidences of one
\* reader are held at once.
TypeOK ==
    /\ jobs \in [Jobs -> JobRow]
    /\ attempts \in [Attempts -> AttemptRow]
    /\ invocations \in [Invocations -> InvocationRow]
    /\ permissions \subseteq Invocations
    /\ daemon \in [generation : Nat, up : BOOLEAN, boot : Nat]
    /\ registry \in [Invocations -> {"absent", "live", "reconciler", "retired"}]
    /\ runners \in [Jobs -> Runner]
    /\ evidence \in [{"reactor", "peer"} ->
          SUBSET [invocation : Invocations, resolution : {"proven_empty", "reboot", "forced"},
                  asked : SUBSET Invocations]]
    /\ \A who \in DOMAIN evidence : Cardinality(evidence[who]) <= 1
    /\ tree \in [Invocations -> {"none", "suspended", "running", "orphans", "gone"}]
    /\ killed \subseteq Invocations /\ ran \subseteq Invocations
    /\ faults \in Nat

\* While anything of an Invocation's tree may execute user code, the Lease of
\* its Attempt is granted and the authority registry names its permission: a
\* crash, a timed-out cleanup, a reconciliation on evidence read earlier and
\* a forced clearance never free what is in use.  And no permission is left
\* over: each is of an Invocation that is unresolved or whose Containment is
\* open, also when the start it was journaled for was never committed.
RunningCovered ==
    /\ \A i \in Invocations : Alive(i) =>
          /\ attempts[<<i[1], i[2]>>].lease = "granted"
          /\ i \in permissions
    /\ \A i \in permissions : Open(invocations[i]) \/ invocations[i].state # "resolved"

\* What the trees on the machine were granted together fits its capacity.
MachineFits ==
    Used({a \in Attempts : \E i \in Of(a) : Alive(i)}) <= Capacity

\* A Lease outlives its Attempt only for a Containment that is still open: no
\* path of settlement, recovery or reconciliation leaks one.
LeaseAccounted ==
    \A a \in Granted : attempts[a].state = "settled" => ~Closed(invocations, a)

\* "start_failed" says that no user code of the Attempt ran.
StartFailedNeverRan ==
    \A a \in Attempts : attempts[a].verdict = "start_failed" => Of(a) \cap ran = {}

\* A Job that succeeded ended with its whole tree: nothing of it is left on
\* the machine, its primary ran and succeeded, its Lease is back.
SucceededHonest ==
    \A j \in Jobs : jobs[j].outcome = "succeeded" =>
        LET a == Current(j) IN
        /\ attempts[a].result = "succeeded" /\ attempts[a].lease = "released"
        /\ <<a[1], a[2], 0>> \in ran
        /\ \A i \in Of(a) : ~Alive(i)

\* A Job succeeds only when each of its configured postconditions ran to its
\* end and its exit code was classified as accepted.
SucceededValidated ==
    \A j \in Jobs : jobs[j].outcome = "succeeded" =>
        \A i \in Of(Current(j)) : i[3] > 0 => i \in ran /\ invocations[i].class = "accepted"

\* One Invocation of a Job is alive at a time: a retry or a postcondition
\* starts after the tree before it is proven gone.
OneTreePerJob ==
    \A i, k \in Invocations : Alive(i) /\ Alive(k) /\ i[1] = k[1] => i = k

\* User code of a Job runs only after each predecessor reached an outcome its
\* dependency asks for, which then stays.
DependenciesHold ==
    \A d \in After : (\E i \in ran : i[1] = d[1]) =>
        jobs[d[2]].state = "final" /\ Satisfied(d[3], jobs[d[2]].outcome)

\* A Containment becomes uncertain in a live daemon with its Job Object still
\* held, by the runner or by the reconciler, while anything in it is alive.
UncertainKeepsHandle ==
    \A i \in Invocations :
        /\ daemon.up /\ Uncertain(i) /\ invocations[i].generation = daemon.generation
        /\ Alive(i)
        => registry[i] \in {"live", "reconciler"}

\* A primary result is written once, and a final Job stays as it is.
RecordsStay ==
    [][/\ \A a \in Attempts : attempts[a].result # "none" => attempts'[a].result = attempts[a].result
       /\ \A j \in Jobs : jobs[j].state = "final" => jobs'[j] = jobs[j]]_vars

\* User code is released only while no cancel request of its Job is committed:
\* the last look at the request and ResumeThread are one hold of the mutex, so
\* a cancel that gets in between the two checks is never missed.
CancelFences ==
    [][\A i \in ran' \ ran : ~jobs[i[1]].cancel]_vars

\* A runner that locks the Store's mutex while it holds it.
LockedOut == \E j \in Jobs : runners[j].at = "relocking"

\* A cancel request on a running Job ends it: no path of the runner, no retry
\* and no unproven cleanup keeps the Job active, but for one: after a refused
\* start record the runner may wait for its own lock.
CancelSettles ==
    \A j \in Jobs : (jobs[j].state = "active" /\ jobs[j].cancel)
                      ~> (jobs[j].state = "final" \/ LockedOut)

\* What a live daemon cannot prove empty within its bound becomes uncertain:
\* each runner that gives up its wait gets to record it.
UncertaintyRecorded ==
    \A i \in Invocations :
        (i = Invocation(i[1]) /\ runners[i[1]].at \in {"unproven", "relocking"})
            ~> (invocations[i].cont = "uncertain")

\* A Lease that outlives its Attempt comes back: the reconciler gets its
\* evidence and no candidate is left behind.
LeaseReturns ==
    \A a \in Attempts :
        (attempts[a].lease = "granted" /\ attempts[a].state = "settled")
            ~> (attempts[a].lease = "released")
=============================================================================
