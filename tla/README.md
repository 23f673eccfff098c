# Stillyard in TLA+

Stillyard is a local scheduler for one Windows machine and the WSL distributions attached to it. It queues Jobs, admits them against the resources of the machine, runs each one inside a boundary of the operating system (a Job Object, or a Linux cgroup held by an executor), and does not give a resource back before it has proof that nothing in the boundary runs any more.

This directory models the parts of it where several actors, several durable stores and failures meet: the allocation protocol between the machine coordinator and its attached managers, and the life of a native Job on Windows. The modules were translated from the Rust code under `src/src`; `PROJECT.json` maps each definition to its lines.

Contents: [parts of the system](#parts-of-the-system), [hard behaviours](#hard-behaviours), [modules](#modules-and-the-code), [abstractions](#abstractions-and-assumptions), [runs](#runs), [bounds](#bounds), [fairness](#fairness), [findings](#findings), [proofs](#proofs), [not modelled](#what-is-not-modelled), [plan](#plan).

## Parts of the system

**Machine coordinator** (`store/machine*.rs`). State: `machine_grants`, `machine_candidates`, `machine_domains`, `machine_operations`, the challenges of connections and the snapshots of reconciliations, in SQLite. Operations: `machine_exchange` with its thirteen commands (advertise, withdraw and cancel a candidate, arm an Offer, authorize an Invocation, report uncertainty, release, acknowledge, inspect, page through the inventory, and begin, fill and commit a reconciliation), the two halves of a connection, the pass that expires and makes Offers, and the repair after a lost database. Talks to: attached managers, the authority registry.

**Authority registry** (`authority.rs`). State: a journal file outside SQLite with the permissions that may be in use, the retired allocations, one pending commit, high-water marks per domain, the store it is bound to, the reset gate and the epoch; and the start permissions of native Jobs. It exists so that the loss of the database never makes a running process invisible. Each operation that moves a right is written there first, to SQLite second, and is finished there last.

**Attached manager** (`machine/manager*.rs`, `store/attached/*.rs`, `daemon/attached.rs`). State: an outbox of commands, a copy of its Grants, its tickets and cleanup proofs, the progress of a reconnection, and local plans. Operations: plan, admit, cancel; hold a child, ask for its ticket, consume the ticket and release the child; clean up, seal, release; the maintenance turn that enqueues at most one command; the bridge worker that dials, proves, sends and applies replies.

**Local scheduler and Store** (`store/schedule.rs`, `lease.rs`, `lifecycle.rs`, `release.rs`, `recovery.rs`). State: Jobs, Attempts, Invocations, Leases, Containments. Operations: prepare the next Job, mark it started, record its result, settle it with or without a retry, cancel, recover at startup.

**Runner** (`runner/windows.rs`, `runner/lifecycle.rs`, `runner.rs`). One thread per Invocation, a registry of the Job Object handles. It launches suspended, journals, resumes, waits for exit, cancel or deadline, drains the Job Object, and hands what it cannot prove empty to the reconciler.

**Containment reconciliation** (`store/reconciliation.rs`, `daemon/reconciliation.rs`). Evidence on an uncertain boundary is read outside the Store's mutex and committed later; an operator may force a clearance.

**Queue policy** (`admission.rs`, `store/reservation.rs`, `store/machine_queue.rs`, `store/machine_reservation.rs`): priority bands with aging, scalar reservations. **Topology** (`admission/scoped.rs`, `resources.rs`). **Conditions and probes** (`store/condition.rs`). **Observed resources and quiet windows** (`store/admitting.rs`, `store/observation.rs`, `host_observation/`). **Submission** (`store/admission.rs`, `store/input.rs`, `spec.rs`). **Linux executor** (`runner/linux/`). **Retirement and clearance of domains** (`authority/retirement.rs`, `store/machine_clearance.rs`). **Reactor, transport, RPC** (`daemon/`, `protocol.rs`). **Identity and instance** (`identity.rs`, `instance.rs`, `bootstrap.rs`). **Clients and display** (`client.rs`, `tui.rs`, `main.rs`, `api.rs`).

## Hard behaviours

What a test hardly reaches here, in the order of the list in `PROJECT.json`:

- two stores and a crash, or a refused commit, between any two of their writes; SQLite replaced, or an older copy of it restored, while rights are out;
- lost replies, repeated requests, requests of a replaced connection, and an operation history at its limit;
- an Arm that crosses the expiry of its Offer; a seal that crosses the reply with a ticket; a reconciliation page from an older inventory;
- a lost connection, a cancel or a failed release between the consumption of a ticket and the release of the child;
- a daemon that dies between Lease and settlement, with or without a reboot; a tree that outlives the wait for it; evidence that is stale when it is committed; a Store write that fails half way through a settlement; a lock that is taken again on an error path;
- things that must come to an end: a journaled operation, a requested release, a cancel, a Lease whose Containment is uncertain.

## Modules and the code

| module | models |
| --- | --- |
| `TicketOrder` | the order of Invocation tickets within one allocation and the cover a seal must give them (`machine_ticket.rs`): pure operators, used by both sides |
| `Commands` | each command of `machine_exchange`: its outcome and the rows it writes; the offer pass |
| `Service` | the coordinator a manager is promised: one step per operation, one store, no crash |
| `Coordinator` | the coordinator as it is: SQLite, registry, journaling, crash, refused commit, lost and restored database, gate, repair |
| `CoordinatorService` | the refinement mapping from `Coordinator` to `Service` |
| `Manager` | the journal of an attached manager; each SQLite transaction is a function on it |
| `Attached` | plans, Leases, Invocations, boundaries and bridge worker of an attached manager, composed with `Manager` and `Service` |
| `Jobs` | native Jobs: scheduler, runner threads, Job Objects, reconciler, crash, reboot, recovery |
| `MC...` | small instances for TLC |
| `CoordinatorProofs`, `InventoryProofs` | the theorems |

`Attached` works against `Service` and not against `Coordinator`. That is what the refinement is for: `Coordinator` is shown to implement `Service`, so the managers' side need not carry the coordinator's two stores.

**Coordinator.** One exchange is three durable steps, as in `machine_allocation.rs:255-330`: `JournalExchange` (the registry takes the intent), `CommitExchange` (SQLite), `FinishExchange` (the registry drops the intent, the reply leaves); `ExecuteExchange` is the shorter path of commands that move no right and `ReplayExchange` answers from the history. `FailCommit` is a refused commit. `Crash` may come in any phase. A start is `BindCoordinator`, `ReconcilePending`, `FinishReconciled`, `ValidateHistory`; any of them may raise `gate`, after which only the repair proceeds: `PrepareReset` for one domain after the other, `RebuildSql`, `FinishRebuilt`, reconciliation by each manager, `CompleteReset`. `RestoreBackup` and `LoseStore` replace the database while the daemon is down. `replies` and `settled` are history variables: what a manager was ever told, and which keys SQLite ever committed as released.

**Attached.** A key is one plan of one Attempt. `Plan`, `Admit`, `Cancel` are `attached::prepare` and its queue; `Hold`, `Authorize`, `Ask`, `Retry`, `Start` are the release barrier (`machine/manager/release.rs`), where `Start` is the one hold of the journal in which the ticket is consumed and the child released; `Empty`, `Record`, `Resolve`, `Continue`, `GiveUp` and `Settle` are cleanup and settlement; `Maintain` is the maintenance turn; `Send`, `Serve`, `Receive`, `Disconnect`, `Dial`, `Prove`, `Greet` the bridge worker; `Restart` the manager's process.

**Jobs.** Each place of `runners[j].at` is a point between two calls of `run_inner`, `finish_completed_invocation` or `finish_failed_invocation`. The Store's mutex is `StoreFree`; the places in `Holding` keep it across two steps, because the code journals the permission and commits the row, or resolves the Invocation and records its result, under one lock. When the start record fails, `prestart_try!` runs while its guard is still held: `guarded` is the wait for the empty Job Object under the lock, and `relocking` the second lock of the same mutex, which never comes free (finding E). Such a runner stays where it is until the daemon ends. `evidence` is what the reactor or a force-clear request has read and not yet committed. `tree`, `killed` and `ran` are the operating system's.

## Abstractions and assumptions

- Digests and signatures are the values they are computed from. Names, command lines, specs, pages' byte sizes and wording are left out.
- Clocks are choices: an Offer may expire, a ticket be stale, a deadline have passed, a bounded wait end, whenever the code would look.
- A manager never sends one operation on two connections, so connection and sequence stand for the operation's identity.
- In `Coordinator` the managers' requests are those which `NewRequest` and `MaySend` allow: in order, for keys of their own domain, acknowledging only what they were answered.
- Claims are one scalar plus exclusive fences. The order in which the queue considers Jobs and candidates is left open, so every order the policy could choose is covered.
- `Jobs`, operating system: closing the last handle of a Job Object takes its tree as a whole; a tree whose root is gone is empty by the time a new daemon reconciles; a terminated tree goes away at the kernel's own time, its root perhaps first.
- `Jobs`, Store: at most `MaxFaults` calls fail, all of them writes but for the read before a postcondition (`Validate`), whose failure has a verdict of its own. The registry may refuse a start record without any call failing.
- `Jobs`, registry of handles: a runner hands over only its own live entry, so the error returns of `transfer_to_reconciler` are not met; a notification that cannot be spawned costs the reconciler a wake-up, and its periodic retry remains.

## Runs

| run | module, configuration | question | distinct states |
| --- | --- | --- | --- |
| crash | `MCCoordinator`, `Coordinator_crash.cfg` | one Grant from advertisement to release, history at its limit, a crash or a refused commit anywhere; two domains that compete, without a crash | 420 thousand |
| loss | `MCCoordinator`, `Coordinator_loss.cfg` | SQLite lost or restored at a crash, then the whole repair; a manager that reconnects in the middle of its work | 1 million |
| attempt | `MCAttached`, `Attached_attempt.cfg` | one Attempt with a postcondition, two lost connections, a restart | 950 thousand |
| pair | `MCAttached`, `Attached_pair.cfg` | two running allocations that are cleaned and released; liveness of the release | 300 thousand |
| validated | `MCJobs`, `Jobs_validated.cfg` | a Job with timeout, postcondition and retry; liveness of cancel and of the Lease | 200 thousand |
| order | `MCJobs`, `Jobs_order.cfg` | three Jobs in order on a machine with room for one | 1.2 million |
| faults | `MCJobs`, `Jobs_faults.cfg` | two failed Store calls anywhere | 750 thousand |
| offer, cancel | `MCAttached` | findings A and B | |
| handle, skipped, hang | `MCJobs` | findings C, D and E | |

What the properties say:

- **crash.** A right a manager was told of stays in the registry until a sealed release is committed (`DurableRights`); SQLite and the registry name the same rights whenever nothing is between them (`InventoriesAgree`); a sequence number has one outcome for ever (`OneOutcome`); a crash alone never closes admission (`CrashKeepsHistory`); Offers, Grants and rights fit the machine and its fences (`CapacityRespected`); the history keeps its limit (`HistoryBounded`); a right is dropped only for a seal that covers every ticket ever told (`DropNeedsProof`); the whole is seen as one step per operation (`ImplementsService`); a journaled operation is finished (`PendingResolved`).
- **loss.** `DurableRights` again, now through a lost database; no key ever committed as released comes back (`ReleasedForGood`); the epoch leaves behind only what is settled (`OldEpochsSettled`); the inductive invariant of the proofs (`StoresInStep`); `DropNeedsProof` through reconciliation pages; a replaced connection is never answered again (`StaleConnectionSilent`).
- **attempt.** Code that runs is charged at the coordinator, with a ticket for it (`RunningIsCharged`); a Lease is backed by a Grant and is let go after it (`LeaseBacked`); no proof denies that code ran (`SealsTruthful`); the handshake recognizes a continuous history (`HandshakeCovers`); no seal or reconciliation is rejected (`SealsAccepted`); the journal knows or intends all the coordinator holds (`KnownOrIntended`); code starts only on the present connection of a reconciled domain (`StartsFenced`).
- **pair.** `LeaseBacked` and `SealsAccepted` with two allocations, pages of one Grant and a compacted history; a requested release comes through (`ReleaseConverges`).
- **validated.** What may execute has its Lease and its permission, and a permission that stays behind has an Invocation that still needs it (`RunningCovered`); success means that each postcondition ran and accepted (`SucceededValidated`); no code is released once a cancel is recorded (`CancelFences`); a cancel ends its Job, with the one exception of a runner that waits for its own lock (`CancelSettles`); a Lease whose Containment is uncertain comes back (`LeaseReturns`; the run has one Job, and the runner of another one could wait for its own lock). `RunningCovered` and `SucceededValidated` rely on Store writes that succeed: with failed ones, findings C and D break them.
- **order.** `DependenciesHold`, and the trees on the machine fit it (`MachineFits`).
- **faults.** What holds even when Store calls fail: one tree of a Job lives at a time (`OneTreePerJob`), no Lease leaks (`LeaseAccounted`), `StartFailedNeverRan`, a success has left nothing behind (`SucceededHonest`), results and final Jobs stay (`RecordsStay`).

Each property of a passing run has a mutant in `PROJECT.json`: an operator, marked "Slip" in the module, which stands for a plausible bug and makes TLC report that property.

## Bounds

`MCCoordinator` draws the commands of a behaviour from *scenarios*. A scenario fixes once, at the start, which kinds of command appear, for which keys, and how far the counters go. `Life` is the whole course of a Grant without reconciliation, `Competition` two domains with three keys, an exclusive fence and room for two; `Repair` has what a repair needs, `Reconnection` a second connection with its pages and seals and neither crash nor loss. The crash run draws from the first two and the loss run from the other two. Within a scenario every interleaving and every argument is explored.

- *Sequence numbers 5 and 6*: advertise, arm, authorize, release, and one more, such as a replay past a release or an Acknowledge at a full history of 3. The reconnection has room for advertise, arm and authorize before it and for begin, one page and commit after it.
- *Two nonces*: an Offer that expires and its successor. *Two connections*: the one in use and its replacement.
- *One domain in the loss run*: a daemon that ends between the retirement of two domains, which `PrepareReset` allows, is covered by the proofs and not by a run. Rights reach the end of a repair (`CompleteReset`) as Grants; with a ticket that takes `sequence = 6` in `Repair`, where the same properties hold (4.5 million states, six minutes; not kept as a run).
- *One crash, one loss*: a second crash meets the same durable states, since all volatile state is gone after the first; a loss may follow any durable step.
- *Attached*: 14 operations are enough for one Attempt with a postcondition and two reconnections, whose pages, begin, records and commit count as operations; three connections let a second loss fall into the recovery from the first. The pair run starts in `RunningInit`, a state reached by advertising, inspecting, arming and authorizing both keys, so that its operations go to the release.
- *Jobs*: two generations (one crash, with or without a reboot), two Attempts, one postcondition, three Jobs for the order, of which the last, for which nothing waits, is not canceled.

The bounded models stop at their bounds, with every counter used up, and a queue of Jobs comes to an end when all of them are final; so deadlock is not checked. That nothing gets stuck on the way is what the liveness properties are for.

`View` in `MCAttached` hides the recorded operations that are not on the wire. No action of `Attached` looks at one: an operation is recorded once, and only the request on the wire is looked up. The pair run checks liveness and uses no view. Symmetry is not used.

## Fairness

- `Progress` (coordinator): weak fairness of the steps that the daemon takes by itself, once it is in the middle of an operation or of a start: commit, finish, bind, reconcile, validate. A crash or a refused commit needs no fairness; managers may fall silent. `ReconcilePending` in an idle daemon happens at the start of the next exchange or connection (`machine_allocation.rs:53`, `machine.rs:334`, `machine.rs:423`); its fairness is that of the manager whose exchange failed, whose worker reconnects for ever.
- `Attached`: the bridge worker is a thread which retries for ever with a bounded pause (`Dial`, `Greet`, `Send`, `Receive`), and the coordinator answers (`Serve`, `Prove`). Connections are lost a bounded number of times. Runner and scheduler need no fairness, since `ReleaseConverges` begins when the release is asked for.
- `Jobs`: the runner threads, the kernel's end of a terminated tree, the reactor's retry over candidates, the commit of evidence that was read, and the restart of the daemon. No root need exit by itself, no wait need fail, nobody need cancel or clear anything. `relocking` has no fair step, as the thread has none.

## Findings

Five places where a run shows the code doing what a comment or a document of the repository excludes. Each has its run; the quotes are in `PROJECT.json`.

- **A** (`offer`; `machine/manager/recovery.rs:246`): an Offer imported from an inventory outlives its expiry in the manager's rows, and the manager then refuses the coordinator's genuine replies on every connection.
- **B** (`cancel`; `store/attached/queue.rs:96`): a cancellation whose reply was lost is repeated with the same revision, rejected as stale every time, and is chosen before any other candidate is polled.
- **C** (`handle`; `runner/windows.rs:829`): when the first write of `uncertain` fails, the Job Object handle is dropped and recorded as retired without proof; the second write then succeeds, and the reconciler takes the retired handle for proof.
- **D** (`skipped`; `runner/lifecycle.rs:95`): one failed write after the primary's exit sends the settlement down a path that skips the configured postconditions; the Job is final as succeeded.
- **E** (`hang`; `runner/windows.rs:359`): the start record fails under the Store's mutex, the Job Object is not proven empty within its bound, and the path that should record the uncertainty locks the same mutex again: it is never recorded, and whoever needs the Store waits too. The run needs no failed write, since the registry may refuse a start record (a pending reset, the limit on permissions).

One more disagreement was met and has no run of its own. Recovery (`store/recovery.rs:183`) settles each `starting` Attempt as `start_failed` while its Containment is still uncertain. `docs/requirements.md:166` (R-RUN-5) asks for the platform's proof first. The verdict is true nonetheless in every state the runs reach (`StartFailedNeverRan`), because the start is committed before the process is resumed.

## Proofs

Proved for every value of the constants that satisfies `ConstantsAssumption` (keys are a finite set of positive numbers, claims and capacity are natural numbers, each key has a domain and an epoch):

- `CoordinatorProofs!TypeCorrect`: `Spec => []TypeOK`. Rows, copies, the journaled operation and the registry keep their types through each handler, each crash, restore and repair. It rests on one lemma per command (`ApplyCommandOK`: whatever the command, the rows it writes have their types) and one per durable step.
- `InventoryProofs!AlwaysInStep`: `Spec => []StoresInStep`.
- `InventoryProofs!AlwaysAgree`: `Spec => []InventoriesAgree`.

`InventoriesAgree` only speaks of an idle daemon with nothing journaled, so it is not inductive: it says nothing of the states between which an operation moves. `StoresInStep` says what holds in each phase. Before SQLite commits, the registry is SQLite overlaid with the journaled operation. After the commit, SQLite has all of it and the registry all but the releases. With an empty journal the two are the same, also in the phases of a connection. A start that has not been checked yet may disagree, but then the gate is up or the phase is one in which nothing is served. Each action is shown to lead from one of these to another; with `TypeOK` as a second hypothesis this is inductive, and `InventoriesAgree` is one of its cases. The loss run checks `StoresInStep` with TLC through the whole repair.

The argument shows where the code needs each of its checks: `IntentConsistent` is what makes `ReconcilePending` safe after a restore, `Continuous` together with `SameInventory` is what lets `ValidateHistory` open admission, and the pages' refusal of a retired key (`Proposable`) keeps a rebuilt inventory from reviving a released one.

Only model-checked: the liveness properties and the refinement of `Service` (its steps are matched by TLC only), the properties that speak of replies (`DurableRights`, `OneOutcome`, `DropNeedsProof`), and all of `Attached` and `Jobs`.

## What is not modelled

Every domain starts paired: pairing and bootstrap holds are left out, as is the retirement of a domain. The order of the queues (rank, aging, reservations) is left open rather than modelled. Conditions, probes, quiet windows, observed resources and the re-planning of an Attempt before its release are left out, so the Jobs of `Jobs` are those without them. Topology, submission, the executor's journal file and the reactor's wake-ups have no module yet. Framing, identity of processes and users, command lines, pipes, clients and display are input and output or the operating system's, and are not planned.

## Plan

In this order; the first three extend modules that exist.

1. Retirement and clearance of a domain in `Coordinator`: two more stores' worth of the same question, with a receipt that must survive a crash between them.
2. Guarded Jobs in `Jobs`: Conditions with probe results that come late, quiet windows, re-planning and `authorize_release`.
3. An operator's clearance in `Attached`, where a seal is refused when its ticket is known only from an inventory.
4. `ExecutorJournal`: the Linux executor's journal file, replaced while a record is written.
5. `QueueOrder`, `Reservation`: aging and scalar reservations as operators with a reference definition, and a small queue in which nothing starves.
6. `Reactor`: wake-ups and the backoff of reconciliation.
7. `Submission`: receipts and batches that are repeated.
8. Proofs: `DurableRights` (from an invariant which says that each outcome in the history, the copies, the journal and the replies is backed by the registry), then `TypeOK`, `RunningCovered` and `LeaseAccounted` of `Jobs`, then the refinement of `Service` step by step.
