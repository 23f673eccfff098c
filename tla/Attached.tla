------------------------------ MODULE Attached ------------------------------
(***************************************************************************)
(* An attached manager at work: its local plans, Leases and Invocations,   *)
(* the runner that holds each Invocation stopped until its ticket is       *)
(* consumed, the bridge worker that exchanges the journal's commands with  *)
(* the coordinator, and the coordinator as Service promises it.            *)
(*                                                                         *)
(* A key is one plan, of one Attempt; an Attempt that is planned again     *)
(* takes another key, and "final" says that the Attempt is over.  Clocks   *)
(* (readiness, ticket freshness, deadlines) are the environment's choice.  *)
(* The executor's boundary survives the manager; release barriers and the  *)
(* proof that a consumed ticket was never released do not.                 *)
(***************************************************************************)
EXTENDS Manager

CONSTANTS Work,            \* [Keys -> Seq(Invocations)]: primary, postconditions
          MaxSequence,     \* bound: operations the manager enqueues
          MaxConnection,   \* bound: connections
          MaxRestarts      \* bound: restarts of the manager

ASSUME WorkAssumption ==
    /\ \A k \in Keys : Work[k] \in Seq(Invocations) /\ Work[k] # <<>>
    /\ \A k \in Keys : \A n \in DOMAIN Work[k] : KeyOf[Work[k][n]] = k

VARIABLES
    plans,      \* attached_local_plans
    leases,     \* leases
    jobs,       \* jobs, attempts: pending, active or final
    canceled,   \* keys whose Job has cancel_requested
    phase,      \* invocations, and where the runner is with them
    contain,    \* containments: open until proven empty
    refused,    \* Invocations whose ticket request was durably refused
    boundary,   \* the executor's boundary and its journal
    sealed,     \* attached_local_cleanup: executor seals the Store has
    never,      \* proofs that a consumed ticket released nothing
    barrier,    \* the session of an Invocation's live release barrier, or 0
    ran,        \* history: Invocations whose user code ran
    link,       \* the bridge worker
    wire,       \* the request on its way to the coordinator
    connected,  \* attached_local_mode.connected
    restarts

lifeVars == <<plans, leases, jobs, canceled>>
runVars == <<phase, contain, refused, boundary, sealed, never, barrier, ran>>
linkVars == <<link, wire, connected>>
vars == <<rowVars, journal, lifeVars, runVars, linkVars, restarts>>

Plans == [stage : {"none", "planned", "committed"}, armed : BOOLEAN,
          pending : BOOLEAN, released : BOOLEAN]

NoPlan == [stage |-> "none", armed |-> FALSE, pending |-> FALSE, released |-> FALSE]

Init ==
    /\ StartRows
    /\ journal = FreshJournal
    /\ plans = [k \in Keys |-> NoPlan]
    /\ leases = [k \in Keys |-> "none"]
    /\ jobs = [k \in Keys |-> "pending"] /\ canceled = {}
    /\ phase = [i \in Invocations |-> "none"]
    /\ contain = [i \in Invocations |-> "none"]
    /\ boundary = [i \in Invocations |-> "none"]
    /\ refused = {} /\ sealed = {} /\ never = {} /\ ran = {}
    /\ barrier = [i \in Invocations |-> 0]
    /\ link = "up" /\ wire = {} /\ connected = TRUE /\ restarts = 0

InvocationsOf(k) == {i \in Invocations : KeyOf[i] = k}
Room(j) == j.applied + Len(j.outbox) < MaxSequence
-----------------------------------------------------------------------------
(* attached::prepare: a plan is advertised, and later becomes a Lease *)

Usable(k) == plans[k].armed /\ ~plans[k].released /\ ~plans[k].pending

Plan(k) ==
    /\ connected /\ Room(journal)
    /\ jobs[k] = "pending" /\ k \notin canceled
    /\ plans[k].stage = "none"
    /\ Cardinality({x \in Keys : plans[x].stage # "none" /\ ~plans[x].released})
          < DomainLimit
    /\ plans' = [plans EXCEPT ![k].stage = "planned"]
    /\ journal' = Enqueue(journal, [type |-> "upsert", key |-> k, revision |-> 1])
    /\ UNCHANGED <<rowVars, leases, jobs, canceled, runVars, linkVars, restarts>>

\* Slip: an advertised plan is admitted before it is armed.
AdmitUnarmed(k) ==
    /\ connected
    /\ jobs[k] = "pending" /\ k \notin canceled
    /\ plans[k].stage = "planned" /\ ~plans[k].released /\ ~plans[k].pending
    /\ plans' = [plans EXCEPT ![k].stage = "committed"]
    /\ leases' = [leases EXCEPT ![k] = "granted"]
    /\ jobs' = [jobs EXCEPT ![k] = "active"]
    /\ phase' = [phase EXCEPT ![Work[k][1]] = "prepared"]
    /\ contain' = [contain EXCEPT ![Work[k][1]] = "open"]
    /\ UNCHANGED <<rowVars, journal, canceled, refused, boundary, sealed, never,
                   barrier, ran, linkVars, restarts>>

Admit(k) ==
    /\ connected
    /\ jobs[k] = "pending" /\ k \notin canceled
    /\ plans[k].stage = "planned" /\ Usable(k)
    /\ plans' = [plans EXCEPT ![k].stage = "committed"]
    /\ leases' = [leases EXCEPT ![k] = "granted"]
    /\ jobs' = [jobs EXCEPT ![k] = "active"]
    /\ phase' = [phase EXCEPT ![Work[k][1]] = "prepared"]
    /\ contain' = [contain EXCEPT ![Work[k][1]] = "open"]
    /\ UNCHANGED <<rowVars, journal, canceled, refused, boundary, sealed, never,
                   barrier, ran, linkVars, restarts>>

Cancel(k) ==
    /\ k \notin canceled /\ jobs[k] # "final"
    /\ canceled' = canceled \cup {k}
    /\ jobs' = [jobs EXCEPT ![k] = IF @ = "pending" THEN "final" ELSE @]
    /\ UNCHANGED <<rowVars, journal, plans, leases, runVars, linkVars, restarts>>
-----------------------------------------------------------------------------
(* The runner of one Invocation *)

\* The boundary is journaled and the child prepared, stopped, inside it.
Hold(i) ==
    /\ phase[i] = "prepared"
    /\ leases[KeyOf[i]] = "granted" /\ Usable(KeyOf[i])
    /\ phase' = [phase EXCEPT ![i] = "held"]
    /\ boundary' = [boundary EXCEPT ![i] = "held"]
    /\ UNCHANGED <<rowVars, journal, lifeVars, contain, refused, sealed, never,
                   barrier, ran, linkVars, restarts>>

RoleOf(i) == IF i = Work[KeyOf[i]][1] THEN "primary" ELSE "postcondition"

IndexOf(i) ==
    LET n == CHOOSE n \in DOMAIN Work[KeyOf[i]] : Work[KeyOf[i]][n] = i
    IN IF n = 1 THEN 0 ELSE n - 2

LastTicket(k) ==
    LET tickets == journal.grants[k].tickets IN
    IF tickets = <<>> THEN {} ELSE {tickets[Len(tickets)].invocation}

PreviousCleanup(k) == UNION {journal.tickets[last].cleanup : last \in LastTicket(k)}

Authorize(i) ==
    [type |-> "authorize", key |-> KeyOf[i], nonce |-> journal.grants[KeyOf[i]].nonce,
     intent |-> [invocation |-> i, role |-> RoleOf(i), index |-> IndexOf(i),
                 previous |-> PreviousCleanup(KeyOf[i])]]

\* Nothing was created for it yet: the Invocation fails cleanly.
Fail(i) ==
    /\ phase[i] = "prepared"
    /\ phase' = [phase EXCEPT ![i] = "failed"]
    /\ contain' = [contain EXCEPT ![i] = "closed"]
    /\ UNCHANGED <<rowVars, journal, lifeVars, refused, boundary, sealed, never,
                   barrier, ran, linkVars, restarts>>

\* request_attached_ticket
Ask(i) ==
    LET k == KeyOf[i] IN
    /\ phase[i] = "held" /\ Room(journal)
    /\ leases[k] = "granted" /\ Usable(k)
    /\ journal.grants[k].state = "armed"
    /\ \A last \in LastTicket(k) : journal.tickets[last].cleanup # {}
    /\ MayEnqueue(journal, Authorize(i))
    /\ journal' = Enqueue(journal, Authorize(i))
    /\ phase' = [phase EXCEPT ![i] = "asked"]
    /\ UNCHANGED <<rowVars, lifeVars, contain, refused, boundary, sealed, never,
                   barrier, ran, linkVars, restarts>>

\* retry_waiting_attached_ticket: only a request whose refusal is durable is
\* repeated, with the same intent.
Retry(i) ==
    /\ phase[i] = "asked" /\ i \in refused /\ Room(journal)
    /\ journal.tickets[i] = NoTicket
    /\ journal.grants[KeyOf[i]].state = "armed"
    /\ MayEnqueue(journal, Authorize(i))
    /\ journal' = Enqueue(journal, Authorize(i))
    /\ refused' = refused \ {i}
    /\ UNCHANGED <<rowVars, lifeVars, phase, contain, boundary, sealed, never,
                   barrier, ran, linkVars, restarts>>

\* ReleaseBarrier::release with consume_ticket: under the barrier of the ticket's
\* own session, consumption commits and then the child is released, is known
\* not to have been, or the release fails without an answer.
Start(i) ==
    LET k == KeyOf[i] IN
    /\ phase[i] = "asked"
    /\ barrier[i] # 0 /\ barrier[i] = journal.tickets[i].session
    /\ connected /\ k \notin canceled /\ jobs[k] = "active"
    /\ plans[k].stage = "committed" /\ Usable(k) /\ leases[k] = "granted"
    /\ Consumable(journal, i)
    /\ journal' = [journal EXCEPT !.tickets[i].consumed = TRUE]
    /\ \/ /\ boundary' = [boundary EXCEPT ![i] = "running"] /\ ran' = ran \cup {i}
          /\ phase' \in {[phase EXCEPT ![i] = "started"], [phase EXCEPT ![i] = "stopped"]}
          /\ UNCHANGED never
       \/ /\ never' \in {never \cup {i}, never}
          /\ phase' = [phase EXCEPT ![i] = "stopped"]
          /\ UNCHANGED <<boundary, ran>>
    /\ UNCHANGED <<rowVars, lifeVars, contain, refused, sealed, barrier, linkVars,
                   restarts>>

\* LinuxRegistry::cleanup and reconcile: the boundary is killed, proven empty and
\* sealed in the executor's journal, by the runner or, later, the reconciler.
Empty(i) ==
    /\ boundary[i] \in {"held", "running"}
    /\ boundary' = [boundary EXCEPT ![i] = "empty"]
    /\ phase' = [phase EXCEPT ![i] = CASE @ \in {"held", "asked"} -> "stopped"
                                        [] @ = "started" -> "exited"
                                        [] OTHER -> @]
    /\ UNCHANGED <<rowVars, journal, lifeVars, contain, refused, sealed, never,
                   barrier, ran, linkVars, restarts>>

Proven(i) ==
    LET proven == [journal EXCEPT !.tickets[i].cleanup =
                      IF i \in never /\ journal.tickets[i] # NoTicket
                      THEN {[invocation |-> i, used |-> FALSE]} ELSE @]
    IN Cleaned(proven, sealed \cup {i})

\* Slip: the executor's seal is recorded while the boundary may still run.
RecordEarly(i) ==
    /\ boundary[i] # "none" /\ i \notin sealed
    /\ sealed' = sealed \cup {i}
    /\ journal' = Proven(i)
    /\ barrier' = [barrier EXCEPT ![i] = 0]
    /\ never' = never \ {i}
    /\ UNCHANGED <<rowVars, lifeVars, phase, contain, refused, boundary, ran,
                   linkVars, restarts>>

\* record_attached_cleanup: the seal reaches the Store, the barrier is retired.
Record(i) ==
    /\ boundary[i] = "empty" /\ i \notin sealed
    /\ sealed' = sealed \cup {i}
    /\ journal' = Proven(i)
    /\ barrier' = [barrier EXCEPT ![i] = 0]
    /\ never' = never \ {i}
    /\ UNCHANGED <<rowVars, lifeVars, phase, contain, refused, boundary, ran,
                   linkVars, restarts>>
-----------------------------------------------------------------------------
(* Settlement.  The trigger on leases turns every release of a Lease into   *)
(* release_pending until the coordinator has acknowledged it.               *)

RequestRelease(p, k) ==
    [p EXCEPT ![k].pending = @ \/ leases[k] = "granted"]

AllClosed(c, k) == \A i \in InvocationsOf(k) : c[i] # "open"

\* mark_invocation_resolved by the runner; commit_containment_resolution, which
\* also releases the Lease of a settled Attempt, by the reconciler.
Resolve(i) ==
    LET k == KeyOf[i] IN
    /\ i \in sealed /\ contain[i] = "open"
    /\ contain' = [contain EXCEPT ![i] = "closed"]
    /\ phase' = [phase EXCEPT ![i] = CASE @ = "exited" -> "done"
                                       [] OTHER -> "failed"]
    /\ plans' = IF jobs[k] = "final" /\ AllClosed(contain', k)
                THEN RequestRelease(plans, k) ELSE plans
    /\ UNCHANGED <<rowVars, journal, leases, jobs, canceled, refused, boundary,
                   sealed, never, barrier, ran, linkVars, restarts>>

\* Cleanup failed: the containment is left uncertain, to the reconciler.
GiveUp(i) ==
    /\ phase[i] \in {"prepared", "held", "asked", "started", "stopped", "exited"}
    /\ jobs[KeyOf[i]] = "active" /\ i \notin sealed
    /\ phase' = [phase EXCEPT ![i] = "failed"]
    /\ jobs' = [jobs EXCEPT ![KeyOf[i]] = "final"]
    /\ never' = never \ {i}
    /\ UNCHANGED <<rowVars, journal, plans, leases, canceled, contain, refused,
                   boundary, sealed, barrier, ran, linkVars, restarts>>

\* prepare_postcondition: after an Invocation that ran, the next one.
Continue(k) ==
    \E n \in 1..(Len(Work[k]) - 1) :
       LET next == Work[k][n + 1] IN
       /\ jobs[k] = "active" /\ k \notin canceled
       /\ phase[Work[k][n]] = "done" /\ phase[next] = "none"
       /\ leases[k] = "granted"
       /\ phase' = [phase EXCEPT ![next] = "prepared"]
       /\ contain' = [contain EXCEPT ![next] = "open"]
       /\ UNCHANGED <<rowVars, journal, lifeVars, refused, boundary, sealed, never,
                      barrier, ran, linkVars, restarts>>

\* settle_attempt and replan_never_run: the Attempt is over and its Lease is to
\* be released.
Settle(k) ==
    /\ jobs[k] = "active"
    /\ \A i \in InvocationsOf(k) : phase[i] \in {"none", "done", "failed"}
    /\ jobs' = [jobs EXCEPT ![k] = "final"]
    /\ plans' = IF AllClosed(contain, k) THEN RequestRelease(plans, k) ELSE plans
    /\ UNCHANGED <<rowVars, journal, leases, canceled, runVars, linkVars, restarts>>
-----------------------------------------------------------------------------
(* The bridge worker *)

\* acknowledge_settled: abandoned intents are forgotten once nothing they could
\* explain is outstanding.
Settled(j) ==
    IF \E k \in Keys : j.grants[k].state \in Outstanding THEN j
    ELSE [j EXCEPT !.abandoned = {c \in @ : c.type = "authorize" /\
             phase[c.intent.invocation] \notin {"done", "failed"}}]

ReadyReleases(j) ==
    {k \in Keys : /\ plans[k].pending /\ ~plans[k].released
                  /\ j.grants[k].state # "none" /\ j.grants[k].seal = {}
                  /\ \A i \in TicketsOf(j, k) : j.tickets[i].cleanup # {}}

Unsettled(k) == plans[k].stage = "planned" /\ ~plans[k].released /\ ~plans[k].pending

\* Plans that must be withdrawn whatever the clock says.
Withdrawn(k) == Unsettled(k) /\ (jobs[k] # "pending" \/ k \in canceled)

\* maintain: at most one operation a turn, in this order.  A plan may be stale
\* (not refreshed in time) or due for a poll whenever the clock says so.
Maintain ==
    LET j == Settled(journal) IN
    \/ /\ j.answered >= AckLimit
       /\ journal' = Enqueue(j, [type |-> "ack", through |-> j.applied])
       /\ UNCHANGED plans
    \/ /\ j.answered < AckLimit /\ ReadyReleases(j) # {}
       /\ LET k == Min(ReadyReleases(j)) IN
          Sealable(j, k) /\ journal' = SealRelease(j, k)
       /\ UNCHANGED plans
    \/ /\ j.answered < AckLimit /\ ReadyReleases(j) = {}
       /\ \E k \in Keys :
          \/ /\ Unsettled(k) /\ plans[k].armed /\ Sealable(j, k)
             /\ plans' = [plans EXCEPT ![k].pending = TRUE]
             /\ journal' = SealRelease(j, k)
          \/ /\ Unsettled(k) /\ ~plans[k].armed
             /\ journal' = Enqueue(j, [type |-> "cancel", key |-> k, revision |-> 2])
             /\ UNCHANGED plans
          \/ /\ \A x \in Keys : ~Withdrawn(x)
             /\ Unsettled(k) /\ ~plans[k].armed
             /\ \E c \in {[type |-> "inspect", key |-> k],
                          [type |-> "upsert", key |-> k, revision |-> 1]} :
                   journal' = Enqueue(j, c)
             /\ UNCHANGED plans

\* The request goes out; a ticket request takes a release barrier first.
Transmit(j) ==
    LET c == Head(j.outbox) IN
    /\ link' = "waiting" /\ wire' = {Asked(j)}
    /\ barrier' = IF c.type = "authorize"
                  THEN [barrier EXCEPT ![c.intent.invocation] = j.session] ELSE barrier
    /\ UNCHANGED <<connected, phase, contain, refused, boundary, sealed, never, ran>>

\* Driver::step, up to the exchange.
Send ==
    /\ link = "up" /\ (journal.outbox = <<>> => Room(journal))
    /\ IF journal.outbox # <<>> THEN UNCHANGED <<journal, plans>>
       ELSE IF InRecovery(journal)
       THEN /\ journal' = [journal EXCEPT !.outbox = RecoveryCommands(journal)]
            /\ UNCHANGED plans
       ELSE Maintain
    /\ Transmit(journal')
    /\ UNCHANGED <<rowVars, leases, jobs, canceled, restarts>>

\* The coordinator executes what reaches it, also after the worker gave up.
Serve ==
    /\ \E r \in wire : Execute(r)
    /\ UNCHANGED <<journal, lifeVars, runVars, linkVars, restarts>>

Final(outcome) == outcome.kind = "page" /\ outcome.next = 0
Synchronizes(outcome) == Final(outcome) \/ outcome.kind = "reconciled"

\* Slip: a Lease is let go only by a reply that names it.
FreedByName(j, outcome) ==
    (IF outcome.kind = "released" THEN {outcome.key} ELSE {})
      \cup (IF outcome.kind = "reconciled" THEN outcome.released ELSE {})

\* Slip: a reconciliation lets go every Lease whose release was asked for.
FreedWhenAsked(j, outcome) ==
    (IF outcome.kind = "released" THEN {outcome.key} ELSE {})
      \cup (IF outcome.kind = "reconciled" THEN {k \in Keys : plans[k].pending} ELSE {})
      \cup (IF Synchronizes(outcome)
            THEN {k \in Keys : j.grants[k].state = "released"} ELSE {})

\* The Leases an outcome lets go: released by name, or (synchronize) by absence
\* from the complete inventory.
Freed(j, outcome) ==
    (IF outcome.kind = "released" THEN {outcome.key} ELSE {})
      \cup (IF outcome.kind = "reconciled" THEN outcome.released ELSE {})
      \cup (IF Synchronizes(outcome)
            THEN {k \in Keys : j.grants[k].state = "released"} ELSE {})

Armed(j, outcome) ==
    (IF outcome.kind = "grant" /\ outcome.grant.state = "armed"
     THEN {outcome.key} ELSE {})
      \cup (IF Synchronizes(outcome)
            THEN {k \in Keys : j.grants[k].state \in Held} ELSE {})

Retired(c, outcome) ==
    IF outcome.kind = "accepted" /\ c.type = "cancel"
    THEN {k \in {c.key} : plans[k].stage = "planned"} ELSE {}

\* attached::accept returns no error: the journal takes the reply, and it fits
\* the local plans.
Fitting(c, outcome) ==
    /\ Acceptable(journal, outcome)
    /\ LET j == Answered(journal, outcome) IN
       /\ \A k \in Armed(j, outcome) :
             plans[k].stage # "none" /\ ~plans[k].released
       /\ outcome.kind = "grant" => \A k \in Armed(j, outcome) : ~plans[k].pending
       /\ outcome.kind = "accepted" /\ c.type = "cancel" => ~plans[c.key].armed
       /\ Synchronizes(outcome) =>
             \A k \in Freed(j, outcome) : leases[k] = "granted" => plans[k].pending

\* An inspected Offer is armed if the plan is still ready when the reply comes.
Armable(outcome) ==
    IF outcome.kind = "inspection" /\ outcome.grant.state = "offered"
    THEN {k \in {outcome.key} : /\ Unsettled(k) /\ ~Withdrawn(k)
                                /\ ~plans[k].armed} ELSE {}

PlansAfter(j, c, outcome) ==
    [k \in Keys |-> [plans[k] EXCEPT
        !.armed = @ \/ k \in Armed(j, outcome),
        !.released = @ \/ k \in Freed(j, outcome) \cup Retired(c, outcome)]]

\* Driver::step, after the exchange: one transaction takes the reply, changes
\* plans and Leases, and lets seals meet tickets.
Receive ==
    /\ link = "waiting"
    /\ \E r \in wire : \E o \in Recorded(r) :
       LET c == r.command
           outcome == o.outcome
           j == Answered(journal, outcome)
           refusal == IF c.type = "authorize" /\ outcome.kind = "rejected"
                      THEN {c.intent.invocation} ELSE {}
       IN /\ o.request = r /\ Fitting(c, outcome)
          /\ plans' = PlansAfter(j, c, outcome)
          /\ leases' = [k \in Keys |->
                IF k \in Freed(j, outcome) /\ plans[k].pending /\ leases[k] = "granted"
                THEN "released" ELSE leases[k]]
          /\ \E arm \in {{}, Armable(outcome)} :
                journal' = Cleaned(
                   IF arm = {} THEN j
                   ELSE Enqueue(j, [type |-> "arm", key |-> outcome.key,
                                    nonce |-> outcome.grant.nonce]), sealed)
          /\ refused' = refused \cup refusal
          /\ barrier' = [i \in Invocations |-> IF i \in refusal THEN 0 ELSE barrier[i]]
          /\ connected' = (connected \/ outcome.kind = "reconciled")
    /\ link' = "up" /\ wire' = {}
    /\ UNCHANGED <<rowVars, jobs, canceled, phase, contain, boundary, sealed, never,
                   ran, restarts>>
-----------------------------------------------------------------------------
(* Losing and making connections *)

\* Bound: a connection is left to replace the one that is lost.
Spare == Max({domains[Home].connection, domains[Home].challenge}) < MaxConnection

\* Slip: the release barriers outlive the connection.
DisconnectQuietly ==
    /\ link # "down" /\ Spare /\ link' = "down"
    /\ UNCHANGED <<rowVars, journal, lifeVars, runVars, wire, connected, restarts>>

\* Any error of the worker: a timeout, a refused reply, a closed pipe.
Disconnect ==
    /\ link # "down" /\ Spare /\ link' = "down"
    /\ connected' = FALSE
    /\ barrier' = [i \in Invocations |-> 0]
    /\ UNCHANGED <<rowVars, journal, lifeVars, phase, contain, refused, boundary,
                   sealed, never, ran, wire, restarts>>

\* Driver::connect, one exchange at a time: a challenge for a new connection,
\* its proof, and the session in the journal.
Dial ==
    /\ link = "down"
    /\ LET next == Max({domains[Home].connection, domains[Home].challenge}) + 1 IN
       Spare /\ Challenge(Home, next)
    /\ link' = "dialed"
    /\ UNCHANGED <<journal, lifeVars, runVars, wire, connected, restarts>>

\* The proof may arrive when the worker no longer waits for the answer.
Prove ==
    /\ Connect(Home)
    /\ link' = IF link = "dialed" THEN "greeted" ELSE link
    /\ UNCHANGED <<journal, lifeVars, runVars, wire, connected, restarts>>

Greet ==
    /\ link = "greeted"
    /\ Covered(journal, domains[Home])
    /\ journal' = Begun(journal, domains[Home])
    /\ link' = "up" /\ wire' = {}
    /\ UNCHANGED <<rowVars, lifeVars, runVars, connected, restarts>>

\* The manager's process ends and starts again: recover_interrupted settles
\* what was active, and the executor's durable seals reach the Store.
Restart ==
    /\ restarts < MaxRestarts /\ Spare /\ restarts' = restarts + 1
    /\ link' = "down" /\ connected' = FALSE
    /\ never' = {} /\ barrier' = [i \in Invocations |-> 0]
    /\ phase' = [i \in Invocations |->
                    IF phase[i] \in {"none", "done"} THEN phase[i] ELSE "failed"]
    /\ jobs' = [k \in Keys |-> IF jobs[k] = "active" THEN "final" ELSE jobs[k]]
    /\ plans' = [k \in Keys |-> [plans[k] EXCEPT
          !.pending = @ \/ (/\ leases[k] = "granted" /\ jobs'[k] = "final"
                            /\ AllClosed(contain, k))]]
    /\ sealed' = sealed \cup {i \in Invocations : boundary[i] = "empty"}
    /\ journal' = Cleaned(journal, sealed')
    /\ UNCHANGED <<rowVars, leases, canceled, contain, refused, boundary, ran, wire>>

\* The coordinator offers and expires, for this domain.
Schedule ==
    /\ \E due \in SUBSET Keys : \E offered \in SUBSET Keys : Offer(due, offered)
    /\ UNCHANGED <<journal, lifeVars, runVars, linkVars, restarts>>

Worker == Send \/ Receive \/ Dial \/ Greet \/ Disconnect
Runner(i) == Hold(i) \/ Fail(i) \/ Ask(i) \/ Retry(i) \/ Start(i) \/ Empty(i)
             \/ Record(i) \/ Resolve(i) \/ GiveUp(i)
Scheduler(k) == Plan(k) \/ Admit(k) \/ Cancel(k) \/ Continue(k) \/ Settle(k)

NextStep ==
    \/ Worker \/ Serve \/ Prove \/ Schedule \/ Restart
    \/ \E i \in Invocations : Runner(i)
    \/ \E k \in Keys : Scheduler(k)

AttachedSpec == Init /\ [][NextStep]_vars

\* The worker's thread retries for ever, and the coordinator serves requests.
Fairness ==
    /\ WF_vars(Send) /\ WF_vars(Receive) /\ WF_vars(Serve)
    /\ WF_vars(Dial) /\ WF_vars(Prove) /\ WF_vars(Greet)
-----------------------------------------------------------------------------
(* Properties *)

\* Every variable has its type.
TypeOK ==
    /\ journal.grants \in [Keys -> Grant]
    /\ journal.tickets \in [Invocations -> Ticket]
    /\ journal.outbox \in Seq(Command) /\ journal.abandoned \subseteq Command
    /\ journal.recovered \subseteq Invocations
    /\ plans \in [Keys -> Plans]
    /\ leases \in [Keys -> {"none", "granted", "released"}]
    /\ jobs \in [Keys -> {"pending", "active", "final"}] /\ canceled \subseteq Keys
    /\ phase \in [Invocations -> {"none", "prepared", "held", "asked", "started",
                                  "stopped", "exited", "done", "failed"}]
    /\ contain \in [Invocations -> {"none", "open", "closed"}]
    /\ boundary \in [Invocations -> {"none", "held", "running", "empty"}]
    /\ barrier \in [Invocations -> Nat]
    /\ refused \cup sealed \cup never \cup ran \subseteq Invocations
    /\ link \in {"down", "dialed", "greeted", "up", "waiting"}
    /\ connected \in BOOLEAN

\* Running user code is charged for: whatever was lost or restarted, while a
\* boundary runs code its allocation is held at the coordinator, with a ticket
\* for that Invocation.
RunningIsCharged ==
    \A i \in Invocations : boundary[i] = "running" =>
        /\ grants[KeyOf[i]].state \in Held
        /\ i \in Invoked(grants[KeyOf[i]].tickets)

\* A Lease is backed: until its release is asked for the coordinator holds the
\* Grant, and it is let go locally only after the coordinator released it.
LeaseBacked ==
    \A k \in Keys :
       /\ leases[k] = "granted" /\ ~plans[k].pending => grants[k].state \in Held
       /\ leases[k] = "released" => grants[k].state = "released"

\* A seal tells the truth: no cleanup proof, in the journal, in a seal or at the
\* coordinator, denies that user code ran.
SealsTruthful ==
    \A i \in Invocations : i \in ran =>
       LET k == KeyOf[i]
           proofs == journal.tickets[i].cleanup
                       \cup UNION {s.proofs : s \in journal.grants[k].seal \cup grants[k].seal}
                       \cup UNION {t.previous : t \in Range(grants[k].tickets)}
       IN \A p \in proofs : p.invocation = i => p.used

\* Starts are fenced: code starts only on the coordinator's present connection,
\* with the domain reconciled, and only once.
StartsFenced ==
    [][\A i \in ran' \ ran :
          /\ journal.tickets[i].session = domains[Home].connection
          /\ ~domains[Home].recovering
          /\ grants[KeyOf[i]].seal = {}]_vars

\* Continuous history is recognized: whatever was in flight when a connection
\* was lost, the handshake of the next one covers the journal.
HandshakeCovers == link = "greeted" => Covered(journal, domains[Home])

\* Seals are complete: the coordinator rejects no Release and no reconciliation
\* of this manager.
SealsAccepted ==
    \A r \in wire : \A o \in Recorded(r) :
       r.command.type \in {"release", "records", "commit"} => o.outcome.kind # "rejected"

\* Nothing is forgotten: what the coordinator holds for this domain is known to
\* the journal, or its durable intent still is.
KnownOrIntended ==
    \A k \in Keys : grants[k].state \in Held =>
       /\ \/ journal.grants[k].state \in Held
          \/ [type |-> "arm", key |-> k, nonce |-> grants[k].nonce] \in Intended(journal)
       /\ \A intent \in Range(grants[k].tickets) : KnownTicket(journal, k, grants[k].nonce, intent)

\* A release converges: once asked for, and whatever replies and processes are
\* lost, the coordinator releases the Grant and the Lease is let go.
ReleaseConverges ==
    \A k \in Keys : plans[k].pending /\ leases[k] = "granted"
                      ~> leases[k] = "released"

\* The worker can apply every reply the coordinator has recorded for it.
GenuineAccepted ==
    link = "waiting" => \A r \in wire : \A o \in Recorded(r) :
                           o.request = r => Fitting(r.command, o.outcome)

\* A cancellation comes to an end: the coordinator does not reject the one of a
\* Job that is over, since the manager repeats it unchanged, whatever else it
\* has to poll for.
CancelEnds ==
    \A r \in wire : \A o \in Recorded(r) :
       r.command.type = "cancel" /\ Withdrawn(r.command.key)
          => o.outcome.kind = "accepted"
=============================================================================
