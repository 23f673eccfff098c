----------------------------- MODULE Coordinator -----------------------------
(***************************************************************************)
(* The machine coordinator: the Grants of the attached execution domains,  *)
(* kept in two durable stores that fail independently.                     *)
(*                                                                         *)
(*   SQLite (the coordinator store)     : grants, candidates, domains,     *)
(*                                        operations, store, marker        *)
(*   the authority registry (a journal  : permissions, retired, pending,   *)
(*   file outside the store)              anchors, bound, gate, epoch      *)
(*                                                                         *)
(* An operation that moves a start right is journaled in the registry      *)
(* before SQLite commits it and finished there afterwards; a crash or a    *)
(* failed commit may fall between any two of these steps, and the SQLite   *)
(* file may come back lost, or as an older copy of itself.                 *)
(*                                                                         *)
(* The commands themselves are in Commands.  Every domain is paired.       *)
(***************************************************************************)
EXTENDS Commands

CONSTANTS MaxSequence, MaxConnection, MaxCrashes, MaxLosses  \* bounds

VARIABLES
    store,          \* the identity of this SQLite store
    marker,         \* machine_meta.reset_inventory: the reset rebuilt for
    permissions,    \* machine_permissions: rights that may be in use
    retired,        \* retired_allocations: keys that may never hold one again
    pending,        \* pending_machine_commit, as a set of at most one
    anchors,        \* participants: connection and sequence high-water marks
    bound,          \* the store the registry is bound to
    gate,           \* pending_reset: 0, or the identity of the reset
    phase,          \* where the daemon is between two durable steps
    current,        \* the operation it is executing, as a set of at most one
    backup,         \* a copy of SQLite that a restore may bring back
    settled,        \* history: the keys SQLite has committed as released
    replies,        \* every reply ever returned to a manager
    crashes, losses \* how often the daemon crashed, how often SQLite was lost

sqlVars == <<grants, candidates, domains, operations, store, marker>>
registryVars == <<permissions, retired, pending, anchors, bound, gate, epoch>>
volatileVars == <<phase, current>>
faultVars == <<backup, crashes, losses>>
historyVars == <<settled, replies>>
vars == <<sqlVars, registryVars, volatileVars, faultVars, minted, historyVars>>
-----------------------------------------------------------------------------
(* The two durable stores of one operation *)

Closed == gate # 0 \/ pending # {}

\* commit_grants and the acknowledged outcome: what the registry journals.
Prepared(result) ==
    \/ result.outcome.kind \in {"grant", "ticket", "released", "acknowledged"}
    \/ result.outcome.kind = "reconciled" /\ result.outcome.released # {}

\* proposed_machine_commit: no right for a retired key, no second right.
Proposable(result) ==
    /\ pending = {}
    /\ \A k \in DOMAIN result.saved : result.saved[k].state # "released" =>
          /\ k \notin retired
          /\ permissions[k] = NoGrant \/ permissions[k].nonce = result.saved[k].nonce

\* Slip: the candidate rows are forgotten.
ApplySqlGrantsOnly(i) ==
    /\ ApplyRows([request |-> i.request, result |-> [i.result EXCEPT !.cands = NoRows]])
    /\ settled' = settled \cup {k \in DOMAIN i.result.saved :
                                    i.result.saved[k].state = "released"}
    /\ UNCHANGED <<store, marker>>

ApplySql(i) ==
    /\ ApplyRows(i)
    /\ settled' = settled \cup {k \in DOMAIN i.result.saved :
                                    i.result.saved[k].state = "released"}
    /\ UNCHANGED <<store, marker>>

\* checkpoint_machine_sequence.
Checkpoint(a, sequence) ==
    [a EXCEPT !.accepted = IF sequence > @ THEN sequence ELSE @]

\* Slip: the intent is journaled, the permission is not.
JournalIntentOnly(i) == pending' = {i} /\ UNCHANGED permissions

\* prepare_machine_commit: every non-released Grant becomes a permission.
JournalIntent(i) ==
    /\ pending' = {i}
    /\ permissions' = [k \in Keys |->
          IF k \in DOMAIN i.result.saved /\ i.result.saved[k].state # "released"
          THEN i.result.saved[k] ELSE permissions[k]]

\* Slip: a released right stays in the registry.
FinishIntentKeeping(i) ==
    /\ pending' = {}
    /\ anchors' = [anchors EXCEPT ![i.request.domain] = Checkpoint(@, i.request.sequence)]
    /\ UNCHANGED <<permissions, retired>>

\* finish_machine_commit: released rights leave, the sequence is checkpointed.
FinishIntent(i) ==
    LET released == {k \in DOMAIN i.result.saved :
                        i.result.saved[k].state = "released"}
        a == Checkpoint(anchors[i.request.domain], i.request.sequence)
        out == i.result.outcome
    IN /\ permissions' = [k \in Keys |-> IF k \in released THEN NoGrant
                                                           ELSE permissions[k]]
       /\ retired' = retired \cup released
       /\ pending' = {}
       /\ anchors' = [anchors EXCEPT ![i.request.domain] =
             IF out.kind = "acknowledged" /\ out.through > a.floor
             THEN [a EXCEPT !.floor = out.through] ELSE a]

\* compact_machine_retirements, at the start of every exchange: SQLite holds
\* the released row itself.
Compacted ==
    IF pending = {} /\ gate = 0 /\ store = bound
    THEN {k \in retired : grants[k].state # "released"} ELSE retired

\* reconcile_pending_machine_commit has nothing to do.
NothingToReconcile == pending = {} \/ gate # 0 \/ store # bound

Serving == phase = "idle" /\ NothingToReconcile

\* Slip: any connection of a paired domain is served.
AdmittedAny(r) == r.connection # 0 /\ domains[r.domain].paired

\* The session is the registry's and SQLite's current connection.
Admitted(r) ==
    /\ r.connection # 0 /\ anchors[r.domain].session = r.connection
    /\ domains[r.domain].paired
    /\ domains[r.domain].connection = r.connection
-----------------------------------------------------------------------------
(* machine_exchange *)

\* A new operation that the registry need not know of.
ExecuteExchange(r) ==
    /\ Serving /\ Admitted(r) /\ NextInSequence(r)
    /\ \E fresh \in BOOLEAN :
          LET result == ApplyCommand(r, ~Closed, fresh)
              i == [request |-> r, result |-> result]
          IN /\ ~Prepared(result)
             /\ ApplySql(i)
             /\ current' = {i}
    /\ phase' = "committed"
    /\ retired' = Compacted
    /\ UNCHANGED <<permissions, pending, anchors, bound, gate, epoch, faultVars,
                   minted, replies>>

\* A new operation that moves a right: the registry journals it first.
JournalExchange(r) ==
    /\ Serving /\ Admitted(r) /\ NextInSequence(r)
    /\ \E fresh \in BOOLEAN :
          LET result == ApplyCommand(r, ~Closed, fresh)
              i == [request |-> r, result |-> result]
          IN /\ Prepared(result)
             /\ Proposable(result)
             /\ JournalIntent(i)
             /\ current' = {i}
    /\ phase' = "journaled"
    /\ retired' = Compacted
    /\ UNCHANGED <<sqlVars, anchors, bound, gate, epoch, faultVars, minted,
                   historyVars>>

\* Slip: a repeated request is evaluated again.
ReplayExchangeAnew(r) ==
    /\ Serving /\ Admitted(r)
    /\ \E o \in Recorded(r) : \E fresh \in BOOLEAN :
          /\ o.request = r
          /\ replies' = replies \cup
                {[request |-> r, outcome |-> ApplyCommand(r, ~Closed, fresh).outcome]}
    /\ UNCHANGED <<sqlVars, registryVars, volatileVars, faultVars, minted, settled>>

\* An operation already recorded returns its outcome; an acknowledgement is
\* journaled again before it does.
ReplayExchange(r) ==
    /\ Serving /\ Admitted(r)
    /\ retired' = Compacted
    /\ \E o \in Recorded(r) :
          LET i == [request |-> r, result |-> Result(o.outcome, NoRows, NoRows)]
          IN /\ o.request = r
             /\ IF o.outcome.kind = "acknowledged"
                THEN /\ pending = {}
                     /\ JournalIntent(i)
                     /\ current' = {i}
                     /\ phase' = "journaled"
                     /\ UNCHANGED <<anchors, replies>>
                ELSE /\ anchors' = [anchors EXCEPT ![r.domain] =
                                       Checkpoint(@, r.sequence)]
                     /\ replies' = replies \cup {o}
                     /\ UNCHANGED <<permissions, pending, volatileVars>>
    /\ UNCHANGED <<sqlVars, bound, gate, epoch, faultVars, minted, settled>>

\* SQLite commits; a replayed acknowledgement has nothing left to write.
CommitExchange ==
    /\ phase = "journaled"
    /\ \E i \in current :
          IF Recorded(i.request) # {}
          THEN UNCHANGED <<sqlVars, settled>>
          ELSE ApplySql(i)
    /\ phase' = "committed"
    /\ UNCHANGED <<registryVars, current, faultVars, minted, replies>>

\* SQLite refuses the commit (the daemon survives, the intent stays).
FailCommit ==
    /\ phase \in {"journaled", "session"}
    /\ phase' = "idle" /\ current' = {}
    /\ UNCHANGED <<sqlVars, registryVars, faultVars, minted, historyVars>>

\* The registry finishes the intent, or checkpoints the sequence, and the
\* manager receives its reply.
FinishExchange ==
    /\ phase = "committed"
    /\ IF current \subseteq pending
       THEN \E i \in pending : FinishIntent(i)
       ELSE /\ \E i \in current :
                  anchors' = [anchors EXCEPT ![i.request.domain] =
                                 Checkpoint(@, i.request.sequence)]
            /\ UNCHANGED <<permissions, retired, pending>>
    /\ replies' = replies \cup {[request |-> i.request, outcome |-> i.result.outcome] :
                                    i \in current}
    /\ phase' = "idle" /\ current' = {}
    /\ UNCHANGED <<sqlVars, bound, gate, epoch, faultVars, minted, settled>>
-----------------------------------------------------------------------------
(* Connections *)

\* machine_connect_begin reserves a connection epoch that no later
\* connection reuses; SQLite then replaces any challenge still open, unless
\* its commit fails.
ConnectBegin(d) ==
    LET reserved == 1 + IF domains[d].connection > anchors[d].next
                        THEN domains[d].connection ELSE anchors[d].next
    IN /\ Serving
       /\ domains[d].paired
       /\ reserved <= MaxConnection
       /\ anchors' = [anchors EXCEPT ![d].next = reserved]
       /\ domains' \in {domains, [domains EXCEPT ![d].challenge = reserved]}
       /\ UNCHANGED <<grants, candidates, operations, store, marker, permissions,
                      retired, pending, bound, gate, epoch, volatileVars,
                      faultVars, minted, historyVars>>

ConnectRequest(d, connection) ==
    [domain |-> d, connection |-> connection, sequence |-> 0,
     command |-> [type |-> "connect"]]

\* machine_connect_finish: accept_machine_session in the registry...
ConnectFinish(d, connection) ==
    /\ Serving
    /\ domains[d].challenge = connection /\ connection # 0
    /\ \/ anchors[d].session = connection
       \/ anchors[d].next = connection /\ anchors[d].session < connection
    /\ anchors' = [anchors EXCEPT ![d].session = connection]
    /\ phase' = "session"
    /\ current' = {[request |-> ConnectRequest(d, connection),
                    result |-> Result([kind |-> "connected"], NoRows, NoRows)]}
    /\ UNCHANGED <<sqlVars, permissions, retired, pending, bound, gate, epoch,
                   faultVars, minted, historyVars>>

\* ...then SQLite: the domain must reconcile before it may do anything else.
ConnectCommit ==
    /\ phase = "session"
    /\ \E i \in current :
          LET d == i.request.domain
              connection == i.request.connection
          IN /\ domains[d].connection < connection
             /\ domains' = [domains EXCEPT
                   ![d].connection = connection, ![d].recovering = TRUE,
                   ![d].challenge = 0, ![d].snapshot = {}]
             /\ replies' = replies \cup
                   {[request |-> i.request,
                     outcome |-> [kind |-> "connected", floor |-> domains[d].floor,
                                  accepted |-> domains[d].accepted]]}
    /\ phase' = "idle" /\ current' = {}
    /\ UNCHANGED <<grants, candidates, operations, store, marker, registryVars,
                   faultVars, minted, settled>>
-----------------------------------------------------------------------------
(* The scheduler's pass over the machine queue *)

Schedule(due, offered) ==
    /\ Serving /\ ~Closed
    /\ OfferRows(due, offered)
    /\ UNCHANGED <<candidates, domains, operations, store, marker, registryVars,
                   volatileVars, faultVars, historyVars>>
-----------------------------------------------------------------------------
(* Crash and startup (attach_authority) *)

Sql == [grants |-> grants, candidates |-> candidates, domains |-> domains,
        operations |-> operations, store |-> store, marker |-> marker]

Crash ==
    /\ phase # "down" /\ crashes < MaxCrashes
    /\ phase' = "down" /\ current' = {} /\ crashes' = crashes + 1
    /\ UNCHANGED <<sqlVars, registryVars, backup, losses, minted, historyVars>>

\* The database file is copied; a later restore may bring the copy back.
TakeBackup ==
    /\ phase = "idle" /\ losses < MaxLosses
    /\ backup' = Sql
    /\ UNCHANGED <<sqlVars, registryVars, volatileVars, crashes, losses, minted,
                   historyVars>>

RestoreBackup ==
    /\ phase = "down" /\ losses < MaxLosses
    /\ losses' = losses + 1
    /\ grants' = backup.grants /\ candidates' = backup.candidates
    /\ domains' = backup.domains /\ operations' = backup.operations
    /\ store' = backup.store /\ marker' = backup.marker
    /\ UNCHANGED <<registryVars, volatileVars, backup, crashes, minted,
                   historyVars>>

UnpairedDomain == [paired |-> FALSE, connection |-> 0, recovering |-> TRUE,
                   accepted |-> 0, floor |-> 0, challenge |-> 0, snapshot |-> {}]

\* A fresh database replaces the store.
LoseStore ==
    /\ phase = "down" /\ losses < MaxLosses
    /\ losses' = losses + 1
    /\ grants' = [k \in Keys |-> NoGrant]
    /\ candidates' = [k \in Keys |-> NoCandidate]
    /\ domains' = [d \in Domains |-> UnpairedDomain]
    /\ operations' = {} /\ marker' = 0
    /\ store' = losses + 1
    /\ UNCHANGED <<registryVars, volatileVars, backup, crashes, minted, historyVars>>

\* record_reset; a reset already pending keeps its identity.
ResetRecorded == IF gate = 0 THEN epoch + 1 ELSE gate

\* Slip: a replaced store keeps the Grants and starts without their tickets.
BindCoordinatorTicketless ==
    /\ phase = "down"
    /\ gate' = IF store # bound THEN ResetRecorded ELSE gate
    /\ permissions' = IF store # bound
                      THEN [k \in Keys |-> [permissions[k] EXCEPT !.tickets = <<>>]]
                      ELSE permissions
    /\ phase' = "bound"
    /\ UNCHANGED <<sqlVars, retired, pending, anchors, bound, epoch, current, faultVars,
                   minted, historyVars>>

\* bind_coordinator.
BindCoordinator ==
    /\ phase = "down"
    /\ gate' = IF store # bound THEN ResetRecorded ELSE gate
    /\ phase' = "bound"
    /\ UNCHANGED <<sqlVars, permissions, retired, pending, anchors, bound, epoch,
                   current, faultVars, minted, historyVars>>

\* Slip: an operation SQLite has not recorded counts as lost history.
IntentRecorded(i) ==
    [request |-> i.request, outcome |-> i.result.outcome] \in Recorded(i.request)

\* The journaled operation is next, or is the last one SQLite recorded.
IntentConsistent(i) ==
    LET d == domains[i.request.domain] IN
    /\ d.paired
    /\ IF Recorded(i.request) = {}
       THEN d.accepted + 1 = i.request.sequence
       ELSE /\ [request |-> i.request, outcome |-> i.result.outcome] \in Recorded(i.request)
            /\ d.accepted = i.request.sequence
    /\ \A k \in DOMAIN i.result.saved :
          /\ grants[k].state # "none"
          /\ Recorded(i.request) # {} => grants[k] = i.result.saved[k]

\* Slip: a journaled operation is left for the next start.
ReconcileAtStart ==
    /\ phase = "bound"
    /\ IF NothingToReconcile
       THEN phase' = "checked" /\ UNCHANGED <<sqlVars, settled, gate>>
       ELSE \E i \in pending :
              IF IntentConsistent(i)
              THEN /\ IF Recorded(i.request) = {}
                      THEN ApplySql(i) ELSE UNCHANGED <<sqlVars, settled>>
                   /\ phase' = "applied" /\ UNCHANGED gate
              ELSE /\ gate' = ResetRecorded /\ phase' = "checked"
                   /\ UNCHANGED <<sqlVars, settled>>
    /\ UNCHANGED <<permissions, retired, pending, anchors, bound, epoch, current,
                   faultVars, minted, replies>>

\* reconcile_pending_machine_commit, at startup and before every handler: the
\* journaled operation is applied, or history is declared lost.
ReconcilePending ==
    /\ phase \in {"bound", "idle"}
    /\ IF NothingToReconcile
       THEN /\ phase = "bound" /\ phase' = "checked"
            /\ UNCHANGED <<sqlVars, settled, gate>>
       ELSE \E i \in pending :
              IF IntentConsistent(i)
              THEN /\ IF Recorded(i.request) = {}
                      THEN ApplySql(i) ELSE UNCHANGED <<sqlVars, settled>>
                   /\ phase' = IF phase = "bound" THEN "applied" ELSE "committed"
                   /\ UNCHANGED gate
              ELSE /\ gate' = ResetRecorded
                   /\ phase' = IF phase = "bound" THEN "checked" ELSE "idle"
                   /\ UNCHANGED <<sqlVars, settled>>
    /\ UNCHANGED <<permissions, retired, pending, anchors, bound, epoch, current,
                   faultVars, minted, replies>>

FinishReconciled ==
    /\ phase = "applied"
    /\ \E i \in pending : FinishIntent(i)
    /\ phase' = "checked"
    /\ UNCHANGED <<sqlVars, bound, gate, epoch, current, faultVars, minted,
                   historyVars>>

\* Slip: the registry's checkpoints are not compared.
ContinuousIfPaired(d) == domains[d].paired

\* SQLite reaches every checkpoint of the domain's anchor.
Continuous(d) ==
    /\ domains[d].paired
    /\ domains[d].accepted >= anchors[d].accepted
    /\ domains[d].floor >= anchors[d].floor
    /\ domains[d].connection <= anchors[d].next
    /\ anchors[d].session # 0 => domains[d].connection <= anchors[d].session

SameInventory ==
    \A k \in Keys : permissions[k] = IF grants[k].state \in Held THEN grants[k]
                                                                 ELSE NoGrant

\* validate_machine_history: domains are checkpointed until one is not
\* continuous; then the inventories are compared.
ValidateHistory ==
    /\ phase = "checked"
    /\ phase' = "idle"
    /\ IF gate # 0
       THEN UNCHANGED <<gate, anchors>>
       ELSE \E seen \in SUBSET {d \in Domains : Continuous(d)} :
              /\ (\A d \in Domains : Continuous(d)) => seen = Domains
              /\ anchors' = [d \in Domains |->
                    IF d \in seen THEN Checkpoint(anchors[d], domains[d].accepted)
                                  ELSE anchors[d]]
              /\ gate' = IF seen = Domains /\ SameInventory THEN 0 ELSE ResetRecorded
    /\ UNCHANGED <<sqlVars, permissions, retired, pending, bound, epoch, current,
                   faultVars, minted, historyVars>>
-----------------------------------------------------------------------------
(* Recovery from a reset: rebuild SQLite from the registry, then wait for  *)
(* every right to be released before the epoch is rotated.                 *)

PendingSequence(d) ==
    IF \E i \in pending : i.request.domain = d
    THEN (CHOOSE i \in pending : i.request.domain = d).request.sequence ELSE 0

\* prepare_machine_reset_recovery: the registry retires the sequences of one
\* domain after the other, and a daemon may end between two of them...
PrepareReset ==
    /\ \/ phase = "idle" /\ gate # 0 /\ ~ (marker = gate /\ pending = {})
       \/ phase = "rebuilding"
    /\ \E d \in Domains :
          LET a == Checkpoint(anchors[d], PendingSequence(d))
          IN anchors' = [anchors EXCEPT ![d] = [a EXCEPT !.floor = a.accepted]]
    /\ phase' = "rebuilding"
    /\ UNCHANGED <<sqlVars, permissions, retired, pending, bound, gate, epoch,
                   current, faultVars, minted, historyVars>>

AllRetired ==
    \A d \in Domains : /\ anchors[d].accepted >= PendingSequence(d)
                       /\ anchors[d].floor = anchors[d].accepted

\* ...and SQLite is rebuilt from the permissions and the journaled operation.
RebuildSql ==
    LET journaled == UNION {DOMAIN i.result.saved : i \in pending}
        Rebuilt(k) == IF k \in journaled
                      THEN (CHOOSE i \in pending : k \in DOMAIN i.result.saved).result.saved[k]
                      ELSE permissions[k]
    IN /\ phase = "rebuilding" /\ AllRetired
       /\ grants' = [k \in Keys |-> Rebuilt(k)]
       /\ candidates' = [k \in Keys |->
             [state |-> CASE Rebuilt(k).state = "none" -> "none"
                          [] Rebuilt(k).state = "released" -> "released"
                          [] OTHER -> "withdrawn",
              revision |-> Rebuilt(k).revision]]
       /\ domains' = [d \in Domains |->
             [paired |-> TRUE, connection |-> anchors[d].session,
              recovering |-> TRUE, accepted |-> anchors[d].accepted,
              floor |-> anchors[d].accepted, challenge |-> 0, snapshot |-> {}]]
       /\ operations' = {[request |-> i.request, outcome |-> i.result.outcome] :
                            i \in pending}
       /\ settled' = settled \cup {k \in Keys : Rebuilt(k).state = "released"}
       /\ marker' = gate
       /\ phase' = IF pending = {} THEN "idle" ELSE "rebuilt"
       /\ UNCHANGED <<store, registryVars, current, faultVars, minted, replies>>

FinishRebuilt ==
    /\ phase = "rebuilt"
    /\ \E i \in pending : FinishIntent(i)
    /\ phase' = "idle"
    /\ UNCHANGED <<sqlVars, bound, gate, epoch, current, faultVars, minted,
                   historyVars>>

\* Slip: the gate opens once SQLite is rebuilt.
CompleteResetEarly ==
    /\ phase = "idle" /\ gate # 0 /\ marker = gate
    /\ epoch' = epoch + 1
    /\ retired' = {}
    /\ bound' = store
    /\ gate' = 0
    /\ anchors' = [d \in Domains |-> [anchors[d] EXCEPT !.session = 0]]
    /\ UNCHANGED <<sqlVars, permissions, pending, volatileVars, faultVars, minted,
                   historyVars>>

\* finish_machine_reset_recovery and complete_machine_reset, once the platform
\* proves that no native process of the lost history is left.
CompleteReset ==
    /\ phase = "idle" /\ gate # 0 /\ marker = gate
    /\ pending = {}
    /\ \A d \in Domains : ~domains[d].recovering
    /\ Charged(grants) = {}
    /\ \A k \in Keys : permissions[k] = NoGrant
    /\ epoch' = epoch + 1
    /\ retired' = {}
    /\ bound' = store
    /\ gate' = 0
    /\ anchors' = [d \in Domains |-> [anchors[d] EXCEPT !.session = 0]]
    /\ UNCHANGED <<sqlVars, permissions, pending, volatileVars, faultVars, minted,
                   historyVars>>
-----------------------------------------------------------------------------
(* The specification *)

Init ==
    /\ StartRows /\ store = 0 /\ marker = 0
    /\ permissions = [k \in Keys |-> NoGrant]
    /\ retired = {} /\ pending = {}
    /\ anchors = [d \in Domains |->
          [next |-> 1, session |-> 1, accepted |-> 0, floor |-> 0]]
    /\ bound = 0 /\ gate = 0
    /\ phase = "idle" /\ current = {}
    /\ backup = Sql
    /\ settled = {} /\ replies = {} /\ crashes = 0 /\ losses = 0

\* The steps the coordinator takes without being asked.
Internal ==
    \/ CommitExchange \/ FailCommit \/ FinishExchange \/ ConnectCommit
    \/ \E due \in SUBSET {k \in Keys : grants[k].state = "offered"} :
          \E offered \in SUBSET {k \in Keys : Offerable(k)} : Schedule(due, offered)
    \/ Crash \/ TakeBackup \/ RestoreBackup \/ LoseStore
    \/ BindCoordinator \/ ReconcilePending \/ FinishReconciled \/ ValidateHistory
    \/ PrepareReset \/ RebuildSql \/ FinishRebuilt \/ CompleteReset

Exchange(r) == ExecuteExchange(r) \/ JournalExchange(r) \/ ReplayExchange(r)

\* A request on another connection or out of sequence is refused without
\* effect.  A manager has one request in flight, so it sends the next one or
\* repeats its last, and it never gives a sequence number whose reply it has
\* applied to another operation (machine/manager.rs; recovery::begin refuses a
\* coordinator that has gone back).
NewRequest(d, c) ==
    [domain |-> d, connection |-> domains[d].connection,
     sequence |-> domains[d].accepted + 1, command |-> c]

MaySend(d) ==
    /\ domains[d].accepted < MaxSequence
    /\ \A reply \in replies : reply.request.domain = d
                               => reply.request.sequence <= domains[d].accepted

Repeatable == {o \in operations : o.request.sequence = domains[o.request.domain].accepted}

Next ==
    \/ Internal
    \/ \E d \in Domains : \E c \in Command : MaySend(d) /\ Exchange(NewRequest(d, c))
    \/ \E o \in Repeatable : ReplayExchange(o.request)
    \/ \E d \in Domains : ConnectBegin(d)
    \/ \E d \in Domains : ConnectFinish(d, domains[d].challenge)

Spec == Init /\ [][Next]_vars

\* The daemon goes on: a started handler runs to its end, startup runs through,
\* and a manager whose exchange failed comes back, which reconciles the journal.
Progress ==
    /\ WF_vars(CommitExchange) /\ WF_vars(FinishExchange) /\ WF_vars(ConnectCommit)
    /\ WF_vars(BindCoordinator) /\ WF_vars(ReconcilePending)
    /\ WF_vars(FinishReconciled) /\ WF_vars(ValidateHistory)
-----------------------------------------------------------------------------
(* Properties *)

DomainRow == [paired : BOOLEAN, connection : Nat, recovering : BOOLEAN,
              accepted : Nat, floor : Nat, challenge : Nat,
              snapshot : SUBSET [digest : Seq(SUBSET Allocation),
                                 pages : Seq(SUBSET Allocation)]]

RequestOK(r) ==
    /\ r.domain \in Domains /\ r.connection \in Nat /\ r.sequence \in Nat
    /\ r.command \in Command \cup {[type |-> "connect"]}

OutcomeOK(out) == out.kind = "acknowledged" => out.through \in Nat

RowsOK(rows, S) == DOMAIN rows \subseteq Keys /\ \A k \in DOMAIN rows : rows[k] \in S

IntentOK(i) ==
    /\ RequestOK(i.request) /\ OutcomeOK(i.result.outcome)
    /\ RowsOK(i.result.saved, Grant) /\ RowsOK(i.result.cands, Candidate)

SqlOK(s) ==
    /\ s.grants \in [Keys -> Grant]
    /\ s.candidates \in [Keys -> Candidate]
    /\ s.domains \in [Domains -> DomainRow]
    /\ \A o \in s.operations : RequestOK(o.request) /\ OutcomeOK(o.outcome)
    /\ s.store \in Nat /\ s.marker \in Nat

\* Every variable keeps its type, the operations in the journal and in the
\* copies of SQLite included.
TypeOK ==
    /\ SqlOK(Sql) /\ SqlOK(backup)
    /\ permissions \in [Keys -> Grant]
    /\ retired \subseteq Keys
    /\ anchors \in [Domains -> [next : Nat, session : Nat, accepted : Nat, floor : Nat]]
    /\ \A i \in pending \cup current : IntentOK(i)
    /\ bound \in Nat /\ gate \in Nat /\ epoch \in Nat
    /\ phase \in {"down", "bound", "applied", "checked", "idle", "journaled",
                  "committed", "session", "rebuilding", "rebuilt"}
    /\ minted \in Nat /\ settled \subseteq Keys /\ crashes \in Nat /\ losses \in Nat

\* A right a manager has been told of (an armed Grant or a ticket) stays in the
\* registry, whatever happens to SQLite, until a sealed release is committed:
\* "An acknowledged permission can never disappear merely with the SQLite DB"
\* (machine_recovery.rs).
DurableRights ==
    \A reply \in replies :
       LET out == reply.outcome IN
       /\ out.kind = "grant" =>
             \/ out.key \in settled
             \/ /\ permissions[out.key].state \in Held
                /\ permissions[out.key].nonce = out.grant.nonce
                /\ Invoked(out.grant.tickets) \subseteq Invoked(permissions[out.key].tickets)
       /\ out.kind = "ticket" =>
             \/ out.key \in settled
             \/ /\ permissions[out.key].state \in Held
                /\ permissions[out.key].nonce = out.nonce
                /\ out.intent.invocation \in Invoked(permissions[out.key].tickets)

\* While admission is open, SQLite and the registry agree on every right,
\* except for the one operation that is between them.
InventoriesAgree ==
    phase = "idle" /\ gate = 0 /\ pending = {} => SameInventory

\* The right SQLite shows for a key, and the one the registry has once it has
\* journaled i.
Shown(k) == IF grants[k].state \in Held THEN grants[k] ELSE NoGrant

Overlaid(i, k) ==
    IF k \in DOMAIN i.result.saved /\ i.result.saved[k].state # "released"
    THEN i.result.saved[k] ELSE Shown(k)

\* SQLite has committed i, which the registry has yet to finish.
Committed(i) ==
    \A k \in Keys :
       /\ k \in DOMAIN i.result.saved => grants[k] = i.result.saved[k]
       /\ \/ k \in DOMAIN i.result.saved /\ grants[k].state = "released"
          \/ permissions[k] = Shown(k)

\* Between two durable steps the stores differ by exactly the journaled
\* operation, and a gate that is open was never passed by anything else:
\* machine_exchange, its recovery at startup and the repair after a loss keep
\* this at each of their steps.
StoresInStep ==
    /\ \A i \in pending : pending = {i} /\ \A k \in DOMAIN i.result.saved :
                             i.result.saved[k].state \in Held \cup {"released"}
    /\ phase \in {"rebuilding", "rebuilt"} => gate # 0
    /\ phase \notin {"journaled", "committed", "session"} => current = {}
    /\ gate = 0 =>
          /\ phase # "down" => store = bound
          /\ phase \in {"checked", "session"} => pending = {}
          /\ phase = "journaled" =>
                /\ pending # {} /\ current = pending
                /\ \A i \in pending : Recorded(i.request) # {} => DOMAIN i.result.saved = {}
          /\ phase = "committed" => current \subseteq pending \/ pending = {}
          /\ phase = "committed" /\ pending = {} => current # {}
          /\ phase \in {"idle", "session", "journaled", "committed"} /\ pending = {}
                => SameInventory
          /\ phase \in {"idle", "journaled"} =>
                \A i \in pending : \A k \in Keys : permissions[k] = Overlaid(i, k)
          /\ phase = "committed" => \A i \in pending : Committed(i)

\* Released is terminal: while admission is open, no key that was ever
\* committed as released is offered or holds a right, not even after a crash,
\* a restored copy or a replaced database.
ReleasedForGood ==
    phase = "idle" /\ gate = 0 /\ pending = {} =>
       \A k \in settled : grants[k].state \notin Outstanding /\ permissions[k] = NoGrant

\* Offers, Grants and the registry's rights together never exceed the machine
\* while admission is open, nor do two of them hold one exclusive fence.
CapacityRespected ==
    phase = "idle" /\ gate = 0 =>
       Fits(Charged(grants) \cup {k \in Keys : permissions[k] # NoGrant})

\* "Exact replay returns the recorded outcome; ... a forgotten sequence never
\* becomes a fresh operation": a sequence number of a domain is answered for one
\* request only, and always with the same outcome.
OneOutcome ==
    \A a \in replies : \A b \in replies :
       /\ a.request.domain = b.request.domain
       /\ a.request.sequence = b.request.sequence /\ a.request.sequence # 0
       => a = b

\* A crash (or a failed commit) between any two durable steps is recovered
\* from; only a lost or older database closes admission.
CrashKeepsHistory == losses = 0 => gate = 0

\* The registry drops a right only for a journaled seal that proves the
\* cleanup of every ticket a manager was ever told of for that allocation.
DropNeedsProof ==
    [][\A k \in Keys : permissions[k] # NoGrant /\ permissions'[k] = NoGrant =>
          \E i \in pending :
             /\ k \in DOMAIN i.result.saved
             /\ \E seal \in i.result.saved[k].seal : \A reply \in replies :
                   reply.outcome.kind = "ticket" /\ reply.outcome.key = k =>
                      \E proof \in seal.proofs :
                         proof.invocation = reply.outcome.intent.invocation]_vars

\* The authority epoch leaves an allocation behind only after its release: no
\* right a manager was told of under an older epoch is still unsettled.
OldEpochsSettled ==
    \A reply \in replies : reply.outcome.kind \in {"grant", "ticket"}
       /\ EpochOf[reply.outcome.key] < epoch => reply.outcome.key \in settled

\* Once a domain has been told of a newer connection, no request of an older
\* one is answered any more, not even as an exact replay.
StaleConnectionSilent ==
    [][\A reply \in replies' \ replies : \A c \in replies :
          /\ reply.request.sequence # 0 /\ c.outcome.kind = "connected"
          /\ c.request.domain = reply.request.domain
          => c.request.connection <= reply.request.connection]_vars

\* The operation history of a domain stays within its limit as long as the
\* manager's acknowledgements cover what it has received.
HistoryBounded ==
    \A d \in Domains :
       Cardinality({o \in operations : o.request.domain = d}) <= HistoryLimit

\* The registry never waits forever for SQLite: a journaled operation is
\* finished, after whatever crashes and failed commits.
PendingResolved == pending # {} ~> pending = {}
=============================================================================
