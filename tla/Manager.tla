------------------------------ MODULE Manager ------------------------------
(***************************************************************************)
(* The journal of an attached manager: what it has asked the coordinator,  *)
(* what it was answered, and the Grants, tickets and cleanup proofs it     *)
(* holds.  One SQLite transaction is one function on the journal; an error *)
(* rolls the transaction back, so each has a guard beside it.              *)
(*                                                                         *)
(* Sequence numbers are consecutive, so the unanswered commands are a      *)
(* sequence whose head has number applied + 1.  Answered rows are kept by  *)
(* the code until they are acknowledged but only their number is read.     *)
(* The manager of this code never sends ReportUncertain.                   *)
(***************************************************************************)
EXTENDS Service, Functions

CONSTANTS Home,     \* the manager's domain
          KeyOf,    \* [Invocations -> Keys]: the allocation an Invocation uses
          AckLimit  \* answered operations before an Acknowledge (64)

ASSUME ManagerAssumption ==
    /\ Home \in Domains
    /\ KeyOf \in [Invocations -> Keys]
    /\ AckLimit \in Nat

VARIABLE journal

Ticket == [session : Nat, intent : SUBSET Intent, consumed : BOOLEAN,
           cleanup : SUBSET Cleanup]

NoTicket == [session |-> 0, intent |-> {}, consumed |-> FALSE, cleanup |-> {}]

FreshJournal ==
    [session |-> 1, applied |-> 0, floor |-> 0,     \* attached_peer
     outbox |-> <<>>, answered |-> 0,               \* attached_outbox
     abandoned |-> {},                              \* Arm and ticket intents lost
     recovery |-> {}, inventory |-> NoRows,         \* a reconnection's progress
     grants |-> [k \in Keys |-> NoGrant],           \* attached_grants, with seals
     tickets |-> [i \in Invocations |-> NoTicket],  \* attached_tickets
     recovered |-> {}]                              \* attached_recovered_cleanup
-----------------------------------------------------------------------------
(* Sending *)

InRecovery(j) == j.recovery # {}
Inventoried(j) == \A s \in j.recovery : s.complete

\* recovery::allow: new work is fenced until the inventory is reconciled.
Allowed(j, c) ==
    \A s \in j.recovery :
       \/ c.type = "page" /\ ~s.complete /\ c.after = s.after
       \/ c.type \in {"begin", "records", "commit"} /\ s.complete
       \/ c.type = "ack"

MayEnqueue(j, c) ==
    /\ Allowed(j, c)
    /\ c.type = "authorize" => /\ j.grants[c.key].state # "none"
                               /\ j.grants[c.key].seal = {}

Enqueue(j, c) == [j EXCEPT !.outbox = Append(@, c)]

\* pending: the earliest unanswered command, as a request of this session.
Asked(j) == [domain |-> Home, connection |-> j.session, sequence |-> j.applied + 1,
             command |-> Head(j.outbox)]
-----------------------------------------------------------------------------
(* Reconnecting *)

\* begin: the coordinator's history covers this one, and goes no further.
Covered(j, d) ==
    /\ d.connection > j.session /\ d.recovering
    /\ d.accepted \in j.applied..(j.applied + Len(j.outbox))
    /\ d.floor \in j.floor..d.accepted

\* Slip: the manager keeps its own count of applied operations.
BegunUncounted(j, d) ==
    [j EXCEPT !.session = d.connection, !.outbox = <<>>,
              !.abandoned = @ \cup {c \in Range(j.outbox) : c.type \in {"arm", "authorize"}},
              !.recovery = {[after |-> 0, complete |-> FALSE]}, !.inventory = NoRows]

\* Slip: intents in flight when the connection was lost are forgotten.
BegunForgetful(j, d) ==
    [j EXCEPT !.session = d.connection, !.applied = d.accepted, !.floor = d.floor,
              !.outbox = <<>>,
              !.recovery = {[after |-> 0, complete |-> FALSE]}, !.inventory = NoRows]

Begun(j, d) ==
    [j EXCEPT !.session = d.connection, !.applied = d.accepted, !.floor = d.floor,
              !.outbox = <<>>,
              !.abandoned = @ \cup {c \in Range(j.outbox) : c.type \in {"arm", "authorize"}},
              !.recovery = {[after |-> 0, complete |-> FALSE]}, !.inventory = NoRows]

\* The durable intents that can explain a right the manager has no reply for.
Intended(j) == j.abandoned \cup Range(j.outbox)

KnownTicket(j, k, nonce, intent) ==
    LET t == j.tickets[intent.invocation] IN
    IF t # NoTicket THEN KeyOf[intent.invocation] = k /\ t.intent = {intent}
    ELSE [type |-> "authorize", key |-> k, nonce |-> nonce, intent |-> intent]
            \in Intended(j)

\* import_inventory: nothing in the inventory contradicts the local history,
\* and nothing local is missing from it unless it was sealed.
Importable(j) ==
    /\ \A k \in DOMAIN j.inventory :
          LET old == j.grants[k]
              new == j.inventory[k]
          IN /\ IF old.state # "none"
                THEN /\ old.nonce = new.nonce /\ old.state # "released"
                     /\ old.state \in Held => new.state # "offered"
                     /\ Range(old.tickets) \subseteq Range(new.tickets)
                ELSE \/ new.state = "offered"
                     \/ [type |-> "arm", key |-> k, nonce |-> new.nonce] \in Intended(j)
             /\ \A intent \in Range(new.tickets) : KnownTicket(j, k, new.nonce, intent)
    /\ \A k \in Keys \ DOMAIN j.inventory :
          j.grants[k].state \in Outstanding => j.grants[k].seal # {}

Imported(j) ==
    [j EXCEPT !.grants = [k \in Keys |->
        IF k \in DOMAIN j.inventory
        THEN [j.inventory[k] EXCEPT !.seal = j.grants[k].seal]
        ELSE IF j.grants[k].state \in Outstanding
        THEN [j.grants[k] EXCEPT !.state = "released"] ELSE j.grants[k]]]

\* accept_page, up to the import of the last page.
Paged(j, outcome) ==
    [j EXCEPT !.inventory = [k \in DOMAIN @ \cup DOMAIN outcome.grants |->
                  IF k \in DOMAIN @ THEN @[k] ELSE outcome.grants[k]],
              !.recovery = {[after |-> outcome.next, complete |-> outcome.next = 0]}]

\* Slip: the pages of a reconciliation are counted from zero.
ReconciliationFromZero(j) ==
    LET local == {k \in Keys : j.grants[k].state \in Outstanding}
        pages == IF local = {} THEN <<>> ELSE
                 <<{[key |-> k, nonce |-> j.grants[k].nonce, seal |-> j.grants[k].seal,
                     tickets |-> j.grants[k].tickets] : k \in local}>>
    IN <<[type |-> "begin", end |-> j.applied, digest |-> pages]>>
          \o [n \in DOMAIN pages |-> [type |-> "records", index |-> n - 1, page |-> pages[n]]]
          \o <<[type |-> "commit"]>>

\* Slip: only the first allocation is reconciled.
ReconciliationOfFirst(j) ==
    LET local == {k \in Keys : j.grants[k].state \in Outstanding}
        pages == IF local = {} THEN <<>> ELSE
                 <<{[key |-> k, nonce |-> j.grants[k].nonce, seal |-> j.grants[k].seal,
                     tickets |-> j.grants[k].tickets] : k \in {Min(local)}}>>
    IN <<[type |-> "begin", end |-> j.applied, digest |-> pages]>>
          \o [n \in DOMAIN pages |-> [type |-> "records", index |-> n, page |-> pages[n]]]
          \o <<[type |-> "commit"]>>

\* reconciliation: the manifest, one page of everything not released, commit.
Reconciliation(j) ==
    LET local == {k \in Keys : j.grants[k].state \in Outstanding}
        pages == IF local = {} THEN <<>> ELSE
                 <<{[key |-> k, nonce |-> j.grants[k].nonce, seal |-> j.grants[k].seal,
                     tickets |-> j.grants[k].tickets] : k \in local}>>
    IN <<[type |-> "begin", end |-> j.applied, digest |-> pages]>>
          \o [n \in DOMAIN pages |-> [type |-> "records", index |-> n, page |-> pages[n]]]
          \o <<[type |-> "commit"]>>

\* next_page, or the reconciliation once the inventory is complete.
RecoveryCommands(j) ==
    IF Inventoried(j) THEN Reconciliation(j)
    ELSE <<[type |-> "page", after |-> (CHOOSE s \in j.recovery : TRUE).after]>>
-----------------------------------------------------------------------------
(* accept: the reply to the earliest unanswered command *)

Released(j, S) == [j EXCEPT !.grants =
    [k \in Keys |-> IF k \in S THEN [j.grants[k] EXCEPT !.state = "released"]
                    ELSE j.grants[k]]]

NewTicket(j, intent) ==
    [session |-> j.session, intent |-> {intent}, consumed |-> FALSE, cleanup |-> {}]

Acceptable(j, outcome) ==
    CASE outcome.kind = "grant" ->
            LET old == j.grants[outcome.key] IN
            old.state = "none" \/ old.nonce = outcome.grant.nonce
      [] outcome.kind = "ticket" ->
            LET g == j.grants[outcome.key]
                t == j.tickets[outcome.intent.invocation]
            IN /\ g.seal = {} /\ g.state \in Held
               /\ t \in {NoTicket, NewTicket(j, outcome.intent)}
      [] outcome.kind = "released" ->
            j.grants[outcome.key].seal = {Head(j.outbox).seal}
      [] outcome.kind = "page" /\ InRecovery(j) ->
            outcome.next = 0 => Importable(Paged(j, outcome))
      [] outcome.kind = "reconciled" ->
            \A k \in outcome.released : j.grants[k].seal # {}
      [] OTHER -> TRUE

\* What the reply changes besides the outbox.
Applied(j, outcome) ==
    CASE outcome.kind = "grant" ->
            [j EXCEPT !.grants[outcome.key] = [outcome.grant EXCEPT !.seal = j.grants[outcome.key].seal]]
      [] outcome.kind = "ticket" ->
            LET i == outcome.intent IN
            [j EXCEPT !.tickets[i.invocation] = NewTicket(j, i),
                      !.grants[outcome.key].tickets =
                          IF i \in Range(@) THEN @ ELSE Append(@, i)]
      [] outcome.kind = "released" -> Released(j, {outcome.key})
      [] outcome.kind = "acknowledged" ->
            [j EXCEPT !.floor = Max({@, outcome.through}), !.answered = 0]
      [] outcome.kind = "page" /\ InRecovery(j) ->
            IF outcome.next = 0 THEN Imported(Paged(j, outcome)) ELSE Paged(j, outcome)
      [] outcome.kind = "reconciled" ->
            [Released(j, outcome.released) EXCEPT !.recovery = {}, !.inventory = NoRows]
      [] OTHER -> j

Answered(j, outcome) ==
    [Applied(j, outcome) EXCEPT !.outbox = Tail(@), !.applied = @ + 1, !.answered = @ + 1]
-----------------------------------------------------------------------------
(* Tickets and seals *)

\* consume_ticket: once, on the session it was issued for, before any seal.
Consumable(j, i) ==
    LET t == j.tickets[i]
        g == j.grants[KeyOf[i]]
    IN /\ ~InRecovery(j)
       /\ t # NoTicket /\ t.session = j.session
       /\ g.state = "armed" /\ g.seal = {}
       /\ ~t.consumed /\ t.cleanup = {}

\* Slip: cleanup proves that user code was never released.
CleanupOfUnused(t, i) == IF t.cleanup # {} THEN t.cleanup
                         ELSE {[invocation |-> i, used |-> FALSE]}

\* record_cleanup: what is proven is whether the ticket was consumed.
CleanupOf(t, i) == IF t.cleanup # {} THEN t.cleanup
                   ELSE {[invocation |-> i, used |-> t.consumed]}

\* cleanup::apply: executor seals meet the tickets, also those whose reply came
\* late or was lost.
Cleaned(j, S) ==
    [j EXCEPT
       !.tickets = [i \in Invocations |->
          IF i \in S /\ j.tickets[i] # NoTicket
          THEN [j.tickets[i] EXCEPT !.cleanup = CleanupOf(j.tickets[i], i)]
          ELSE j.tickets[i]],
       !.recovered = @ \cup {i \in S : /\ j.tickets[i] = NoTicket
                                       /\ i \in Invoked(j.grants[KeyOf[i]].tickets)}]

TicketsOf(j, k) == {i \in Invocations : KeyOf[i] = k /\ j.tickets[i] # NoTicket}

\* seal_release: every ticket of the allocation is proven clean, and no request
\* for another one is unanswered.
Sealable(j, k) ==
    /\ Inventoried(j)
    /\ \A c \in Range(j.outbox) : ~ (c.type = "authorize" /\ c.key = k)
    /\ j.grants[k].state # "none"
    /\ \A i \in TicketsOf(j, k) : j.tickets[i].cleanup # {}
    /\ Invoked(j.grants[k].tickets) \subseteq TicketsOf(j, k) \cup j.recovered

\* Slip: tickets known only from the inventory are left out of the seal.
LocalProofs(j, k) == UNION {j.tickets[i].cleanup : i \in TicketsOf(j, k)}

SealProofs(j, k) ==
    UNION {j.tickets[i].cleanup : i \in TicketsOf(j, k)}
      \cup {[invocation |-> i, used |-> FALSE] :
               i \in Invoked(j.grants[k].tickets) \ TicketsOf(j, k)}

SealOf(j, k) ==
    IF j.grants[k].seal # {} THEN j.grants[k].seal
    ELSE {[key |-> k, nonce |-> j.grants[k].nonce, proofs |-> SealProofs(j, k)]}

SealRelease(j, k) ==
    LET sealed == [j EXCEPT !.grants[k].seal = SealOf(j, k)] IN
    IF InRecovery(j) THEN sealed
    ELSE Enqueue(sealed, [type |-> "release", seal |-> CHOOSE s \in SealOf(j, k) : TRUE])
=============================================================================
