------------------------------ MODULE Commands ------------------------------
(***************************************************************************)
(* The commands of the machine protocol: what a manager may ask of the     *)
(* coordinator, the outcome of each command, and the rows it leaves in     *)
(* SQLite.  Coordinator executes them across two durable stores; Service   *)
(* is the coordinator the managers are promised.                           *)
(*                                                                         *)
(* A request carries its connection epoch and its sequence number; a       *)
(* manager never sends one operation on two connections, so the pair also  *)
(* stands for the operation id.  Clocks (offer deadlines, candidate        *)
(* expiry, the age of a host sample) are the environment's choice.  The    *)
(* host configuration is fixed.                                            *)
(***************************************************************************)
EXTENDS TicketOrder, FiniteSetsExt

CONSTANTS
    Domains,        \* attached execution domains
    Keys,           \* allocation keys (one per Lease of a manager)
    DomainOf,       \* [Keys -> Domains]: the domain of a key
    EpochOf,        \* [Keys -> Nat]: the authority epoch a key was minted under
    Owner,          \* [Keys -> {"work"} \cup Invocations]: work, or one probe
    Claim,          \* [Keys -> Nat]: the scalar a key claims
    Capacity,       \* what the machine has of it
    Fences,         \* [Keys -> set]: the exclusive fences a key claims
    DomainLimit, MachineLimit,  \* ready candidates per domain, and in all
    HistoryLimit,   \* operations kept per domain before an acknowledgement
    PageLimit,      \* Grants in one inventory page
    MaxNonce        \* bound: offer passes that may mint a nonce

ASSUME ConstantsAssumption ==
    /\ Keys \subseteq Nat \ {0}
    /\ DomainOf \in [Keys -> Domains]
    /\ EpochOf \in [Keys -> Nat]
    /\ Claim \in [Keys -> Nat]
    /\ Capacity \in Nat
    /\ IsFiniteSet(Keys)

VARIABLES
    grants,         \* machine_grants: the Grant row of each key
    candidates,     \* machine_candidates: its readiness and revision
    domains,        \* machine_domains, machine_challenges, machine_reconciles
    operations,     \* machine_operations: each accepted request and outcome
    minted,         \* the last offer nonce handed out
    epoch           \* the authority epoch

-----------------------------------------------------------------------------
(* Rows *)

Held == {"armed", "uncertain"}
Outstanding == Held \cup {"offered"}

Seal == [key : Keys, nonce : Nat, proofs : SUBSET Cleanup]

Grant == [state : {"none", "offered", "armed", "uncertain", "released", "expired"},
          nonce : Nat, revision : Nat, tickets : Seq(Intent), seal : SUBSET Seal]

NoGrant == [state |-> "none", nonce |-> 0, revision |-> 0, tickets |-> <<>>,
            seal |-> {}]

Candidate == [state : {"none", "ready", "withdrawn", "canceled", "released"},
              revision : Nat]

NoCandidate == [state |-> "none", revision |-> 0]

\* One allocation of a manager's inventory.
Allocation == [key : Keys, nonce : Nat, tickets : Seq(Intent), seal : SUBSET Seal]

\* What a manager may ask for.
Command ==
    [type : {"upsert", "withdraw", "cancel"}, key : Keys, revision : Nat]
      \cup [type : {"arm", "uncertain"}, key : Keys, nonce : Nat]
      \cup [type : {"authorize"}, key : Keys, nonce : Nat, intent : Intent]
      \cup [type : {"release"}, seal : Seal]
      \cup [type : {"inspect"}, key : Keys]
      \cup [type : {"ack"}, through : Nat]
      \cup [type : {"page"}, after : Keys \cup {0}]
      \cup [type : {"begin"}, end : Nat, digest : Seq(SUBSET Allocation)]
      \cup [type : {"records"}, index : Nat \ {0}, page : SUBSET Allocation]
      \cup [type : {"commit"}]

Replace(rows, new) ==
    [k \in DOMAIN rows |-> IF k \in DOMAIN new THEN new[k] ELSE rows[k]]

Row(k, value) == [x \in {k} |-> value]

NoRows == [x \in {} |-> 0]

\* Slip: only armed Grants are charged, offers are not.
ChargedWhenArmed(rows) == {k \in Keys : rows[k].state \in Held}

Charged(rows) == {k \in Keys : rows[k].state \in Outstanding}

\* fits: no exclusive fence is claimed twice and the scalar claims fit.
Fits(S) ==
    /\ \A j \in S : \A k \in S : j # k => Fences[j] \cap Fences[k] = {}
    /\ MapThenSumSet(LAMBDA k : Claim[k], S) <= Capacity

-----------------------------------------------------------------------------
(* apply_command: the outcome of a command, the Grant rows it saves and    *)
(* the candidate rows it writes.  "open" says that admission is open,  *)
(* "fresh" that the clock and the host sample are in the command's favour. *)

Result(outcome, saved, cands) ==
    [outcome |-> outcome, saved |-> saved, cands |-> cands]

Rejected == Result([kind |-> "rejected"], NoRows, NoRows)

Recovering(r) == domains[r.domain].recovering

\* owned: the key was minted by this domain under the current epoch.
Owned(r, k) == DomainOf[k] = r.domain /\ EpochOf[k] = epoch

\* active_candidate_counts: an expired candidate takes no place, but an
\* outstanding Grant always does.
HasRoom(k, live) ==
    LET others == {j \in Keys \ {k} : \/ live /\ candidates[j].state = "ready"
                                      \/ grants[j].state \in Outstanding}
    IN /\ Cardinality({j \in others : DomainOf[j] = DomainOf[k]}) < DomainLimit
       /\ Cardinality(others) < MachineLimit

CandidateUpsert(r, open, fresh) ==
    LET k == r.command.key
        c == candidates[k]
        revision == r.command.revision
    IN IF /\ Owned(r, k)
          /\ ~Recovering(r) /\ open
          /\ HasRoom(k, TRUE) \/ (fresh /\ HasRoom(k, FALSE))
          /\ revision > 0
          /\ \/ c.state = "none"
             \/ /\ c.state \in {"ready", "withdrawn"}
                /\ revision >= c.revision
                /\ revision = c.revision => c.state = "ready"
       THEN Result([kind |-> "accepted", revision |-> revision], NoRows,
                   Row(k, [state |-> "ready", revision |-> revision]))
       ELSE Rejected

\* Slip: the Grant row takes the candidate's new state.
WithdrawalByName(r) ==
    LET k == r.command.key
        state == IF r.command.type = "cancel" THEN "canceled" ELSE "withdrawn"
    IN IF Owned(r, k) /\ r.command.revision > candidates[k].revision
       THEN Result([kind |-> "accepted", revision |-> r.command.revision],
                   Row(k, [grants[k] EXCEPT !.state = state]),
                   Row(k, [state |-> state, revision |-> r.command.revision]))
       ELSE Rejected

\* Withdraw and CancelCandidate: an unarmed Offer expires, a Grant stays.
Withdrawal(r) ==
    LET k == r.command.key
        g == grants[k]
    IN IF /\ Owned(r, k)
          /\ candidates[k].state # "none"
          /\ r.command.revision > candidates[k].revision
       THEN Result([kind |-> "accepted", revision |-> r.command.revision],
                   IF g.state = "offered"
                   THEN Row(k, [g EXCEPT !.state = "expired"]) ELSE NoRows,
                   Row(k, [state |-> IF r.command.type = "cancel"
                                     THEN "canceled" ELSE "withdrawn",
                           revision |-> r.command.revision]))
       ELSE Rejected

\* Arm is the commit point of an Offer, and repeats itself afterwards.
Arm(r, open, fresh) ==
    LET k == r.command.key
        g == grants[k]
        ready == /\ ~Recovering(r) /\ open /\ fresh
                 /\ candidates[k].state = "ready"
                 /\ candidates[k].revision = g.revision
        armed == IF g.state = "offered" THEN [g EXCEPT !.state = "armed"] ELSE g
    IN IF /\ Owned(r, k)
          /\ g.state \in Outstanding
          /\ g.nonce = r.command.nonce
          /\ g.state = "offered" => ready
       THEN Result([kind |-> "grant", key |-> k, grant |-> armed],
                   Row(k, armed), NoRows)
       ELSE Rejected

AuthorizeInvocation(r, open, fresh) ==
    LET k == r.command.key
        g == grants[k]
        intent == r.command.intent
    IN IF /\ Owned(r, k)
          /\ ~Recovering(r) /\ open /\ fresh
          /\ g.state = "armed"
          /\ g.nonce = r.command.nonce
          /\ ValidNext(g.tickets, intent, Owner[k])
          /\ candidates[k].state = "ready"
          /\ \A j \in Keys \ {k} : intent.invocation \notin Invoked(grants[j].tickets)
       THEN Result([kind |-> "ticket", key |-> k, nonce |-> g.nonce,
                    intent |-> intent],
                   Row(k, [g EXCEPT !.tickets = Append(@, intent)]), NoRows)
       ELSE Rejected

ReportUncertain(r) ==
    LET k == r.command.key
        g == [grants[k] EXCEPT !.state = "uncertain"]
    IN IF /\ Owned(r, k)
          /\ grants[k].state \in Held
          /\ g.nonce = r.command.nonce
       THEN Result([kind |-> "grant", key |-> k, grant |-> g], Row(k, g), NoRows)
       ELSE Rejected

\* Slip: the seal is not compared with the issued tickets.
ReleasesUncovered(r, seal) ==
    LET g == grants[seal.key] IN
    /\ Owned(r, seal.key)
    /\ g.seal \in {{}, {seal}}
    /\ g.nonce = seal.nonce
    /\ g.state \in Held \cup {"released"}

\* apply_release: the seal cannot change, and covers every issued ticket.
Releases(r, seal) ==
    LET g == grants[seal.key] IN
    /\ Owned(r, seal.key)
    /\ g.seal \in {{}, {seal}}
    /\ g.nonce = seal.nonce
    /\ g.state \in Held \cup {"released"}
    /\ Covers(seal.proofs, g.tickets)

Sealed(seal) == [grants[seal.key] EXCEPT !.state = "released", !.seal = {seal}]

ReleasedCandidates(S) ==
    [k \in S |-> [state |-> "released", revision |-> candidates[k].revision]]

Release(r) ==
    LET seal == r.command.seal IN
    IF Releases(r, seal)
    THEN Result([kind |-> "released", key |-> seal.key],
                Row(seal.key, Sealed(seal)), ReleasedCandidates({seal.key}))
    ELSE Rejected

Acknowledge(r) ==
    LET through == r.command.through
        d == domains[r.domain]
    IN IF through <= d.accepted /\ through >= d.floor
       THEN Result([kind |-> "acknowledged", through |-> through], NoRows, NoRows)
       ELSE Rejected

Inspect(r) ==
    LET k == r.command.key IN
    IF Owned(r, k)
    THEN Result([kind |-> "inspection", key |-> k, grant |-> grants[k]],
                NoRows, NoRows)
    ELSE Rejected

\* One page of the domain's outstanding Grants, in key order.
InspectPage(r) ==
    LET after == r.command.after
        rest == {k \in Keys : /\ DomainOf[k] = r.domain /\ k > after
                              /\ grants[k].state \in Outstanding}
        page == {k \in rest : Cardinality({j \in rest : j < k}) < PageLimit}
    IN IF after \in Keys => Owned(r, after)
       THEN Result([kind |-> "page", grants |-> [k \in page |-> grants[k]],
                    next |-> IF page = rest THEN 0 ELSE Max(page)],
                   NoRows, NoRows)
       ELSE Rejected
-----------------------------------------------------------------------------
(* Reconciliation: a manifest (the digest stands for the pages it was      *)
(* computed from), its pages in order, and the commit that compares the    *)
(* inventory with the Grants.                                              *)

ReconcileBegin(r) ==
    IF r.command.end = domains[r.domain].accepted
    THEN Result([kind |-> "accepted", revision |-> r.command.end], NoRows, NoRows)
    ELSE Rejected

\* A page follows the pages already received, or repeats one unchanged.
PageFollows(snapshot, index, page) ==
    /\ index <= Len(snapshot.digest)
    /\ index <= Len(snapshot.pages) + 1
    /\ index <= Len(snapshot.pages) => snapshot.pages[index] = page

ReconcilePage(r) ==
    IF /\ \E s \in domains[r.domain].snapshot :
             PageFollows(s, r.command.index, r.command.page)
       /\ \A a \in r.command.page : Owned(r, a.key)
    THEN Result([kind |-> "accepted", revision |-> r.command.index], NoRows, NoRows)
    ELSE Rejected

\* Slip: the seals of an inventory are applied unread.
AgreesUnread(r, inventory) ==
    /\ \A k \in Keys : DomainOf[k] = r.domain /\ grants[k].state \in Outstanding
                       => \E a \in inventory : a.key = k
    /\ \A a \in inventory : a.nonce = grants[a.key].nonce
                            /\ a.tickets = grants[a.key].tickets

\* Inventory and Grants agree: nothing outstanding is omitted, nothing claimed
\* is unknown, and every identity and ticket is the same on both sides.
Agrees(r, inventory) ==
    /\ \A k \in Keys : DomainOf[k] = r.domain /\ grants[k].state \in Outstanding
                       => \E a \in inventory : a.key = k
    /\ \A a \in inventory :
          IF grants[a.key].state = "none"
          THEN a.nonce = 0 /\ a.tickets = <<>> /\ a.seal = {}
          ELSE /\ a.nonce = grants[a.key].nonce
               /\ a.tickets = grants[a.key].tickets
               /\ \A seal \in a.seal : /\ seal.key = a.key /\ seal.nonce = a.nonce
                                       /\ Releases(r, seal)

\* No key has two allocations, neither on one page nor on two, be they equal.
NoneTwice(pages) ==
    \A m \in DOMAIN pages : \A n \in DOMAIN pages :
        \A a \in pages[m] : \A b \in pages[n] : a.key = b.key => m = n /\ a = b

ReconcileCommit(r) ==
    LET complete == {s \in domains[r.domain].snapshot :
                        s.pages = s.digest /\ NoneTwice(s.pages)}
        inventory == UNION {UNION {s.pages[i] : i \in DOMAIN s.pages} : s \in complete}
        seals == UNION {a.seal : a \in inventory}
        released == {seal.key : seal \in seals}
    IN IF complete # {} /\ Agrees(r, inventory)
       THEN Result([kind |-> "reconciled", released |-> released],
                   [k \in released |->
                       Sealed(CHOOSE seal \in seals : seal.key = k)],
                   ReleasedCandidates(released))
       ELSE Rejected

ApplyCommand(r, open, fresh) ==
    CASE r.command.type = "upsert"    -> CandidateUpsert(r, open, fresh)
      [] r.command.type \in {"withdraw", "cancel"} -> Withdrawal(r)
      [] r.command.type = "arm"       -> Arm(r, open, fresh)
      [] r.command.type = "authorize" -> AuthorizeInvocation(r, open, fresh)
      [] r.command.type = "uncertain" -> ReportUncertain(r)
      [] r.command.type = "release"   -> Release(r)
      [] r.command.type = "ack"       -> Acknowledge(r)
      [] r.command.type = "inspect"   -> Inspect(r)
      [] r.command.type = "page"      -> InspectPage(r)
      [] r.command.type = "begin"     -> ReconcileBegin(r)
      [] r.command.type = "records"   -> ReconcilePage(r)
      [] r.command.type = "commit"    -> ReconcileCommit(r)
-----------------------------------------------------------------------------
(* What a recorded operation leaves in SQLite *)

Recorded(r) == {o \in operations : /\ o.request.domain = r.domain
                                   /\ o.request.sequence = r.sequence}

\* What a recorded operation leaves in its machine_domains row.
DomainAfter(d, r, outcome) ==
    LET row == [d EXCEPT !.accepted = r.sequence]
        type == r.command.type
    IN CASE outcome.kind = "acknowledged" ->
               [row EXCEPT !.floor = IF outcome.through > @ THEN outcome.through ELSE @]
         [] outcome.kind = "reconciled" ->
               [row EXCEPT !.recovering = FALSE, !.snapshot = {}]
         [] outcome.kind = "accepted" /\ type = "begin" ->
               [row EXCEPT !.recovering = TRUE,
                           !.snapshot = {[digest |-> r.command.digest, pages |-> <<>>]}]
         [] outcome.kind = "accepted" /\ type = "records" ->
               [row EXCEPT !.snapshot =
                   {IF r.command.index <= Len(s.pages) THEN s
                    ELSE [s EXCEPT !.pages = Append(@, r.command.page)] : s \in @}]
         [] OTHER -> row

\* compact_operations, then the insertion of the new row.
OperationsAfter(r, outcome) ==
    {o \in operations : ~ /\ outcome.kind = "acknowledged"
                          /\ o.request.domain = r.domain
                          /\ o.request.sequence <= outcome.through}
      \cup {[request |-> r, outcome |-> outcome]}
ApplyRows(i) ==
    /\ grants' = Replace(grants, i.result.saved)
    /\ candidates' = Replace(candidates, i.result.cands)
    /\ domains' = [domains EXCEPT ![i.request.domain] =
                       DomainAfter(@, i.request, i.result.outcome)]
    /\ operations' = OperationsAfter(i.request, i.result.outcome)

\* Slip: the operation history is not bounded.
NextInSequenceUnbounded(r) ==
    /\ Recorded(r) = {}
    /\ r.sequence > domains[r.domain].floor
    /\ r.sequence = domains[r.domain].accepted + 1

NextInSequence(r) ==
    /\ Recorded(r) = {}
    /\ r.sequence > domains[r.domain].floor
    /\ r.sequence = domains[r.domain].accepted + 1
    /\ \/ Cardinality({o \in operations : o.request.domain = r.domain}) < HistoryLimit
       \/ r.command.type = "ack"
-----------------------------------------------------------------------------
(* machine_offer_before_native: the due offers expire and ready candidates *)
(* that fit are offered, each under a fresh nonce.  Which candidates come  *)
(* first is the queue's business.                                          *)

Offerable(k) ==
    /\ candidates[k].state = "ready"
    /\ ~domains[DomainOf[k]].recovering
    /\ grants[k].state \in {"none", "expired"}
OfferRows(due, offered) ==
    /\ due \cup offered # {}
    /\ \A k \in due : grants[k].state = "offered"
    /\ \A k \in offered : Offerable(k)
    /\ offered # {} => minted < MaxNonce
    /\ Fits((Charged(grants) \ due) \cup offered)
    /\ grants' = [k \in Keys |->
          IF k \in due THEN [grants[k] EXCEPT !.state = "expired"]
          ELSE IF k \in offered
          THEN [state |-> "offered", nonce |-> minted + 1,
                revision |-> candidates[k].revision, tickets |-> <<>>, seal |-> {}]
          ELSE grants[k]]
    /\ minted' = IF offered = {} THEN minted ELSE minted + 1

\* Every domain starts paired, connected and reconciled; sequence numbers
\* count from the floor that left behind.
StartRows ==
    /\ grants = [k \in Keys |-> NoGrant]
    /\ candidates = [k \in Keys |-> NoCandidate]
    /\ domains = [d \in Domains |->
          [paired |-> TRUE, connection |-> 1, recovering |-> FALSE, accepted |-> 0,
           floor |-> 0, challenge |-> 0, snapshot |-> {}]]
    /\ operations = {} /\ minted = 0 /\ epoch = 0
=============================================================================
