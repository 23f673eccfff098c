---------------------------- MODULE MCCoordinator ----------------------------
(***************************************************************************)
(* Instances of Coordinator for TLC.  A rejected command leaves nothing    *)
(* but its row, whatever the command was, so the managers here send the    *)
(* commands that can have an effect in the current state and, where a      *)
(* scenario has "refused", one that never does.  Each behaviour belongs to *)
(* one scenario, which bounds the commands and keys of the managers.       *)
(***************************************************************************)
EXTENDS CoordinatorService, SequencesExt

CONSTANT Scenarios

VARIABLE scenario

DomainList == SetToSeq(Domains)
MCDomainOf == [k \in Keys |-> DomainList[((k + 1) % Len(DomainList)) + 1]]
FirstEpoch == [k \in Keys |-> 0]
AllWork == [k \in Keys |-> "work"]
UnitClaims == [k \in Keys |-> 1]
NoFences == [k \in Keys |-> {}]
PairFence == [k \in Keys |-> IF k <= 2 THEN {"gpu"} ELSE {}]

\* The whole life of one Grant, with a history that has to be acknowledged.
Life == {[kinds |-> {"upsert", "arm", "authorize", "release", "cancel", "withdraw",
                     "ack", "refused"},
          keys |-> {1}, sequence |-> 5, connection |-> 1, nonce |-> 2, revision |-> 2,
          crashes |-> 1, losses |-> 0]}

\* A Grant that is released, or reconciled and released, after a loss.
Repair == {[kinds |-> {"upsert", "arm", "authorize", "release", "begin", "commit"},
            keys |-> {1}, sequence |-> 5, connection |-> 1, nonce |-> 1, revision |-> 1,
            crashes |-> 1, losses |-> 1]}

\* A manager that reconnects in the middle of its work.
Reconnection ==
    {[kinds |-> {"upsert", "arm", "authorize", "uncertain", "begin", "records", "commit"},
      keys |-> {1}, sequence |-> 6, connection |-> 2, nonce |-> 1, revision |-> 1,
      crashes |-> 0, losses |-> 0]}

\* Two domains that compete for the machine.
Competition ==
    {[kinds |-> {"upsert", "arm", "release"},
      keys |-> {1, 2, 3}, sequence |-> 3, connection |-> 1, nonce |-> 2, revision |-> 1,
      crashes |-> 0, losses |-> 0]}

LifeAndCompetition == Life \cup Competition
RepairAndReconnection == Repair \cup Reconnection

\* The intents that may follow a ticket history.
Intents(tickets) ==
    {[invocation |-> i, role |-> role, index |-> index, previous |-> p] :
        i \in Invocations, role \in {"primary", "postcondition"}, index \in 0..1,
        p \in IF tickets = <<>> THEN {{}}
              ELSE {{[invocation |-> tickets[Len(tickets)].invocation, used |-> u]} :
                       u \in BOOLEAN}}

\* Cleanup proofs for all the tickets, all used or all unused, and a seal that
\* leaves the last ticket out.
Proofs(tickets) ==
    {{[invocation |-> i, used |-> u] : i \in Invoked(tickets)} : u \in BOOLEAN}
      \cup {{[invocation |-> i, used |-> FALSE] : i \in Invoked(Front(tickets))} :
               t \in {tickets} \ {<<>>}}

Seals(k) == {[key |-> k, nonce |-> grants[k].nonce, proofs |-> p] :
                p \in Proofs(grants[k].tickets)}

Mine(d) == {k \in scenario.keys : DomainOf[k] = d}

NoSeal == [key |-> 0, nonce |-> 0, proofs |-> {}]

\* What a manager that knows its Grants would report, some of them sealed.
Inventories(d) ==
    {<<>>} \cup
    {SetToSeq({{[key |-> k, nonce |-> grants[k].nonce, tickets |-> grants[k].tickets,
                 seal |-> {s \in Seals(k) : s = sealed[k]}]} :
                  k \in {x \in Mine(d) : grants[x].state # "none"}}) :
        sealed \in [Mine(d) -> {NoSeal} \cup UNION {Seals(k) : k \in Mine(d)}]}

Sent(d) ==
    UNION {
      {[type |-> "upsert", key |-> k, revision |-> v] :
          v \in {candidates[k].revision, candidates[k].revision + 1} \cap 1..scenario.revision}
      \cup {[type |-> t, key |-> k, revision |-> candidates[k].revision + 1] :
               t \in {x \in {"cancel", "withdraw"} : candidates[k].revision < scenario.revision}}
      \cup {[type |-> t, key |-> k, nonce |-> grants[k].nonce] : t \in {"arm", "uncertain"}}
      \cup {[type |-> "authorize", key |-> k, nonce |-> grants[k].nonce, intent |-> i] :
               i \in Intents(grants[k].tickets)}
      \cup {[type |-> "release", seal |-> s] : s \in Seals(k)}
      \cup {[type |-> "inspect", key |-> k]} : k \in Mine(d)}
    \cup {[type |-> "ack", through |-> domains[d].accepted], [type |-> "page", after |-> 0],
          [type |-> "commit"]}
    \cup {[type |-> "begin", end |-> domains[d].accepted, digest |-> p] :
             p \in IF "records" \in scenario.kinds THEN Inventories(d) ELSE {<<>>}}
    \cup UNION {{[type |-> "records", index |-> i, page |-> s.digest[i]] :
                    i \in DOMAIN s.digest} : s \in domains[d].snapshot}

\* The command has an effect if the clock allows it.
Effective(r) ==
    r.command.type \in scenario.kinds /\ ApplyCommand(r, ~Closed, TRUE).outcome.kind # "rejected"

Active == {DomainOf[k] : k \in scenario.keys}

\* The manager has operations left in this scenario.
MayGoOn(d) == MaySend(d) /\ domains[d].accepted < scenario.sequence

Within ==
    /\ crashes <= scenario.crashes /\ losses <= scenario.losses
    /\ minted <= scenario.nonce
    /\ \A d \in Domains : domains[d].accepted <= scenario.sequence
                          /\ anchors[d].next <= scenario.connection

MCNext ==
    /\ \/ Internal
       \/ \E d \in Active : \E c \in Sent(d) :
             /\ MayGoOn(d)
             /\ Effective(NewRequest(d, c))
             /\ Exchange(NewRequest(d, c))
       \/ \E k \in scenario.keys : \E d \in {DomainOf[k]} :
             /\ MayGoOn(d) /\ "refused" \in scenario.kinds
             /\ ExecuteExchange(NewRequest(d, [type |-> "upsert", key |-> k, revision |-> 0]))
       \/ \E o \in Repeatable : ReplayExchange(o.request)
       \/ \E d \in Active : anchors[d].next < scenario.connection /\ ConnectBegin(d)
       \/ \E d \in Active : ConnectFinish(d, domains[d].challenge)
    /\ scenario.losses = 0 => backup' = backup
    /\ UNCHANGED scenario
    /\ Within'

MCInit == Init /\ scenario \in Scenarios
MCSpec == MCInit /\ [][MCNext]_<<vars, scenario>>
FairSpec == MCSpec /\ Progress
=============================================================================
