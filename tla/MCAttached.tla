----------------------------- MODULE MCAttached -----------------------------
(***************************************************************************)
(* Small instances of Attached.  A recorded operation that is no longer on *)
(* the wire is never looked at again, so View leaves it out.               *)
(***************************************************************************)
EXTENDS Attached

MCDomainOf == [k \in Keys |-> Home]
MCEpochOf == [k \in Keys |-> 0]
MCOwner == [k \in Keys |-> "work"]
MCClaim == [k \in Keys |-> 1]
MCFences == [k \in Keys |-> {}]

\* Two digits name an Invocation: its key, and its place in the Attempt.
MCKeyOf == [i \in Invocations |-> i \div 10]
MCWork == [k \in Keys |->
              LET n == Cardinality({i \in Invocations : i \div 10 = k})
              IN [p \in 1..n |-> 10 * k + p]]

View == <<grants, candidates, domains, {o \in operations : o.request \in wire},
          minted, journal, lifeVars, runVars, linkVars, restarts>>

\* A reachable state to start longer runs from: each key has been advertised,
\* inspected, armed and given the ticket of its first Invocation, which runs;
\* the history of that is acknowledged.
First == {Work[k][1] : k \in Keys}
FirstIntent(i) == [invocation |-> i, role |-> "primary", index |-> 0, previous |-> {}]
Before == 4 * Cardinality(Keys)

RunningInit ==
    /\ grants = [k \in Keys |-> [state |-> "armed", nonce |-> 1, revision |-> 1,
                    tickets |-> <<FirstIntent(Work[k][1])>>, seal |-> {}]]
    /\ candidates = [k \in Keys |-> [state |-> "ready", revision |-> 1]]
    /\ domains = [d \in Domains |->
          [paired |-> TRUE, connection |-> 1, recovering |-> FALSE,
           accepted |-> Before + 1, floor |-> Before, challenge |-> 0, snapshot |-> {}]]
    /\ operations = {[request |-> [domain |-> Home, connection |-> 1, sequence |-> Before + 1,
                                   command |-> [type |-> "ack", through |-> Before]],
                      outcome |-> [kind |-> "acknowledged", through |-> Before]]}
    /\ minted = 1 /\ epoch = 0
    /\ journal = [FreshJournal EXCEPT
          !.applied = Before + 1, !.floor = Before, !.answered = 1, !.grants = grants,
          !.tickets = [i \in Invocations |-> IF i \notin First THEN NoTicket ELSE
              [session |-> 1, intent |-> {FirstIntent(i)}, consumed |-> TRUE, cleanup |-> {}]]]
    /\ plans = [k \in Keys |-> [NoPlan EXCEPT !.stage = "committed", !.armed = TRUE]]
    /\ leases = [k \in Keys |-> "granted"]
    /\ jobs = [k \in Keys |-> "active"] /\ canceled = {}
    /\ phase = [i \in Invocations |-> IF i \in First THEN "started" ELSE "none"]
    /\ contain = [i \in Invocations |-> IF i \in First THEN "open" ELSE "none"]
    /\ boundary = [i \in Invocations |-> IF i \in First THEN "running" ELSE "none"]
    /\ refused = {} /\ sealed = {} /\ never = {} /\ ran = First
    /\ barrier = [i \in Invocations |-> IF i \in First THEN 1 ELSE 0]
    /\ link = "up" /\ wire = {} /\ connected = TRUE /\ restarts = 0

RunningSpec == RunningInit /\ [][NextStep]_vars
FairRunningSpec == RunningSpec /\ Fairness
=============================================================================
