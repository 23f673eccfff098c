------------------------------ MODULE Service ------------------------------
(***************************************************************************)
(* The coordinator a manager is promised: every operation takes effect     *)
(* once, in one step, in the order of its sequence number.  Neither the    *)
(* registry, nor the steps between the two stores, nor a crash can be      *)
(* seen.  Coordinator is shown to implement it.                            *)
(***************************************************************************)
EXTENDS Commands

rowVars == <<grants, candidates, domains, operations, minted, epoch>>

Executed(r, fresh) == [request |-> r, result |-> ApplyCommand(r, TRUE, fresh)]

\* An operation of the current connection takes effect and is recorded.
Execute(r) ==
    /\ r.connection # 0 /\ domains[r.domain].connection = r.connection
    /\ NextInSequence(r)
    /\ \E fresh \in BOOLEAN : ApplyRows(Executed(r, fresh))
    /\ UNCHANGED <<minted, epoch>>

\* A connection is challenged, and later takes the place of the one before:
\* the domain must reconcile.
Challenge(d, connection) ==
    /\ connection > domains[d].connection
    /\ domains' = [domains EXCEPT ![d].challenge = connection]
    /\ UNCHANGED <<grants, candidates, operations, minted, epoch>>

Connect(d) ==
    /\ domains[d].challenge > domains[d].connection
    /\ domains' = [domains EXCEPT
          ![d].connection = domains[d].challenge, ![d].recovering = TRUE,
          ![d].challenge = 0, ![d].snapshot = {}]
    /\ UNCHANGED <<grants, candidates, operations, minted, epoch>>

Offer(due, offered) ==
    /\ OfferRows(due, offered)
    /\ UNCHANGED <<candidates, domains, operations, epoch>>

\* The request of an operation is the one it leaves in machine_operations.
Next ==
    \/ \E o \in operations' \ operations : Execute(o.request)
    \/ \E d \in Domains : Challenge(d, domains'[d].challenge) \/ Connect(d)
    \/ \E due \in SUBSET Keys : \E offered \in SUBSET Keys : Offer(due, offered)

Spec == StartRows /\ [][Next]_rowVars
=============================================================================
