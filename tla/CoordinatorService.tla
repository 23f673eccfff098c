------------------------- MODULE CoordinatorService -------------------------
(***************************************************************************)
(* The coordinator with its two stores implements the one-step Service.    *)
(***************************************************************************)
EXTENDS Coordinator

\* The operations as a manager can tell them apart: one that is journaled has
\* taken effect, whether or not SQLite has committed it yet.
Underway == {i \in pending : Recorded(i.request) = {}}

Effect(rows, new(_)) == IF Underway = {} THEN rows ELSE new(CHOOSE i \in Underway : TRUE)

Promised ==
    INSTANCE Service WITH
       grants <- Effect(grants, LAMBDA i : Replace(grants, i.result.saved)),
       candidates <- Effect(candidates, LAMBDA i : Replace(candidates, i.result.cands)),
       domains <- Effect(domains, LAMBDA i : [domains EXCEPT ![i.request.domain] =
                            DomainAfter(@, i.request, i.result.outcome)]),
       operations <- Effect(operations,
                            LAMBDA i : OperationsAfter(i.request, i.result.outcome))

\* The coordinator implements Service across every crash and failed commit (as
\* long as SQLite is not lost): two stores and a journal, seen as one step per
\* operation.
ImplementsService == Promised!Spec
=============================================================================
