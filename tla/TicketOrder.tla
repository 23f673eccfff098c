----------------------------- MODULE TicketOrder -----------------------------
(***************************************************************************)
(* The order in which one allocation may receive Invocation tickets, and   *)
(* the cover a sealed Release must give them.  Pure definitions, shared by *)
(* the coordinator and by the manager of an execution domain.              *)
(*                                                                         *)
(* An intent names the Invocation, its role and role index, and (as a set  *)
(* of at most one element) the cleanup proof of its predecessor.  The      *)
(* release sequence of an intent is its position in the ticket history,    *)
(* and an Invocation stands for its containment and readiness challenge,   *)
(* which are minted with it.  Digests are abstracted to the identity they  *)
(* are computed from.                                                      *)
(***************************************************************************)
EXTENDS Naturals, Sequences, FiniteSets

CONSTANTS Invocations,  \* identities a manager can give to an Invocation
          TicketLimit   \* most tickets one allocation may hold (256)

Roles == {"primary", "postcondition", "probe"}

\* What containment cleanup proved: whether user code was ever released.
Cleanup == [invocation : Invocations, used : BOOLEAN]

Intent == [invocation : Invocations, role : Roles, index : Nat,
           previous : SUBSET Cleanup]

Invoked(tickets) == {tickets[i].invocation : i \in DOMAIN tickets}

\* The exact predecessor cleanup accompanies every intent but the first.
PreviousMatches(tickets, intent) ==
    IF tickets = <<>>
    THEN intent.previous = {}
    ELSE \E proof \in intent.previous :
            /\ intent.previous = {proof}
            /\ proof.invocation = tickets[Len(tickets)].invocation

\* Whether the predecessor's user code ran, as its cleanup proof says.
PreviousUsed(intent) == \E proof \in intent.previous : proof.used

\* "work" allocations run Primary until it is used, then each Postcondition in
\* turn; a probe allocation runs its own Invocation once.
RoleFollows(tickets, intent, owner) ==
    IF owner # "work"
    THEN /\ tickets = <<>>
         /\ intent.role = "probe" /\ intent.index = 0
         /\ intent.invocation = owner
    ELSE IF tickets = <<>>
    THEN intent.role = "primary" /\ intent.index = 0
    ELSE LET last == tickets[Len(tickets)] IN
         \/ /\ last.role = "primary" /\ intent.index = 0
            /\ intent.role = IF PreviousUsed(intent) THEN "postcondition"
                                                     ELSE "primary"
         \/ /\ last.role = "postcondition" /\ intent.role = "postcondition"
            /\ intent.index = IF PreviousUsed(intent) THEN last.index + 1
                                                      ELSE last.index

ValidNext(tickets, intent, owner) ==
    /\ Len(tickets) < TicketLimit
    /\ intent.invocation \notin Invoked(tickets)
    /\ PreviousMatches(tickets, intent)
    /\ RoleFollows(tickets, intent, owner)

\* A seal proves the cleanup of exactly the issued tickets, and repeats every
\* cleanup an earlier ticket already carried.
Covers(proofs, tickets) ==
    /\ {proof.invocation : proof \in proofs} = Invoked(tickets)
    /\ Cardinality(proofs) = Len(tickets)
    /\ \A i \in DOMAIN tickets : \A proof \in tickets[i].previous :
           \A p \in proofs : p.invocation = proof.invocation => p = proof
=============================================================================
