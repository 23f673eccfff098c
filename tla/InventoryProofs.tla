--------------------------- MODULE InventoryProofs ---------------------------
(***************************************************************************)
(* SQLite and the registry agree on every right while admission is open,   *)
(* for every set of domains and keys and any number of crashes and losses. *)
(***************************************************************************)
EXTENDS CoordinatorProofs

USE DEF Held, Outstanding

-----------------------------------------------------------------------------
(* The Grant rows of one operation *)

\* What an operation saves: a journaled one rights that are held or released,
\* any other one only the expiry of an Offer.
SavesWell(result) ==
    IF Prepared(result)
    THEN \A k \in DOMAIN result.saved : result.saved[k].state \in Held \cup {"released"}
    ELSE \A k \in DOMAIN result.saved :
            grants[k].state = "offered" /\ result.saved[k].state = "expired"

LEMMA NothingSaved ==
    ASSUME NEW out, NEW cands PROVE SavesWell(Result(out, NoRows, cands))
BY ResultFields DEF SavesWell, NoRows

LEMMA RejectedSaves == SavesWell(Rejected)
BY NothingSaved DEF Rejected

LEMMA OneSaved ==
    ASSUME NEW out, NEW cands, NEW k, NEW row,
           out.kind \in {"grant", "ticket", "released"},
           row.state \in Held \cup {"released"}
    PROVE  SavesWell(Result(out, Row(k, row), cands))
BY ResultFields DEF SavesWell, Row, Prepared

LEMMA OneExpired ==
    ASSUME NEW out, NEW cands, NEW k, NEW row,
           out.kind = "accepted", grants[k].state = "offered", row.state = "expired"
    PROVE  SavesWell(Result(out, Row(k, row), cands))
BY ResultFields DEF SavesWell, Row, Prepared

LEMMA Restated ==
    ASSUME NEW g \in Grant, NEW s PROVE [g EXCEPT !.state = s].state = s
BY DEF Grant

LEMMA SealedReleased ==
    ASSUME TypeOK, NEW seal \in Seal PROVE Sealed(seal).state = "released"
<1>1. grants[seal.key] \in Grant
  BY DEF TypeOK, SqlOK, Sql, Seal
<1> QED BY <1>1 DEF Sealed, Grant

LEMMA ApplyCommandSaves ==
    ASSUME TypeOK, NEW r, RequestOK(r), r.command \in Command, NEW open, NEW fresh
    PROVE  SavesWell(ApplyCommand(r, open, fresh))
<1> DEFINE c == r.command
<1>t. /\ grants \in [Keys -> Grant] /\ domains \in [Domains -> DomainRow]
      /\ r.domain \in Domains
  BY DEF TypeOK, SqlOK, Sql, RequestOK
<1>1. CASE c.type = "upsert"
  BY <1>1, NothingSaved, RejectedSaves DEF ApplyCommand, CandidateUpsert
<1>2. CASE c.type \in {"withdraw", "cancel"}
  <2>1. c.key \in Keys
    BY <1>2, CommandFields
  <2>2. ASSUME NEW cands, grants[c.key].state = "offered"
        PROVE  SavesWell(Result([kind |-> "accepted", revision |-> c.revision],
                            Row(c.key, [grants[c.key] EXCEPT !.state = "expired"]), cands))
    <3> DEFINE row == [grants[c.key] EXCEPT !.state = "expired"]
               out == [kind |-> "accepted", revision |-> c.revision]
    <3>1. row.state = "expired" /\ out.kind = "accepted"
      BY <1>t, <2>1, Restated
    <3> HIDE DEF row, out
    <3>2. SavesWell(Result(out, Row(c.key, row), cands))
      BY <2>2, <3>1, OneExpired
    <3> QED BY <3>2 DEF row, out
  <2>3. SavesWell(Withdrawal(r))
    BY <2>2, NothingSaved, RejectedSaves DEF Withdrawal
  <2> QED BY <1>2, <2>3 DEF ApplyCommand
<1>3. CASE c.type = "arm"
  <2>1. c.key \in Keys
    BY <1>3, CommandFields
  <2> DEFINE armed == IF grants[c.key].state = "offered"
                      THEN [grants[c.key] EXCEPT !.state = "armed"] ELSE grants[c.key]
             out == [kind |-> "grant", key |-> c.key, grant |-> armed]
  <2>2. grants[c.key].state \in Outstanding => armed.state \in Held
    <3>1. [grants[c.key] EXCEPT !.state = "armed"].state = "armed"
      BY <1>t, <2>1, Restated
    <3> QED BY <3>1
  <2>3. out.kind = "grant"
    OBVIOUS
  <2>4. Arm(r, open, fresh) = Rejected \/
           (grants[c.key].state \in Outstanding /\
            Arm(r, open, fresh) = Result(out, Row(c.key, armed), NoRows))
    BY DEF Arm
  <2> HIDE DEF armed, out
  <2>5. SavesWell(Arm(r, open, fresh))
    BY <2>2, <2>3, <2>4, OneSaved, RejectedSaves
  <2> QED BY <1>3, <2>5 DEF ApplyCommand
<1>4. CASE c.type = "authorize"
  <2>1. c.key \in Keys
    BY <1>4, CommandFields
  <2> DEFINE row == [grants[c.key] EXCEPT !.tickets = Append(@, c.intent)]
             out == [kind |-> "ticket", key |-> c.key, nonce |-> grants[c.key].nonce,
                     intent |-> c.intent]
  <2>2. row.state = grants[c.key].state
    BY <1>t, <2>1 DEF Grant
  <2>3. out.kind = "ticket"
    OBVIOUS
  <2>4. AuthorizeInvocation(r, open, fresh) = Rejected \/
           (grants[c.key].state = "armed" /\
            AuthorizeInvocation(r, open, fresh) = Result(out, Row(c.key, row), NoRows))
    BY DEF AuthorizeInvocation
  <2> HIDE DEF row, out
  <2>5. ASSUME row.state = "armed" PROVE SavesWell(Result(out, Row(c.key, row), NoRows))
    BY <2>3, <2>5, OneSaved
  <2>6. SavesWell(AuthorizeInvocation(r, open, fresh))
    BY <2>2, <2>4, <2>5, RejectedSaves
  <2> QED BY <1>4, <2>6 DEF ApplyCommand
<1>5. CASE c.type = "uncertain"
  <2>1. c.key \in Keys
    BY <1>5, CommandFields
  <2> DEFINE row == [grants[c.key] EXCEPT !.state = "uncertain"]
             out == [kind |-> "grant", key |-> c.key, grant |-> row]
  <2>2. row.state = "uncertain"
    BY <1>t, <2>1 DEF Grant
  <2>3. out.kind = "grant"
    OBVIOUS
  <2>4. ReportUncertain(r) = Rejected \/
           ReportUncertain(r) = Result(out, Row(c.key, row), NoRows)
    BY DEF ReportUncertain
  <2> HIDE DEF row, out
  <2>5. SavesWell(Result(out, Row(c.key, row), NoRows))
    BY <2>2, <2>3, OneSaved
  <2>6. SavesWell(ReportUncertain(r))
    BY <2>4, <2>5, RejectedSaves
  <2> QED BY <1>5, <2>6 DEF ApplyCommand
<1>6. CASE c.type = "release"
  <2>1. c.seal \in Seal
    BY <1>6, CommandFields
  <2>2. Sealed(c.seal).state = "released"
    BY <2>1, SealedReleased
  <2>3. SavesWell(Release(r))
    BY <2>2, OneSaved, RejectedSaves DEF Release
  <2> QED BY <1>6, <2>3 DEF ApplyCommand
<1>7. CASE c.type = "ack"
  BY <1>7, NothingSaved, RejectedSaves DEF ApplyCommand, Acknowledge
<1>8. CASE c.type = "inspect"
  BY <1>8, NothingSaved, RejectedSaves DEF ApplyCommand, Inspect
<1>9. CASE c.type = "page"
  BY <1>9, NothingSaved, RejectedSaves DEF ApplyCommand, InspectPage
<1>10. CASE c.type = "begin"
  BY <1>10, NothingSaved, RejectedSaves DEF ApplyCommand, ReconcileBegin
<1>11. CASE c.type = "records"
  BY <1>11, NothingSaved, RejectedSaves DEF ApplyCommand, ReconcilePage
<1>12. CASE c.type = "commit"
  <2> DEFINE complete == {s \in domains[r.domain].snapshot :
                             s.pages = s.digest /\ NoneTwice(s.pages)}
             inventory == UNION {UNION {s.pages[i] : i \in DOMAIN s.pages} : s \in complete}
             seals == UNION {a.seal : a \in inventory}
             released == {seal.key : seal \in seals}
             rows == [k \in released |-> Sealed(CHOOSE seal \in seals : seal.key = k)]
             out == [kind |-> "reconciled", released |-> released]
  <2>1. seals \subseteq Seal
    <3>1. ASSUME NEW s \in complete, NEW i \in DOMAIN s.pages
          PROVE  s.pages[i] \subseteq Allocation
      <4>1. s.pages \in Seq(SUBSET Allocation)
        BY <1>t DEF DomainRow
      <4> QED BY <4>1
    <3>2. inventory \subseteq Allocation
      BY <3>1
    <3> HIDE DEF inventory
    <3> QED BY <3>2 DEF Allocation
  <2> HIDE DEF seals
  <2>2. ASSUME NEW k \in released PROVE rows[k].state = "released"
    <3>1. (CHOOSE seal \in seals : seal.key = k) \in Seal
      BY <2>1 DEF released
    <3> QED BY <3>1, SealedReleased
  <2>3. DOMAIN rows = released /\ out.kind = "reconciled" /\ out.released = released
    OBVIOUS
  <2>4. ReconcileCommit(r) = Rejected \/
           ReconcileCommit(r) = Result(out, rows, ReleasedCandidates(released))
    BY DEF ReconcileCommit, seals
  <2> HIDE DEF rows, out, released
  <2>5. SavesWell(Result(out, rows, ReleasedCandidates(released)))
    BY <2>2, <2>3, ResultFields DEF SavesWell, Prepared
  <2> QED BY <1>12, <2>4, <2>5, RejectedSaves DEF ApplyCommand
<1> QED BY <1>1, <1>2, <1>3, <1>4, <1>5, <1>6, <1>7, <1>8, <1>9, <1>10, <1>11, <1>12,
           CommandFields
-----------------------------------------------------------------------------
(* What the steps of an operation do to the two stores *)

\* An operation that is not journaled leaves every right SQLite shows.
LEMMA ExecutedAgrees ==
    ASSUME TypeOK, SameInventory, NEW i, IntentOK(i), SavesWell(i.result),
           ~Prepared(i.result), grants' = Replace(grants, i.result.saved),
           UNCHANGED permissions
    PROVE  SameInventory'
<1> SUFFICES ASSUME NEW k \in Keys
             PROVE  permissions[k] = IF grants'[k].state \in Held THEN grants'[k] ELSE NoGrant
  BY DEF SameInventory
<1>1. permissions[k] = IF grants[k].state \in Held THEN grants[k] ELSE NoGrant
  BY DEF SameInventory
<1>2. grants \in [Keys -> Grant]
  BY DEF TypeOK, SqlOK, Sql
<1>3. grants'[k] = IF k \in DOMAIN i.result.saved THEN i.result.saved[k] ELSE grants[k]
  BY <1>2 DEF Replace
<1>4. k \in DOMAIN i.result.saved =>
         grants[k].state = "offered" /\ i.result.saved[k].state = "expired"
  BY DEF SavesWell
<1> QED BY <1>1, <1>3, <1>4

\* The journaled permissions are what SQLite shows, overlaid with the operation.
LEMMA JournaledOverlay ==
    ASSUME SameInventory, NEW i, JournalIntent(i), UNCHANGED grants
    PROVE  \A k \in Keys : permissions'[k] = Overlaid(i, k)'
BY DEF SameInventory, JournalIntent, Overlaid, Shown

\* SQLite commits what the registry has journaled.
LEMMA AppliedCommits ==
    ASSUME TypeOK, NEW i \in pending,
           \A k \in DOMAIN i.result.saved : i.result.saved[k].state \in Held \cup {"released"},
           \A k \in Keys : permissions[k] = Overlaid(i, k),
           grants' = Replace(grants, i.result.saved), UNCHANGED permissions
    PROVE  Committed(i)'
<1> SUFFICES ASSUME NEW k \in Keys
             PROVE  /\ k \in DOMAIN i.result.saved => grants'[k] = i.result.saved[k]
                    /\ \/ k \in DOMAIN i.result.saved /\ grants'[k].state = "released"
                       \/ permissions'[k] = Shown(k)'
  BY DEF Committed
<1>1. grants \in [Keys -> Grant]
  BY DEF TypeOK, SqlOK, Sql
<1>2. grants'[k] = IF k \in DOMAIN i.result.saved THEN i.result.saved[k] ELSE grants[k]
  BY <1>1 DEF Replace
<1>3. permissions'[k] = Overlaid(i, k)
  OBVIOUS
<1> QED BY <1>2, <1>3 DEF Overlaid, Shown

\* The same holds when SQLite had already committed it.
LEMMA KnownCommits ==
    ASSUME NEW i \in pending,
           \A k \in DOMAIN i.result.saved : i.result.saved[k].state \in Held \cup {"released"},
           \A k \in Keys : permissions[k] = Overlaid(i, k),
           \A k \in DOMAIN i.result.saved : grants[k] = i.result.saved[k],
           UNCHANGED <<grants, permissions>>
    PROVE  Committed(i)'
BY DEF Committed, Overlaid, Shown

\* The registry finishes what SQLite has committed.
LEMMA FinishAgrees ==
    ASSUME NEW i \in pending, Committed(i), FinishIntent(i), UNCHANGED grants
    PROVE  SameInventory' /\ pending' = {}
<1> SUFFICES ASSUME NEW k \in Keys
             PROVE  permissions'[k] = IF grants[k].state \in Held THEN grants[k] ELSE NoGrant
  BY DEF SameInventory, FinishIntent
<1>1. permissions'[k] = IF k \in DOMAIN i.result.saved /\ i.result.saved[k].state = "released"
                        THEN NoGrant ELSE permissions[k]
  BY DEF FinishIntent
<1>2. /\ k \in DOMAIN i.result.saved => grants[k] = i.result.saved[k]
      /\ \/ k \in DOMAIN i.result.saved /\ grants[k].state = "released"
         \/ permissions[k] = IF grants[k].state \in Held THEN grants[k] ELSE NoGrant
  BY DEF Committed, Shown
<1> QED BY <1>1, <1>2
-----------------------------------------------------------------------------
(* Each step keeps the stores in step *)

LEMMA InStepInit == Init => StoresInStep
BY DEF Init, StartRows, StoresInStep, SameInventory, NoGrant

LEMMA ExchangeInStep ==
    ASSUME TypeOK, StoresInStep, NEW r, RequestOK(r), r.command \in Command,
           ExecuteExchange(r) \/ JournalExchange(r)
    PROVE  StoresInStep'
<1>1. ASSUME NEW fresh \in BOOLEAN
      PROVE  /\ IntentOK([request |-> r, result |-> ApplyCommand(r, ~Closed, fresh)])
             /\ SavesWell(ApplyCommand(r, ~Closed, fresh))
  BY ApplyCommandOK, ApplyCommandSaves DEF ResultOK, IntentOK
<1>2. phase = "idle" /\ Recorded(r) = {} /\ (gate = 0 => pending = {} /\ store = bound)
  BY DEF ExecuteExchange, JournalExchange, Serving, NothingToReconcile, NextInSequence,
         StoresInStep
<1>3. gate = 0 => SameInventory
  BY <1>2 DEF StoresInStep
<1>4. CASE ExecuteExchange(r)
  <2>1. PICK fresh \in BOOLEAN :
            /\ ~Prepared(ApplyCommand(r, ~Closed, fresh))
            /\ ApplySql([request |-> r, result |-> ApplyCommand(r, ~Closed, fresh)])
            /\ current' = {[request |-> r, result |-> ApplyCommand(r, ~Closed, fresh)]}
    BY <1>4 DEF ExecuteExchange
  <2> DEFINE i == [request |-> r, result |-> ApplyCommand(r, ~Closed, fresh)]
  <2>2. IntentOK(i) /\ SavesWell(i.result) /\ ~Prepared(i.result)
        /\ grants' = Replace(grants, i.result.saved) /\ store' = store
    BY <1>1, <2>1 DEF ApplySql, ApplyRows
  <2>3. current' = {i} /\ phase' = "committed" /\ UNCHANGED <<permissions, pending, bound, gate>>
    BY <1>4, <2>1 DEF ExecuteExchange
  <2> HIDE DEF i
  <2>4. gate = 0 => SameInventory'
    BY <1>3, <2>2, <2>3, ExecutedAgrees
  <2> QED BY <1>2, <2>2, <2>3, <2>4 DEF StoresInStep
<1>5. CASE JournalExchange(r)
  <2>1. PICK fresh \in BOOLEAN :
            /\ Prepared(ApplyCommand(r, ~Closed, fresh))
            /\ JournalIntent([request |-> r, result |-> ApplyCommand(r, ~Closed, fresh)])
            /\ current' = {[request |-> r, result |-> ApplyCommand(r, ~Closed, fresh)]}
    BY <1>5 DEF JournalExchange
  <2>2. PICK i :
           /\ \A k \in DOMAIN i.result.saved : i.result.saved[k].state \in Held \cup {"released"}
           /\ JournalIntent(i) /\ i.request = r /\ current' = {i}
    BY <1>1, <2>1 DEF SavesWell
  <2>3. phase' = "journaled" /\ UNCHANGED <<bound, gate, store, grants, operations>>
    BY <1>5 DEF JournalExchange, sqlVars
  <2>4. pending' = {i}
    BY <2>2 DEF JournalIntent
  <2>5. Recorded(i.request)' = {}
    BY <1>2, <2>2, <2>3 DEF Recorded
  <2>6. gate = 0 => \A k \in Keys : permissions'[k] = Overlaid(i, k)'
    BY <1>3, <2>2, <2>3, JournaledOverlay
  <2> QED BY <1>2, <2>2, <2>3, <2>4, <2>5, <2>6 DEF StoresInStep
<1> QED BY <1>4, <1>5

LEMMA ReplayInStep ==
    ASSUME TypeOK, StoresInStep, NEW r, ReplayExchange(r)
    PROVE  StoresInStep'
<1>1. phase = "idle" /\ (gate = 0 => pending = {} /\ store = bound)
      /\ UNCHANGED <<grants, operations, store, bound, gate>>
  BY DEF ReplayExchange, Serving, NothingToReconcile, StoresInStep, sqlVars
<1>2. gate = 0 => SameInventory
  BY <1>1 DEF StoresInStep
<1>3. PICK o \in Recorded(r) :
         LET i == [request |-> r, result |-> Result(o.outcome, NoRows, NoRows)]
         IN IF o.outcome.kind = "acknowledged"
            THEN /\ pending = {} /\ JournalIntent(i) /\ current' = {i}
                 /\ phase' = "journaled"
            ELSE UNCHANGED <<permissions, pending, volatileVars>>
  BY DEF ReplayExchange
<1>4. CASE o.outcome.kind = "acknowledged"
  <2> DEFINE i == [request |-> r, result |-> Result(o.outcome, NoRows, NoRows)]
  <2>1. DOMAIN i.result.saved = {}
    BY ResultFields DEF NoRows
  <2>2. JournalIntent(i) /\ current' = {i} /\ phase' = "journaled"
    BY <1>3, <1>4
  <2> HIDE DEF i
  <2>3. pending' = {i}
    BY <2>2 DEF JournalIntent
  <2>4. gate = 0 => \A k \in Keys : permissions'[k] = Overlaid(i, k)'
    BY <1>1, <1>2, <2>2, JournaledOverlay
  <2> QED BY <1>1, <2>1, <2>2, <2>3, <2>4 DEF StoresInStep
<1>5. CASE o.outcome.kind # "acknowledged"
  <2>1. UNCHANGED <<permissions, pending, phase, current>>
    BY <1>3, <1>5 DEF volatileVars
  <2> QED BY <1>1, <1>2, <2>1 DEF StoresInStep, SameInventory
<1> QED BY <1>4, <1>5

LEMMA CommitInStep ==
    ASSUME TypeOK, StoresInStep, CommitExchange
    PROVE  StoresInStep'
<1>1. phase = "journaled" /\ phase' = "committed"
      /\ UNCHANGED <<permissions, pending, bound, gate, current>>
  BY DEF CommitExchange, registryVars
<1>2. PICK i \in current : IF Recorded(i.request) # {}
                           THEN UNCHANGED <<sqlVars, settled>> ELSE ApplySql(i)
  BY DEF CommitExchange
<1>3. store' = store
  BY <1>2 DEF sqlVars, ApplySql
<1>4. gate = 0 => Committed(i)'
  <2> SUFFICES ASSUME gate = 0 PROVE Committed(i)'
    OBVIOUS
  <2>1. /\ i \in pending
        /\ \A k \in DOMAIN i.result.saved : i.result.saved[k].state \in Held \cup {"released"}
        /\ \A k \in Keys : permissions[k] = Overlaid(i, k)
        /\ Recorded(i.request) # {} => DOMAIN i.result.saved = {}
    BY <1>1 DEF StoresInStep
  <2>2. CASE Recorded(i.request) # {}
    BY <1>1, <1>2, <2>1, <2>2, KnownCommits DEF sqlVars
  <2>3. CASE Recorded(i.request) = {}
    BY <1>1, <1>2, <2>1, <2>3, AppliedCommits DEF ApplySql, ApplyRows
  <2> QED BY <2>2, <2>3
<1>5. gate = 0 => current = {i} /\ pending = {i} /\ store = bound
  BY <1>1 DEF StoresInStep
<1> QED BY <1>1, <1>3, <1>4, <1>5 DEF StoresInStep

LEMMA FinishInStep ==
    ASSUME TypeOK, StoresInStep, FinishExchange
    PROVE  StoresInStep'
<1>1. phase = "committed" /\ phase' = "idle" /\ current' = {}
      /\ UNCHANGED <<grants, store, bound, gate>>
  BY DEF FinishExchange, sqlVars
<1>2. pending' = {} \/ UNCHANGED pending
  BY DEF FinishExchange, FinishIntent
<1>3. ASSUME gate = 0 PROVE SameInventory' /\ pending' = {}
  <2>1. CASE pending = {}
    <3>1. UNCHANGED <<permissions, pending>> /\ SameInventory
      BY <1>1, <1>3, <2>1 DEF FinishExchange, StoresInStep
    <3> QED BY <1>1, <2>1, <3>1 DEF SameInventory
  <2>2. CASE pending # {}
    <3>1. current \subseteq pending
      BY <1>1, <1>3, <2>2 DEF StoresInStep
    <3>2. PICK i \in pending : FinishIntent(i)
      BY <3>1 DEF FinishExchange
    <3>3. Committed(i)
      BY <1>1, <1>3 DEF StoresInStep
    <3> QED BY <1>1, <3>2, <3>3, FinishAgrees
  <2> QED BY <2>1, <2>2
<1> QED BY <1>1, <1>2, <1>3 DEF StoresInStep

LEMMA ConnectInStep ==
    ASSUME TypeOK, StoresInStep, NEW d,
           ConnectBegin(d) \/ ConnectFinish(d, domains[d].challenge) \/ ConnectCommit \/ FailCommit
    PROVE  StoresInStep'
<1>1. UNCHANGED <<grants, operations, store, permissions, pending, bound, gate>>
  BY DEF ConnectBegin, ConnectFinish, ConnectCommit, FailCommit, sqlVars, registryVars
<1>2. SameInventory' <=> SameInventory
  BY <1>1 DEF SameInventory
<1>3. \A i : \A k \in Keys : Overlaid(i, k)' = Overlaid(i, k)
  BY <1>1 DEF Overlaid, Shown
<1>4. CASE ConnectBegin(d)
  <2>1. phase = "idle" /\ UNCHANGED <<phase, current>>
    BY <1>4 DEF ConnectBegin, Serving, volatileVars
  <2> QED BY <1>1, <1>2, <1>3, <2>1 DEF StoresInStep
<1>5. CASE ConnectFinish(d, domains[d].challenge)
  <2>1. phase = "idle" /\ phase' = "session" /\ (gate = 0 => pending = {})
    BY <1>5 DEF ConnectFinish, Serving, NothingToReconcile, StoresInStep
  <2> QED BY <1>1, <1>2, <2>1 DEF StoresInStep
<1>6. CASE ConnectCommit \/ FailCommit
  <2>1. phase \in {"session", "journaled"} /\ phase' = "idle" /\ current' = {}
    BY <1>6 DEF ConnectCommit, FailCommit
  <2> QED BY <1>1, <1>2, <1>3, <2>1 DEF StoresInStep
<1> QED BY <1>4, <1>5, <1>6

LEMMA ScheduleInStep ==
    ASSUME TypeOK, StoresInStep, NEW due \in SUBSET Keys, NEW offered \in SUBSET Keys,
           Schedule(due, offered)
    PROVE  StoresInStep'
<1>1. phase = "idle" /\ gate = 0 /\ pending = {}
      /\ UNCHANGED <<store, permissions, pending, bound, gate, phase, current>>
  BY DEF Schedule, Serving, Closed, registryVars, volatileVars
<1>2. SameInventory
  BY <1>1 DEF StoresInStep
<1>3. SameInventory'
  <2> SUFFICES ASSUME NEW k \in Keys
               PROVE  permissions[k] = IF grants'[k].state \in Held THEN grants'[k] ELSE NoGrant
    BY <1>1 DEF SameInventory
  <2>1. permissions[k] = IF grants[k].state \in Held THEN grants[k] ELSE NoGrant
    BY <1>2 DEF SameInventory
  <2>2. grants[k] \in Grant
    BY DEF TypeOK, SqlOK, Sql
  <2>3. CASE k \in due
    <3>1. grants[k].state = "offered" /\ grants'[k] = [grants[k] EXCEPT !.state = "expired"]
      BY <2>3 DEF Schedule, OfferRows
    <3>2. grants'[k].state = "expired"
      BY <2>2, <3>1, Restated
    <3> QED BY <2>1, <3>1, <3>2
  <2>4. CASE k \notin due /\ k \in offered
    <3>1. grants[k].state \in {"none", "expired"} /\ grants'[k].state = "offered"
      BY <2>4 DEF Schedule, OfferRows, Offerable
    <3> QED BY <2>1, <3>1
  <2>5. CASE k \notin due /\ k \notin offered
    <3>1. grants'[k] = grants[k]
      BY <2>5 DEF Schedule, OfferRows
    <3> QED BY <2>1, <3>1
  <2> QED BY <2>3, <2>4, <2>5
<1> QED BY <1>1, <1>3 DEF StoresInStep

LEMMA FaultInStep ==
    ASSUME TypeOK, StoresInStep,
           Crash \/ TakeBackup \/ RestoreBackup \/ LoseStore \/ BindCoordinator
    PROVE  StoresInStep'
<1>1. UNCHANGED <<permissions, pending, bound>>
  BY DEF Crash, TakeBackup, RestoreBackup, LoseStore, BindCoordinator, registryVars
<1>2. CASE Crash \/ RestoreBackup \/ LoseStore
  <2>1. phase' = "down" /\ current' = {} /\ UNCHANGED gate
    BY <1>2 DEF Crash, RestoreBackup, LoseStore, registryVars, volatileVars, StoresInStep
  <2> QED BY <1>1, <2>1 DEF StoresInStep
<1>3. CASE TakeBackup
  <2>1. UNCHANGED <<grants, operations, store, gate, phase, current>> /\ phase = "idle"
    BY <1>3 DEF TakeBackup, sqlVars, registryVars, volatileVars
  <2>2. SameInventory' <=> SameInventory
    BY <1>1, <2>1 DEF SameInventory
  <2>3. \A i : \A k \in Keys : Overlaid(i, k)' = Overlaid(i, k)
    BY <2>1 DEF Overlaid, Shown
  <2>4. gate = 0 /\ pending = {} => SameInventory'
    BY <2>1, <2>2 DEF StoresInStep
  <2>5. gate = 0 => \A i \in pending : \A k \in Keys : permissions'[k] = Overlaid(i, k)'
    <3>1. gate = 0 => \A i \in pending : \A k \in Keys : permissions[k] = Overlaid(i, k)
      BY <2>1 DEF StoresInStep
    <3> QED BY <1>1, <2>3, <3>1
  <2>6. /\ \A i \in pending : pending = {i} /\ \A k \in DOMAIN i.result.saved :
                             i.result.saved[k].state \in Held \cup {"released"}
        /\ current = {} /\ (gate = 0 => store = bound)
    BY <2>1 DEF StoresInStep
  <2> QED BY <1>1, <2>1, <2>4, <2>5, <2>6 DEF StoresInStep
<1>4. CASE BindCoordinator
  <2>1. gate \in Nat /\ epoch \in Nat
    BY DEF TypeOK
  <2>2. /\ phase = "down" /\ phase' = "bound" /\ UNCHANGED <<store, current>>
        /\ gate' = 0 => store = bound
    BY <1>4, <2>1 DEF BindCoordinator, ResetRecorded, sqlVars
  <2> QED BY <1>1, <2>2 DEF StoresInStep
<1> QED BY <1>2, <1>3, <1>4

LEMMA ReconcileInStep ==
    ASSUME TypeOK, StoresInStep, ReconcilePending
    PROVE  StoresInStep'
<1>1. /\ phase \in {"bound", "idle"} /\ gate \in Nat /\ epoch \in Nat
      /\ UNCHANGED <<permissions, pending, bound, current>>
  BY DEF ReconcilePending, TypeOK
<1>2. CASE NothingToReconcile
  <2>1. phase' = "checked" /\ UNCHANGED <<store, gate>> /\ phase = "bound"
    BY <1>2 DEF ReconcilePending, sqlVars
  <2>2. gate = 0 => pending = {}
    BY <1>2, <2>1 DEF NothingToReconcile, StoresInStep
  <2> QED BY <1>1, <2>1, <2>2 DEF StoresInStep
<1>3. CASE ~NothingToReconcile
  <2>1. gate = 0 /\ store = bound
    BY <1>3 DEF NothingToReconcile
  <2>2. PICK i \in pending :
           IF IntentConsistent(i)
           THEN /\ IF Recorded(i.request) = {}
                   THEN ApplySql(i) ELSE UNCHANGED <<sqlVars, settled>>
                /\ phase' = IF phase = "bound" THEN "applied" ELSE "committed"
                /\ UNCHANGED gate
           ELSE /\ gate' = ResetRecorded
                /\ phase' = IF phase = "bound" THEN "checked" ELSE "idle"
                /\ UNCHANGED <<sqlVars, settled>>
    BY <1>3 DEF ReconcilePending
  <2>3. /\ pending = {i}
        /\ \A k \in DOMAIN i.result.saved : i.result.saved[k].state \in Held \cup {"released"}
    BY DEF StoresInStep
  <2>4. current = {}
    BY <1>1 DEF StoresInStep
  <2>5. CASE ~IntentConsistent(i)
    <3>1. gate' # 0 /\ phase' \in {"checked", "idle"}
      BY <1>1, <2>1, <2>2, <2>5 DEF ResetRecorded
    <3> QED BY <1>1, <2>3, <2>4, <3>1 DEF StoresInStep
  <2>6. CASE IntentConsistent(i)
    <3>1. phase' = (IF phase = "bound" THEN "applied" ELSE "committed") /\ gate' = gate
      BY <2>2, <2>6
    <3>2. store' = store
      BY <2>2, <2>6 DEF ApplySql, sqlVars
    <3>3. ASSUME phase = "idle" PROVE Committed(i)'
      <4>1. \A k \in Keys : permissions[k] = Overlaid(i, k)
        BY <2>1, <3>3 DEF StoresInStep
      <4>2. CASE Recorded(i.request) = {}
        BY <1>1, <2>2, <2>3, <2>6, <4>1, <4>2, AppliedCommits DEF ApplySql, ApplyRows
      <4>3. CASE Recorded(i.request) # {}
        <5>1. \A k \in DOMAIN i.result.saved : grants[k] = i.result.saved[k]
          BY <2>6, <4>3 DEF IntentConsistent
        <5>2. UNCHANGED grants
          BY <2>2, <2>6, <4>3 DEF sqlVars
        <5> QED BY <1>1, <2>3, <4>1, <5>1, <5>2, KnownCommits
      <4> QED BY <4>2, <4>3
    <3> QED BY <1>1, <2>1, <2>3, <2>4, <3>1, <3>2, <3>3 DEF StoresInStep
  <2> QED BY <2>5, <2>6
<1> QED BY <1>2, <1>3

LEMMA StartupInStep ==
    ASSUME TypeOK, StoresInStep, FinishReconciled \/ ValidateHistory
    PROVE  StoresInStep'
<1>1. CASE FinishReconciled
  <2>1. phase = "applied" /\ phase' = "checked" /\ pending' = {}
        /\ UNCHANGED <<store, bound, gate, current>>
    BY <1>1 DEF FinishReconciled, FinishIntent, sqlVars
  <2> QED BY <2>1 DEF StoresInStep
<1>2. CASE ValidateHistory
  <2>1. /\ phase = "checked" /\ phase' = "idle"
        /\ UNCHANGED <<grants, store, permissions, pending, bound, current>>
    BY <1>2 DEF ValidateHistory, sqlVars
  <2>2. gate \in Nat /\ epoch \in Nat
    BY DEF TypeOK
  <2>3. gate' = 0 => gate = 0 /\ SameInventory
    BY <1>2, <2>2 DEF ValidateHistory, ResetRecorded
  <2>4. gate' = 0 => SameInventory' /\ pending = {} /\ store = bound
    BY <2>1, <2>3 DEF SameInventory, StoresInStep
  <2> QED BY <2>1, <2>4 DEF StoresInStep
<1> QED BY <1>1, <1>2

LEMMA ResetInStep ==
    ASSUME TypeOK, StoresInStep,
           PrepareReset \/ RebuildSql \/ FinishRebuilt \/ CompleteReset
    PROVE  StoresInStep'
<1>1. CASE PrepareReset \/ RebuildSql \/ FinishRebuilt
  <2>1. gate # 0 /\ UNCHANGED <<gate, current>>
    BY <1>1 DEF PrepareReset, RebuildSql, FinishRebuilt, registryVars, StoresInStep
  <2>2. current = {}
    BY <1>1 DEF PrepareReset, RebuildSql, FinishRebuilt, StoresInStep
  <2>3. pending' \in {pending, {}}
    BY <1>1 DEF PrepareReset, RebuildSql, FinishRebuilt, FinishIntent, registryVars
  <2> QED BY <2>1, <2>2, <2>3 DEF StoresInStep
<1>2. CASE CompleteReset
  <2>1. /\ phase = "idle" /\ phase' = "idle" /\ pending' = {} /\ bound' = store
        /\ UNCHANGED <<grants, store, permissions, current>>
    BY <1>2 DEF CompleteReset, sqlVars, volatileVars
  <2>2. SameInventory'
    BY <1>2, <2>1 DEF CompleteReset, SameInventory, Charged
  <2> QED BY <2>1, <2>2 DEF StoresInStep
<1> QED BY <1>1, <1>2

LEMMA InStepNext == TypeOK /\ StoresInStep /\ [Next]_vars => StoresInStep'
<1> SUFFICES ASSUME TypeOK, StoresInStep, [Next]_vars PROVE StoresInStep'
  OBVIOUS
<1>1. CASE Internal
  <2>1. ASSUME NEW due \in SUBSET {k \in Keys : grants[k].state = "offered"},
               NEW offered \in SUBSET {k \in Keys : Offerable(k)},
               Schedule(due, offered)
        PROVE  StoresInStep'
    BY <2>1, ScheduleInStep
  <2> QED BY <1>1, <2>1, CommitInStep, FinishInStep, ConnectInStep, FaultInStep,
             ReconcileInStep, StartupInStep, ResetInStep DEF Internal
<1>2. ASSUME NEW d \in Domains, NEW c \in Command, Exchange(NewRequest(d, c))
      PROVE  StoresInStep'
  <2>1. RequestOK(NewRequest(d, c)) /\ NewRequest(d, c).command \in Command
    BY NewRequestOK
  <2> QED BY <1>2, <2>1, ExchangeInStep, ReplayInStep DEF Exchange
<1>3. ASSUME NEW o \in Repeatable, ReplayExchange(o.request) PROVE StoresInStep'
  BY <1>3, ReplayInStep
<1>4. ASSUME NEW d \in Domains, ConnectBegin(d) \/ ConnectFinish(d, domains[d].challenge)
      PROVE  StoresInStep'
  BY <1>4, ConnectInStep
<1>5. CASE UNCHANGED vars
  <2>1. UNCHANGED <<grants, operations, store, permissions, pending, bound, gate, phase, current>>
    BY <1>5 DEF vars, sqlVars, registryVars, volatileVars
  <2>2. SameInventory' <=> SameInventory
    BY <2>1 DEF SameInventory
  <2>3. \A i : \A k \in Keys : Overlaid(i, k)' = Overlaid(i, k)
    BY <2>1 DEF Overlaid, Shown
  <2>4. \A i : Committed(i)' <=> Committed(i)
    BY <2>1 DEF Committed, Shown
  <2>5. \A i : Recorded(i.request)' = Recorded(i.request)
    BY <2>1 DEF Recorded
  <2> QED BY <2>1, <2>2, <2>3, <2>4, <2>5 DEF StoresInStep
<1> QED BY <1>1, <1>2, <1>3, <1>4, <1>5 DEF Next

\* At every moment of machine_exchange, of a start after a crash and of the
\* repair after a loss, SQLite and the registry differ by exactly the operation
\* the registry has journaled, or admission is closed.
THEOREM AlwaysInStep == Spec => []StoresInStep
BY InStepInit, InStepNext, TypeCorrect, PTL DEF Spec

\* While admission is open and nothing is journaled, the Grants of SQLite and
\* the permissions of the registry are the same rights.
THEOREM AlwaysAgree == Spec => []InventoriesAgree
<1>1. StoresInStep => InventoriesAgree
  BY DEF StoresInStep, InventoriesAgree
<1> QED BY <1>1, AlwaysInStep, PTL
=============================================================================
