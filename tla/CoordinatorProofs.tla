-------------------------- MODULE CoordinatorProofs --------------------------
(***************************************************************************)
(* Proofs about the coordinator for every set of domains, keys and         *)
(* Invocations and every bound.                                            *)
(***************************************************************************)
EXTENDS Coordinator, TLAPS

USE DEF Held, Outstanding
-----------------------------------------------------------------------------
(* Types *)

LEMMA NoRowsOK == ASSUME NEW S PROVE RowsOK(NoRows, S)
BY DEF RowsOK, NoRows

LEMMA RowOK == ASSUME NEW S, NEW k \in Keys, NEW value \in S PROVE RowsOK(Row(k, value), S)
BY DEF RowsOK, Row

LEMMA NoGrantOK == NoGrant \in Grant
BY DEF NoGrant, Grant, Seal

LEMMA NoCandidateOK == NoCandidate \in Candidate
BY DEF NoCandidate, Candidate

\* The fields of a command, by its type.
LEMMA CommandFields ==
    ASSUME NEW c \in Command
    PROVE  /\ c.type \in {"upsert", "withdraw", "cancel", "arm", "uncertain", "authorize",
                          "release", "inspect", "ack", "page", "begin", "records", "commit"}
           /\ c.type \in {"upsert", "withdraw", "cancel"} => c.key \in Keys /\ c.revision \in Nat
           /\ c.type \in {"arm", "uncertain"} => c.key \in Keys /\ c.nonce \in Nat
           /\ c.type = "authorize" => c.key \in Keys /\ c.nonce \in Nat /\ c.intent \in Intent
           /\ c.type = "release" => c.seal \in Seal
           /\ c.type = "inspect" => c.key \in Keys
           /\ c.type = "ack" => c.through \in Nat
           /\ c.type = "begin" => c.digest \in Seq(SUBSET Allocation)
           /\ c.type = "records" => c.index \in Nat /\ c.page \in SUBSET Allocation
BY DEF Command

LEMMA ReplaceOK ==
    ASSUME NEW S, NEW rows \in [Keys -> S], NEW new, RowsOK(new, S)
    PROVE  Replace(rows, new) \in [Keys -> S]
BY DEF Replace, RowsOK

LEMMA ResultFields ==
    ASSUME NEW a, NEW b, NEW c
    PROVE  Result(a, b, c).outcome = a /\ Result(a, b, c).saved = b /\ Result(a, b, c).cands = c
BY DEF Result

\* Rows and outcome of a result have their types.
ResultOK(result) ==
    /\ OutcomeOK(result.outcome)
    /\ RowsOK(result.saved, Grant) /\ RowsOK(result.cands, Candidate)

LEMMA ResultIsOK ==
    ASSUME NEW a, NEW b, NEW c, OutcomeOK(a), RowsOK(b, Grant), RowsOK(c, Candidate)
    PROVE  ResultOK(Result(a, b, c))
BY ResultFields DEF ResultOK

LEMMA RejectedOK == ResultOK(Rejected)
<1>1. OutcomeOK([kind |-> "rejected"])
  BY DEF OutcomeOK
<1> QED BY <1>1, NoRowsOK, ResultIsOK DEF Rejected

LEMMA SealedOK ==
    ASSUME TypeOK, NEW seal \in Seal
    PROVE  Sealed(seal) \in Grant
<1>1. grants[seal.key] \in Grant
  BY DEF TypeOK, SqlOK, Sql, Seal
<1> QED BY <1>1 DEF Sealed, Grant

LEMMA ReleasedCandidatesOK ==
    ASSUME TypeOK, NEW S \in SUBSET Keys
    PROVE  RowsOK(ReleasedCandidates(S), Candidate)
BY DEF TypeOK, SqlOK, Sql, ReleasedCandidates, RowsOK, Candidate

\* apply_command: whatever the command, the rows it writes have their types.
LEMMA ApplyCommandOK ==
    ASSUME TypeOK, NEW r, RequestOK(r), r.command \in Command, NEW open, NEW fresh
    PROVE  ResultOK(ApplyCommand(r, open, fresh))
<1> DEFINE c == r.command
<1>t. /\ grants \in [Keys -> Grant] /\ candidates \in [Keys -> Candidate]
      /\ domains \in [Domains -> DomainRow] /\ r.domain \in Domains
  BY DEF TypeOK, SqlOK, Sql, RequestOK
<1>1. CASE c.type = "upsert"
  <2>1. c.key \in Keys /\ c.revision \in Nat
    BY <1>1, CommandFields
  <2>2. [state |-> "ready", revision |-> c.revision] \in Candidate
    BY <2>1 DEF Candidate
  <2>3. OutcomeOK([kind |-> "accepted", revision |-> c.revision])
    BY DEF OutcomeOK
  <2>4. ResultOK(CandidateUpsert(r, open, fresh))
    BY <2>1, <2>2, <2>3, RejectedOK, ResultIsOK, NoRowsOK, RowOK DEF CandidateUpsert
  <2> QED BY <1>1, <2>4 DEF ApplyCommand
<1>2. CASE c.type \in {"withdraw", "cancel"}
  <2>1. c.key \in Keys /\ c.revision \in Nat
    BY <1>2, CommandFields
  <2>2. ASSUME NEW state \in {"canceled", "withdrawn"}
        PROVE [state |-> state, revision |-> c.revision] \in Candidate
    BY <2>1 DEF Candidate
  <2>3. [grants[c.key] EXCEPT !.state = "expired"] \in Grant
    BY <2>1, <1>t DEF Grant
  <2>4. OutcomeOK([kind |-> "accepted", revision |-> c.revision])
    BY DEF OutcomeOK
  <2>5. ResultOK(Withdrawal(r))
    BY <2>1, <2>2, <2>3, <2>4, RejectedOK, ResultIsOK, NoRowsOK, RowOK DEF Withdrawal
  <2> QED BY <1>2, <2>5 DEF ApplyCommand
<1>3. CASE c.type = "arm"
  <2>1. c.key \in Keys
    BY <1>3, CommandFields
  <2> DEFINE armed == IF grants[c.key].state = "offered"
                      THEN [grants[c.key] EXCEPT !.state = "armed"] ELSE grants[c.key]
  <2>2. armed \in Grant
    BY <2>1, <1>t DEF Grant
  <2>3. OutcomeOK([kind |-> "grant", key |-> c.key, grant |-> armed])
    BY DEF OutcomeOK
  <2> HIDE DEF armed
  <2>4. ResultOK(Result([kind |-> "grant", key |-> c.key, grant |-> armed],
                        Row(c.key, armed), NoRows))
    BY <2>1, <2>2, <2>3, ResultIsOK, NoRowsOK, RowOK
  <2>5. ResultOK(Arm(r, open, fresh))
    BY <2>4, RejectedOK DEF Arm, armed
  <2> QED BY <1>3, <2>5 DEF ApplyCommand
<1>4. CASE c.type = "authorize"
  <2>1. c.key \in Keys /\ c.intent \in Intent
    BY <1>4, CommandFields
  <2>2. [grants[c.key] EXCEPT !.tickets = Append(@, c.intent)] \in Grant
    <3>1. grants[c.key] \in Grant /\ grants[c.key].tickets \in Seq(Intent)
      BY <2>1, <1>t DEF Grant
    <3>2. Append(grants[c.key].tickets, c.intent) \in Seq(Intent)
      BY <3>1, <2>1
    <3> QED BY <3>1, <3>2 DEF Grant
  <2>3. OutcomeOK([kind |-> "ticket", key |-> c.key, nonce |-> grants[c.key].nonce,
                   intent |-> c.intent])
    BY DEF OutcomeOK
  <2>4. ResultOK(AuthorizeInvocation(r, open, fresh))
    BY <2>1, <2>2, <2>3, RejectedOK, ResultIsOK, NoRowsOK, RowOK DEF AuthorizeInvocation
  <2> QED BY <1>4, <2>4 DEF ApplyCommand
<1>5. CASE c.type = "uncertain"
  <2>1. c.key \in Keys
    BY <1>5, CommandFields
  <2>2. [grants[c.key] EXCEPT !.state = "uncertain"] \in Grant
    BY <2>1, <1>t DEF Grant
  <2>3. OutcomeOK([kind |-> "grant", key |-> c.key,
                   grant |-> [grants[c.key] EXCEPT !.state = "uncertain"]])
    BY DEF OutcomeOK
  <2>4. ResultOK(ReportUncertain(r))
    BY <2>1, <2>2, <2>3, RejectedOK, ResultIsOK, NoRowsOK, RowOK DEF ReportUncertain
  <2> QED BY <1>5, <2>4 DEF ApplyCommand
<1>6. CASE c.type = "release"
  <2>1. c.seal \in Seal /\ c.seal.key \in Keys
    BY <1>6, CommandFields DEF Seal
  <2>2. OutcomeOK([kind |-> "released", key |-> c.seal.key])
    BY DEF OutcomeOK
  <2>3. RowsOK(ReleasedCandidates({c.seal.key}), Candidate)
    BY <2>1, ReleasedCandidatesOK
  <2>4. ResultOK(Release(r))
    BY <2>1, <2>2, <2>3, SealedOK, RejectedOK, ResultIsOK, RowOK DEF Release
  <2> QED BY <1>6, <2>4 DEF ApplyCommand
<1>7. CASE c.type = "ack"
  <2>1. OutcomeOK([kind |-> "acknowledged", through |-> c.through])
    BY <1>7, CommandFields DEF OutcomeOK
  <2>2. ResultOK(Acknowledge(r))
    BY <2>1, RejectedOK, ResultIsOK, NoRowsOK DEF Acknowledge
  <2> QED BY <1>7, <2>2 DEF ApplyCommand
<1>8. CASE c.type = "inspect"
  <2>1. OutcomeOK([kind |-> "inspection", key |-> c.key, grant |-> grants[c.key]])
    BY DEF OutcomeOK
  <2>2. ResultOK(Inspect(r))
    BY <2>1, RejectedOK, ResultIsOK, NoRowsOK DEF Inspect
  <2> QED BY <1>8, <2>2 DEF ApplyCommand
<1>9. CASE c.type = "page"
  <2>1. ASSUME NEW a, NEW b PROVE OutcomeOK([kind |-> "page", grants |-> a, next |-> b])
    BY DEF OutcomeOK
  <2>2. ResultOK(InspectPage(r))
    BY <2>1, RejectedOK, ResultIsOK, NoRowsOK DEF InspectPage
  <2> QED BY <1>9, <2>2 DEF ApplyCommand
<1>10. CASE c.type = "begin"
  <2>1. OutcomeOK([kind |-> "accepted", revision |-> c.end])
    BY DEF OutcomeOK
  <2>2. ResultOK(ReconcileBegin(r))
    BY <2>1, RejectedOK, ResultIsOK, NoRowsOK DEF ReconcileBegin
  <2> QED BY <1>10, <2>2 DEF ApplyCommand
<1>11. CASE c.type = "records"
  <2>1. OutcomeOK([kind |-> "accepted", revision |-> c.index])
    BY DEF OutcomeOK
  <2>2. ResultOK(ReconcilePage(r))
    BY <2>1, RejectedOK, ResultIsOK, NoRowsOK DEF ReconcilePage
  <2> QED BY <1>11, <2>2 DEF ApplyCommand
<1>12. CASE c.type = "commit"
  <2> DEFINE complete == {s \in domains[r.domain].snapshot :
                             s.pages = s.digest /\ NoneTwice(s.pages)}
             inventory == UNION {UNION {s.pages[i] : i \in DOMAIN s.pages} : s \in complete}
             seals == UNION {a.seal : a \in inventory}
             released == {seal.key : seal \in seals}
  <2>1. inventory \subseteq Allocation
    <3>1. ASSUME NEW s \in complete PROVE s.pages \in Seq(SUBSET Allocation)
      BY <1>t DEF DomainRow
    <3>2. ASSUME NEW s \in complete, NEW i \in DOMAIN s.pages
          PROVE  s.pages[i] \subseteq Allocation
      BY <3>1
    <3> QED BY <3>2
  <2>2. seals \subseteq Seal
    BY <2>1 DEF Allocation
  <2> HIDE DEF inventory
  <2>3. released \subseteq Keys
    BY <2>2 DEF Seal
  <2> HIDE DEF seals
  <2>4. RowsOK([k \in released |-> Sealed(CHOOSE seal \in seals : seal.key = k)], Grant)
    <3>1. ASSUME NEW k \in released
          PROVE  Sealed(CHOOSE seal \in seals : seal.key = k) \in Grant
      <4>1. (CHOOSE seal \in seals : seal.key = k) \in Seal
        BY <2>2 DEF released
      <4> QED BY <4>1, SealedOK
    <3> QED BY <3>1, <2>3 DEF RowsOK
  <2>5. RowsOK(ReleasedCandidates(released), Candidate)
    BY <2>3, ReleasedCandidatesOK
  <2>6. OutcomeOK([kind |-> "reconciled", released |-> released])
    BY DEF OutcomeOK
  <2>7. ResultOK(ReconcileCommit(r))
    BY <2>4, <2>5, <2>6, RejectedOK, ResultIsOK DEF ReconcileCommit, released, seals, inventory
  <2> QED BY <1>12, <2>7 DEF ApplyCommand
<1> QED BY <1>1, <1>2, <1>3, <1>4, <1>5, <1>6, <1>7, <1>8, <1>9, <1>10, <1>11, <1>12,
           CommandFields

LEMMA DomainAfterOK ==
    ASSUME NEW d \in DomainRow, NEW r, RequestOK(r), NEW out, OutcomeOK(out)
    PROVE  DomainAfter(d, r, out) \in DomainRow
<1> DEFINE row == [d EXCEPT !.accepted = r.sequence]
           Snapshot == [digest : Seq(SUBSET Allocation), pages : Seq(SUBSET Allocation)]
<1>1. row \in DomainRow
  BY DEF DomainRow, RequestOK
<1>2. CASE out.kind = "acknowledged"
  <2>1. out.through \in Nat
    BY <1>2 DEF OutcomeOK
  <2> QED BY <1>1, <1>2, <2>1 DEF DomainAfter, DomainRow
<1>3. CASE out.kind = "reconciled"
  BY <1>1, <1>3 DEF DomainAfter, DomainRow
<1>4. CASE out.kind = "accepted" /\ r.command.type = "begin"
  <2>1. r.command.digest \in Seq(SUBSET Allocation)
    BY <1>4, CommandFields DEF RequestOK
  <2>2. <<>> \in Seq(SUBSET Allocation)
    OBVIOUS
  <2>3. [digest |-> r.command.digest, pages |-> <<>>] \in Snapshot
    BY <2>1, <2>2
  <2>4. DomainAfter(d, r, out) =
           [row EXCEPT !.recovering = TRUE,
                       !.snapshot = {[digest |-> r.command.digest, pages |-> <<>>]}]
    BY <1>4 DEF DomainAfter
  <2> DEFINE snapshots == {[digest |-> r.command.digest, pages |-> <<>>]}
  <2>5. snapshots \in SUBSET Snapshot
    BY <2>3
  <2>6. DomainAfter(d, r, out) = [row EXCEPT !.recovering = TRUE, !.snapshot = snapshots]
    BY <2>4
  <2> HIDE DEF snapshots, row
  <2> QED BY <1>1, <2>5, <2>6 DEF DomainRow
<1>5. CASE out.kind = "accepted" /\ r.command.type = "records"
  <2>1. r.command.page \in SUBSET Allocation
    BY <1>5, CommandFields DEF RequestOK
  <2> DEFINE after == {IF r.command.index <= Len(s.pages) THEN s
                       ELSE [s EXCEPT !.pages = Append(@, r.command.page)] : s \in d.snapshot}
  <2>2. after \subseteq Snapshot
    <3>1. ASSUME NEW s \in d.snapshot
          PROVE  [s EXCEPT !.pages = Append(@, r.command.page)] \in Snapshot
      <4>1. s \in Snapshot /\ s.pages \in Seq(SUBSET Allocation)
        BY DEF DomainRow
      <4>2. Append(s.pages, r.command.page) \in Seq(SUBSET Allocation)
        BY <4>1, <2>1
      <4> QED BY <4>1, <4>2
    <3> QED BY <3>1 DEF DomainRow
  <2>3. DomainAfter(d, r, out) = [row EXCEPT !.snapshot = after]
    BY <1>5 DEF DomainAfter, DomainRow
  <2> QED BY <1>1, <2>2, <2>3 DEF DomainRow
<1> QED BY <1>1, <1>2, <1>3, <1>4, <1>5 DEF DomainAfter

LEMMA ApplySqlOK ==
    ASSUME TypeOK, NEW i, IntentOK(i), ApplySql(i)
    PROVE  SqlOK(Sql)' /\ settled' \subseteq Keys
<1> DEFINE r == i.request
           out == i.result.outcome
<1>1. RequestOK(r) /\ OutcomeOK(out) /\ r.domain \in Domains
  BY DEF IntentOK, RequestOK
<1>2. grants' \in [Keys -> Grant] /\ candidates' \in [Keys -> Candidate]
  BY ReplaceOK DEF TypeOK, SqlOK, Sql, IntentOK, ApplySql, ApplyRows
<1>3. domains' \in [Domains -> DomainRow]
  BY <1>1, DomainAfterOK DEF TypeOK, SqlOK, Sql, ApplySql, ApplyRows
<1>4. \A o \in operations' : RequestOK(o.request) /\ OutcomeOK(o.outcome)
  BY <1>1 DEF TypeOK, SqlOK, Sql, ApplySql, ApplyRows, OperationsAfter
<1>5. settled' \subseteq Keys
  BY DEF TypeOK, ApplySql, ApplyRows, IntentOK, RowsOK
<1> QED BY <1>2, <1>3, <1>4, <1>5 DEF TypeOK, SqlOK, Sql, ApplySql, ApplyRows

LEMMA DomainFields ==
    ASSUME NEW row \in DomainRow
    PROVE  /\ row.connection \in Nat /\ row.accepted \in Nat
           /\ row.floor \in Nat /\ row.challenge \in Nat
BY DEF DomainRow

\* What a connection writes in its row.
LEMMA ConnectedRow ==
    ASSUME NEW row \in DomainRow, NEW n \in Nat
    PROVE  /\ [row EXCEPT !.challenge = n] \in DomainRow
           /\ [row EXCEPT !.connection = n, !.recovering = TRUE, !.challenge = 0,
                          !.snapshot = {}] \in DomainRow
BY DEF DomainRow

\* A requested command is well formed.
LEMMA NewRequestOK ==
    ASSUME TypeOK, NEW d \in Domains, NEW c \in Command
    PROVE  RequestOK(NewRequest(d, c)) /\ NewRequest(d, c).command \in Command
<1>1. domains[d] \in DomainRow
  BY DEF TypeOK, SqlOK, Sql
<1>2. domains[d].connection \in Nat /\ domains[d].accepted + 1 \in Nat
  BY <1>1, DomainFields
<1> QED BY <1>2 DEF NewRequest, RequestOK

LEMMA JournalIntentOK ==
    ASSUME TypeOK, NEW i, IntentOK(i), JournalIntent(i)
    PROVE  permissions' \in [Keys -> Grant] /\ pending' = {i}
BY DEF JournalIntent, IntentOK, RowsOK, TypeOK

LEMMA CheckpointOK ==
    ASSUME NEW a \in [next : Nat, session : Nat, accepted : Nat, floor : Nat], NEW n \in Nat
    PROVE  Checkpoint(a, n) \in [next : Nat, session : Nat, accepted : Nat, floor : Nat]
BY DEF Checkpoint

LEMMA FinishIntentOK ==
    ASSUME TypeOK, NEW i \in pending, FinishIntent(i)
    PROVE  /\ permissions' \in [Keys -> Grant] /\ retired' \subseteq Keys /\ pending' = {}
           /\ anchors' \in [Domains -> [next : Nat, session : Nat, accepted : Nat, floor : Nat]]
<1>1. IntentOK(i)
  BY DEF TypeOK
<1>2. permissions' \in [Keys -> Grant] /\ retired' \subseteq Keys /\ pending' = {}
  BY <1>1, NoGrantOK DEF FinishIntent, IntentOK, RowsOK, TypeOK
<1> DEFINE a == Checkpoint(anchors[i.request.domain], i.request.sequence)
           out == i.result.outcome
           new == IF out.kind = "acknowledged" /\ out.through > a.floor
                  THEN [a EXCEPT !.floor = out.through] ELSE a
<1>3. a \in [next : Nat, session : Nat, accepted : Nat, floor : Nat]
  BY <1>1, CheckpointOK DEF TypeOK, IntentOK, RequestOK
<1>4. new \in [next : Nat, session : Nat, accepted : Nat, floor : Nat]
  <2> HIDE DEF a
  <2>1. out.kind = "acknowledged" => out.through \in Nat
    BY <1>1 DEF IntentOK, OutcomeOK
  <2> QED BY <2>1, <1>3
<1>5. anchors' = [anchors EXCEPT ![i.request.domain] = new]
  BY DEF FinishIntent
<1> QED BY <1>2, <1>4, <1>5 DEF TypeOK

LEMMA TypeInit == Init => TypeOK
<1> SUFFICES ASSUME Init PROVE TypeOK
  OBVIOUS
<1>1. grants \in [Keys -> Grant] /\ permissions \in [Keys -> Grant]
  BY NoGrantOK DEF Init, StartRows
<1>2. candidates \in [Keys -> Candidate]
  BY NoCandidateOK DEF Init, StartRows
<1>3. domains \in [Domains -> DomainRow]
  BY DEF Init, StartRows, DomainRow
<1>4. anchors \in [Domains -> [next : Nat, session : Nat, accepted : Nat, floor : Nat]]
  BY DEF Init, StartRows
<1>5. SqlOK(Sql)
  BY <1>1, <1>2, <1>3 DEF Init, StartRows, SqlOK, Sql
<1>6. SqlOK(backup)
  BY <1>5 DEF Init, StartRows
<1> QED BY <1>1, <1>4, <1>5, <1>6 DEF Init, StartRows, TypeOK

LEMMA SqlSame == TypeOK /\ UNCHANGED sqlVars => SqlOK(Sql)'
BY DEF TypeOK, sqlVars, SqlOK, Sql

Anchor == [next : Nat, session : Nat, accepted : Nat, floor : Nat]

\* The conjuncts of TypeOK that most actions leave alone.
RestOK ==
    /\ bound \in Nat /\ gate \in Nat /\ epoch \in Nat
    /\ phase \in {"down", "bound", "applied", "checked", "idle", "journaled",
                  "committed", "session", "rebuilding", "rebuilt"}
    /\ minted \in Nat /\ settled \subseteq Keys /\ crashes \in Nat /\ losses \in Nat

LEMMA TypeParts ==
    TypeOK <=> /\ SqlOK(Sql) /\ SqlOK(backup)
               /\ permissions \in [Keys -> Grant] /\ retired \subseteq Keys
               /\ anchors \in [Domains -> Anchor]
               /\ \A i \in pending \cup current : IntentOK(i)
               /\ RestOK
BY DEF TypeOK, RestOK, Anchor

LEMMA CompactedOK == TypeOK => Compacted \subseteq Keys
BY DEF TypeOK, Compacted

LEMMA ExchangeType ==
    ASSUME TypeOK, NEW r, RequestOK(r), r.command \in Command,
           ExecuteExchange(r) \/ JournalExchange(r)
    PROVE  TypeOK'
<1>1. ASSUME NEW fresh \in BOOLEAN
      PROVE  IntentOK([request |-> r, result |-> ApplyCommand(r, ~Closed, fresh)])
  BY ApplyCommandOK DEF ResultOK, IntentOK
<1>2. CASE ExecuteExchange(r)
  <2>1. PICK fresh \in BOOLEAN :
            /\ ApplySql([request |-> r, result |-> ApplyCommand(r, ~Closed, fresh)])
            /\ current' = {[request |-> r, result |-> ApplyCommand(r, ~Closed, fresh)]}
    BY <1>2 DEF ExecuteExchange
  <2>2. SqlOK(Sql)' /\ settled' \subseteq Keys
    BY <1>1, <2>1, ApplySqlOK
  <2>3. \A i \in (pending \cup current)' : IntentOK(i)
    BY <1>1, <1>2, <2>1 DEF TypeOK, ExecuteExchange
  <2>4. SqlOK(backup)' /\ permissions' \in [Keys -> Grant] /\ retired' \subseteq Keys
        /\ anchors' \in [Domains -> Anchor]
    BY <1>2, CompactedOK, TypeParts DEF ExecuteExchange, faultVars
  <2>5. RestOK'
    BY <1>2, <2>2, TypeParts DEF ExecuteExchange, faultVars, RestOK
  <2> QED BY <2>2, <2>3, <2>4, <2>5 DEF TypeOK, RestOK, Anchor
<1>3. CASE JournalExchange(r)
  <2>1. PICK fresh \in BOOLEAN :
            /\ JournalIntent([request |-> r, result |-> ApplyCommand(r, ~Closed, fresh)])
            /\ current' = {[request |-> r, result |-> ApplyCommand(r, ~Closed, fresh)]}
    BY <1>3 DEF JournalExchange
  <2>2. permissions' \in [Keys -> Grant]
        /\ pending' = {[request |-> r, result |-> ApplyCommand(r, ~Closed, fresh)]}
    BY <1>1, <2>1, JournalIntentOK
  <2>3. \A i \in (pending \cup current)' : IntentOK(i)
    BY <1>1, <2>1, <2>2
  <2>4. SqlOK(Sql)'
    BY <1>3, SqlSame DEF JournalExchange
  <2>5. SqlOK(backup)' /\ retired' \subseteq Keys /\ anchors' \in [Domains -> Anchor]
    BY <1>3, CompactedOK, TypeParts DEF JournalExchange, faultVars
  <2>6. RestOK'
    BY <1>3, TypeParts DEF JournalExchange, faultVars, historyVars, RestOK
  <2> QED BY <2>2, <2>3, <2>4, <2>5, <2>6 DEF TypeOK, RestOK, Anchor
<1> QED BY <1>2, <1>3

LEMMA ReplayType ==
    ASSUME TypeOK, NEW r, ReplayExchange(r)
    PROVE  TypeOK'
<1>1. PICK o \in Recorded(r) :
         LET i == [request |-> r, result |-> Result(o.outcome, NoRows, NoRows)]
         IN /\ o.request = r
            /\ IF o.outcome.kind = "acknowledged"
               THEN /\ pending = {} /\ JournalIntent(i) /\ current' = {i}
                    /\ phase' = "journaled" /\ UNCHANGED <<anchors, replies>>
               ELSE /\ anchors' = [anchors EXCEPT ![r.domain] = Checkpoint(@, r.sequence)]
                    /\ UNCHANGED <<permissions, pending, volatileVars>>
  BY DEF ReplayExchange
<1> DEFINE i == [request |-> r, result |-> Result(o.outcome, NoRows, NoRows)]
<1>2. o.request = r /\ RequestOK(r) /\ OutcomeOK(o.outcome)
  <2>1. o \in operations /\ o.request = r
    BY <1>1 DEF Recorded
  <2>2. \A x \in operations : RequestOK(x.request) /\ OutcomeOK(x.outcome)
    BY DEF TypeOK, SqlOK, Sql
  <2> QED BY <2>1, <2>2
<1>3. IntentOK(i)
  BY <1>2, NoRowsOK, ResultFields DEF IntentOK
<1>4. permissions' \in [Keys -> Grant] /\ (\A x \in (pending \cup current)' : IntentOK(x))
      /\ anchors' \in [Domains -> Anchor] /\ phase' \in {phase, "journaled"}
  <2>1. CASE o.outcome.kind = "acknowledged"
    BY <1>1, <1>3, <2>1, JournalIntentOK, TypeParts
  <2>2. CASE o.outcome.kind # "acknowledged"
    <3>1. anchors \in [Domains -> Anchor] /\ r.domain \in Domains /\ r.sequence \in Nat
      BY <1>2, TypeParts DEF RequestOK
    <3>2. Checkpoint(anchors[r.domain], r.sequence) \in Anchor
      BY <3>1, CheckpointOK DEF Anchor
    <3>3. anchors' \in [Domains -> Anchor]
      BY <1>1, <2>2, <3>1, <3>2
    <3> QED BY <1>1, <2>2, <3>3, TypeParts DEF volatileVars
  <2> QED BY <2>1, <2>2
<1>5. SqlOK(Sql)'
  BY SqlSame DEF ReplayExchange
<1>6. SqlOK(backup)' /\ retired' \subseteq Keys
  BY CompactedOK, TypeParts DEF ReplayExchange, faultVars
<1>7. RestOK'
  BY <1>4, TypeParts DEF ReplayExchange, faultVars, RestOK
<1> QED BY <1>4, <1>5, <1>6, <1>7 DEF TypeOK, RestOK, Anchor

LEMMA CommitType ==
    ASSUME TypeOK, CommitExchange \/ ReconcilePending
    PROVE  TypeOK'
<1>1. SqlOK(Sql)' /\ settled' \subseteq Keys
  <2>1. \A i \in pending \cup current : IntentOK(i)
    BY DEF TypeOK
  <2>2. CASE UNCHANGED <<sqlVars, settled>>
    BY <2>2, SqlSame, TypeParts DEF RestOK
  <2>3. CASE \E i \in pending \cup current : ApplySql(i)
    BY <2>1, <2>3, ApplySqlOK
  <2> QED BY <2>2, <2>3 DEF CommitExchange, ReconcilePending
<1>2. SqlOK(backup)' /\ permissions' \in [Keys -> Grant] /\ retired' \subseteq Keys
      /\ anchors' \in [Domains -> Anchor]
      /\ (\A i \in (pending \cup current)' : IntentOK(i))
  BY TypeParts DEF CommitExchange, ReconcilePending, registryVars, faultVars
<1>3. RestOK'
  BY <1>1, TypeParts DEF CommitExchange, ReconcilePending, registryVars, faultVars,
                         RestOK, ResetRecorded
<1> QED BY <1>1, <1>2, <1>3 DEF TypeOK, RestOK, Anchor

LEMMA FinishType ==
    ASSUME TypeOK, FinishExchange \/ FinishReconciled \/ FinishRebuilt
    PROVE  TypeOK'
<1>1. /\ permissions' \in [Keys -> Grant] /\ retired' \subseteq Keys
      /\ pending' \subseteq pending /\ anchors' \in [Domains -> Anchor]
  <2>1. CASE \E i \in pending : FinishIntent(i)
    BY <2>1, FinishIntentOK DEF Anchor
  <2>2. CASE /\ \E i \in current : anchors' = [anchors EXCEPT ![i.request.domain] =
                                                  Checkpoint(@, i.request.sequence)]
             /\ UNCHANGED <<permissions, retired, pending>>
    <3>1. PICK i \in current : anchors' = [anchors EXCEPT ![i.request.domain] =
                                              Checkpoint(@, i.request.sequence)]
      BY <2>2
    <3>2. i.request.domain \in Domains /\ i.request.sequence \in Nat
          /\ anchors \in [Domains -> Anchor]
      BY TypeParts DEF IntentOK, RequestOK
    <3>3. Checkpoint(anchors[i.request.domain], i.request.sequence) \in Anchor
      BY <3>2, CheckpointOK DEF Anchor
    <3> QED BY <2>2, <3>1, <3>2, <3>3, TypeParts
  <2> QED BY <2>1, <2>2 DEF FinishExchange, FinishReconciled, FinishRebuilt
<1>2. SqlOK(Sql)'
  BY SqlSame DEF FinishExchange, FinishReconciled, FinishRebuilt
<1>3. SqlOK(backup)' /\ (\A i \in (pending \cup current)' : IntentOK(i))
  BY <1>1, TypeParts DEF FinishExchange, FinishReconciled, FinishRebuilt, faultVars
<1>4. RestOK'
  BY TypeParts DEF FinishExchange, FinishReconciled, FinishRebuilt, faultVars,
                   historyVars, RestOK
<1> QED BY <1>1, <1>2, <1>3, <1>4 DEF TypeOK, RestOK, Anchor

LEMMA ConnectType ==
    ASSUME TypeOK, NEW d \in Domains,
           ConnectBegin(d) \/ ConnectFinish(d, domains[d].challenge) \/ ConnectCommit
    PROVE  TypeOK'
<1>1. /\ domains \in [Domains -> DomainRow] /\ anchors \in [Domains -> Anchor]
      /\ \A i \in current : i.request.domain \in Domains /\ i.request.connection \in Nat
  BY TypeParts DEF SqlOK, Sql, IntentOK, RequestOK
<1> DEFINE reserved == 1 + IF domains[d].connection > anchors[d].next
                           THEN domains[d].connection ELSE anchors[d].next
<1>r. reserved \in Nat
  <2>1. domains[d].connection \in Nat /\ anchors[d].next \in Nat
    BY <1>1, DomainFields DEF Anchor
  <2> QED BY <2>1
<1>b. ConnectBegin(d) => /\ anchors' = [anchors EXCEPT ![d].next = reserved]
                         /\ domains' \in {domains, [domains EXCEPT ![d].challenge = reserved]}
  BY DEF ConnectBegin
<1> HIDE DEF reserved
<1>2. domains' \in [Domains -> DomainRow]
  <2>1. CASE ConnectBegin(d)
    <3> DEFINE row == [domains[d] EXCEPT !.challenge = reserved]
    <3>1. row \in DomainRow
      BY <1>1, <1>r, ConnectedRow
    <3>2. domains' \in {domains, [domains EXCEPT ![d] = row]}
      BY <1>b, <2>1
    <3> HIDE DEF row
    <3> QED BY <1>1, <3>1, <3>2
  <2>2. CASE ConnectFinish(d, domains[d].challenge)
    BY <1>1, <2>2 DEF ConnectFinish, sqlVars
  <2>3. CASE ConnectCommit
    <3>1. PICK i \in current :
             domains' = [domains EXCEPT
                   ![i.request.domain].connection = i.request.connection,
                   ![i.request.domain].recovering = TRUE,
                   ![i.request.domain].challenge = 0, ![i.request.domain].snapshot = {}]
      BY <2>3 DEF ConnectCommit
    <3> DEFINE e == i.request.domain
    <3>2. e \in Domains /\ i.request.connection \in Nat
      BY <1>1
    <3>3. [domains[e] EXCEPT !.connection = i.request.connection, !.recovering = TRUE,
                             !.challenge = 0, !.snapshot = {}] \in DomainRow
      BY <1>1, <3>2, ConnectedRow
    <3>4. domains' = [domains EXCEPT ![e] =
             [domains[e] EXCEPT !.connection = i.request.connection, !.recovering = TRUE,
                                !.challenge = 0, !.snapshot = {}]]
      BY <1>1, <3>1, <3>2 DEF DomainRow
    <3> HIDE DEF e
    <3> QED BY <1>1, <3>2, <3>3, <3>4
  <2> QED BY <2>1, <2>2, <2>3
<1>3. anchors' \in [Domains -> Anchor]
  <2>1. \A n \in Nat : /\ [anchors EXCEPT ![d].next = n] \in [Domains -> Anchor]
                       /\ [anchors EXCEPT ![d].session = n] \in [Domains -> Anchor]
    BY <1>1 DEF Anchor
  <2>2. domains[d].challenge \in Nat
    BY <1>1 DEF DomainRow
  <2>3. CASE ConnectBegin(d)
    BY <1>r, <1>b, <2>1, <2>3
  <2> QED BY <1>1, <2>1, <2>2, <2>3 DEF ConnectFinish, ConnectCommit, registryVars
<1>4. SqlOK(Sql)'
  BY <1>2, TypeParts DEF ConnectBegin, ConnectFinish, ConnectCommit, SqlOK, Sql, sqlVars
<1>5. \A i \in (pending \cup current)' : IntentOK(i)
  <2>1. CASE ConnectFinish(d, domains[d].challenge)
    <3>1. RequestOK(ConnectRequest(d, domains[d].challenge))
      BY <1>1 DEF ConnectRequest, RequestOK, DomainRow
    <3>2. IntentOK([request |-> ConnectRequest(d, domains[d].challenge),
                    result |-> Result([kind |-> "connected"], NoRows, NoRows)])
      <4>1. OutcomeOK([kind |-> "connected"])
        BY DEF OutcomeOK
      <4>2. ResultOK(Result([kind |-> "connected"], NoRows, NoRows))
        BY <4>1, NoRowsOK, ResultIsOK
      <4> QED BY <3>1, <4>2 DEF IntentOK, ResultOK
    <3>3. /\ pending' = pending
          /\ current' = {[request |-> ConnectRequest(d, domains[d].challenge),
                          result |-> Result([kind |-> "connected"], NoRows, NoRows)]}
      BY <2>1 DEF ConnectFinish
    <3>4. \A i \in pending : IntentOK(i)
      BY TypeParts
    <3> QED BY <3>2, <3>3, <3>4
  <2>2. CASE ConnectBegin(d) \/ ConnectCommit
    BY <2>2, TypeParts DEF ConnectBegin, ConnectCommit, registryVars, volatileVars
  <2> QED BY <2>1, <2>2
<1>6. SqlOK(backup)' /\ permissions' \in [Keys -> Grant] /\ retired' \subseteq Keys
  BY TypeParts DEF ConnectBegin, ConnectFinish, ConnectCommit, registryVars, faultVars
<1>7. RestOK'
  BY TypeParts DEF ConnectBegin, ConnectFinish, ConnectCommit, registryVars, faultVars,
                   volatileVars, historyVars, RestOK
<1> QED BY <1>3, <1>4, <1>5, <1>6, <1>7 DEF TypeOK, RestOK, Anchor

LEMMA ScheduleType ==
    ASSUME TypeOK, NEW due \in SUBSET Keys, NEW offered \in SUBSET Keys,
           Schedule(due, offered)
    PROVE  TypeOK'
<1>1. grants \in [Keys -> Grant] /\ candidates \in [Keys -> Candidate] /\ minted \in Nat
  BY TypeParts DEF SqlOK, Sql, RestOK
<1>2. grants' \in [Keys -> Grant]
  <2>1. ASSUME NEW k \in Keys
        PROVE  grants'[k] \in Grant
    <3>1. grants[k] \in Grant /\ candidates[k].revision \in Nat /\ minted + 1 \in Nat
      BY <1>1 DEF Candidate
    <3>2. [grants[k] EXCEPT !.state = "expired"] \in Grant
      BY <3>1 DEF Grant
    <3>3. [state |-> "offered", nonce |-> minted + 1, revision |-> candidates[k].revision,
           tickets |-> <<>>, seal |-> {}] \in Grant
      BY <3>1 DEF Grant
    <3> QED BY <3>1, <3>2, <3>3 DEF Schedule, OfferRows
  <2>2. grants' = [k \in Keys |-> grants'[k]]
    BY DEF Schedule, OfferRows
  <2> QED BY <2>1, <2>2
<1>3. SqlOK(Sql)'
  BY <1>2, TypeParts DEF Schedule, OfferRows, SqlOK, Sql
<1>4. RestOK'
  BY <1>1, TypeParts DEF Schedule, OfferRows, registryVars, volatileVars, faultVars, historyVars, RestOK
<1> QED BY <1>3, <1>4, TypeParts DEF TypeOK, RestOK, Anchor, Schedule, registryVars,
                                     volatileVars, faultVars

LEMMA FaultType ==
    ASSUME TypeOK, FailCommit \/ Crash \/ TakeBackup \/ RestoreBackup \/ LoseStore
    PROVE  TypeOK'
<1>1. SqlOK(Sql)' /\ SqlOK(backup)'
  <2>1. CASE FailCommit \/ Crash \/ TakeBackup
    <3>1. SqlOK(Sql)'
      BY <2>1, SqlSame DEF FailCommit, Crash, TakeBackup
    <3> QED BY <2>1, <3>1, TypeParts DEF FailCommit, Crash, TakeBackup, faultVars
  <2>2. CASE RestoreBackup
    BY <2>2, TypeParts DEF RestoreBackup, SqlOK, Sql
  <2>3. CASE LoseStore
    <3>1. UnpairedDomain \in DomainRow
      BY DEF UnpairedDomain, DomainRow
    <3>2. losses + 1 \in Nat
      BY TypeParts DEF RestOK
    <3>3. SqlOK(Sql)'
      BY <2>3, <3>1, <3>2, NoGrantOK, NoCandidateOK DEF LoseStore, SqlOK, Sql
    <3> QED BY <2>3, <3>3, TypeParts DEF LoseStore
  <2> QED BY <2>1, <2>2, <2>3
<1>2. /\ permissions' \in [Keys -> Grant] /\ retired' \subseteq Keys
      /\ anchors' \in [Domains -> Anchor]
      /\ \A i \in (pending \cup current)' : IntentOK(i)
  <2>1. UNCHANGED <<permissions, retired, anchors, pending>> /\ current' \in {{}, current}
    BY DEF FailCommit, Crash, TakeBackup, RestoreBackup, LoseStore, registryVars, volatileVars
  <2> QED BY <2>1, TypeParts
<1>3. RestOK'
  BY TypeParts DEF FailCommit, Crash, TakeBackup, RestoreBackup, LoseStore, registryVars,
                   volatileVars, faultVars, historyVars, RestOK
<1> QED BY <1>1, <1>2, <1>3 DEF TypeOK, RestOK, Anchor

LEMMA StartupType ==
    ASSUME TypeOK, BindCoordinator \/ ValidateHistory \/ PrepareReset \/ CompleteReset
    PROVE  TypeOK'
<1>1. SqlOK(Sql)'
  BY SqlSame DEF BindCoordinator, ValidateHistory, PrepareReset, CompleteReset
<1>2. \A d \in Domains : /\ anchors[d] \in Anchor
                         /\ domains[d].accepted \in Nat /\ PendingSequence(d) \in Nat
  <2>1. \A d \in Domains : PendingSequence(d) \in Nat
    <3>1. \A i \in pending : i.request.sequence \in Nat
      BY TypeParts DEF IntentOK, RequestOK
    <3> QED BY <3>1 DEF PendingSequence
  <2> QED BY <2>1, TypeParts DEF SqlOK, Sql, DomainRow
<1>3. anchors' \in [Domains -> Anchor]
  <2>1. \A d \in Domains : /\ Checkpoint(anchors[d], domains[d].accepted) \in Anchor
                           /\ Checkpoint(anchors[d], PendingSequence(d)) \in Anchor
                           /\ [anchors[d] EXCEPT !.session = 0] \in Anchor
    BY <1>2, CheckpointOK DEF Anchor
  <2>2. \A a \in Anchor : [a EXCEPT !.floor = a.accepted] \in Anchor
    BY DEF Anchor
  <2>3. CASE ValidateHistory
    BY <1>2, <2>1, <2>3, TypeParts DEF ValidateHistory
  <2>4. CASE PrepareReset
    <3>1. PICK d \in Domains :
             LET a == Checkpoint(anchors[d], PendingSequence(d))
             IN anchors' = [anchors EXCEPT ![d] = [a EXCEPT !.floor = a.accepted]]
      BY <2>4 DEF PrepareReset
    <3> QED BY <2>1, <2>2, <3>1, TypeParts DEF Anchor
  <2> QED BY <2>1, <2>3, <2>4, TypeParts DEF BindCoordinator, CompleteReset
<1>4. /\ permissions' \in [Keys -> Grant] /\ retired' \subseteq Keys /\ SqlOK(backup)'
      /\ \A i \in (pending \cup current)' : IntentOK(i)
  BY TypeParts DEF BindCoordinator, ValidateHistory, PrepareReset, CompleteReset,
                   volatileVars, faultVars
<1>5. RestOK'
  BY TypeParts DEF BindCoordinator, ValidateHistory, PrepareReset, CompleteReset,
                   volatileVars, faultVars, historyVars, RestOK, ResetRecorded, SqlOK, Sql
<1> QED BY <1>1, <1>3, <1>4, <1>5 DEF TypeOK, RestOK, Anchor

LEMMA RebuildType ==
    ASSUME TypeOK, RebuildSql
    PROVE  TypeOK'
<1> DEFINE journaled == UNION {DOMAIN i.result.saved : i \in pending}
           Rebuilt(k) == IF k \in journaled
                         THEN (CHOOSE i \in pending : k \in DOMAIN i.result.saved).result.saved[k]
                         ELSE permissions[k]
<1>1. \A k \in Keys : Rebuilt(k) \in Grant
  <2> SUFFICES ASSUME NEW k \in Keys, k \in journaled PROVE Rebuilt(k) \in Grant
    BY TypeParts
  <2>1. PICK i \in pending : k \in DOMAIN i.result.saved
    OBVIOUS
  <2> DEFINE c == CHOOSE j \in pending : k \in DOMAIN j.result.saved
  <2>2. c \in pending /\ k \in DOMAIN c.result.saved
    BY <2>1
  <2> HIDE DEF c
  <2>3. c.result.saved[k] \in Grant
    BY <2>2, TypeParts DEF IntentOK, RowsOK
  <2> QED BY <2>3 DEF c
<1>2. \A k \in Keys :
         [state |-> CASE Rebuilt(k).state = "none" -> "none"
                      [] Rebuilt(k).state = "released" -> "released"
                      [] OTHER -> "withdrawn",
          revision |-> Rebuilt(k).revision] \in Candidate
  <2> HIDE DEF Rebuilt
  <2> QED BY <1>1 DEF Grant, Candidate
<1>3. \A d \in Domains :
         [paired |-> TRUE, connection |-> anchors[d].session, recovering |-> TRUE,
          accepted |-> anchors[d].accepted, floor |-> anchors[d].accepted,
          challenge |-> 0, snapshot |-> {}] \in DomainRow
  BY TypeParts DEF DomainRow, Anchor
<1>4. /\ grants' = [k \in Keys |-> Rebuilt(k)]
      /\ candidates' = [k \in Keys |->
            [state |-> CASE Rebuilt(k).state = "none" -> "none"
                         [] Rebuilt(k).state = "released" -> "released"
                         [] OTHER -> "withdrawn",
             revision |-> Rebuilt(k).revision]]
      /\ domains' = [d \in Domains |->
            [paired |-> TRUE, connection |-> anchors[d].session, recovering |-> TRUE,
             accepted |-> anchors[d].accepted, floor |-> anchors[d].accepted,
             challenge |-> 0, snapshot |-> {}]]
      /\ settled' = settled \cup {k \in Keys : Rebuilt(k).state = "released"}
  BY DEF RebuildSql
<1> HIDE DEF Rebuilt
<1>5. /\ grants' \in [Keys -> Grant] /\ candidates' \in [Keys -> Candidate]
      /\ domains' \in [Domains -> DomainRow] /\ settled' \subseteq Keys
  <2>1. grants' \in [Keys -> Grant]
    BY <1>1, <1>4
  <2>2. candidates' \in [Keys -> Candidate]
    BY <1>2, <1>4
  <2>3. domains' \in [Domains -> DomainRow]
    BY <1>3, <1>4
  <2>4. settled' \subseteq Keys
    BY <1>4, TypeParts DEF RestOK
  <2> QED BY <2>1, <2>2, <2>3, <2>4
<1>6. \A o \in operations' : RequestOK(o.request) /\ OutcomeOK(o.outcome)
  <2>1. operations' = {[request |-> i.request, outcome |-> i.result.outcome] : i \in pending}
    BY DEF RebuildSql
  <2>2. \A i \in pending : RequestOK(i.request) /\ OutcomeOK(i.result.outcome)
    BY TypeParts DEF IntentOK
  <2> QED BY <2>1, <2>2
<1>7. SqlOK(Sql)'
  BY <1>5, <1>6, TypeParts DEF RebuildSql, SqlOK, Sql, RestOK
<1>8. /\ permissions' \in [Keys -> Grant] /\ retired' \subseteq Keys /\ SqlOK(backup)'
      /\ anchors' \in [Domains -> Anchor]
      /\ \A i \in (pending \cup current)' : IntentOK(i)
  BY TypeParts DEF RebuildSql, registryVars, faultVars
<1>9. RestOK'
  BY <1>5, TypeParts DEF RebuildSql, registryVars, faultVars, RestOK
<1> QED BY <1>7, <1>8, <1>9 DEF TypeOK, RestOK, Anchor

LEMMA TypeNext == TypeOK /\ [Next]_vars => TypeOK'
<1> SUFFICES ASSUME TypeOK, [Next]_vars PROVE TypeOK'
  OBVIOUS
<1>1. CASE Internal
  <2>1. CASE ConnectCommit
    <3>1. PICK i \in current : i.request.domain \in Domains
      BY <2>1, TypeParts DEF ConnectCommit, IntentOK, RequestOK
    <3> QED BY <2>1, <3>1, ConnectType
  <2>2. ASSUME NEW due \in SUBSET {k \in Keys : grants[k].state = "offered"},
               NEW offered \in SUBSET {k \in Keys : Offerable(k)},
               Schedule(due, offered)
        PROVE  TypeOK'
    BY <2>2, ScheduleType
  <2> QED BY <1>1, <2>1, <2>2, CommitType, FaultType, FinishType, StartupType,
             RebuildType DEF Internal
<1>2. ASSUME NEW d \in Domains, NEW c \in Command, Exchange(NewRequest(d, c))
      PROVE  TypeOK'
  <2>1. RequestOK(NewRequest(d, c)) /\ NewRequest(d, c).command \in Command
    BY NewRequestOK
  <2> QED BY <1>2, <2>1, ExchangeType, ReplayType DEF Exchange
<1>3. ASSUME NEW o \in Repeatable, ReplayExchange(o.request) PROVE TypeOK'
  BY <1>3, ReplayType
<1>4. ASSUME NEW d \in Domains, ConnectBegin(d) \/ ConnectFinish(d, domains[d].challenge)
      PROVE  TypeOK'
  BY <1>4, ConnectType
<1>5. CASE UNCHANGED vars
  <2>1. SqlOK(Sql)'
    BY <1>5, SqlSame DEF vars
  <2>2. RestOK'
    BY <1>5, TypeParts DEF vars, registryVars, volatileVars, faultVars, historyVars, RestOK
  <2> QED BY <1>5, <2>1, <2>2, TypeParts DEF vars, registryVars, volatileVars, faultVars,
                                             TypeOK, RestOK, Anchor
<1> QED BY <1>1, <1>2, <1>3, <1>4, <1>5 DEF Next

\* Every value the coordinator, its database, the copies of it and the
\* registry's journal ever hold is well formed: every handler, crash, restore
\* and repair keeps the types.
THEOREM TypeCorrect == Spec => []TypeOK
BY TypeInit, TypeNext, PTL DEF Spec
=============================================================================
