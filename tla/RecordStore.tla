---------------------------- MODULE RecordStore ----------------------------
(***************************************************************************)
(* What confirming, re-extracting and deleting do to the live tables:      *)
(* schemas and their versions, the documents that point at them, and the   *)
(* extracted_records a confirm writes (app/pipeline/confirm.py, the        *)
(* deletes of app/routers/schemas.py and documents.py, the staging half of *)
(* app/pipeline/extract.py).                                               *)
(*                                                                         *)
(* Every handler is one transaction here; JobLifecycle has the overlap of  *)
(* handlers.  A pipeline run stays two steps, since it reads the documents *)
(* and records long before it commits what it found.  The foreign keys are *)
(* those of app/models.py, all ON DELETE NO ACTION: they are checked as    *)
(* each statement ends, and a transaction that leaves one dangling is      *)
(* rolled back and answered 500.  So a delete is the tables its statements *)
(* pass through, in their order.                                           *)
(***************************************************************************)
EXTENDS Naturals, FiniteSets, Sequences

CONSTANTS
    Schemas,      \* schema ids, each used at most once
    Documents,    \* document ids, each used at most once
    Uploads,      \* extract jobs: one per document
    Backfills,    \* job ids left for backfills
    DocumentOf,   \* jobs.document_id
    MaxVersions,  \* bound: versions of one schema
    MaxRows,      \* bound: rows materialized from one document
    None          \* SQL NULL

Jobs == Uploads \cup Backfills

\* A record is named by the job whose confirm inserted it and its place in
\* that insert: a job whose decisions do not overlap is confirmed at most once
\* (JobLifecycle, LandsOnce), and handlers do not overlap here.
RecordIds == Jobs \X (0 .. MaxRows - 1)

VARIABLES
    db,    \* the committed tables
    run,      \* per job, what the pipeline running it has computed so far
    fault,    \* the handler the database just refused with an IntegrityError
    switched  \* history: documents a confirm has moved to another schema

vars == <<db, run, fault, switched>>

-----------------------------------------------------------------------------
(* Types *)

\* schema_id and schema_version_id of a document or a staged result; the
\* version is the number within that schema's lineage, 0 for NULL.
Target == [schema : Schemas \cup {None}, version : 0..MaxVersions]
NoTarget == [schema |-> None, version |-> 0]

\* `jobs.result`: the match, whether proposed_schema_fields is set, and
\* dedup_match.  The table is left open: the reviewer may edit it up to the
\* confirm, so a confirm materializes any number of rows.
Staged == [target : Target, adhoc : BOOLEAN, dedup : RecordIds \cup {None}]
NoStaged == [target |-> NoTarget, adhoc |-> FALSE, dedup |-> None]

\* "queued" stands for pending and failed, "unused" for an id not inserted yet.
Job == [status : {"unused", "queued", "extracting", "awaiting_review",
                  "confirmed", "deleted"},
        kind : {"extract", "backfill", "reextract"}, result : Staged]
UnusedJob == [status |-> "unused", kind |-> "extract", result |-> NoStaged]

Record == [document : Documents, schema : Schemas,
           schema_version : [schema : Schemas, version : 1..MaxVersions],
           row_index : 0 .. MaxRows - 1,
           is_duplicate_of : RecordIds \cup {None}]

Tables == [schemas : SUBSET Schemas, versions : [Schemas -> 0..MaxVersions],
           documents : SUBSET Documents, target : [Documents -> Target],
           records : [RecordIds -> Record \cup {None}], jobs : [Jobs -> Job]]

Handlers == {"upload", "schema", "confirm", "delete_record", "delete_schema",
             "delete_document"}

\* An id is uploaded once; no id, row or handler is NULL.
ASSUME ConstantsAssumption ==
    /\ DocumentOf \in [Jobs -> Documents]
    /\ \A d \in Documents : \E j \in Uploads :
         /\ DocumentOf[j] = d
         /\ \A k \in Uploads : DocumentOf[k] = d => k = j
    /\ Uploads \cap Backfills = {}
    /\ MaxVersions \in Nat \ {0}
    /\ MaxRows \in Nat \ {0}
    /\ None \notin Schemas \cup RecordIds \cup Record \cup Handlers

TypeOK ==
    /\ db \in Tables
    /\ run \in [Jobs -> Staged]
    /\ fault \in Handlers \cup {None}
    /\ switched \subseteq Documents

-----------------------------------------------------------------------------
(* Transactions *)

RecordsIn(rec) == {r \in RecordIds : rec[r] # None}
Records == RecordsIn(db.records)

\* A job that still has a row.
Present == {"queued", "extracting", "awaiting_review", "confirmed"}

PresentHaveDocuments(t) ==
    \A j \in Jobs : t.jobs[j].status \in Present => DocumentOf[j] \in t.documents

ForeignKeysHold(t) ==
    /\ PresentHaveDocuments(t)
    /\ \A d \in t.documents : t.target[d].schema \in t.schemas \cup {None}
    /\ \A r \in RecordsIn(t.records) :
         /\ t.records[r].document \in t.documents
         /\ t.records[r].schema \in t.schemas
         /\ t.records[r].schema_version.schema \in t.schemas
         /\ t.records[r].is_duplicate_of \in RecordsIn(t.records) \cup {None}

Refuse(handler) == fault' = handler /\ UNCHANGED <<db, run, switched>>

\* `moved` is history: the document this moves to another schema, if it does.
Commit(handler, new, moved) ==
    IF ForeignKeysHold(new)
    THEN /\ db' = new
         /\ fault' = None
         /\ switched' = switched \cup moved
         /\ UNCHANGED run
    ELSE Refuse(handler)

Transaction(handler, new) == Commit(handler, new, {})

\* The tables after each statement of the handler, the last one committed.
Statements(handler, tables) ==
    IF \A i \in 1 .. Len(tables) : ForeignKeysHold(tables[i])
    THEN Transaction(handler, tables[Len(tables)])
    ELSE Refuse(handler)

Init ==
    /\ db = [schemas   |-> {},
             versions  |-> [s \in Schemas |-> 0],
             documents |-> {},
             target    |-> [d \in Documents |-> NoTarget],
             records   |-> [r \in RecordIds |-> None],
             jobs      |-> [j \in Jobs |-> UnusedJob]]
    /\ run = [j \in Jobs |-> NoStaged]
    /\ fault = None
    /\ switched = {}

-----------------------------------------------------------------------------
(* Schemas and uploads *)

\* schema.versions[-1]
Latest(s) == [schema |-> s, version |-> db.versions[s]]

create_schema(s) ==
    /\ db.versions[s] = 0
    /\ Transaction("schema", [db EXCEPT !.schemas = @ \cup {s},
                                        !.versions[s] = 1])

\* t with `jobs` pending backfills, and every carrier pointed at s's new version.
Enqueued(t, s, carriers, jobs) ==
    [t EXCEPT !.target = [d \in Documents |->
                IF d \in carriers
                THEN [schema |-> s, version |-> t.versions[s]] ELSE @[d]],
              !.jobs = [j \in Jobs |->
                IF j \in jobs
                THEN [UnusedJob EXCEPT !.status = "queued", !.kind = "backfill"]
                ELSE @[j]]]

\* One pending backfill for every document that carries the schema.  Disabled
\* when the job ids run out (bound).
_enqueue_backfill(t, s) ==
    LET carriers == {d \in t.documents : t.target[d].schema = s} IN
    \E new \in SUBSET {j \in Backfills : t.jobs[j].status = "unused"} :
      /\ {DocumentOf[j] : j \in new} = carriers
      /\ Cardinality(new) = Cardinality(carriers)
      /\ Transaction("schema", Enqueued(t, s, carriers, new))

create_schema_version(s) ==
    /\ s \in db.schemas
    /\ db.versions[s] < MaxVersions
    /\ LET saved == [db EXCEPT !.versions[s] = @ + 1]
       IN _enqueue_backfill(saved, s) \/ Transaction("schema", saved)

backfill_schema(s) == s \in db.schemas /\ _enqueue_backfill(db, s)

\* POST /documents with an optional schema hint, which the upload page chose
\* from a list that may be out of date.
upload_document(j) ==
    LET d == DocumentOf[j] IN
    /\ db.jobs[j].status = "unused"
    /\ \E hint \in {s \in Schemas : db.versions[s] > 0} \cup {None} :
         Transaction("upload",
           [db EXCEPT !.documents = @ \cup {d},
                      !.target[d] = [schema |-> hint, version |-> 0],
                      !.jobs[j].status = "queued"])

-----------------------------------------------------------------------------
(* Pipelines *)

\* _find_dedup_match: a record of the lineage, if the identity fields match
\* one; no schema, no dedup.
DedupMatches(target) ==
    {None} \cup {r \in Records : db.records[r].schema = target.schema}

\* run_pipeline: the document's own schema if it has one, else whatever the
\* model selects or none at all, in which case it proposes ad hoc fields.
Matches(d) ==
    IF db.target[d].schema = None
    THEN {Latest(s) : s \in db.schemas} \cup {NoTarget}
    ELSE IF db.target[d].version # 0
    THEN {db.target[d]}
    ELSE {Latest(db.target[d].schema)}

Extracted(j) ==
    UNION {{[target |-> t, adhoc |-> t = NoTarget, dedup |-> r] :
              r \in DedupMatches(t)} : t \in Matches(DocumentOf[j])}

\* run_backfill_pipeline: the version the enqueue pointed the document at; a
\* document detached since raises, and the job fails.
Backfilled(j) ==
    {[target |-> t, adhoc |-> FALSE, dedup |-> None] :
       t \in {db.target[DocumentOf[j]]} \ {NoTarget}}

\* run_reextract_pipeline rebuilds only the table.
PipelineResults(j) ==
    CASE db.jobs[j].kind = "extract"   -> Extracted(j)
      [] db.jobs[j].kind = "backfill"  -> Backfilled(j)
      [] db.jobs[j].kind = "reextract" -> {db.jobs[j].result}

StartRun(j) ==
    /\ db.jobs[j].status = "queued"
    /\ \E result \in PipelineResults(j) : run' = [run EXCEPT ![j] = result]
    /\ db' = [db EXCEPT !.jobs[j].status = "extracting"]
    /\ fault' = None
    /\ UNCHANGED switched

\* The worker's commit; nothing to stage on if the row is gone.
StageRun(j) ==
    /\ db.jobs[j].status = "extracting"
    /\ db' = [db EXCEPT !.jobs[j].status = "awaiting_review",
                        !.jobs[j].result = run[j]]
    /\ run' = [run EXCEPT ![j] = NoStaged]
    /\ fault' = None
    /\ UNCHANGED switched

-----------------------------------------------------------------------------
(* Review *)

UnderReview(j) == db.jobs[j].status = "awaiting_review"

\* The reviewer re-points the job at another live schema.
patch_review(j) ==
    /\ UnderReview(j)
    /\ \E s \in db.schemas :
         Transaction("confirm", [db EXCEPT !.jobs[j].result.target = Latest(s)])

reextract_job(j) ==
    /\ UnderReview(j)
    /\ Transaction("confirm", [db EXCEPT !.jobs[j].status = "queued",
                                         !.jobs[j].kind = "reextract"])

_records_for(rec, d, s) ==
    {r \in RecordsIn(rec) : rec[r].document = d /\ rec[r].schema = s}

Detached(rec, doomed) ==
    [r \in RecordIds |->
        IF r \in RecordsIn(rec) /\ rec[r].is_duplicate_of \in doomed
        THEN [rec[r] EXCEPT !.is_duplicate_of = None]
        ELSE rec[r]]

Dropped(rec, doomed) ==
    [r \in RecordIds |-> IF r \in doomed THEN None ELSE rec[r]]

_delete_records(rec, doomed) == Dropped(Detached(rec, doomed), doomed)

\* Job j's confirm inserts its rows at these indices.
_insert_records(rec, j, target, indices, duplicate) ==
    [r \in RecordIds |->
        IF r[1] = j /\ r[2] \in indices
        THEN [document |-> DocumentOf[j], schema |-> target.schema,
              schema_version |-> target, row_index |-> r[2],
              is_duplicate_of |-> duplicate]
        ELSE rec[r]]

\* Mutant: the in-place update this replaced: one old row makes way, the
\* others stay.
BackfillOneRow(rec, j, target, n) ==
    LET old == _records_for(rec, DocumentOf[j], target.schema)
        first == {r \in old : \A q \in old : rec[r].row_index <= rec[q].row_index}
    IN  _insert_records(_delete_records(rec, first), j, target, 0 .. n - 1, None)

_apply_backfill_extracted_record(rec, j, target, n) ==
    _insert_records(
        _delete_records(rec, _records_for(rec, DocumentOf[j], target.schema)),
        j, target, 0 .. n - 1, None)

\* Mutant: only the matched row is replaced.
StrandedNone(rec, matched, target) == {}

\* What "replace" takes away: the rest of the matched document's rows in the
\* schema being confirmed.
Stranded(rec, matched, target) ==
    _records_for(rec, rec[matched].document, target.schema) \ {matched}

\* Row 0 overwrites the matched record, which keeps its id and its schema_id.
Replaced(rec, j, target, n, matched) ==
    _insert_records(
        [_delete_records(rec, Stranded(rec, matched, target))
            EXCEPT ![matched].document = DocumentOf[j],
                   ![matched].schema_version = target,
                   ![matched].row_index = 0],
        j, target, 1 .. n - 1, None)

\* The outcomes for n rows; none when "replace" is refused.
_apply_extracted_record(rec, j, target, n, decision) ==
    LET matched == db.jobs[j].result.dedup IN
    CASE matched = None -> {_insert_records(rec, j, target, 0 .. n - 1, None)}
      [] matched # None /\ decision = "keep_both"
           -> {_insert_records(rec, j, target, 0 .. n - 1, matched)}
      [] matched # None /\ decision = "skip" -> {rec}
      [] matched # None /\ decision = "replace"
           -> {Replaced(rec, j, target, n, m) : m \in {matched} \cap RecordsIn(rec)}

\* Mutant: the document is not pointed at the schema its rows went to.
ConfirmedElsewhere(t, j, target, rec) ==
    [t EXCEPT !.records = rec, !.jobs[j].status = "confirmed"]

Confirmed(t, j, target, rec) ==
    [t EXCEPT !.records = rec,
              !.target[DocumentOf[j]] = IF target = NoTarget THEN @ ELSE target,
              !.jobs[j].status = "confirmed"]

\* Mutant: the staged match is taken on trust.
MatchTrusted(target) == TRUE

\* Else a ConfirmError: rolled back and answered 400.
MatchIsLive(target) == target.schema \in db.schemas \cup {None}

\* Rows are deleted one by one in id order: a row that duplicates another
\* doomed row may come after it, and then the self-reference refuses.
LinkedInside(doomed) == \E r \in doomed : db.records[r].is_duplicate_of \in doomed

\* The reviewer switched the schema: the document carried another one, or the
\* row to replace belongs to another one.
Moved(j, target, decision) ==
    {d \in {DocumentOf[j]} :
       /\ target # NoTarget
       /\ \/ db.target[d].schema \notin {None, target.schema}
          \/ /\ decision = "replace"
             /\ \E m \in {db.jobs[j].result.dedup} \cap Records :
                  db.records[m].schema # target.schema}

\* What job j's confirm under `target` makes of t's rows, if it makes n of them.
Materialized(t, j, target, n, decision) ==
    CASE target = NoTarget -> {t.records}
      [] target # NoTarget /\ t.jobs[j].kind = "backfill"
           -> {_apply_backfill_extracted_record(t.records, j, target, n)}
      [] target # NoTarget /\ t.jobs[j].kind # "backfill"
           -> _apply_extracted_record(t.records, j, target, n, decision)

\* A confirm of t's job j under `target`, without the deletes' order.
ConfirmUnder(t, j, target, decision) ==
    \E n \in 1..MaxRows : \E rec \in Materialized(t, j, target, n, decision) :
      Commit("confirm", Confirmed(t, j, target, rec), Moved(j, target, decision))

\* The rows a confirm deletes on its way.
Doomed(j, target, decision) ==
    LET matched == db.jobs[j].result.dedup IN
    CASE target # NoTarget /\ db.jobs[j].kind = "backfill"
           -> _records_for(db.records, DocumentOf[j], target.schema)
      [] target # NoTarget /\ db.jobs[j].kind # "backfill"
           /\ decision = "replace" /\ matched \in Records
           -> Stranded(db.records, matched, target)
      [] OTHER -> {}

confirm_job(j, decision) ==
    LET target == db.jobs[j].result.target IN
    /\ UnderReview(j)
    /\ MatchIsLive(target)
    /\ \/ ConfirmUnder(db, j, target, decision)
       \/ LinkedInside(Doomed(j, target, decision)) /\ Refuse("confirm")

\* The same with save_schema_as: the ad hoc shape becomes a new schema.
confirm_saving_schema(j, s, decision) ==
    /\ UnderReview(j)
    /\ db.jobs[j].result.adhoc
    /\ db.versions[s] = 0
    /\ ConfirmUnder([db EXCEPT !.schemas = @ \cup {s}, !.versions[s] = 1], j,
                    [schema |-> s, version |-> 1], decision)

-----------------------------------------------------------------------------
(* Deletes *)

\* Mutant: the row goes before the pointers into it.
RowBeforePointers(r) ==
    <<[db EXCEPT !.records = Dropped(@, {r})],
      [db EXCEPT !.records = Detached(Dropped(@, {r}), {r})]>>

RecordDeletion(r) ==
    <<[db EXCEPT !.records = Detached(@, {r})],
      [db EXCEPT !.records = Dropped(Detached(@, {r}), {r})]>>

delete_record(r) == r \in Records /\ Statements("delete_record", RecordDeletion(r))

\* _clear_schema_from_staged_jobs
Cleared(t, s) ==
    [j \in Jobs |->
        IF /\ t.jobs[j].status \in {"queued", "extracting", "awaiting_review"}
           /\ t.jobs[j].result.target.schema = s
        THEN [t.jobs[j] EXCEPT !.result.target = NoTarget]
        ELSE t.jobs[j]]

RowsUnder(s) == {r \in Records : db.records[r].schema = s}

SchemaDetached(s) ==
    [d \in Documents |->
        IF db.target[d].schema = s THEN NoTarget ELSE db.target[d]]

\* The pointers into the rows, the rows, the documents, the staged jobs, and
\* the schema with its versions.
SchemaDeletion(s) ==
    LET unlinked  == [db EXCEPT !.records = Detached(@, RowsUnder(s))]
        rowless   == [unlinked EXCEPT !.records = Dropped(@, RowsUnder(s))]
        unpointed == [rowless EXCEPT !.target = SchemaDetached(s)]
        unstaged  == [unpointed EXCEPT !.jobs = Cleared(db, s)]
    IN  <<unlinked, rowless, unpointed, unstaged,
          [unstaged EXCEPT !.schemas = @ \ {s}]>>

delete_schema(s) ==
    /\ s \in db.schemas
    /\ Statements("delete_schema", SchemaDeletion(s))

RowsOf(d) == {r \in Records : db.records[r].document = d}

WithoutJobsOf(d) ==
    [j \in Jobs |->
        IF DocumentOf[j] = d /\ db.jobs[j].status # "unused"
        THEN [UnusedJob EXCEPT !.status = "deleted"] ELSE db.jobs[j]]

\* Mutant: the document goes before its jobs.
DocumentBeforeJobs(d) ==
    LET rowless == [db EXCEPT !.records = Dropped(@, RowsOf(d))]
        gone    == [rowless EXCEPT !.documents = @ \ {d}, !.target[d] = NoTarget]
    IN  <<rowless, gone, [gone EXCEPT !.jobs = WithoutJobsOf(d)]>>

\* Its rows, its jobs, then the document.  Pointers from other documents'
\* records stay: nothing detaches them here.
DocumentDeletion(d) ==
    LET rowless == [db EXCEPT !.records = Dropped(@, RowsOf(d))]
        jobless == [rowless EXCEPT !.jobs = WithoutJobsOf(d)]
    IN  <<rowless, jobless,
          [jobless EXCEPT !.documents = @ \ {d}, !.target[d] = NoTarget]>>

delete_document(d) ==
    /\ d \in db.documents
    /\ Statements("delete_document", DocumentDeletion(d))

-----------------------------------------------------------------------------
Decisions == {"keep_both", "skip", "replace"}

Next ==
    \/ \E s \in Schemas : \/ create_schema(s)
                          \/ create_schema_version(s)
                          \/ backfill_schema(s)
                          \/ delete_schema(s)
    \/ \E j \in Uploads : upload_document(j)
    \/ \E j \in Jobs : \/ StartRun(j)
                       \/ StageRun(j)
                       \/ patch_review(j)
                       \/ reextract_job(j)
                       \/ \E decision \in Decisions :
                            \/ confirm_job(j, decision)
                            \/ \E s \in Schemas : confirm_saving_schema(j, s, decision)
    \/ \E r \in RecordIds : delete_record(r)
    \/ \E d \in Documents : delete_document(d)

Spec == Init /\ [][Next]_vars

-----------------------------------------------------------------------------
(* Properties *)

\* A row replaced under another schema: its version is not of its lineage.
Straddles(r) == db.records[r].schema_version.schema # db.records[r].schema

\* Deleting a schema or a row, and saving or backfilling a version, never
\* trips over a foreign key: the order of the statements leaves no pointer
\* into what goes, whatever duplicates of it were kept - unless a row of one
\* schema was replaced under a version of the schema to delete.
SchemaDeletesSucceed ==
    /\ fault \notin {"schema", "delete_record"}
    /\ fault = "delete_schema" => \E r \in Records : Straddles(r)

\* The database refuses a confirm only over a duplicate link: the matched row
\* is gone, or a row to delete duplicates another row of its own document.  A
\* schema deleted while the job was running or under review never gets so far.
ConfirmFaultsAreDuplicates ==
    [][fault' = "confirm" =>
         \E j \in Jobs : UnderReview(j) /\
           \/ db.jobs[j].result.dedup \notin Records \cup {None}
           \/ \E r, q \in Records : /\ db.records[r].is_duplicate_of = q
                                    /\ db.records[r].document = db.records[q].document]_vars

\* A row's document carries the row's schema, so the next backfill of that
\* schema re-extracts the row: no row is left behind under an old version,
\* unless a reviewer has confirmed its document under another schema since.
BackfillReachesEveryRow ==
    \A r \in Records :
        LET d == db.records[r].document IN
        d \in switched \/ db.target[d].schema = db.records[r].schema

Confirms(j) ==
    /\ UnderReview(j)
    /\ db.jobs[j].result.target # NoTarget
    /\ db'.jobs[j].status = "confirmed"

\* The document's rows in the confirmed schema are job j's, of one version.
LeavesOneSet(j) ==
    LET target == db'.target[DocumentOf[j]] IN
    \A r \in _records_for(db'.records, DocumentOf[j], target.schema) :
        r[1] = j /\ db'.records[r].schema_version = target

\* A confirmed backfill replaces the document's whole record set: however many
\* rows the old extraction left, deleted or replaced since, none survives.
BackfillLeavesOneSet ==
    [][\A j \in Jobs : Confirms(j) /\ db.jobs[j].kind = "backfill"
          => LeavesOneSet(j)]_vars

\* "replace" takes the matched document's record set over as a whole: once its
\* row 0 belongs to another document, no row of that set stays behind - if the
\* job was confirmed under the schema of the row it replaces.
ReplaceLeavesNoPartialSet ==
    [][\A j \in Jobs : Confirms(j) =>
         \A m \in {db.jobs[j].result.dedup} \cap Records :
           LET old == db.records[m] IN
           ( /\ db'.records[m] # None
             /\ db'.records[m].document # old.document
             /\ db'.target[DocumentOf[j]].schema = old.schema )
           => _records_for(db'.records, old.document, old.schema) = {}]_vars

\* "every child row must go before the parent": the database refuses to delete
\* a document only while a row of another document is kept as a duplicate of
\* one of its rows, the one pointer this delete does not clear.
DocumentDeleteFaultsAreDuplicates ==
    [][fault' = "delete_document" =>
         \E d \in Documents : \E r \in RowsOf(d), q \in Records \ RowsOf(d) :
           db.records[q].is_duplicate_of = r]_vars
=============================================================================
