------------------------- MODULE RecordStoreProofs -------------------------
(***************************************************************************)
(* RecordStore for any schemas, versions, documents, jobs and rows: its    *)
(* types, what the database may refuse and why, that a backfill reaches    *)
(* every row it should, and that a confirmed backfill or "replace" leaves  *)
(* no part of the set it takes away.                                       *)
(*                                                                         *)
(* The tables are followed through what a handler makes of them: one lemma *)
(* for each rewrite of the records, one for each transaction, then one for *)
(* each group of actions.                                                  *)
(***************************************************************************)
EXTENDS RecordStore, TLAPS

-----------------------------------------------------------------------------
(* The rewrites of the records *)

RecordTable == [RecordIds -> Record \cup {None}]

LEMMA RecordsInTable ==
    ASSUME NEW rec \in RecordTable, NEW r \in RecordsIn(rec)
    PROVE  r \in RecordIds /\ rec[r] \in Record
BY DEF RecordTable, RecordsIn

\* What goes, goes; what stays keeps all but its pointers into what goes.
LEMMA DeletedRecords ==
    ASSUME NEW rec \in RecordTable, NEW doomed
    PROVE  LET left == _delete_records(rec, doomed) IN
           /\ left \in RecordTable
           /\ RecordsIn(left) = RecordsIn(rec) \ doomed
           /\ \A r \in RecordsIn(left) :
                /\ left[r].document = rec[r].document
                /\ left[r].schema = rec[r].schema
                /\ left[r].schema_version = rec[r].schema_version
                /\ left[r].row_index = rec[r].row_index
                /\ \/ left[r].is_duplicate_of = None
                   \/ /\ left[r].is_duplicate_of = rec[r].is_duplicate_of
                      /\ left[r].is_duplicate_of \notin doomed
<1> DEFINE left == _delete_records(rec, doomed)
<1> SUFFICES ASSUME NEW r \in RecordIds
             PROVE  /\ left[r] \in Record \cup {None}
                    /\ left[r] # None <=> rec[r] # None /\ r \notin doomed
                    /\ left[r] # None =>
                        /\ left[r].document = rec[r].document
                        /\ left[r].schema = rec[r].schema
                        /\ left[r].schema_version = rec[r].schema_version
                        /\ left[r].row_index = rec[r].row_index
                        /\ \/ left[r].is_duplicate_of = None
                           \/ /\ left[r].is_duplicate_of = rec[r].is_duplicate_of
                              /\ left[r].is_duplicate_of \notin doomed
  BY DEF RecordTable, RecordsIn, _delete_records, Detached, Dropped
<1>1. CASE r \in doomed
  <2>1. left[r] = None
    BY <1>1 DEF _delete_records, Detached, Dropped, RecordsIn
  <2> QED BY <1>1, <2>1
<1>2. CASE r \notin doomed /\ rec[r] = None
  <2>1. left[r] = None
    BY <1>2 DEF _delete_records, Detached, Dropped, RecordsIn
  <2> QED BY <1>2, <2>1
<1>3. CASE r \notin doomed /\ rec[r] # None /\ rec[r].is_duplicate_of \in doomed
  <2>1. left[r] = [rec[r] EXCEPT !.is_duplicate_of = None]
    BY <1>3 DEF _delete_records, Detached, Dropped, RecordsIn
  <2>2. rec[r] \in Record
    BY <1>3 DEF RecordTable
  <2>3. left[r] \in Record
    BY <2>1, <2>2 DEF Record
  <2> QED BY <1>3, <2>1, <2>2, <2>3, ConstantsAssumption DEF Record
<1>4. CASE r \notin doomed /\ rec[r] # None /\ rec[r].is_duplicate_of \notin doomed
  <2>1. left[r] = rec[r]
    BY <1>4 DEF _delete_records, Detached, Dropped, RecordsIn
  <2> QED BY <1>4, <2>1 DEF RecordTable
<1> QED BY <1>1, <1>2, <1>3, <1>4

\* The schema_version of a row.
Version == [schema : Schemas, version : 1..MaxVersions]

Inserted(j, indices) == {r \in RecordIds : r[1] = j /\ r[2] \in indices}

LEMMA InsertedRecords ==
    ASSUME NEW rec \in RecordTable, NEW j \in Jobs, NEW target \in Version,
           NEW indices, NEW duplicate \in RecordIds \cup {None},
           NEW more, more = _insert_records(rec, j, target, indices, duplicate)
    PROVE  /\ more \in RecordTable
           /\ RecordsIn(more) = RecordsIn(rec) \cup Inserted(j, indices)
           /\ \A r \in Inserted(j, indices) :
                /\ more[r].document = DocumentOf[j]
                /\ more[r].schema = target.schema
                /\ more[r].schema_version = target
                /\ more[r].is_duplicate_of = duplicate
           /\ \A r \in RecordIds \ Inserted(j, indices) : more[r] = rec[r]
<1> DEFINE row(r) == [document |-> DocumentOf[j], schema |-> target.schema,
                      schema_version |-> target, row_index |-> r[2],
                      is_duplicate_of |-> duplicate]
<1>1. \A r \in RecordIds : row(r) \in Record
  <2>1. \A r \in RecordIds : r[2] \in 0 .. MaxRows - 1
    BY DEF RecordIds
  <2>2. DocumentOf[j] \in Documents /\ target.schema \in Schemas
    BY ConstantsAssumption DEF Version
  <2> QED BY <2>1, <2>2 DEF Record, Version
<1>2. \A r \in RecordIds : row(r) # None
  BY <1>1, ConstantsAssumption
<1>3. \A r \in Inserted(j, indices) : r \in RecordIds /\ more[r] = row(r)
  BY DEF Inserted, _insert_records
<1>4. \A r \in RecordIds \ Inserted(j, indices) : more[r] = rec[r]
  BY DEF Inserted, _insert_records
<1>5. more \in RecordTable
  <2>1. more = [r \in RecordIds |-> more[r]]
    BY DEF _insert_records
  <2>2. \A r \in RecordIds : more[r] \in Record \cup {None}
    BY <1>1, <1>3, <1>4 DEF RecordTable
  <2> QED BY <2>1, <2>2 DEF RecordTable
<1>6. RecordsIn(more) = RecordsIn(rec) \cup Inserted(j, indices)
  <2> SUFFICES ASSUME NEW r \in RecordIds
               PROVE  more[r] # None <=> rec[r] # None \/ r \in Inserted(j, indices)
    BY DEF RecordsIn, Inserted
  <2> QED BY <1>2, <1>3, <1>4
<1>7. \A r \in Inserted(j, indices) :
        /\ more[r].document = DocumentOf[j]
        /\ more[r].schema = target.schema
        /\ more[r].schema_version = target
        /\ more[r].is_duplicate_of = duplicate
  <2> SUFFICES ASSUME NEW r \in Inserted(j, indices)
               PROVE  /\ more[r].document = DocumentOf[j]
                      /\ more[r].schema = target.schema
                      /\ more[r].schema_version = target
                      /\ more[r].is_duplicate_of = duplicate
    OBVIOUS
  <2>1. more[r] = row(r)
    BY <1>3
  <2> QED BY <2>1
<1> QED BY <1>4, <1>5, <1>6, <1>7

\* The rows "replace" leaves in place.
Others(rec, matched, target) == RecordsIn(rec) \ Stranded(rec, matched, target)

\* "replace" keeps the matched id and its schema, and moves it to j's document.
LEMMA ReplacedRecords ==
    ASSUME NEW rec \in RecordTable, NEW j \in Jobs, NEW target \in Version,
           NEW n \in 1..MaxRows, NEW matched \in RecordsIn(rec),
           \A r \in RecordsIn(rec) : r[1] # j,
           NEW after, after = Replaced(rec, j, target, n, matched)
    PROVE  /\ after \in RecordTable
           /\ matched \in Others(rec, matched, target) /\ matched \notin Inserted(j, 1 .. n - 1)
           /\ RecordsIn(after) = Others(rec, matched, target) \cup Inserted(j, 1 .. n - 1)
           /\ after[matched].document = DocumentOf[j]
           /\ after[matched].schema = rec[matched].schema
           /\ after[matched].schema_version = target
           /\ \A r \in Others(rec, matched, target) \ {matched} :
                /\ after[r].document = rec[r].document
                /\ after[r].schema = rec[r].schema
                /\ after[r].schema_version = rec[r].schema_version
           /\ \A r \in Others(rec, matched, target) :
                \/ after[r].is_duplicate_of = None
                \/ /\ after[r].is_duplicate_of = rec[r].is_duplicate_of
                   /\ after[r].is_duplicate_of \notin Stranded(rec, matched, target)
           /\ \A r \in Inserted(j, 1 .. n - 1) :
                /\ after[r].document = DocumentOf[j]
                /\ after[r].schema = target.schema
                /\ after[r].schema_version = target
                /\ after[r].is_duplicate_of = None
<1> DEFINE gone == Stranded(rec, matched, target)
           left == _delete_records(rec, gone)
           row == [left[matched] EXCEPT !.document = DocumentOf[j],
                                        !.schema_version = target,
                                        !.row_index = 0]
           over == [left EXCEPT ![matched] = row]
<1>1. /\ left \in RecordTable
      /\ RecordsIn(left) = RecordsIn(rec) \ gone
      /\ \A r \in RecordsIn(left) :
           /\ left[r].document = rec[r].document
           /\ left[r].schema = rec[r].schema
           /\ left[r].schema_version = rec[r].schema_version
           /\ left[r].row_index = rec[r].row_index
           /\ \/ left[r].is_duplicate_of = None
              \/ /\ left[r].is_duplicate_of = rec[r].is_duplicate_of
                 /\ left[r].is_duplicate_of \notin gone
  BY DeletedRecords
<1>2. matched \in RecordIds /\ matched \notin gone /\ matched \in RecordsIn(left)
  BY <1>1 DEF Stranded, RecordsIn
<1>3. left[matched] \in Record
  BY <1>1, <1>2, RecordsInTable
<1>4. row \in Record
  <2>1. DocumentOf[j] \in Documents /\ 0 \in 0 .. MaxRows - 1 /\ target \in Version
    BY ConstantsAssumption
  <2> QED BY <1>3, <2>1 DEF Record, Version
<1>5. /\ row.document = DocumentOf[j]
      /\ row.schema = left[matched].schema
      /\ row.schema_version = target
      /\ row.is_duplicate_of = left[matched].is_duplicate_of
  BY <1>3 DEF Record
<1>6. /\ over \in RecordTable
      /\ over[matched] = row
      /\ \A r \in RecordIds \ {matched} : over[r] = left[r]
  BY <1>1, <1>2, <1>4 DEF RecordTable
<1>7. RecordsIn(over) = RecordsIn(left)
  <2>1. row # None
    BY <1>4, ConstantsAssumption
  <2> QED BY <1>2, <1>6, <2>1 DEF RecordsIn
<1>8. after = _insert_records(over, j, target, 1 .. n - 1, None)
  BY <1>1, <1>2 DEF Replaced, RecordTable
<1>9. /\ after \in RecordTable
      /\ RecordsIn(after) = RecordsIn(over) \cup Inserted(j, 1 .. n - 1)
      /\ \A r \in Inserted(j, 1 .. n - 1) :
           /\ after[r].document = DocumentOf[j]
           /\ after[r].schema = target.schema
           /\ after[r].schema_version = target
           /\ after[r].is_duplicate_of = None
      /\ \A r \in RecordIds \ Inserted(j, 1 .. n - 1) : after[r] = over[r]
  <2>1. over \in RecordTable /\ None \in RecordIds \cup {None}
    BY <1>6
  <2> HIDE DEF over
  <2> QED BY <1>8, <2>1, InsertedRecords
<1>10. \A r \in RecordsIn(rec) : r \in RecordIds \ Inserted(j, 1 .. n - 1)
  BY DEF RecordsIn, Inserted
<1>11. \A r \in RecordsIn(rec) \ gone : r # matched => after[r] = left[r]
  BY <1>6, <1>9, <1>10
<1>12. after[matched] = row
  BY <1>6, <1>9, <1>10
<1> HIDE DEF gone, left, row, over
<1>13. \A r \in RecordsIn(rec) \ gone :
          \/ after[r].is_duplicate_of = None
          \/ /\ after[r].is_duplicate_of = rec[r].is_duplicate_of
             /\ after[r].is_duplicate_of \notin gone
  BY <1>1, <1>2, <1>5, <1>11, <1>12
<1> QED BY <1>1, <1>2, <1>5, <1>7, <1>9, <1>10, <1>11, <1>12, <1>13 DEF gone, Others

\* Nothing is left of the set it takes over.
LEMMA ReplacedSet ==
    ASSUME NEW rec \in RecordTable, NEW j \in Jobs, NEW target \in Version,
           NEW n \in 1..MaxRows, NEW matched \in RecordsIn(rec),
           \A r \in RecordsIn(rec) : r[1] # j,
           rec[matched].document # DocumentOf[j],
           NEW after, after = Replaced(rec, j, target, n, matched)
    PROVE  _records_for(after, rec[matched].document, target.schema) = {}
<1>1. /\ RecordsIn(after) = Others(rec, matched, target) \cup Inserted(j, 1 .. n - 1)
      /\ after[matched].document = DocumentOf[j]
      /\ \A r \in Others(rec, matched, target) \ {matched} :
           /\ after[r].document = rec[r].document
           /\ after[r].schema = rec[r].schema
      /\ \A r \in Inserted(j, 1 .. n - 1) : after[r].document = DocumentOf[j]
  BY ReplacedRecords
<1>2. \A r \in Others(rec, matched, target) \ {matched} : ~(/\ rec[r].document = rec[matched].document
                                     /\ rec[r].schema = target.schema)
  BY DEF Others, Stranded, _records_for
<1> SUFFICES ASSUME NEW r \in RecordsIn(after),
                    after[r].document = rec[matched].document,
                    after[r].schema = target.schema
             PROVE  FALSE
  BY DEF _records_for
<1>3. CASE r = matched
  BY <1>1, <1>3
<1>4. CASE r \in Others(rec, matched, target) \ {matched}
  BY <1>1, <1>2, <1>4
<1>5. CASE r \in Inserted(j, 1 .. n - 1)
  BY <1>1, <1>5
<1> QED BY <1>1, <1>3, <1>4, <1>5

-----------------------------------------------------------------------------
(* The tables between transactions *)

\* What a pipeline or a reviewer points a job at: a version, or no schema.
Matched == Version \cup {NoTarget}

\* A document has a row only from its one upload on.
UploadedOnce(t) ==
    \A j \in Uploads : DocumentOf[j] \in t.documents => t.jobs[j].status \in Present
UploadsExtract(t) == \A j \in Uploads : t.jobs[j].kind # "backfill"
\* The ids of a job's rows are free until its confirm takes them.
RowsAreConfirmed(t) ==
    \A r \in RecordsIn(t.records) : t.jobs[r[1]].status \in {"confirmed", "deleted"}
SchemasHaveVersions(t) == \A s \in t.schemas : t.versions[s] # 0
StagedMatched(t) == \A j \in Jobs : t.jobs[j].result.target \in Matched
\* The version a backfill is for is the one its document points at, if any.
BackfillsPointed(t) ==
    \A j \in Jobs :
        t.jobs[j].status \in Present /\ t.jobs[j].kind = "backfill"
          => t.target[DocumentOf[j]] \in Matched

Sound(t) ==
    /\ t \in Tables
    /\ PresentHaveDocuments(t)
    /\ UploadedOnce(t)
    /\ UploadsExtract(t)
    /\ RowsAreConfirmed(t)
    /\ SchemasHaveVersions(t)
    /\ StagedMatched(t)
    /\ BackfillsPointed(t)

LEMMA BlankValues ==
    /\ NoTarget \in Target /\ NoStaged \in Staged /\ UnusedJob \in Job
    /\ NoTarget \in Matched /\ NoStaged.target = NoTarget
    /\ UnusedJob.status = "unused" /\ UnusedJob.kind = "extract"
    /\ UnusedJob.result = NoStaged
<1>1. NoTarget \in Target
  BY ConstantsAssumption DEF NoTarget, Target
<1>2. NoStaged \in Staged /\ NoStaged.target = NoTarget
  BY <1>1 DEF NoStaged, Staged
<1>3. UnusedJob \in Job
  BY <1>2 DEF UnusedJob, Job
<1> QED BY <1>1, <1>2, <1>3 DEF UnusedJob, Matched

LEMMA InitSound == Init => Sound(db) /\ ForeignKeysHold(db)
<1> SUFFICES ASSUME Init PROVE Sound(db) /\ ForeignKeysHold(db)
  OBVIOUS
<1>1. db \in Tables
  BY BlankValues, ConstantsAssumption DEF Init, Tables
<1>2. RecordsIn(db.records) = {}
  BY DEF Init, RecordsIn
<1>3. /\ db.documents = {} /\ db.schemas = {}
      /\ \A j \in Jobs : db.jobs[j] = UnusedJob
  BY DEF Init
<1>4. /\ \A j \in Jobs : db.jobs[j].status \notin Present
      /\ \A j \in Jobs : db.jobs[j].result.target = NoTarget
      /\ \A j \in Jobs : db.jobs[j].kind # "backfill"
  BY <1>3, BlankValues DEF Present
<1> QED
  BY <1>1, <1>2, <1>3, <1>4
  DEF Sound, PresentHaveDocuments, UploadedOnce, RowsAreConfirmed, SchemasHaveVersions,
      StagedMatched, BackfillsPointed, ForeignKeysHold, Matched, UploadsExtract, Jobs

LEMMA CreateSchemaSound ==
    ASSUME NEW s \in Schemas, Sound(db), ForeignKeysHold(db),
           NEW new, new = [db EXCEPT !.schemas = @ \cup {s}, !.versions[s] = 1]
    PROVE  /\ Sound(new) /\ ForeignKeysHold(new)
           /\ new.documents = db.documents /\ new.jobs = db.jobs
           /\ db.schemas \subseteq new.schemas /\ s \in new.schemas
           /\ new.records = db.records /\ new.target = db.target
<1>1. new \in Tables
  <2>1. 1 \in 0..MaxVersions
    BY ConstantsAssumption
  <2>2. [db.versions EXCEPT ![s] = 1] \in [Schemas -> 0..MaxVersions]
    BY <2>1 DEF Sound, Tables
  <2> QED BY <2>2 DEF Sound, Tables
<1>2. /\ new.schemas = db.schemas \cup {s} /\ new.documents = db.documents
      /\ new.target = db.target /\ new.records = db.records /\ new.jobs = db.jobs
      /\ \A p \in Schemas : new.versions[p] = IF p = s THEN 1 ELSE db.versions[p]
  BY DEF Sound, Tables
<1>3. SchemasHaveVersions(new)
  BY <1>1, <1>2 DEF Sound, Tables, SchemasHaveVersions
<1>4. ForeignKeysHold(new)
  BY <1>2 DEF ForeignKeysHold, PresentHaveDocuments
<1> QED
  BY <1>1, <1>2, <1>3, <1>4 DEF Sound, PresentHaveDocuments, UploadedOnce,
     UploadsExtract, RowsAreConfirmed, StagedMatched, BackfillsPointed

LEMMA SaveVersionSound ==
    ASSUME NEW s \in db.schemas, db.versions[s] < MaxVersions,
           Sound(db), ForeignKeysHold(db),
           NEW new, new = [db EXCEPT !.versions[s] = @ + 1]
    PROVE  /\ Sound(new) /\ ForeignKeysHold(new) /\ s \in new.schemas
           /\ new.records = db.records /\ new.target = db.target
<1>1. s \in Schemas /\ db.versions[s] \in 0..MaxVersions
  BY DEF Sound, Tables
<1>2. new \in Tables
  BY <1>1, ConstantsAssumption DEF Sound, Tables
<1>3. /\ new.schemas = db.schemas /\ new.documents = db.documents
      /\ new.target = db.target /\ new.records = db.records /\ new.jobs = db.jobs
      /\ \A p \in Schemas :
           new.versions[p] = IF p = s THEN db.versions[s] + 1 ELSE db.versions[p]
  BY <1>1 DEF Sound, Tables
<1>4. SchemasHaveVersions(new)
  BY <1>1, <1>2, <1>3 DEF Sound, Tables, SchemasHaveVersions
<1>5. ForeignKeysHold(new)
  BY <1>3 DEF ForeignKeysHold, PresentHaveDocuments
<1> QED
  BY <1>2, <1>3, <1>4, <1>5 DEF Sound, PresentHaveDocuments, UploadedOnce,
     UploadsExtract, RowsAreConfirmed, StagedMatched, BackfillsPointed

\* `new` are unused backfills of documents that carry s.
BackfillsOf(t, s, carriers, new) ==
    /\ \A d \in carriers : d \in t.documents /\ t.target[d].schema = s
    /\ \A j \in new : /\ j \in Backfills /\ t.jobs[j].status = "unused"
                     /\ DocumentOf[j] \in carriers

LEMMA EnqueueSound ==
    ASSUME NEW t, Sound(t), ForeignKeysHold(t), NEW s \in t.schemas,
           NEW carriers, NEW new, BackfillsOf(t, s, carriers, new),
           NEW after, after = Enqueued(t, s, carriers, new)
    PROVE  /\ Sound(after) /\ ForeignKeysHold(after)
           /\ after.records = t.records
           /\ \A d \in Documents : after.target[d].schema = t.target[d].schema
<1> DEFINE version == [schema |-> s, version |-> t.versions[s]]
           backfill == [UnusedJob EXCEPT !.status = "queued", !.kind = "backfill"]
<1>1. version \in Version
  <2>1. t.versions[s] \in 0..MaxVersions /\ t.versions[s] # 0 /\ s \in Schemas
    BY DEF Sound, SchemasHaveVersions, Tables
  <2>2. t.versions[s] \in 1..MaxVersions
    BY <2>1, ConstantsAssumption
  <2> QED BY <2>1, <2>2 DEF Version
<1>2. version \in Target
  BY <1>1, ConstantsAssumption DEF Version, Target
<1>3. /\ backfill \in Job /\ backfill.status = "queued"
      /\ backfill.kind = "backfill" /\ backfill.result.target = NoTarget
  BY BlankValues DEF Job
<1>4. /\ after.schemas = t.schemas /\ after.documents = t.documents
      /\ after.versions = t.versions /\ after.records = t.records
      /\ after.target = [d \in Documents |-> IF d \in carriers THEN version ELSE t.target[d]]
      /\ after.jobs = [j \in Jobs |-> IF j \in new THEN backfill ELSE t.jobs[j]]
  BY DEF Sound, Tables, Enqueued
<1> HIDE DEF version, backfill
<1>5. after \in Tables
  <2>1. after.target \in [Documents -> Target] /\ after.jobs \in [Jobs -> Job]
    BY <1>2, <1>3, <1>4 DEF Sound, Tables
  <2>2. after = [schemas |-> after.schemas, versions |-> after.versions,
                 documents |-> after.documents, target |-> after.target,
                 records |-> after.records, jobs |-> after.jobs]
    BY DEF Sound, Tables, Enqueued
  <2> QED BY <1>4, <2>1, <2>2 DEF Sound, Tables
<1>6. \A j \in new : /\ j \in Jobs /\ DocumentOf[j] \in carriers
                    /\ t.jobs[j].status = "unused" /\ after.jobs[j] = backfill
  BY <1>4 DEF Jobs, BackfillsOf
<1>7. \A j \in Jobs \ new : after.jobs[j] = t.jobs[j]
  BY <1>4
<1>8. \A d \in Documents : after.target[d].schema = t.target[d].schema
  BY <1>4 DEF version, BackfillsOf
<1>9. PresentHaveDocuments(after)
  BY <1>4, <1>6, <1>7 DEF Sound, PresentHaveDocuments, BackfillsOf
<1>10. ForeignKeysHold(after)
  <2>1. after.documents \subseteq Documents
    BY <1>4 DEF Sound, Tables
  <2> QED BY <1>4, <1>8, <1>9, <2>1 DEF ForeignKeysHold
<1>11. UploadedOnce(after) /\ UploadsExtract(after)
  <2>1. \A j \in Uploads : j \in Jobs \ new
    BY ConstantsAssumption DEF Jobs, BackfillsOf
  <2> QED BY <1>4, <1>7, <2>1 DEF Sound, UploadedOnce, UploadsExtract
<1>12. RowsAreConfirmed(after)
  <2> SUFFICES ASSUME NEW r \in RecordsIn(t.records)
               PROVE  after.jobs[r[1]].status \in {"confirmed", "deleted"}
    BY <1>4 DEF RowsAreConfirmed
  <2>1. r[1] \in Jobs /\ t.jobs[r[1]].status \in {"confirmed", "deleted"}
    BY DEF Sound, RowsAreConfirmed, RecordsIn, RecordIds
  <2> QED BY <1>6, <1>7, <2>1
<1>13. SchemasHaveVersions(after)
  BY <1>4 DEF Sound, SchemasHaveVersions
<1>14. StagedMatched(after)
  BY <1>3, <1>6, <1>7, BlankValues DEF Sound, StagedMatched
<1>15. BackfillsPointed(after)
  <2> SUFFICES ASSUME NEW j \in Jobs, after.jobs[j].status \in Present,
                      after.jobs[j].kind = "backfill"
               PROVE  after.target[DocumentOf[j]] \in Matched
    BY DEF BackfillsPointed
  <2>1. DocumentOf[j] \in Documents
    BY ConstantsAssumption
  <2>2. CASE DocumentOf[j] \in carriers
    BY <1>1, <1>4, <2>1, <2>2 DEF Matched
  <2>3. CASE DocumentOf[j] \notin carriers
    BY <1>4, <1>6, <1>7, <2>1, <2>3 DEF Sound, BackfillsPointed
  <2> QED BY <2>2, <2>3
<1> QED
  BY <1>4, <1>5, <1>8, <1>10, <1>11, <1>12, <1>13, <1>14, <1>15, <1>9 DEF Sound

LEMMA UploadSound ==
    ASSUME NEW j \in Uploads, Sound(db), ForeignKeysHold(db),
           db.jobs[j].status = "unused", NEW hint \in Schemas \cup {None},
           NEW new, new = [db EXCEPT !.documents = @ \cup {DocumentOf[j]},
                             !.target[DocumentOf[j]] = [schema |-> hint, version |-> 0],
                             !.jobs[j].status = "queued"]
    PROVE  /\ Sound(new) /\ DocumentOf[j] \notin db.documents
           /\ new.records = db.records
           /\ \A d \in Documents : d # DocumentOf[j] => new.target[d] = db.target[d]
           /\ hint \in db.schemas \cup {None} => ForeignKeysHold(new)
<1> DEFINE d == DocumentOf[j]
           row == [db.jobs[j] EXCEPT !.status = "queued"]
           to == [schema |-> hint, version |-> 0]
<1>1. j \in Jobs /\ d \in Documents
  BY ConstantsAssumption DEF Jobs
<1>2. /\ row \in Job /\ row.status = "queued"
      /\ row.kind = db.jobs[j].kind /\ row.result = db.jobs[j].result
  BY <1>1 DEF Sound, Tables, Job
<1>3. to \in Target
  BY ConstantsAssumption DEF Target
<1>4. /\ new.schemas = db.schemas /\ new.documents = db.documents \cup {d}
      /\ new.versions = db.versions /\ new.records = db.records
      /\ new.target = [db.target EXCEPT ![d] = to]
      /\ new.jobs = [db.jobs EXCEPT ![j] = row]
  BY <1>1 DEF Sound, Tables
<1> HIDE DEF row, to
<1>5. new \in Tables
  <2>1. new.target \in [Documents -> Target] /\ new.jobs \in [Jobs -> Job]
    BY <1>2, <1>3, <1>4 DEF Sound, Tables
  <2> QED BY <1>1, <1>4, <2>1 DEF Sound, Tables
<1>6. /\ new.jobs[j] = row
      /\ \A k \in Jobs \ {j} : new.jobs[k] = db.jobs[k]
      /\ \A e \in Documents \ {d} : new.target[e] = db.target[e]
  BY <1>1, <1>4 DEF Sound, Tables
<1>7. d \notin db.documents
  BY <1>1 DEF Sound, UploadedOnce, Present
<1>8. \A k \in Uploads : DocumentOf[k] = d => k = j
  BY <1>1, ConstantsAssumption
<1>9. PresentHaveDocuments(new)
  BY <1>4, <1>6 DEF Sound, PresentHaveDocuments
<1>10. UploadedOnce(new) /\ UploadsExtract(new)
  BY <1>2, <1>4, <1>6, <1>8 DEF Sound, UploadedOnce, UploadsExtract, Jobs, Present
<1>11. RowsAreConfirmed(new)
  <2> SUFFICES ASSUME NEW r \in RecordsIn(db.records)
               PROVE  new.jobs[r[1]].status \in {"confirmed", "deleted"}
    BY <1>4 DEF RowsAreConfirmed
  <2>1. r[1] \in Jobs /\ db.jobs[r[1]].status \in {"confirmed", "deleted"}
    BY DEF Sound, RowsAreConfirmed, RecordsIn, RecordIds
  <2> QED BY <1>6, <2>1
<1>12. SchemasHaveVersions(new)
  BY <1>4 DEF Sound, SchemasHaveVersions
<1>13. StagedMatched(new)
  BY <1>1, <1>2, <1>6 DEF Sound, StagedMatched
<1>14. BackfillsPointed(new)
  <2> SUFFICES ASSUME NEW k \in Jobs, new.jobs[k].status \in Present,
                      new.jobs[k].kind = "backfill"
               PROVE  new.target[DocumentOf[k]] \in Matched
    BY DEF BackfillsPointed
  <2>1. DocumentOf[k] \in Documents
    BY ConstantsAssumption
  <2>2. k # j
    BY <1>2, <1>6 DEF Sound, UploadsExtract
  <2>3. DocumentOf[k] \in db.documents
    BY <1>6, <2>2 DEF Sound, PresentHaveDocuments
  <2> QED BY <1>6, <1>7, <2>1, <2>2, <2>3 DEF Sound, BackfillsPointed
<1>15. ASSUME hint \in db.schemas \cup {None} PROVE ForeignKeysHold(new)
  <2>1. \A e \in new.documents : new.target[e].schema \in new.schemas \cup {None}
    BY <1>1, <1>4, <1>6, <1>15 DEF ForeignKeysHold, Sound, Tables, to
  <2> QED BY <1>4, <1>9, <2>1 DEF ForeignKeysHold
<1> QED
  BY <1>4, <1>6, <1>15, <1>5, <1>7, <1>9, <1>10, <1>11, <1>12, <1>13, <1>14 DEF Sound

\* Moving one unconfirmed job on.
LEMMA JobUpdated ==
    ASSUME Sound(db), ForeignKeysHold(db), NEW j \in Jobs, NEW row \in Job,
           row.result.target \in Matched, row.kind \in {db.jobs[j].kind, "reextract"},
           row.status \in Present, db.jobs[j].status \in Present \ {"confirmed"},
           NEW new, new = [db EXCEPT !.jobs = [db.jobs EXCEPT ![j] = row]]
    PROVE  /\ Sound(new) /\ ForeignKeysHold(new)
           /\ new.records = db.records /\ new.target = db.target
<1>1. /\ new.schemas = db.schemas /\ new.documents = db.documents
      /\ new.versions = db.versions /\ new.records = db.records
      /\ new.target = db.target /\ new.jobs = [db.jobs EXCEPT ![j] = row]
  BY DEF Sound, Tables
<1>2. /\ new.jobs[j] = row
      /\ \A k \in Jobs \ {j} : new.jobs[k] = db.jobs[k]
  BY <1>1 DEF Sound, Tables
<1>3. new \in Tables
  BY <1>1 DEF Sound, Tables
<1>4. PresentHaveDocuments(new) /\ UploadedOnce(new) /\ UploadsExtract(new)
  BY <1>1, <1>2 DEF Sound, PresentHaveDocuments, UploadedOnce, UploadsExtract, Jobs
<1>5. ForeignKeysHold(new)
  BY <1>1, <1>4 DEF ForeignKeysHold
<1>6. RowsAreConfirmed(new)
  <2> SUFFICES ASSUME NEW r \in RecordsIn(db.records)
               PROVE  new.jobs[r[1]].status \in {"confirmed", "deleted"}
    BY <1>1 DEF RowsAreConfirmed
  <2>1. r[1] \in Jobs /\ db.jobs[r[1]].status \in {"confirmed", "deleted"}
    BY DEF Sound, RowsAreConfirmed, RecordsIn, RecordIds
  <2> QED BY <1>2, <2>1 DEF Present
<1>7. SchemasHaveVersions(new) /\ StagedMatched(new)
  BY <1>1, <1>2 DEF Sound, SchemasHaveVersions, StagedMatched
<1>8. BackfillsPointed(new)
  BY <1>1, <1>2 DEF Sound, BackfillsPointed
<1> QED BY <1>1, <1>3, <1>4, <1>5, <1>6, <1>7, <1>8 DEF Sound

LEMMA LatestMatched ==
    ASSUME Sound(db), NEW s \in db.schemas
    PROVE  Latest(s) \in Version /\ Latest(s).schema = s
<1>1. db.versions[s] \in 0..MaxVersions /\ db.versions[s] # 0 /\ s \in Schemas
  BY DEF Sound, SchemasHaveVersions, Tables
<1>2. db.versions[s] \in 1..MaxVersions
  BY <1>1, ConstantsAssumption
<1> QED BY <1>1, <1>2 DEF Latest, Version

LEMMA MatchedTargets ==
    /\ Matched \subseteq Target
    /\ \A m \in Matched : m # NoTarget => m \in Version
    /\ \A m \in Matched : m = NoTarget <=> m.schema = None
<1>1. Version \subseteq Target
  BY ConstantsAssumption DEF Version, Target
<1>2. \A m \in Version : m.schema # None
  BY ConstantsAssumption DEF Version
<1>3. NoTarget.schema = None
  BY DEF NoTarget
<1> QED BY <1>1, <1>2, <1>3, BlankValues DEF Matched

LEMMA PipelineMatches ==
    ASSUME Sound(db), ForeignKeysHold(db), NEW j \in Jobs,
           db.jobs[j].status = "queued", NEW result \in PipelineResults(j)
    PROVE  result \in Staged /\ result.target \in Matched
<1>1. db.jobs[j] \in Job /\ DocumentOf[j] \in db.documents
  BY DEF Sound, Tables, PresentHaveDocuments, Present
<1>2. DocumentOf[j] \in Documents /\ db.target[DocumentOf[j]] \in Target
  BY ConstantsAssumption DEF Sound, Tables
<1>3. CASE db.jobs[j].kind = "extract"
  <2>1. PICK to \in Matches(DocumentOf[j]) : \E r \in DedupMatches(to) :
           result = [target |-> to, adhoc |-> to = NoTarget, dedup |-> r]
    BY <1>3 DEF PipelineResults, Extracted
  <2>2. PICK r \in DedupMatches(to) :
           result = [target |-> to, adhoc |-> to = NoTarget, dedup |-> r]
    BY <2>1
  <2>3. to \in Matched
    <3> DEFINE own == db.target[DocumentOf[j]]
    <3>1. CASE own.schema = None
      BY <2>2, <3>1, LatestMatched DEF Matches, Matched
    <3>2. CASE own.schema # None /\ own.version # 0
      <4>1. own.schema \in Schemas /\ own.version \in 0..MaxVersions
        BY <1>2, <3>2 DEF Target
      <4>2. own.version \in 1..MaxVersions
        BY <3>2, <4>1, ConstantsAssumption
      <4>3. own = [schema |-> own.schema, version |-> own.version]
        BY <1>2 DEF Target
      <4>4. own \in Version
        BY <4>1, <4>2, <4>3 DEF Version
      <4> QED BY <2>2, <3>2, <4>4 DEF Matches, Matched
    <3>3. CASE own.schema # None /\ own.version = 0
      <4>1. own.schema \in db.schemas
        BY <1>1, <3>3 DEF ForeignKeysHold
      <4> QED BY <2>2, <3>3, <4>1, LatestMatched DEF Matches, Matched
    <3> QED BY <3>1, <3>2, <3>3
  <2>4. r \in RecordIds \cup {None} /\ (to = NoTarget) \in BOOLEAN
    BY <2>2 DEF DedupMatches, Records, RecordsIn
  <2> QED BY <2>2, <2>3, <2>4, MatchedTargets DEF Staged
<1>4. CASE db.jobs[j].kind = "backfill"
  <2>1. result = [target |-> db.target[DocumentOf[j]], adhoc |-> FALSE, dedup |-> None]
    BY <1>4 DEF PipelineResults, Backfilled
  <2>2. db.target[DocumentOf[j]] \in Matched
    BY <1>4 DEF Sound, BackfillsPointed, Present
  <2> QED BY <1>2, <2>1, <2>2 DEF Staged
<1>5. CASE db.jobs[j].kind = "reextract"
  BY <1>1, <1>5 DEF PipelineResults, Job, Sound, StagedMatched
<1> QED BY <1>1, <1>3, <1>4, <1>5 DEF Job

-----------------------------------------------------------------------------
(* What a confirm writes *)

\* A row the confirm of job j under `target` leaves, inserts or overwrites.
Kept(rec, r) ==
    /\ r \in Records
    /\ rec[r].document = db.records[r].document
    /\ rec[r].schema = db.records[r].schema
    /\ rec[r].schema_version = db.records[r].schema_version

New(rec, r, j, target) ==
    /\ r[1] = j
    /\ rec[r].document = DocumentOf[j]
    /\ rec[r].schema = target.schema
    /\ rec[r].schema_version = target

Overwritten(rec, r, j, target, decision) ==
    /\ db.jobs[j].kind # "backfill" /\ decision = "replace"
    /\ r = db.jobs[j].result.dedup /\ r \in Records
    /\ rec[r].document = DocumentOf[j]
    /\ rec[r].schema = db.records[r].schema
    /\ rec[r].schema_version = target

Links(rec, allowed) == \A r \in RecordsIn(rec) : rec[r].is_duplicate_of \in allowed

LEMMA NoRowsUnderReview ==
    ASSUME Sound(db), NEW j \in Jobs, UnderReview(j)
    PROVE  \A r \in Records : r[1] # j
BY DEF Sound, RowsAreConfirmed, UnderReview, Records

LEMMA BackfillWrites ==
    ASSUME Sound(db), ForeignKeysHold(db), NEW j \in Jobs, UnderReview(j),
           NEW target \in Version, NEW n \in 1..MaxRows,
           NEW rec, rec = _apply_backfill_extracted_record(db.records, j, target, n)
    PROVE  /\ rec \in RecordTable
           /\ \A r \in RecordsIn(rec) :
                \/ /\ Kept(rec, r) /\ r[1] # j
                   /\ ~(rec[r].document = DocumentOf[j] /\ rec[r].schema = target.schema)
                \/ New(rec, r, j, target)
           /\ Links(rec, RecordsIn(rec) \cup {None})
<1> DEFINE doomed == _records_for(db.records, DocumentOf[j], target.schema)
           left == _delete_records(db.records, doomed)
<1>1. db.records \in RecordTable
  BY DEF Sound, Tables, RecordTable
<1>2. /\ left \in RecordTable
      /\ RecordsIn(left) = Records \ doomed
      /\ \A r \in RecordsIn(left) :
           /\ left[r].document = db.records[r].document
           /\ left[r].schema = db.records[r].schema
           /\ left[r].schema_version = db.records[r].schema_version
           /\ \/ left[r].is_duplicate_of = None
              \/ /\ left[r].is_duplicate_of = db.records[r].is_duplicate_of
                 /\ left[r].is_duplicate_of \notin doomed
  BY <1>1, DeletedRecords DEF Records
<1>3. rec = _insert_records(left, j, target, 0 .. n - 1, None)
  BY DEF _apply_backfill_extracted_record
<1> HIDE DEF left
<1>4. /\ rec \in RecordTable
      /\ RecordsIn(rec) = RecordsIn(left) \cup Inserted(j, 0 .. n - 1)
      /\ \A r \in Inserted(j, 0 .. n - 1) :
           /\ rec[r].document = DocumentOf[j]
           /\ rec[r].schema = target.schema
           /\ rec[r].schema_version = target
           /\ rec[r].is_duplicate_of = None
      /\ \A r \in RecordIds \ Inserted(j, 0 .. n - 1) : rec[r] = left[r]
  <2>1. None \in RecordIds \cup {None}
    OBVIOUS
  <2> QED BY <1>2, <1>3, <2>1, InsertedRecords
<1>5. \A r \in RecordsIn(left) : /\ r \in Records /\ r[1] # j /\ r \notin doomed
                               /\ rec[r] = left[r]
  BY <1>2, <1>4, NoRowsUnderReview DEF Records, RecordsIn, Inserted
<1>6. \A r \in Records :
         r \notin doomed => ~(/\ db.records[r].document = DocumentOf[j]
                             /\ db.records[r].schema = target.schema)
  BY DEF _records_for, Records
<1>7. ASSUME NEW r \in RecordsIn(left)
      PROVE  /\ Kept(rec, r) /\ r[1] # j
             /\ ~(rec[r].document = DocumentOf[j] /\ rec[r].schema = target.schema)
  BY <1>2, <1>5, <1>6 DEF Kept
<1>8. ASSUME NEW r \in Inserted(j, 0 .. n - 1) PROVE New(rec, r, j, target)
  BY <1>4 DEF New, Inserted
<1>9. \A r \in Records : db.records[r].is_duplicate_of \in Records \cup {None}
  BY DEF ForeignKeysHold, Records
<1>10. Links(rec, RecordsIn(rec) \cup {None})
  <2> SUFFICES ASSUME NEW r \in RecordsIn(rec)
               PROVE  rec[r].is_duplicate_of \in RecordsIn(rec) \cup {None}
    BY DEF Links
  <2>1. CASE r \in Inserted(j, 0 .. n - 1)
    BY <1>4, <2>1
  <2>2. CASE r \in RecordsIn(left)
    BY <1>2, <1>4, <1>5, <1>9, <2>2
  <2> QED BY <1>4, <2>1, <2>2
<1> QED BY <1>4, <1>7, <1>8, <1>10

LEMMA ExtractWrites ==
    ASSUME Sound(db), ForeignKeysHold(db), NEW j \in Jobs, UnderReview(j),
           db.jobs[j].kind # "backfill",
           NEW target \in Version, NEW n \in 1..MaxRows, NEW decision \in Decisions,
           NEW rec \in _apply_extracted_record(db.records, j, target, n, decision)
    PROVE  /\ rec \in RecordTable
           /\ \A r \in RecordsIn(rec) :
                \/ Kept(rec, r) /\ r[1] # j
                \/ New(rec, r, j, target)
                \/ Overwritten(rec, r, j, target, decision)
           /\ db.jobs[j].result.dedup \in Records \cup {None}
                => Links(rec, RecordsIn(rec) \cup {None})
<1> DEFINE matched == db.jobs[j].result.dedup
<1>1. db.records \in RecordTable /\ matched \in RecordIds \cup {None}
  BY DEF Sound, Tables, RecordTable, Job, Staged
<1>2. \A r \in Records : r[1] # j /\ db.records[r].is_duplicate_of \in Records \cup {None}
  BY NoRowsUnderReview DEF ForeignKeysHold, Records
<1>3. ASSUME NEW duplicate \in {None, matched},
             rec = _insert_records(db.records, j, target, 0 .. n - 1, duplicate)
      PROVE  /\ rec \in RecordTable
             /\ \A r \in RecordsIn(rec) :
                  (Kept(rec, r) /\ r[1] # j) \/ New(rec, r, j, target)
             /\ matched \in Records \cup {None} => Links(rec, RecordsIn(rec) \cup {None})
  <2>1. duplicate \in RecordIds \cup {None}
    BY <1>1, <1>3
  <2>2. /\ rec \in RecordTable
        /\ RecordsIn(rec) = Records \cup Inserted(j, 0 .. n - 1)
        /\ \A r \in Inserted(j, 0 .. n - 1) :
             /\ rec[r].document = DocumentOf[j]
             /\ rec[r].schema = target.schema
             /\ rec[r].schema_version = target
             /\ rec[r].is_duplicate_of = duplicate
        /\ \A r \in RecordIds \ Inserted(j, 0 .. n - 1) : rec[r] = db.records[r]
    BY <1>1, <1>3, <2>1, InsertedRecords DEF Records
  <2>3. \A r \in Records : rec[r] = db.records[r]
    BY <1>2, <2>2 DEF Records, RecordsIn, Inserted
  <2>4. ASSUME NEW r \in RecordsIn(rec)
        PROVE  (Kept(rec, r) /\ r[1] # j) \/ New(rec, r, j, target)
    <3>1. CASE r \in Records
      BY <1>2, <2>3, <3>1 DEF Kept
    <3>2. CASE r \in Inserted(j, 0 .. n - 1)
      BY <2>2, <3>2 DEF New, Inserted
    <3> QED BY <2>2, <3>1, <3>2
  <2>5. \A r \in RecordsIn(rec) :
          rec[r].is_duplicate_of \in RecordsIn(rec) \cup {None, duplicate}
    BY <1>2, <2>2, <2>3
  <2> QED BY <1>3, <2>2, <2>4, <2>5 DEF Links
<1>4. CASE matched = None
  <2>1. rec = _insert_records(db.records, j, target, 0 .. n - 1, None)
    BY <1>4 DEF _apply_extracted_record
  <2> QED BY <1>3, <2>1
<1>5. CASE matched # None /\ decision = "keep_both"
  <2>1. rec = _insert_records(db.records, j, target, 0 .. n - 1, matched)
    BY <1>5 DEF _apply_extracted_record
  <2> QED BY <1>3, <2>1
<1>6. CASE matched # None /\ decision = "skip"
  <2>1. rec = db.records
    BY <1>6 DEF _apply_extracted_record
  <2> QED BY <1>1, <1>2, <2>1 DEF Kept, Links, Records
<1>7. CASE matched # None /\ decision = "replace"
  <2>1. matched \in Records /\ rec = Replaced(db.records, j, target, n, matched)
    BY <1>7 DEF _apply_extracted_record, Records
  <2> DEFINE gone == Stranded(db.records, matched, target)
             others == Others(db.records, matched, target)
  <2>2. /\ rec \in RecordTable
        /\ matched \in others
        /\ RecordsIn(rec) = others \cup Inserted(j, 1 .. n - 1)
        /\ rec[matched].document = DocumentOf[j]
        /\ rec[matched].schema = db.records[matched].schema
        /\ rec[matched].schema_version = target
        /\ \A r \in others \ {matched} :
             /\ rec[r].document = db.records[r].document
             /\ rec[r].schema = db.records[r].schema
             /\ rec[r].schema_version = db.records[r].schema_version
        /\ \A r \in others :
             \/ rec[r].is_duplicate_of = None
             \/ /\ rec[r].is_duplicate_of = db.records[r].is_duplicate_of
                /\ rec[r].is_duplicate_of \notin gone
        /\ \A r \in Inserted(j, 1 .. n - 1) :
             /\ rec[r].document = DocumentOf[j]
             /\ rec[r].schema = target.schema
             /\ rec[r].schema_version = target
             /\ rec[r].is_duplicate_of = None
    <3>1. others = Others(db.records, matched, target) /\ gone = Stranded(db.records, matched, target)
      OBVIOUS
    <3>2. matched \in RecordsIn(db.records) /\ \A r \in RecordsIn(db.records) : r[1] # j
      BY <1>2, <2>1 DEF Records
    <3> HIDE DEF matched, gone, others
    <3> QED BY <1>1, <2>1, <3>1, <3>2, ReplacedRecords
  <2>3. others = Records \ gone
    BY DEF Others, Records
  <2> HIDE DEF matched, gone, others
  <2>4. ASSUME NEW r \in RecordsIn(rec)
        PROVE  \/ Kept(rec, r) /\ r[1] # j
               \/ New(rec, r, j, target)
               \/ Overwritten(rec, r, j, target, decision)
    <3>1. CASE r = matched
      BY <1>7, <2>1, <2>2, <3>1 DEF Overwritten, matched
    <3>2. CASE r \in others \ {matched}
      BY <1>2, <2>2, <2>3, <3>2 DEF Kept
    <3>3. CASE r \in Inserted(j, 1 .. n - 1)
      BY <2>2, <3>3 DEF New, Inserted
    <3> QED BY <2>2, <3>1, <3>2, <3>3
  <2>5. Links(rec, RecordsIn(rec) \cup {None})
    <3> SUFFICES ASSUME NEW r \in RecordsIn(rec)
                 PROVE  rec[r].is_duplicate_of \in RecordsIn(rec) \cup {None}
      BY DEF Links
    <3>1. CASE r \in others
      BY <1>2, <2>2, <2>3, <3>1
    <3>2. CASE r \in Inserted(j, 1 .. n - 1)
      BY <2>2, <3>2
    <3> QED BY <2>2, <3>1, <3>2
  <2> QED BY <2>2, <2>4, <2>5 DEF Links, matched
<1> QED BY <1>4, <1>5, <1>6, <1>7 DEF Decisions

LEMMA MaterializedWrites ==
    ASSUME Sound(db), ForeignKeysHold(db), NEW j \in Jobs, UnderReview(j),
           NEW t, t.records = db.records, t.jobs = db.jobs,
           NEW target \in Matched, NEW n \in 1..MaxRows, NEW decision \in Decisions,
           NEW rec \in Materialized(t, j, target, n, decision)
    PROVE  /\ rec \in RecordTable
           /\ \A r \in RecordsIn(rec) :
                \/ Kept(rec, r) /\ r[1] # j
                \/ /\ target \in Version
                   /\ New(rec, r, j, target) \/ Overwritten(rec, r, j, target, decision)
           /\ db.jobs[j].result.dedup \in Records \cup {None}
                => Links(rec, RecordsIn(rec) \cup {None})
<1>1. CASE target = NoTarget
  <2>1. rec = db.records /\ rec \in RecordTable
    BY <1>1 DEF Materialized, Sound, Tables, RecordTable
  <2>2. \A r \in Records : r[1] # j /\ db.records[r].is_duplicate_of \in Records \cup {None}
    BY NoRowsUnderReview DEF ForeignKeysHold, Records
  <2> QED BY <2>1, <2>2 DEF Kept, Links, Records
<1>2. CASE target # NoTarget /\ db.jobs[j].kind = "backfill"
  <2>1. rec = _apply_backfill_extracted_record(db.records, j, target, n)
    BY <1>2 DEF Materialized
  <2>2. target \in Version
    BY <1>2, MatchedTargets
  <2> QED BY <2>1, <2>2, BackfillWrites
<1>3. CASE target # NoTarget /\ db.jobs[j].kind # "backfill"
  <2>1. rec \in _apply_extracted_record(db.records, j, target, n, decision)
    BY <1>3 DEF Materialized
  <2>2. target \in Version
    BY <1>3, MatchedTargets
  <2> QED BY <1>3, <2>1, <2>2, ExtractWrites
<1> QED BY <1>1, <1>2, <1>3

LEMMA ConfirmSound ==
    ASSUME Sound(db), ForeignKeysHold(db), NEW j \in Jobs, UnderReview(j),
           NEW t, Sound(t), ForeignKeysHold(t), t.records = db.records,
           t.jobs = db.jobs, t.documents = db.documents, db.schemas \subseteq t.schemas,
           NEW target \in Matched, target \in Version => target.schema \in t.schemas,
           NEW n \in 1..MaxRows, NEW decision \in Decisions,
           NEW rec \in Materialized(t, j, target, n, decision),
           NEW new, new = Confirmed(t, j, target, rec)
    PROVE  /\ Sound(new)
           /\ new.records = rec
           /\ new.target[DocumentOf[j]]
                = IF target = NoTarget THEN t.target[DocumentOf[j]] ELSE target
           /\ \A d \in Documents : d # DocumentOf[j] => new.target[d] = t.target[d]
           /\ \A k \in Jobs : k # j => new.jobs[k] = db.jobs[k]
           /\ db.jobs[j].result.dedup \in Records \cup {None} => ForeignKeysHold(new)
<1> DEFINE d == DocumentOf[j]
           to == IF target = NoTarget THEN t.target[d] ELSE target
           row == [t.jobs[j] EXCEPT !.status = "confirmed"]
<1>1. d \in Documents /\ d \in t.documents
  BY ConstantsAssumption DEF Sound, PresentHaveDocuments, UnderReview, Present
<1>2. /\ row \in Job /\ row.status = "confirmed"
      /\ row.kind = db.jobs[j].kind /\ row.result = db.jobs[j].result
  BY DEF Sound, Tables, Job
<1>3. to \in Target
  BY <1>1, MatchedTargets DEF Sound, Tables
<1>4. /\ rec \in RecordTable
      /\ \A r \in RecordsIn(rec) :
           \/ Kept(rec, r) /\ r[1] # j
           \/ /\ target \in Version
              /\ New(rec, r, j, target) \/ Overwritten(rec, r, j, target, decision)
      /\ db.jobs[j].result.dedup \in Records \cup {None}
           => Links(rec, RecordsIn(rec) \cup {None})
  BY MaterializedWrites
<1>5. /\ new.schemas = t.schemas /\ new.documents = t.documents
      /\ new.versions = t.versions /\ new.records = rec
      /\ new.target = [t.target EXCEPT ![d] = to]
      /\ new.jobs = [t.jobs EXCEPT ![j] = row]
  BY <1>1 DEF Sound, Tables, Confirmed
<1> HIDE DEF row, to
<1>6. new \in Tables
  <2>1. new = [t EXCEPT !.records = rec, !.target[d] = to, !.jobs[j].status = "confirmed"]
    BY DEF Confirmed, to
  <2>2. new = [schemas |-> t.schemas, versions |-> t.versions,
               documents |-> t.documents, target |-> [t.target EXCEPT ![d] = to],
               records |-> rec, jobs |-> [t.jobs EXCEPT ![j] = row]]
    BY <2>1 DEF Sound, Tables, row
  <2>3. [t.target EXCEPT ![d] = to] \in [Documents -> Target]
    BY <1>3 DEF Sound, Tables
  <2>4. [t.jobs EXCEPT ![j] = row] \in [Jobs -> Job]
    BY <1>2 DEF Sound, Tables
  <2> QED BY <1>4, <2>2, <2>3, <2>4 DEF Sound, Tables, RecordTable
<1>7. /\ new.target[d] = to
      /\ \A e \in Documents : e # d => new.target[e] = t.target[e]
      /\ new.jobs[j] = row
      /\ \A k \in Jobs : k # j => new.jobs[k] = db.jobs[k]
  BY <1>1, <1>5 DEF Sound, Tables
<1>8. PresentHaveDocuments(new) /\ UploadedOnce(new) /\ UploadsExtract(new)
  BY <1>1, <1>2, <1>5, <1>7
  DEF Sound, PresentHaveDocuments, UploadedOnce, UploadsExtract, Jobs, Present
<1>9. RowsAreConfirmed(new)
  <2> SUFFICES ASSUME NEW r \in RecordsIn(rec)
               PROVE  new.jobs[r[1]].status \in {"confirmed", "deleted"}
    BY <1>5 DEF RowsAreConfirmed
  <2>1. CASE r \in Records
    <3>1. r[1] \in Jobs /\ db.jobs[r[1]].status \in {"confirmed", "deleted"}
      BY <2>1 DEF Sound, RowsAreConfirmed, Records, RecordsIn, RecordIds
    <3> QED BY <1>2, <1>7, <3>1
  <2>2. CASE r[1] = j
    BY <1>2, <1>7, <2>2
  <2> QED BY <1>4, <2>1, <2>2 DEF Kept, New, Overwritten
<1>10. SchemasHaveVersions(new) /\ StagedMatched(new)
  BY <1>2, <1>5, <1>7 DEF Sound, SchemasHaveVersions, StagedMatched
<1>11. BackfillsPointed(new)
  <2> SUFFICES ASSUME NEW k \in Jobs, new.jobs[k].status \in Present,
                      new.jobs[k].kind = "backfill"
               PROVE  new.target[DocumentOf[k]] \in Matched
    BY DEF BackfillsPointed
  <2>1. db.jobs[k].status \in Present /\ db.jobs[k].kind = "backfill"
    BY <1>2, <1>7 DEF UnderReview, Present
  <2>2. DocumentOf[k] \in Documents /\ t.target[DocumentOf[k]] \in Matched
    BY <2>1, ConstantsAssumption DEF Sound, BackfillsPointed
  <2> QED BY <1>7, <2>2 DEF to
<1>12. ASSUME db.jobs[j].result.dedup \in Records \cup {None}
       PROVE  ForeignKeysHold(new)
  <2>1. \A e \in new.documents : new.target[e].schema \in new.schemas \cup {None}
    <3> SUFFICES ASSUME NEW e \in new.documents
                 PROVE  new.target[e].schema \in new.schemas \cup {None}
      OBVIOUS
    <3>1. e \in Documents /\ t.target[e].schema \in t.schemas \cup {None}
      BY <1>5 DEF ForeignKeysHold, Sound, Tables
    <3>2. target \in Version \/ target = NoTarget
      BY MatchedTargets
    <3> QED BY <1>5, <1>7, <3>1, <3>2 DEF to
  <2>2. ASSUME NEW r \in RecordsIn(rec)
        PROVE  /\ rec[r].document \in new.documents
               /\ rec[r].schema \in new.schemas
               /\ rec[r].schema_version.schema \in new.schemas
    <3>1. \A q \in Records : /\ db.records[q].document \in db.documents
                             /\ db.records[q].schema \in db.schemas
                             /\ db.records[q].schema_version.schema \in db.schemas
      BY DEF ForeignKeysHold, Records
    <3> QED BY <1>1, <1>4, <1>5, <3>1 DEF Kept, New, Overwritten
  <2>3. Links(rec, RecordsIn(rec) \cup {None})
    BY <1>4, <1>12
  <2> QED BY <1>5, <1>8, <2>1, <2>2, <2>3 DEF ForeignKeysHold, Links
<1> QED
  BY <1>5, <1>6, <1>7, <1>8, <1>9, <1>10, <1>11, <1>12 DEF Sound, to

-----------------------------------------------------------------------------
(* What a delete leaves *)

\* The tables once all the statements of a delete have run.
RecordDeleted(r) == [db EXCEPT !.records = _delete_records(@, {r})]

SchemaDeleted(s) ==
    [db EXCEPT !.records = _delete_records(@, RowsUnder(s)),
               !.target = SchemaDetached(s),
               !.jobs = Cleared(db, s),
               !.schemas = @ \ {s}]

DocumentDeleted(d) ==
    [db EXCEPT !.records = Dropped(@, RowsOf(d)),
               !.jobs = WithoutJobsOf(d),
               !.documents = @ \ {d},
               !.target[d] = NoTarget]

LEMMA DeleteRecordSound ==
    ASSUME Sound(db), ForeignKeysHold(db), NEW r \in Records,
           NEW new, new = RecordDeleted(r)
    PROVE  /\ Sound(new) /\ ForeignKeysHold(new)
           /\ new.target = db.target
           /\ \A q \in RecordsIn(new.records) : Kept(new.records, q)
<1> DEFINE left == _delete_records(db.records, {r})
<1>1. /\ left \in RecordTable
      /\ RecordsIn(left) = Records \ {r}
      /\ \A q \in RecordsIn(left) :
           /\ left[q].document = db.records[q].document
           /\ left[q].schema = db.records[q].schema
           /\ left[q].schema_version = db.records[q].schema_version
           /\ \/ left[q].is_duplicate_of = None
              \/ /\ left[q].is_duplicate_of = db.records[q].is_duplicate_of
                 /\ left[q].is_duplicate_of \notin {r}
  BY DeletedRecords DEF Sound, Tables, RecordTable, Records
<1>2. /\ new.schemas = db.schemas /\ new.documents = db.documents
      /\ new.versions = db.versions /\ new.records = left
      /\ new.target = db.target /\ new.jobs = db.jobs
  BY DEF Sound, Tables, RecordDeleted
<1> HIDE DEF left
<1>3. new \in Tables
  BY <1>1, <1>2 DEF Sound, Tables, RecordTable, left, RecordDeleted
<1>4. ForeignKeysHold(new)
  BY <1>1, <1>2 DEF ForeignKeysHold, PresentHaveDocuments, Records
<1>5. RowsAreConfirmed(new)
  BY <1>1, <1>2 DEF Sound, RowsAreConfirmed, Records
<1>6. \A q \in RecordsIn(new.records) : Kept(new.records, q)
  BY <1>1, <1>2 DEF Kept
<1> QED
  BY <1>2, <1>3, <1>4, <1>5, <1>6 DEF Sound, PresentHaveDocuments, UploadedOnce,
     UploadsExtract, SchemasHaveVersions, StagedMatched, BackfillsPointed

\* Only a row that straddles two lineages can keep a schema from going.
LEMMA DeleteSchemaSound ==
    ASSUME Sound(db), ForeignKeysHold(db), NEW s \in db.schemas,
           NEW new, new = SchemaDeleted(s)
    PROVE  /\ Sound(new)
           /\ ForeignKeysHold(new) \/ \E r \in Records : Straddles(r)
           /\ \A d \in Documents :
                new.target[d] = IF db.target[d].schema = s THEN NoTarget ELSE db.target[d]
           /\ \A r \in RecordsIn(new.records) :
                Kept(new.records, r) /\ new.records[r].schema # s
<1> DEFINE doomed == RowsUnder(s)
           left == _delete_records(db.records, doomed)
           row(j) == [db.jobs[j] EXCEPT !.result.target = NoTarget]
<1>1. /\ left \in RecordTable
      /\ RecordsIn(left) = Records \ doomed
      /\ \A q \in RecordsIn(left) :
           /\ left[q].document = db.records[q].document
           /\ left[q].schema = db.records[q].schema
           /\ left[q].schema_version = db.records[q].schema_version
           /\ \/ left[q].is_duplicate_of = None
              \/ /\ left[q].is_duplicate_of = db.records[q].is_duplicate_of
                 /\ left[q].is_duplicate_of \notin doomed
  BY DeletedRecords DEF Sound, Tables, RecordTable, Records
<1>2. \A j \in Jobs : /\ row(j) \in Job /\ row(j).status = db.jobs[j].status
                      /\ row(j).kind = db.jobs[j].kind
                      /\ row(j).result.target = NoTarget
  <2> SUFFICES ASSUME NEW j \in Jobs
               PROVE  /\ row(j) \in Job /\ row(j).status = db.jobs[j].status
                      /\ row(j).kind = db.jobs[j].kind
                      /\ row(j).result.target = NoTarget
    OBVIOUS
  <2>1. db.jobs[j] \in Job /\ db.jobs[j].result \in Staged
    BY DEF Sound, Tables, Job
  <2>2. [db.jobs[j].result EXCEPT !.target = NoTarget] \in Staged
    BY <2>1, BlankValues DEF Staged
  <2>3. row(j) = [db.jobs[j] EXCEPT
                    !.result = [db.jobs[j].result EXCEPT !.target = NoTarget]]
    BY <2>1 DEF Job
  <2> QED BY <2>1, <2>2, <2>3 DEF Job, Staged
<1> HIDE DEF row, doomed, left
<1>3. /\ new.schemas = db.schemas \ {s} /\ new.documents = db.documents
      /\ new.versions = db.versions /\ new.records = left
      /\ new.target = [d \in Documents |->
                         IF db.target[d].schema = s THEN NoTarget ELSE db.target[d]]
      /\ new.jobs = Cleared(db, s)
  BY DEF Sound, Tables, SchemaDeleted, SchemaDetached, doomed, left
<1>4. \A j \in Jobs : new.jobs[j] = db.jobs[j] \/ new.jobs[j] = row(j)
  BY <1>3 DEF Cleared, row
<1>5. \A d \in Documents :
         new.target[d] = IF db.target[d].schema = s THEN NoTarget ELSE db.target[d]
  BY <1>3
<1>6. new \in Tables
  <2>1. new.target \in [Documents -> Target]
    BY <1>3, BlankValues DEF Sound, Tables
  <2>2. new.jobs \in [Jobs -> Job]
    <3>1. new.jobs = [j \in Jobs |-> new.jobs[j]]
      BY <1>3 DEF Cleared
    <3>2. \A j \in Jobs : new.jobs[j] \in Job
      BY <1>2, <1>4 DEF Sound, Tables
    <3> QED BY <3>1, <3>2
  <2>3. new = [schemas |-> new.schemas, versions |-> new.versions,
               documents |-> new.documents, target |-> new.target,
               records |-> new.records, jobs |-> new.jobs]
    BY DEF SchemaDeleted, Sound, Tables
  <2> QED BY <1>1, <1>3, <2>1, <2>2, <2>3 DEF Sound, Tables, RecordTable
<1>7. \A r \in RecordsIn(left) : Kept(left, r) /\ left[r].schema # s
  BY <1>1 DEF Kept, doomed, RowsUnder
<1>8. ForeignKeysHold(new) \/ \E r \in Records : Straddles(r)
  <2> SUFFICES ASSUME \A r \in Records : ~Straddles(r)
               PROVE  ForeignKeysHold(new)
    OBVIOUS
  <2>1. \A d \in new.documents : new.target[d].schema \in new.schemas \cup {None}
    BY <1>3, <1>5, BlankValues DEF ForeignKeysHold, Sound, Tables, NoTarget
  <2>2. \A r \in RecordsIn(left) :
           /\ left[r].document \in new.documents
           /\ left[r].schema \in new.schemas
           /\ left[r].schema_version.schema \in new.schemas
    BY <1>3, <1>7 DEF Kept, Straddles, ForeignKeysHold, Records
  <2>3. \A r \in RecordsIn(left) : left[r].is_duplicate_of \in RecordsIn(left) \cup {None}
    BY <1>1 DEF ForeignKeysHold, Records
  <2>4. PresentHaveDocuments(new)
    BY <1>2, <1>3, <1>4 DEF Sound, PresentHaveDocuments
  <2> QED BY <1>3, <2>1, <2>2, <2>3, <2>4 DEF ForeignKeysHold
<1>9. PresentHaveDocuments(new) /\ UploadedOnce(new) /\ UploadsExtract(new)
  BY <1>2, <1>3, <1>4
  DEF Sound, PresentHaveDocuments, UploadedOnce, UploadsExtract, Jobs
<1>10. RowsAreConfirmed(new)
  <2> SUFFICES ASSUME NEW r \in RecordsIn(left)
               PROVE  new.jobs[r[1]].status \in {"confirmed", "deleted"}
    BY <1>3 DEF RowsAreConfirmed
  <2>1. r[1] \in Jobs /\ db.jobs[r[1]].status \in {"confirmed", "deleted"}
    BY <1>1 DEF Sound, RowsAreConfirmed, Records, RecordsIn, RecordIds
  <2> QED BY <1>2, <1>4, <2>1
<1>11. SchemasHaveVersions(new) /\ StagedMatched(new)
  BY <1>2, <1>3, <1>4, BlankValues DEF Sound, SchemasHaveVersions, StagedMatched
<1>12. BackfillsPointed(new)
  <2>1. \A j \in Jobs : DocumentOf[j] \in Documents
    BY ConstantsAssumption
  <2> QED BY <1>2, <1>4, <1>5, <2>1, BlankValues DEF Sound, BackfillsPointed
<1> QED
  BY <1>3, <1>5, <1>6, <1>7, <1>8, <1>9, <1>10, <1>11, <1>12 DEF Sound

\* Only a duplicate kept under another document can keep a document from going.
LEMMA DeleteDocumentSound ==
    ASSUME Sound(db), ForeignKeysHold(db), NEW d \in db.documents,
           NEW new, new = DocumentDeleted(d)
    PROVE  /\ Sound(new)
           /\ \/ ForeignKeysHold(new)
              \/ \E r \in RowsOf(d), q \in Records \ RowsOf(d) :
                    db.records[q].is_duplicate_of = r
           /\ \A e \in Documents : e # d => new.target[e] = db.target[e]
           /\ \A r \in RecordsIn(new.records) :
                Kept(new.records, r) /\ new.records[r].document # d
<1> DEFINE left == Dropped(db.records, RowsOf(d))
           gone == [UnusedJob EXCEPT !.status = "deleted"]
           Of(j) == DocumentOf[j] = d /\ db.jobs[j].status # "unused"
<1>1. d \in Documents
  BY DEF Sound, Tables
<1>2. /\ gone \in Job /\ gone.status = "deleted"
      /\ gone.kind = "extract" /\ gone.result.target = NoTarget
  BY BlankValues DEF Job
<1>3. /\ left \in RecordTable
      /\ RecordsIn(left) = Records \ RowsOf(d)
      /\ \A r \in RecordsIn(left) : left[r] = db.records[r]
  BY DEF Sound, Tables, RecordTable, RecordsIn, Records, RowsOf, Dropped
<1>4. /\ new.schemas = db.schemas /\ new.documents = db.documents \ {d}
      /\ new.versions = db.versions /\ new.records = left
      /\ new.target = [db.target EXCEPT ![d] = NoTarget]
      /\ new.jobs = [j \in Jobs |-> IF Of(j) THEN gone ELSE db.jobs[j]]
  BY <1>1 DEF Sound, Tables, DocumentDeleted, WithoutJobsOf
<1> HIDE DEF left, gone
<1>5. /\ new.target[d] = NoTarget
      /\ \A e \in Documents : e # d => new.target[e] = db.target[e]
      /\ \A j \in Jobs : Of(j) => new.jobs[j] = gone
      /\ \A j \in Jobs : ~Of(j) => new.jobs[j] = db.jobs[j]
  BY <1>1, <1>4 DEF Sound, Tables
<1>6. new \in Tables
  <2>1. new.target \in [Documents -> Target]
    BY <1>4, BlankValues DEF Sound, Tables
  <2>2. new.jobs \in [Jobs -> Job]
    BY <1>2, <1>4 DEF Sound, Tables
  <2>3. new = [schemas |-> new.schemas, versions |-> new.versions,
               documents |-> new.documents, target |-> new.target,
               records |-> new.records, jobs |-> new.jobs]
    BY DEF Sound, Tables, DocumentDeleted
  <2> QED BY <1>3, <1>4, <2>1, <2>2, <2>3 DEF Sound, Tables, RecordTable
<1>7. \A r \in RecordsIn(left) : Kept(left, r) /\ left[r].document # d
  BY <1>3 DEF Kept, RowsOf
<1>8. \/ ForeignKeysHold(new)
      \/ \E r \in RowsOf(d), q \in Records \ RowsOf(d) :
           db.records[q].is_duplicate_of = r
  <2> SUFFICES ASSUME \A r \in RowsOf(d), q \in Records \ RowsOf(d) :
                         db.records[q].is_duplicate_of # r
               PROVE  ForeignKeysHold(new)
    OBVIOUS
  <2>1. \A e \in new.documents : new.target[e].schema \in new.schemas \cup {None}
    BY <1>4, <1>5 DEF ForeignKeysHold, Sound, Tables
  <2>2. \A r \in RecordsIn(left) :
           /\ left[r].document \in new.documents
           /\ left[r].schema \in new.schemas
           /\ left[r].schema_version.schema \in new.schemas
    BY <1>3, <1>4, <1>7 DEF ForeignKeysHold, Records
  <2>3. \A r \in RecordsIn(left) : left[r].is_duplicate_of \in RecordsIn(left) \cup {None}
    BY <1>3 DEF ForeignKeysHold, Records
  <2>4. PresentHaveDocuments(new)
    BY <1>2, <1>4, <1>5 DEF Sound, PresentHaveDocuments, Present
  <2> QED BY <1>4, <2>1, <2>2, <2>3, <2>4 DEF ForeignKeysHold
<1>9. PresentHaveDocuments(new) /\ UploadedOnce(new) /\ UploadsExtract(new)
  BY <1>2, <1>4, <1>5
  DEF Sound, PresentHaveDocuments, UploadedOnce, UploadsExtract, Jobs, Present
<1>10. RowsAreConfirmed(new)
  <2> SUFFICES ASSUME NEW r \in RecordsIn(left)
               PROVE  new.jobs[r[1]].status \in {"confirmed", "deleted"}
    BY <1>4 DEF RowsAreConfirmed
  <2>1. r[1] \in Jobs /\ db.jobs[r[1]].status \in {"confirmed", "deleted"}
    BY <1>3 DEF Sound, RowsAreConfirmed, Records, RecordsIn, RecordIds
  <2> QED BY <1>2, <1>5, <2>1
<1>11. SchemasHaveVersions(new) /\ StagedMatched(new)
  BY <1>2, <1>4, <1>5, BlankValues DEF Sound, SchemasHaveVersions, StagedMatched
<1>12. BackfillsPointed(new)
  <2>1. \A j \in Jobs : DocumentOf[j] \in Documents
    BY ConstantsAssumption
  <2> QED BY <1>2, <1>5, <2>1, BlankValues DEF Sound, BackfillsPointed
<1> QED
  BY <1>4, <1>5, <1>6, <1>7, <1>8, <1>9, <1>10, <1>11, <1>12 DEF Sound

-----------------------------------------------------------------------------
(* Statement by statement *)

\* Nulling pointers breaks no key.
LEMMA DetachedKeys ==
    ASSUME Sound(db), ForeignKeysHold(db), NEW doomed
    PROVE  ForeignKeysHold([db EXCEPT !.records = Detached(@, doomed)])
<1> DEFINE left == Detached(db.records, doomed)
           unlinked == [db EXCEPT !.records = Detached(@, doomed)]
<1>1. \A r \in RecordIds :
         /\ db.records[r] \in Record \cup {None}
         /\ left[r] = IF /\ db.records[r] # None
                         /\ db.records[r].is_duplicate_of \in doomed
                      THEN [db.records[r] EXCEPT !.is_duplicate_of = None]
                      ELSE db.records[r]
  BY DEF Detached, RecordsIn, Sound, Tables
<1>2. \A r \in RecordIds : db.records[r] # None =>
         /\ [db.records[r] EXCEPT !.is_duplicate_of = None] \in Record
         /\ [db.records[r] EXCEPT !.is_duplicate_of = None] # None
  BY <1>1, ConstantsAssumption DEF Record
<1>3. RecordsIn(left) = Records
  BY <1>1, <1>2 DEF RecordsIn, Records
<1>4. \A r \in Records :
         /\ left[r].document = db.records[r].document
         /\ left[r].schema = db.records[r].schema
         /\ left[r].schema_version = db.records[r].schema_version
         /\ left[r].is_duplicate_of \in {None, db.records[r].is_duplicate_of}
  <2> SUFFICES ASSUME NEW r \in Records
               PROVE  /\ left[r].document = db.records[r].document
                      /\ left[r].schema = db.records[r].schema
                      /\ left[r].schema_version = db.records[r].schema_version
                      /\ left[r].is_duplicate_of
                           \in {None, db.records[r].is_duplicate_of}
    OBVIOUS
  <2>1. r \in RecordIds /\ db.records[r] \in Record
    BY <1>1 DEF Records, RecordsIn
  <2> QED BY <1>1, <2>1 DEF Record
<1>5. /\ unlinked.schemas = db.schemas /\ unlinked.documents = db.documents
      /\ unlinked.target = db.target /\ unlinked.jobs = db.jobs
      /\ unlinked.records = left
  BY DEF Sound, Tables
<1> HIDE DEF unlinked, left
<1>6. ForeignKeysHold(unlinked)
  BY <1>3, <1>4, <1>5 DEF ForeignKeysHold, PresentHaveDocuments, Records
<1> QED BY <1>6 DEF unlinked

\* Each delete comes to the tables above and passes through sound ones only.
LEMMA RecordStatements ==
    ASSUME Sound(db), ForeignKeysHold(db), NEW r \in Records
    PROVE  /\ Len(RecordDeletion(r)) = 2
           /\ RecordDeletion(r)[2] = RecordDeleted(r)
           /\ ForeignKeysHold(RecordDeletion(r)[1])
<1> DEFINE unlinked == [db EXCEPT !.records = Detached(@, {r})]
<1>1. ForeignKeysHold(unlinked)
  BY DetachedKeys
<1> QED BY <1>1 DEF RecordDeletion, RecordDeleted, _delete_records

LEMMA SchemaStatements ==
    ASSUME Sound(db), ForeignKeysHold(db), NEW s \in db.schemas
    PROVE  /\ Len(SchemaDeletion(s)) = 5
           /\ SchemaDeletion(s)[5] = SchemaDeleted(s)
           /\ \A i \in 1..4 : ForeignKeysHold(SchemaDeletion(s)[i])
<1> DEFINE doomed    == RowsUnder(s)
           left      == _delete_records(db.records, doomed)
           unlinked  == [db EXCEPT !.records = Detached(@, doomed)]
           rowless   == [unlinked EXCEPT !.records = Dropped(@, doomed)]
           unpointed == [rowless EXCEPT !.target = SchemaDetached(s)]
           unstaged  == [unpointed EXCEPT !.jobs = Cleared(db, s)]
           gone      == [unstaged EXCEPT !.schemas = @ \ {s}]
<1>1. SchemaDeletion(s) = <<unlinked, rowless, unpointed, unstaged, gone>>
  BY DEF SchemaDeletion
<1>2. gone = SchemaDeleted(s)
  BY DEF SchemaDeleted, _delete_records, Sound, Tables
<1>3. ForeignKeysHold(unlinked)
  BY DetachedKeys
<1>4. /\ rowless.schemas = db.schemas /\ rowless.documents = db.documents
      /\ rowless.target = db.target /\ rowless.jobs = db.jobs
      /\ rowless.records = left
  BY DEF Sound, Tables, _delete_records
<1>5. /\ unpointed.schemas = db.schemas /\ unpointed.documents = db.documents
      /\ unpointed.target = SchemaDetached(s) /\ unpointed.jobs = db.jobs
      /\ unpointed.records = left
  BY <1>4 DEF Sound, Tables
<1>6. /\ unstaged.schemas = db.schemas /\ unstaged.documents = db.documents
      /\ unstaged.target = SchemaDetached(s) /\ unstaged.jobs = Cleared(db, s)
      /\ unstaged.records = left
  BY <1>5 DEF Sound, Tables
<1>7. /\ RecordsIn(left) = Records \ doomed
      /\ \A q \in RecordsIn(left) :
           /\ left[q].document = db.records[q].document
           /\ left[q].schema = db.records[q].schema
           /\ left[q].schema_version = db.records[q].schema_version
           /\ \/ left[q].is_duplicate_of = None
              \/ /\ left[q].is_duplicate_of = db.records[q].is_duplicate_of
                 /\ left[q].is_duplicate_of \notin doomed
  BY DeletedRecords DEF Sound, Tables, RecordTable, Records
<1>8. \A q \in RecordsIn(left) :
         /\ left[q].document \in db.documents
         /\ left[q].schema \in db.schemas
         /\ left[q].schema_version.schema \in db.schemas
         /\ left[q].is_duplicate_of \in RecordsIn(left) \cup {None}
  BY <1>7 DEF ForeignKeysHold, Records
<1>9. \A d \in db.documents : SchemaDetached(s)[d].schema \in db.schemas \cup {None}
  BY DEF SchemaDetached, ForeignKeysHold, NoTarget, Sound, Tables
<1>10. \A j \in Jobs : Cleared(db, s)[j].status = db.jobs[j].status
  <2> SUFFICES ASSUME NEW j \in Jobs
               PROVE  Cleared(db, s)[j].status = db.jobs[j].status
    OBVIOUS
  <2>1. db.jobs[j] \in Job
    BY DEF Sound, Tables
  <2> QED BY <2>1 DEF Cleared, Job
<1> HIDE DEF unlinked, rowless, unpointed, unstaged, gone, left, doomed
<1>11. ForeignKeysHold(rowless)
  BY <1>4, <1>8 DEF ForeignKeysHold, PresentHaveDocuments
<1>12. ForeignKeysHold(unpointed)
  BY <1>5, <1>8, <1>9 DEF ForeignKeysHold, PresentHaveDocuments
<1>13. ForeignKeysHold(unstaged)
  BY <1>6, <1>8, <1>9, <1>10 DEF ForeignKeysHold, PresentHaveDocuments
<1>14. \A i \in 1..4 : i \in {1, 2, 3, 4}
  OBVIOUS
<1> QED BY <1>1, <1>2, <1>3, <1>11, <1>12, <1>13, <1>14

LEMMA DocumentStatements ==
    ASSUME Sound(db), ForeignKeysHold(db), NEW d \in db.documents
    PROVE  /\ Len(DocumentDeletion(d)) = 3
           /\ DocumentDeletion(d)[3] = DocumentDeleted(d)
           /\ \/ \A i \in 1..2 : ForeignKeysHold(DocumentDeletion(d)[i])
              \/ \E r \in RowsOf(d), q \in Records \ RowsOf(d) :
                    db.records[q].is_duplicate_of = r
<1> DEFINE left    == Dropped(db.records, RowsOf(d))
           rowless == [db EXCEPT !.records = Dropped(@, RowsOf(d))]
           jobless == [rowless EXCEPT !.jobs = WithoutJobsOf(d)]
           gone    == [jobless EXCEPT !.documents = @ \ {d}, !.target[d] = NoTarget]
<1>1. DocumentDeletion(d) = <<rowless, jobless, gone>>
  BY DEF DocumentDeletion
<1>2. gone = DocumentDeleted(d)
  BY DEF DocumentDeleted, Sound, Tables
<1>3. /\ rowless.schemas = db.schemas /\ rowless.documents = db.documents
      /\ rowless.target = db.target /\ rowless.jobs = db.jobs
      /\ rowless.records = left
  BY DEF Sound, Tables
<1>4. /\ jobless.schemas = db.schemas /\ jobless.documents = db.documents
      /\ jobless.target = db.target /\ jobless.jobs = WithoutJobsOf(d)
      /\ jobless.records = left
  BY <1>3 DEF Sound, Tables
<1>5. /\ RecordsIn(left) = Records \ RowsOf(d)
      /\ \A r \in RecordsIn(left) : left[r] = db.records[r]
  BY DEF Sound, Tables, RecordsIn, Records, RowsOf, Dropped
<1>6. \A j \in Jobs :
         WithoutJobsOf(d)[j] = db.jobs[j] \/ WithoutJobsOf(d)[j].status = "deleted"
  BY DEF WithoutJobsOf, UnusedJob
<1> HIDE DEF rowless, jobless, gone, left
<1> SUFFICES ASSUME \A r \in RowsOf(d), q \in Records \ RowsOf(d) :
                       db.records[q].is_duplicate_of # r
             PROVE  /\ Len(DocumentDeletion(d)) = 3
                    /\ DocumentDeletion(d)[3] = DocumentDeleted(d)
                    /\ \A i \in 1..2 : ForeignKeysHold(DocumentDeletion(d)[i])
  BY <1>1, <1>2
<1>7. \A r \in RecordsIn(left) :
         /\ left[r].document \in db.documents
         /\ left[r].schema \in db.schemas
         /\ left[r].schema_version.schema \in db.schemas
         /\ left[r].is_duplicate_of \in RecordsIn(left) \cup {None}
  BY <1>5 DEF ForeignKeysHold, Records
<1>8. ForeignKeysHold(rowless)
  BY <1>3, <1>7 DEF ForeignKeysHold, PresentHaveDocuments
<1>9. ForeignKeysHold(jobless)
  BY <1>4, <1>6, <1>7 DEF ForeignKeysHold, PresentHaveDocuments, Present
<1>10. \A i \in 1..2 : i \in {1, 2}
  OBVIOUS
<1> QED BY <1>1, <1>2, <1>8, <1>9, <1>10

-----------------------------------------------------------------------------
(* The invariant *)

\* A row's document carries the row's schema, or was moved to another one.
Reached(t, moved) ==
    \A r \in RecordsIn(t.records) :
        \/ t.records[r].document \in moved
        \/ t.target[t.records[r].document].schema = t.records[r].schema

\* BackfillReachesEveryRow, and what it takes to be kept by every step.
IInv ==
    /\ Sound(db)
    /\ ForeignKeysHold(db)
    /\ Reached(db, switched)
    /\ run \in [Jobs -> Staged]
    /\ \A j \in Jobs : run[j].target \in Matched
    /\ fault \in Handlers \cup {None}
    /\ switched \subseteq Documents

\* What the database may refuse a confirm or a document delete over.
ConfirmExcuse ==
    \E j \in Jobs : UnderReview(j) /\
      \/ db.jobs[j].result.dedup \notin Records \cup {None}
      \/ \E r, q \in Records : /\ db.records[r].is_duplicate_of = q
                               /\ db.records[r].document = db.records[q].document

DocumentExcuse ==
    \E d \in Documents : \E r \in RowsOf(d), q \in Records \ RowsOf(d) :
      db.records[q].is_duplicate_of = r

Excused(handler) ==
    \/ handler = "upload"
    \/ handler = "confirm" /\ ConfirmExcuse
    \/ handler = "delete_schema" /\ \E r \in Records : Straddles(r)
    \/ handler = "delete_document" /\ DocumentExcuse

\* A step is refused for one of these reasons, and leaves the tables alone.
FaultExplained == fault' = None \/ (Excused(fault') /\ UNCHANGED db)

LEMMA InitIInv == Init => IInv
<1> SUFFICES ASSUME Init PROVE IInv
  OBVIOUS
<1>1. Sound(db) /\ ForeignKeysHold(db)
  BY InitSound
<1>2. RecordsIn(db.records) = {}
  BY DEF Init, RecordsIn
<1>3. run = [j \in Jobs |-> NoStaged] /\ fault = None /\ switched = {}
  BY DEF Init
<1> QED BY <1>1, <1>2, <1>3, BlankValues DEF IInv, Reached

LEMMA RefuseStep ==
    ASSUME IInv, NEW handler \in Handlers, Excused(handler), Refuse(handler)
    PROVE  IInv' /\ FaultExplained
<1>1. db' = db /\ run' = run /\ switched' = switched /\ fault' = handler
  BY DEF Refuse
<1> QED BY <1>1 DEF IInv, FaultExplained

LEMMA CommitStep ==
    ASSUME IInv, NEW handler \in Handlers, NEW new, NEW moved \in SUBSET Documents,
           Commit(handler, new, moved), Sound(new), Reached(new, switched \cup moved),
           ForeignKeysHold(new) \/ Excused(handler)
    PROVE  IInv' /\ FaultExplained
<1>1. CASE ForeignKeysHold(new)
  <2>1. /\ db' = new /\ run' = run /\ fault' = None
        /\ switched' = switched \cup moved
    BY <1>1 DEF Commit
  <2> QED BY <1>1, <2>1 DEF IInv, FaultExplained
<1>2. CASE ~ForeignKeysHold(new)
  BY <1>2, RefuseStep DEF Commit
<1> QED BY <1>1, <1>2

LEMMA TransactionStep ==
    ASSUME IInv, NEW handler \in Handlers, NEW new, Transaction(handler, new), Sound(new),
           Reached(new, switched), ForeignKeysHold(new) \/ Excused(handler)
    PROVE  IInv' /\ FaultExplained
<1>1. {} \in SUBSET Documents /\ switched \cup {} = switched
  OBVIOUS
<1> QED BY <1>1, CommitStep DEF Transaction

LEMMA StatementsStep ==
    ASSUME IInv, NEW handler \in Handlers, NEW tables, NEW new, NEW n \in Nat,
           Statements(handler, tables), Len(tables) = n + 1, tables[n + 1] = new,
           Sound(new), Reached(new, switched),
           \/ ForeignKeysHold(new) /\ \A i \in 1 .. n : ForeignKeysHold(tables[i])
           \/ Excused(handler)
    PROVE  IInv' /\ FaultExplained
<1>1. CASE \A i \in 1 .. Len(tables) : ForeignKeysHold(tables[i])
  <2>1. ForeignKeysHold(new)
    BY <1>1
  <2>2. Transaction(handler, new)
    BY <1>1 DEF Statements
  <2> QED BY <2>1, <2>2, TransactionStep
<1>2. CASE ~ \A i \in 1 .. Len(tables) : ForeignKeysHold(tables[i])
  <2>1. Excused(handler)
    BY <1>2
  <2> QED BY <1>2, <2>1, RefuseStep DEF Statements
<1> QED BY <1>1, <1>2

\* Refused, or all of it.
LEMMA StatementsOutcome ==
    ASSUME NEW handler, NEW tables, NEW new, Statements(handler, tables),
           tables[Len(tables)] = new
    PROVE  db' = db \/ db' = new
BY DEF Statements, Transaction, Commit, Refuse

LEMMA SameRowsReached ==
    ASSUME IInv, NEW new, new.records = db.records,
           \A d \in Documents : new.target[d].schema = db.target[d].schema
    PROVE  Reached(new, switched)
<1>1. \A r \in RecordsIn(db.records) : db.records[r].document \in Documents
  BY RecordsInTable DEF IInv, Sound, Tables, RecordTable, Record
<1> QED BY <1>1 DEF IInv, Reached

LEMMA SchemaSteps ==
    ASSUME IInv, NEW s \in Schemas,
           create_schema(s) \/ create_schema_version(s) \/ backfill_schema(s)
    PROVE  IInv' /\ FaultExplained
<1>1. Sound(db) /\ ForeignKeysHold(db) /\ "schema" \in Handlers
  BY DEF IInv, Handlers
<1>2. CASE create_schema(s)
  <2> DEFINE new == [db EXCEPT !.schemas = @ \cup {s}, !.versions[s] = 1]
  <2>1. Transaction("schema", new)
    BY <1>2 DEF create_schema
  <2>2. /\ Sound(new) /\ ForeignKeysHold(new)
        /\ new.records = db.records /\ new.target = db.target
    BY <1>1, CreateSchemaSound
  <2> HIDE DEF new
  <2> QED BY <1>1, <2>1, <2>2, SameRowsReached, TransactionStep
<1>3. ASSUME NEW t, Sound(t), ForeignKeysHold(t), s \in t.schemas,
             t.records = db.records, t.target = db.target, _enqueue_backfill(t, s)
      PROVE  IInv' /\ FaultExplained
  <2> DEFINE carriers == {d \in t.documents : t.target[d].schema = s}
  <2>1. PICK new \in SUBSET {j \in Backfills : t.jobs[j].status = "unused"} :
           /\ {DocumentOf[j] : j \in new} = carriers
           /\ Transaction("schema", Enqueued(t, s, carriers, new))
    BY <1>3 DEF _enqueue_backfill
  <2>2. BackfillsOf(t, s, carriers, new)
    BY <2>1 DEF BackfillsOf
  <2> DEFINE after == Enqueued(t, s, carriers, new)
  <2> HIDE DEF carriers
  <2>3. /\ Sound(after) /\ ForeignKeysHold(after)
        /\ after.records = t.records
        /\ \A d \in Documents : after.target[d].schema = t.target[d].schema
    <3>1. s \in t.schemas /\ after = Enqueued(t, s, carriers, new)
      BY <1>3
    <3> HIDE DEF after
    <3> QED BY <1>3, <2>2, <3>1, EnqueueSound
  <2> HIDE DEF after
  <2>4. Transaction("schema", after)
    BY <2>1 DEF after
  <2> QED BY <1>1, <1>3, <2>3, <2>4, SameRowsReached, TransactionStep
<1>4. CASE create_schema_version(s)
  <2> DEFINE saved == [db EXCEPT !.versions[s] = @ + 1]
  <2>1. /\ s \in db.schemas /\ db.versions[s] < MaxVersions
        /\ _enqueue_backfill(saved, s) \/ Transaction("schema", saved)
    BY <1>4 DEF create_schema_version
  <2>2. /\ Sound(saved) /\ ForeignKeysHold(saved) /\ s \in saved.schemas
        /\ saved.records = db.records /\ saved.target = db.target
    BY <1>1, <2>1, SaveVersionSound
  <2> HIDE DEF saved
  <2>3. CASE _enqueue_backfill(saved, s)
    BY <1>3, <2>2, <2>3
  <2>4. CASE Transaction("schema", saved)
    BY <1>1, <2>2, <2>4, SameRowsReached, TransactionStep
  <2> QED BY <2>1, <2>3, <2>4
<1>5. CASE backfill_schema(s)
  BY <1>1, <1>3, <1>5 DEF backfill_schema
<1> QED BY <1>2, <1>4, <1>5

LEMMA UploadStep ==
    ASSUME IInv, NEW j \in Uploads, upload_document(j)
    PROVE  IInv' /\ FaultExplained
<1> DEFINE d == DocumentOf[j]
           new(hint) == [db EXCEPT !.documents = @ \cup {d},
                                   !.target[d] = [schema |-> hint, version |-> 0],
                                   !.jobs[j].status = "queued"]
<1>1. PICK hint \in Schemas \cup {None} : Transaction("upload", new(hint))
  BY DEF upload_document
<1>2. db.jobs[j].status = "unused" /\ Sound(db) /\ ForeignKeysHold(db)
  BY DEF upload_document, IInv
<1>3. /\ Sound(new(hint)) /\ d \notin db.documents
      /\ new(hint).records = db.records
      /\ \A e \in Documents : e # d => new(hint).target[e] = db.target[e]
  BY <1>2, UploadSound
<1>4. "upload" \in Handlers /\ Excused("upload")
  BY DEF Handlers, Excused
<1> HIDE DEF new
<1>5. \A r \in RecordsIn(db.records) : /\ db.records[r].document \in db.documents
                                      /\ db.records[r].document \in Documents
  BY <1>2, RecordsInTable DEF ForeignKeysHold, Sound, Tables, RecordTable, Record
<1>6. Reached(new(hint), switched)
  BY <1>3, <1>5 DEF IInv, Reached
<1> QED BY <1>1, <1>3, <1>4, <1>6, TransactionStep

LEMMA RunSteps ==
    ASSUME IInv, NEW j \in Jobs, StartRun(j) \/ StageRun(j)
    PROVE  IInv' /\ FaultExplained
<1>1. Sound(db) /\ ForeignKeysHold(db) /\ db.jobs[j] \in Job
  BY DEF IInv, Sound, Tables
<1>2. ASSUME NEW row \in Job, db' = [db EXCEPT !.jobs = [db.jobs EXCEPT ![j] = row]],
             row.result.target \in Matched, row.kind = db.jobs[j].kind,
             row.status \in Present, db.jobs[j].status \in Present \ {"confirmed"},
             fault' = None, UNCHANGED switched,
             run' \in [Jobs -> Staged], \A k \in Jobs : run'[k].target \in Matched
      PROVE  IInv' /\ FaultExplained
  <2>1. /\ Sound(db') /\ ForeignKeysHold(db')
        /\ db'.records = db.records /\ db'.target = db.target
    BY <1>1, <1>2, JobUpdated
  <2>2. Reached(db', switched)
    BY <2>1, SameRowsReached
  <2> QED BY <1>2, <2>1, <2>2 DEF IInv, FaultExplained
<1>3. CASE StartRun(j)
  <2> DEFINE row == [db.jobs[j] EXCEPT !.status = "extracting"]
  <2>1. PICK result \in PipelineResults(j) : run' = [run EXCEPT ![j] = result]
    BY <1>3 DEF StartRun
  <2>2. result \in Staged /\ result.target \in Matched
    BY <1>1, <1>3, PipelineMatches DEF StartRun
  <2>3. run' \in [Jobs -> Staged] /\ \A k \in Jobs : run'[k].target \in Matched
    BY <2>1, <2>2 DEF IInv
  <2>4. db' = [db EXCEPT !.jobs = [db.jobs EXCEPT ![j] = row]]
    BY <1>3 DEF StartRun, IInv, Sound, Tables
  <2>5. /\ row \in Job /\ row.result = db.jobs[j].result
        /\ row.kind = db.jobs[j].kind /\ row.status = "extracting"
    BY <1>1 DEF Job
  <2>6. db.jobs[j].result.target \in Matched
    BY <1>1 DEF Sound, StagedMatched
  <2> HIDE DEF row
  <2> QED BY <1>2, <1>3, <2>3, <2>4, <2>5, <2>6 DEF StartRun, Present
<1>4. CASE StageRun(j)
  <2> DEFINE row == [db.jobs[j] EXCEPT !.status = "awaiting_review", !.result = run[j]]
  <2>1. run[j] \in Staged /\ run[j].target \in Matched
    BY DEF IInv
  <2>2. run' \in [Jobs -> Staged] /\ \A k \in Jobs : run'[k].target \in Matched
    BY <1>4, BlankValues DEF StageRun, IInv
  <2>3. db' = [db EXCEPT !.jobs = [db.jobs EXCEPT ![j] = row]]
    BY <1>4 DEF StageRun, IInv, Sound, Tables
  <2>4. /\ row \in Job /\ row.result = run[j]
        /\ row.kind = db.jobs[j].kind /\ row.status = "awaiting_review"
    BY <1>1, <2>1 DEF Job
  <2> HIDE DEF row
  <2> QED BY <1>2, <1>4, <2>1, <2>2, <2>3, <2>4 DEF StageRun, Present
<1> QED BY <1>3, <1>4

LEMMA ReviewSteps ==
    ASSUME IInv, NEW j \in Jobs, patch_review(j) \/ reextract_job(j)
    PROVE  IInv' /\ FaultExplained
<1>1. Sound(db) /\ ForeignKeysHold(db) /\ db.jobs[j] \in Job
  BY DEF IInv, Sound, Tables
<1>2. db.jobs[j].status = "awaiting_review" /\ "confirm" \in Handlers
  BY DEF patch_review, reextract_job, UnderReview, Handlers
<1>3. ASSUME NEW row \in Job, NEW new, new = [db EXCEPT !.jobs = [db.jobs EXCEPT ![j] = row]],
             row.result.target \in Matched, row.kind \in {db.jobs[j].kind, "reextract"},
             row.status \in Present, Transaction("confirm", new)
      PROVE  IInv' /\ FaultExplained
  <2>1. /\ Sound(new) /\ ForeignKeysHold(new)
        /\ new.records = db.records /\ new.target = db.target
    BY <1>1, <1>2, <1>3, JobUpdated DEF Present
  <2>2. Reached(new, switched)
    BY <2>1, SameRowsReached
  <2> QED BY <1>2, <1>3, <2>1, <2>2, TransactionStep
<1>4. CASE patch_review(j)
  <2>1. PICK s \in db.schemas :
           Transaction("confirm", [db EXCEPT !.jobs[j].result.target = Latest(s)])
    BY <1>4 DEF patch_review
  <2> DEFINE staged == [db.jobs[j].result EXCEPT !.target = Latest(s)]
             row == [db.jobs[j] EXCEPT !.result = staged]
             new == [db EXCEPT !.jobs[j].result.target = Latest(s)]
  <2>2. Latest(s) \in Matched /\ Latest(s) \in Target
    BY <1>1, LatestMatched, MatchedTargets DEF Matched
  <2>3. db.jobs[j].result \in Staged /\ staged \in Staged /\ staged.target = Latest(s)
    BY <1>1, <2>2 DEF Job, Staged
  <2>4. new = [db EXCEPT !.jobs = [db.jobs EXCEPT ![j] = row]]
    <3>1. [db.jobs[j] EXCEPT !.result.target = Latest(s)] = row
      BY <1>1 DEF Job
    <3>2. [db.jobs EXCEPT ![j].result.target = Latest(s)] = [db.jobs EXCEPT ![j] = row]
      BY <1>1, <3>1 DEF Sound, Tables
    <3> QED BY <1>1, <3>2 DEF Sound, Tables
  <2>5. /\ row \in Job /\ row.result = staged
        /\ row.kind = db.jobs[j].kind /\ row.status = db.jobs[j].status
    BY <1>1, <2>3 DEF Job
  <2>6. Transaction("confirm", new)
    BY <2>1
  <2> HIDE DEF staged, row, new
  <2> QED BY <1>2, <1>3, <2>2, <2>3, <2>4, <2>5, <2>6 DEF Present
<1>5. CASE reextract_job(j)
  <2> DEFINE row == [db.jobs[j] EXCEPT !.status = "queued", !.kind = "reextract"]
             new == [db EXCEPT !.jobs[j].status = "queued", !.jobs[j].kind = "reextract"]
  <2>1. new = [db EXCEPT !.jobs = [db.jobs EXCEPT ![j] = row]]
    BY <1>1 DEF Sound, Tables
  <2>2. /\ row \in Job /\ row.result = db.jobs[j].result
        /\ row.kind = "reextract" /\ row.status = "queued"
    BY <1>1 DEF Job
  <2>3. db.jobs[j].result.target \in Matched
    BY <1>1 DEF Sound, StagedMatched
  <2>4. Transaction("confirm", new)
    BY <1>5 DEF reextract_job
  <2> HIDE DEF row, new
  <2> QED BY <1>3, <2>1, <2>2, <2>3, <2>4 DEF Present
<1> QED BY <1>4, <1>5

LEMMA ConfirmReaches ==
    ASSUME IInv, NEW j \in Jobs, UnderReview(j),
           NEW t, Sound(t), ForeignKeysHold(t), t.records = db.records,
           t.jobs = db.jobs, t.documents = db.documents, t.target = db.target,
           db.schemas \subseteq t.schemas,
           NEW target \in Matched, target \in Version => target.schema \in t.schemas,
           NEW decision \in Decisions, ConfirmUnder(t, j, target, decision)
    PROVE  IInv' /\ FaultExplained
<1>1. PICK n \in 1..MaxRows : \E rec \in Materialized(t, j, target, n, decision) :
         Commit("confirm", Confirmed(t, j, target, rec), Moved(j, target, decision))
  BY DEF ConfirmUnder
<1>2. PICK rec \in Materialized(t, j, target, n, decision) :
         Commit("confirm", Confirmed(t, j, target, rec), Moved(j, target, decision))
  BY <1>1
<1> DEFINE new == Confirmed(t, j, target, rec)
           moved == Moved(j, target, decision)
           d == DocumentOf[j]
<1>3. Sound(db) /\ ForeignKeysHold(db) /\ d \in Documents
  BY ConstantsAssumption DEF IInv
<1>4. /\ Sound(new)
      /\ new.records = rec
      /\ new.target[d] = IF target = NoTarget THEN t.target[d] ELSE target
      /\ \A e \in Documents : e # d => new.target[e] = t.target[e]
      /\ db.jobs[j].result.dedup \in Records \cup {None} => ForeignKeysHold(new)
  <2> HIDE DEF new
  <2>1. new = Confirmed(t, j, target, rec)
    BY DEF new
  <2> QED BY <1>3, <2>1, ConfirmSound
<1>5. /\ rec \in RecordTable
      /\ \A r \in RecordsIn(rec) :
           \/ Kept(rec, r) /\ r[1] # j
           \/ /\ target \in Version
              /\ New(rec, r, j, target) \/ Overwritten(rec, r, j, target, decision)
  BY <1>3, MaterializedWrites
<1>6. moved \in SUBSET Documents /\ "confirm" \in Handlers
  BY <1>3 DEF Moved, Handlers
<1>7. ForeignKeysHold(new) \/ Excused("confirm")
  BY <1>4 DEF Excused, ConfirmExcuse
<1>8. NoTarget \notin Version
  BY ConstantsAssumption DEF NoTarget, Version
<1>9. Reached(new, switched \cup moved)
  <2> SUFFICES ASSUME NEW r \in RecordsIn(rec), rec[r].document \notin switched \cup moved
               PROVE  new.target[rec[r].document].schema = rec[r].schema
    BY <1>4 DEF Reached
  <2>1. CASE Kept(rec, r)
    <3>1. /\ r \in Records /\ db.records[r] \in Record
          /\ rec[r].document = db.records[r].document /\ rec[r].schema = db.records[r].schema
      BY <2>1, RecordsInTable DEF Kept, Records, IInv, Sound, Tables, RecordTable
    <3>2. /\ rec[r].document \in Documents /\ rec[r].schema # None
          /\ db.target[rec[r].document].schema = rec[r].schema
      BY <3>1, ConstantsAssumption DEF IInv, Reached, Records, Record
    <3>3. CASE rec[r].document # d \/ target = NoTarget
      BY <1>4, <3>2, <3>3
    <3>4. CASE rec[r].document = d /\ target # NoTarget
      <4>1. db.target[d].schema \in {None, target.schema}
        BY <1>3, <3>4 DEF Moved
      <4> QED BY <1>4, <3>2, <3>4, <4>1
    <3> QED BY <3>3, <3>4
  <2>2. CASE target \in Version /\ New(rec, r, j, target)
    BY <1>4, <1>8, <2>2 DEF New
  <2>3. CASE target \in Version /\ Overwritten(rec, r, j, target, decision)
    <3>1. db.records[r].schema = target.schema
      BY <1>3, <1>8, <2>3 DEF Overwritten, Moved
    <3> QED BY <1>4, <1>8, <2>3, <3>1 DEF Overwritten
  <2> QED BY <1>5, <2>1, <2>2, <2>3
<1> HIDE DEF new, moved
<1>10. Commit("confirm", new, moved)
  BY <1>2 DEF new, moved
<1> QED BY <1>4, <1>6, <1>7, <1>9, <1>10, CommitStep

LEMMA ConfirmSteps ==
    ASSUME IInv, NEW j \in Jobs, NEW decision \in Decisions,
           \/ confirm_job(j, decision)
           \/ \E s \in Schemas : confirm_saving_schema(j, s, decision)
    PROVE  IInv' /\ FaultExplained
<1>1. Sound(db) /\ ForeignKeysHold(db) /\ "confirm" \in Handlers
  BY DEF IInv, Handlers
<1>2. CASE confirm_job(j, decision)
  <2> DEFINE target == db.jobs[j].result.target
             doomed == Doomed(j, target, decision)
  <2>1. /\ UnderReview(j) /\ target.schema \in db.schemas \cup {None}
        /\ \/ ConfirmUnder(db, j, target, decision)
           \/ LinkedInside(doomed) /\ Refuse("confirm")
    BY <1>2 DEF confirm_job, MatchIsLive
  <2>2. target \in Matched
    BY <1>1 DEF Sound, StagedMatched
  <2>3. CASE ConfirmUnder(db, j, target, decision)
    <3>1. target \in Version => target.schema \in db.schemas
      BY <2>1, ConstantsAssumption DEF Version
    <3> QED BY <1>1, <2>1, <2>2, <2>3, <3>1, ConfirmReaches
  <2>4. CASE LinkedInside(doomed) /\ Refuse("confirm")
    <3>1. \A r, q \in doomed : /\ r \in Records
                              /\ db.records[r].document = db.records[q].document
      BY DEF Doomed, Stranded, _records_for, Records
    <3>2. ConfirmExcuse
      BY <2>1, <2>4, <3>1 DEF LinkedInside, ConfirmExcuse
    <3> QED BY <1>1, <2>4, <3>2, RefuseStep DEF Excused
  <2> QED BY <2>1, <2>3, <2>4
<1>3. ASSUME NEW s \in Schemas, confirm_saving_schema(j, s, decision)
      PROVE  IInv' /\ FaultExplained
  <2> DEFINE t == [db EXCEPT !.schemas = @ \cup {s}, !.versions[s] = 1]
             target == [schema |-> s, version |-> 1]
  <2>1. UnderReview(j) /\ ConfirmUnder(t, j, target, decision)
    BY <1>3 DEF confirm_saving_schema
  <2>2. /\ Sound(t) /\ ForeignKeysHold(t)
        /\ t.documents = db.documents /\ t.jobs = db.jobs
        /\ db.schemas \subseteq t.schemas /\ s \in t.schemas
        /\ t.records = db.records /\ t.target = db.target
    BY <1>1, CreateSchemaSound
  <2>3. target \in Matched /\ target.schema \in t.schemas
    BY <2>2, ConstantsAssumption DEF Matched, Version
  <2> HIDE DEF t, target
  <2> QED BY <2>1, <2>2, <2>3, ConfirmReaches
<1> QED BY <1>2, <1>3

LEMMA DeleteSteps ==
    ASSUME IInv,
           \/ \E r \in RecordIds : delete_record(r)
           \/ \E s \in Schemas : delete_schema(s)
           \/ \E d \in Documents : delete_document(d)
    PROVE  IInv' /\ FaultExplained
<1>1. /\ Sound(db) /\ ForeignKeysHold(db)
      /\ {"delete_record", "delete_schema", "delete_document"} \subseteq Handlers
  BY DEF IInv, Handlers
<1>2. \A r \in Records : /\ db.records[r].document \in Documents
                         /\ db.records[r].document \in db.documents
  BY <1>1, RecordsInTable
  DEF Records, Sound, Tables, RecordTable, Record, ForeignKeysHold
<1>3. ASSUME NEW r \in RecordIds, delete_record(r) PROVE IInv' /\ FaultExplained
  <2> DEFINE new == RecordDeleted(r)
             tables == RecordDeletion(r)
  <2>1. r \in Records /\ Statements("delete_record", tables)
    BY <1>3 DEF delete_record
  <2>2. /\ Len(tables) = 1 + 1 /\ tables[1 + 1] = new
        /\ \A i \in 1 .. 1 : ForeignKeysHold(tables[i])
    BY <1>1, <2>1, RecordStatements
  <2>3. /\ Sound(new) /\ ForeignKeysHold(new) /\ new.target = db.target
        /\ \A q \in RecordsIn(new.records) : Kept(new.records, q)
    BY <1>1, <2>1, DeleteRecordSound
  <2> HIDE DEF new, tables
  <2>4. Reached(new, switched)
    BY <2>3 DEF IInv, Reached, Kept, Records
  <2> QED BY <1>1, <2>1, <2>3, <2>4, <2>2, StatementsStep
<1>4. ASSUME NEW s \in Schemas, delete_schema(s) PROVE IInv' /\ FaultExplained
  <2> DEFINE new == SchemaDeleted(s)
             tables == SchemaDeletion(s)
  <2>1. s \in db.schemas /\ Statements("delete_schema", tables)
    BY <1>4 DEF delete_schema
  <2>2. /\ Len(tables) = 4 + 1 /\ tables[4 + 1] = new
        /\ \A i \in 1 .. 4 : ForeignKeysHold(tables[i])
    BY <1>1, <2>1, SchemaStatements
  <2>3. /\ Sound(new)
        /\ ForeignKeysHold(new) \/ \E r \in Records : Straddles(r)
        /\ \A d \in Documents :
             new.target[d] = IF db.target[d].schema = s THEN NoTarget ELSE db.target[d]
        /\ \A r \in RecordsIn(new.records) :
             Kept(new.records, r) /\ new.records[r].schema # s
    BY <1>1, <2>1, DeleteSchemaSound
  <2> HIDE DEF new, tables
  <2>4. Reached(new, switched)
    BY <1>2, <2>3 DEF IInv, Reached, Kept, Records
  <2>5. ForeignKeysHold(new) \/ Excused("delete_schema")
    BY <2>3 DEF Excused
  <2> QED BY <1>1, <2>1, <2>3, <2>4, <2>5, <2>2, StatementsStep
<1>5. ASSUME NEW d \in Documents, delete_document(d) PROVE IInv' /\ FaultExplained
  <2> DEFINE new == DocumentDeleted(d)
             tables == DocumentDeletion(d)
  <2>1. d \in db.documents /\ Statements("delete_document", tables)
    BY <1>5 DEF delete_document
  <2>2. /\ Len(tables) = 2 + 1 /\ tables[2 + 1] = new
        /\ \/ \A i \in 1 .. 2 : ForeignKeysHold(tables[i])
           \/ \E r \in RowsOf(d), q \in Records \ RowsOf(d) :
                 db.records[q].is_duplicate_of = r
    BY <1>1, <2>1, DocumentStatements
  <2>3. /\ Sound(new)
        /\ \/ ForeignKeysHold(new)
           \/ \E r \in RowsOf(d), q \in Records \ RowsOf(d) :
                 db.records[q].is_duplicate_of = r
        /\ \A e \in Documents : e # d => new.target[e] = db.target[e]
        /\ \A r \in RecordsIn(new.records) :
             Kept(new.records, r) /\ new.records[r].document # d
    BY <1>1, <2>1, DeleteDocumentSound
  <2> HIDE DEF new, tables
  <2>4. Reached(new, switched)
    BY <1>2, <2>3 DEF IInv, Reached, Kept, Records
  <2>5. \/ ForeignKeysHold(new) /\ \A i \in 1 .. 2 : ForeignKeysHold(tables[i])
        \/ Excused("delete_document")
    BY <2>3, <2>2 DEF Excused, DocumentExcuse
  <2> QED BY <1>1, <2>1, <2>3, <2>4, <2>5, <2>2, StatementsStep
<1> QED BY <1>3, <1>4, <1>5

LEMMA NextStep ==
    ASSUME IInv, Next
    PROVE  IInv' /\ FaultExplained
BY SchemaSteps, UploadStep, RunSteps, ReviewSteps, ConfirmSteps, DeleteSteps DEF Next

LEMMA StepIInv == IInv /\ [Next]_vars => IInv'
<1> SUFFICES ASSUME IInv, [Next]_vars PROVE IInv'
  OBVIOUS
<1>1. CASE Next
  BY <1>1, NextStep
<1>2. CASE UNCHANGED vars
  BY <1>2 DEF vars, IInv
<1> QED BY <1>1, <1>2

LEMMA Invariance == Spec => []IInv
<1>1. IInv /\ [Next]_vars => IInv'
  BY StepIInv
<1> QED BY InitIInv, <1>1, PTL DEF Spec

\* Every reachable state is typed.
THEOREM TypeCorrect == Spec => []TypeOK
<1>1. IInv => TypeOK
  BY DEF IInv, Sound, TypeOK
<1> QED BY <1>1, Invariance, PTL

\* The next backfill of its schema re-extracts every row, but those whose
\* document a reviewer has moved to another schema.
THEOREM BackfillReaches == Spec => []BackfillReachesEveryRow
<1>1. IInv => BackfillReachesEveryRow
  BY DEF IInv, Reached, BackfillReachesEveryRow, Records
<1> QED BY <1>1, Invariance, PTL

\* Deleting a schema or a row, saving or backfilling a version never trips over
\* a foreign key, but for a row that straddles two lineages.
THEOREM SchemaDeletes == Spec => []SchemaDeletesSucceed
<1>1. Init => SchemaDeletesSucceed
  BY ConstantsAssumption DEF Init, SchemaDeletesSucceed, Handlers
<1>2. IInv /\ SchemaDeletesSucceed /\ [Next]_vars => SchemaDeletesSucceed'
  <2> SUFFICES ASSUME IInv, SchemaDeletesSucceed, [Next]_vars
               PROVE  SchemaDeletesSucceed'
    OBVIOUS
  <2>1. CASE UNCHANGED vars
    BY <2>1 DEF vars, SchemaDeletesSucceed, Records, Straddles
  <2>2. CASE Next
    <3>1. CASE fault' = None
      BY <3>1, ConstantsAssumption DEF SchemaDeletesSucceed, Handlers
    <3>2. CASE Excused(fault') /\ UNCHANGED db
      <4>1. Records' = Records /\ \A r \in Records : Straddles(r)' <=> Straddles(r)
        BY <3>2 DEF Records, Straddles
      <4> QED BY <3>2, <4>1 DEF Excused, SchemaDeletesSucceed
    <3> QED BY <2>2, <3>1, <3>2, NextStep DEF FaultExplained
  <2> QED BY <2>1, <2>2
<1> QED BY <1>1, <1>2, Invariance, PTL DEF Spec

\* A confirm is refused only over a duplicate link.
THEOREM ConfirmFaults == Spec => ConfirmFaultsAreDuplicates
<1>1. ASSUME IInv, [Next]_vars
      PROVE  [fault' = "confirm" => ConfirmExcuse]_vars
  <2>1. CASE Next
    BY <1>1, <2>1, NextStep, ConstantsAssumption DEF FaultExplained, Excused, Handlers
  <2> QED BY <1>1, <2>1
<1>2. [][IInv /\ [Next]_vars]_vars => ConfirmFaultsAreDuplicates
  BY <1>1, PTL DEF ConfirmFaultsAreDuplicates, ConfirmExcuse
<1> QED BY <1>2, Invariance, PTL DEF Spec

\* A document delete is refused only over a duplicate another document keeps.
THEOREM DocumentDeleteFaults == Spec => DocumentDeleteFaultsAreDuplicates
<1>1. ASSUME IInv, [Next]_vars
      PROVE  [fault' = "delete_document" => DocumentExcuse]_vars
  <2>1. CASE Next
    BY <1>1, <2>1, NextStep, ConstantsAssumption DEF FaultExplained, Excused, Handlers
  <2> QED BY <1>1, <2>1
<1>2. [][IInv /\ [Next]_vars]_vars => DocumentDeleteFaultsAreDuplicates
  BY <1>1, PTL DEF DocumentDeleteFaultsAreDuplicates, DocumentExcuse
<1> QED BY <1>2, Invariance, PTL DEF Spec

-----------------------------------------------------------------------------
(* What a job's confirm has written *)

LEMMA CommitOutcome ==
    ASSUME NEW handler, NEW new, NEW moved, Commit(handler, new, moved)
    PROVE  db' = db \/ db' = new
BY DEF Commit, Refuse

LEMMA ConfirmUnderOutcome ==
    ASSUME IInv, NEW k \in Jobs, UnderReview(k),
           NEW t, Sound(t), ForeignKeysHold(t), t.records = db.records,
           t.jobs = db.jobs, t.documents = db.documents, t.target = db.target,
           db.schemas \subseteq t.schemas,
           NEW target \in Matched, target \in Version => target.schema \in t.schemas,
           NEW decision \in Decisions, ConfirmUnder(t, k, target, decision)
    PROVE  \/ db' = db
           \/ /\ \A j \in Jobs : j # k => db'.jobs[j] = db.jobs[j]
              /\ target \in Version => db'.target[DocumentOf[k]] = target
              /\ \E n \in 1..MaxRows :
                   db'.records \in Materialized(db, k, target, n, decision)
<1> SUFFICES ASSUME db' # db
             PROVE  /\ \A j \in Jobs : j # k => db'.jobs[j] = db.jobs[j]
                    /\ target \in Version => db'.target[DocumentOf[k]] = target
                    /\ \E n \in 1..MaxRows :
                         db'.records \in Materialized(db, k, target, n, decision)
  OBVIOUS
<1>1. PICK n \in 1..MaxRows : \E rec \in Materialized(t, k, target, n, decision) :
         Commit("confirm", Confirmed(t, k, target, rec), Moved(k, target, decision))
  BY DEF ConfirmUnder
<1>2. PICK rec \in Materialized(t, k, target, n, decision) :
         Commit("confirm", Confirmed(t, k, target, rec), Moved(k, target, decision))
  BY <1>1
<1>3. db' = Confirmed(t, k, target, rec)
  BY <1>2, CommitOutcome
<1>4. Sound(db) /\ ForeignKeysHold(db) /\ NoTarget \notin Version
  BY ConstantsAssumption DEF IInv, NoTarget, Version
<1>5. /\ db'.records = rec
      /\ db'.target[DocumentOf[k]]
           = IF target = NoTarget THEN t.target[DocumentOf[k]] ELSE target
      /\ \A j \in Jobs : j # k => db'.jobs[j] = db.jobs[j]
  BY <1>3, <1>4, ConfirmSound
<1>6. Materialized(t, k, target, n, decision) = Materialized(db, k, target, n, decision)
  BY DEF Materialized
<1> QED BY <1>4, <1>5, <1>6

\* Job j's confirm, as it was committed.
Wrote(j) ==
    \E target \in Version, n \in 1..MaxRows, decision \in Decisions :
      /\ db'.records \in Materialized(db, j, target, n, decision)
      /\ db'.target[DocumentOf[j]] = target

LEMMA ConfirmWrote ==
    ASSUME IInv, NEW k \in Jobs, NEW decision \in Decisions,
           \/ confirm_job(k, decision)
           \/ \E s \in Schemas : confirm_saving_schema(k, s, decision),
           NEW j \in Jobs, Confirms(j)
    PROVE  Wrote(j)
<1>1. /\ Sound(db) /\ ForeignKeysHold(db)
      /\ db' # db /\ db'.jobs[j] # db.jobs[j]
      /\ db.jobs[j].result.target # NoTarget
  BY DEF IInv, Confirms, UnderReview
<1>2. ASSUME NEW target \in Version, db' # db,
             \A i \in Jobs : i # k => db'.jobs[i] = db.jobs[i],
             db'.target[DocumentOf[k]] = target,
             \E n \in 1..MaxRows : db'.records \in Materialized(db, k, target, n, decision)
      PROVE  Wrote(j)
  <2>1. j = k
    BY <1>1, <1>2
  <2> QED BY <1>2, <2>1 DEF Wrote
<1>3. CASE confirm_job(k, decision)
  <2> DEFINE target == db.jobs[k].result.target
  <2>1. /\ UnderReview(k) /\ target.schema \in db.schemas \cup {None}
        /\ ConfirmUnder(db, k, target, decision)
    BY <1>1, <1>3 DEF confirm_job, MatchIsLive, Refuse
  <2>2. target \in Matched
    BY <1>1 DEF Sound, StagedMatched
  <2>3. target \in Version => target.schema \in db.schemas
    BY <2>1, ConstantsAssumption DEF Version
  <2>4. /\ \A i \in Jobs : i # k => db'.jobs[i] = db.jobs[i]
        /\ target \in Version => db'.target[DocumentOf[k]] = target
        /\ \E n \in 1..MaxRows : db'.records \in Materialized(db, k, target, n, decision)
    BY <1>1, <2>1, <2>2, <2>3, ConfirmUnderOutcome
  <2>5. j = k
    BY <1>1, <2>4
  <2>6. target \in Version
    BY <1>1, <2>2, <2>5, MatchedTargets
  <2> QED BY <1>1, <1>2, <2>4, <2>6
<1>4. ASSUME NEW s \in Schemas, confirm_saving_schema(k, s, decision)
      PROVE  Wrote(j)
  <2> DEFINE t == [db EXCEPT !.schemas = @ \cup {s}, !.versions[s] = 1]
             target == [schema |-> s, version |-> 1]
  <2>1. UnderReview(k) /\ ConfirmUnder(t, k, target, decision)
    BY <1>4 DEF confirm_saving_schema
  <2>2. /\ Sound(t) /\ ForeignKeysHold(t)
        /\ t.documents = db.documents /\ t.jobs = db.jobs
        /\ db.schemas \subseteq t.schemas /\ s \in t.schemas
        /\ t.records = db.records /\ t.target = db.target
    BY <1>1, CreateSchemaSound
  <2>3. target \in Version /\ target \in Matched /\ target.schema \in t.schemas
    BY <2>2, ConstantsAssumption DEF Matched, Version
  <2> HIDE DEF t, target
  <2>4. /\ \A i \in Jobs : i # k => db'.jobs[i] = db.jobs[i]
        /\ target \in Version => db'.target[DocumentOf[k]] = target
        /\ \E n \in 1..MaxRows : db'.records \in Materialized(db, k, target, n, decision)
    BY <1>1, <2>1, <2>2, <2>3, ConfirmUnderOutcome
  <2> QED BY <1>1, <1>2, <2>3, <2>4
<1> QED BY <1>3, <1>4

\* No other action confirms a job under review.
LEMMA OthersConfirmNothing ==
    ASSUME IInv, NEW j \in Jobs,
           \/ \E s \in Schemas : \/ create_schema(s)
                                 \/ create_schema_version(s)
                                 \/ backfill_schema(s)
                                 \/ delete_schema(s)
           \/ \E i \in Uploads : upload_document(i)
           \/ \E i \in Jobs : \/ StartRun(i)
                              \/ StageRun(i)
                              \/ patch_review(i)
                              \/ reextract_job(i)
           \/ \E r \in RecordIds : delete_record(r)
           \/ \E d \in Documents : delete_document(d)
    PROVE  ~Confirms(j)
<1> SUFFICES ASSUME UnderReview(j)
             PROVE  db'.jobs[j].status # "confirmed"
  BY DEF Confirms
<1>1. db \in Tables /\ db.jobs[j] \in Job /\ db.jobs[j].status = "awaiting_review"
  BY DEF IInv, Sound, Tables, UnderReview
<1>2. ASSUME NEW handler, NEW new, Transaction(handler, new),
             new.jobs[j].status # "confirmed"
      PROVE  db'.jobs[j].status # "confirmed"
  BY <1>1, <1>2, CommitOutcome DEF Transaction
<1>3. ASSUME NEW t, t.jobs = db.jobs, NEW s, _enqueue_backfill(t, s), t \in Tables
      PROVE  db'.jobs[j].status # "confirmed"
  <2> DEFINE carriers == {d \in t.documents : t.target[d].schema = s}
  <2>1. PICK new : Transaction("schema", Enqueued(t, s, carriers, new))
    BY <1>3 DEF _enqueue_backfill
  <2> DEFINE after == Enqueued(t, s, carriers, new)
             backfill == [UnusedJob EXCEPT !.status = "queued", !.kind = "backfill"]
  <2>2. after.jobs[j] = IF j \in new THEN backfill ELSE db.jobs[j]
    <3>1. after.jobs = [i \in Jobs |-> IF i \in new THEN backfill ELSE t.jobs[i]]
      BY <1>3 DEF Enqueued, Tables
    <3> HIDE DEF after, backfill
    <3> QED BY <1>3, <3>1
  <2>3. backfill.status = "queued"
    BY DEF UnusedJob
  <2> HIDE DEF after, backfill
  <2>4. Transaction("schema", after)
    BY <2>1 DEF after
  <2> QED BY <1>1, <1>2, <2>2, <2>3, <2>4
<1>4. ASSUME NEW s \in Schemas,
             \/ create_schema(s) \/ create_schema_version(s)
             \/ backfill_schema(s) \/ delete_schema(s)
      PROVE  db'.jobs[j].status # "confirmed"
  <2>1. CASE create_schema(s)
    <3> DEFINE new == [db EXCEPT !.schemas = @ \cup {s}, !.versions[s] = 1]
    <3>1. Transaction("schema", new) /\ new.jobs = db.jobs
      BY <1>1, <2>1 DEF create_schema, Tables
    <3> HIDE DEF new
    <3> QED BY <1>1, <1>2, <3>1
  <2>2. CASE create_schema_version(s)
    <3> DEFINE saved == [db EXCEPT !.versions[s] = @ + 1]
    <3>1. /\ _enqueue_backfill(saved, s) \/ Transaction("schema", saved)
          /\ saved.jobs = db.jobs
      BY <1>1, <2>2 DEF create_schema_version, Tables
    <3>2. saved \in Tables
      BY <1>1, <2>2, SaveVersionSound DEF create_schema_version, IInv, Sound
    <3> HIDE DEF saved
    <3> QED BY <1>1, <1>2, <1>3, <3>1, <3>2
  <2>3. CASE backfill_schema(s)
    BY <1>1, <1>3, <2>3 DEF backfill_schema
  <2>4. CASE delete_schema(s)
    <3> DEFINE new == SchemaDeleted(s)
               tables == SchemaDeletion(s)
               row == [db.jobs[j] EXCEPT !.result.target = NoTarget]
    <3>1. /\ s \in db.schemas /\ Statements("delete_schema", tables)
          /\ new.jobs = Cleared(db, s)
      BY <1>1, <2>4 DEF delete_schema, SchemaDeleted, Tables
    <3>2. new.jobs[j] = db.jobs[j] \/ new.jobs[j] = row
      BY <3>1 DEF Cleared
    <3>3. row.status = db.jobs[j].status
      BY <1>1 DEF Job
    <3>4. tables[Len(tables)] = new
      BY <3>1, SchemaStatements DEF IInv
    <3> HIDE DEF new, row, tables
    <3> QED BY <1>1, <3>1, <3>2, <3>3, <3>4, StatementsOutcome
  <2> QED BY <1>4, <2>1, <2>2, <2>3, <2>4
<1>5. ASSUME NEW i \in Uploads, upload_document(i)
      PROVE  db'.jobs[j].status # "confirmed"
  <2>1. PICK hint : Transaction("upload",
           [db EXCEPT !.documents = @ \cup {DocumentOf[i]},
                      !.target[DocumentOf[i]] = [schema |-> hint, version |-> 0],
                      !.jobs[i].status = "queued"])
    BY <1>5 DEF upload_document
  <2> DEFINE new == [db EXCEPT !.documents = @ \cup {DocumentOf[i]},
                      !.target[DocumentOf[i]] = [schema |-> hint, version |-> 0],
                      !.jobs[i].status = "queued"]
  <2>2. i # j
    BY <1>1, <1>5 DEF upload_document
  <2>3. new.jobs[j] = db.jobs[j]
    BY <1>1, <2>2 DEF Tables
  <2>4. Transaction("upload", new)
    BY <2>1
  <2> HIDE DEF new
  <2> QED BY <1>1, <1>2, <2>3, <2>4
<1>6. ASSUME NEW i \in Jobs, StartRun(i) \/ StageRun(i)
      PROVE  db'.jobs[j].status # "confirmed"
  <2>1. i # j
    BY <1>1, <1>6 DEF StartRun, StageRun
  <2>2. \E row : db' = [db EXCEPT !.jobs = [db.jobs EXCEPT ![i] = row]]
    <3>1. CASE StartRun(i)
      <4>1. db' = [db EXCEPT !.jobs = [db.jobs EXCEPT
                    ![i] = [db.jobs[i] EXCEPT !.status = "extracting"]]]
        BY <1>1, <3>1 DEF StartRun, Tables
      <4> QED BY <4>1
    <3>2. CASE StageRun(i)
      <4>1. db' = [db EXCEPT !.jobs = [db.jobs EXCEPT
                    ![i] = [db.jobs[i] EXCEPT !.status = "awaiting_review",
                                              !.result = run[i]]]]
        BY <1>1, <3>2 DEF StageRun, Tables
      <4> QED BY <4>1
    <3> QED BY <1>6, <3>1, <3>2
  <2> QED BY <1>1, <2>1, <2>2 DEF Tables
<1>7. ASSUME NEW i \in Jobs, patch_review(i) \/ reextract_job(i)
      PROVE  db'.jobs[j].status # "confirmed"
  <2>1. CASE patch_review(i)
    <3>1. PICK s \in db.schemas :
             Transaction("confirm", [db EXCEPT !.jobs[i].result.target = Latest(s)])
      BY <2>1 DEF patch_review
    <3> DEFINE new == [db EXCEPT !.jobs[i].result.target = Latest(s)]
    <3>2. new.jobs[j].status = db.jobs[j].status
      BY <1>1 DEF Tables, Job
    <3>3. Transaction("confirm", new)
      BY <3>1
    <3> HIDE DEF new
    <3> QED BY <1>1, <1>2, <3>2, <3>3
  <2>2. CASE reextract_job(i)
    <3> DEFINE new == [db EXCEPT !.jobs[i].status = "queued", !.jobs[i].kind = "reextract"]
    <3>1. new.jobs[j].status \in {"queued", db.jobs[j].status}
      BY <1>1 DEF Tables, Job
    <3>2. Transaction("confirm", new)
      BY <2>2 DEF reextract_job
    <3> HIDE DEF new
    <3> QED BY <1>1, <1>2, <3>1, <3>2
  <2> QED BY <1>7, <2>1, <2>2
<1>8. ASSUME NEW r \in RecordIds, delete_record(r)
      PROVE  db'.jobs[j].status # "confirmed"
  <2> DEFINE new == RecordDeleted(r)
             tables == RecordDeletion(r)
  <2>1. Statements("delete_record", tables) /\ new.jobs = db.jobs
    BY <1>1, <1>8 DEF delete_record, RecordDeleted, Tables
  <2>2. tables[Len(tables)] = new
    BY <1>8, RecordStatements DEF delete_record, IInv
  <2> HIDE DEF new, tables
  <2> QED BY <1>1, <2>1, <2>2, StatementsOutcome
<1>9. ASSUME NEW d \in Documents, delete_document(d)
      PROVE  db'.jobs[j].status # "confirmed"
  <2> DEFINE new == DocumentDeleted(d)
             tables == DocumentDeletion(d)
             gone == [UnusedJob EXCEPT !.status = "deleted"]
  <2>1. d \in db.documents /\ Statements("delete_document", tables)
    BY <1>9 DEF delete_document
  <2>2. new.jobs[j] = db.jobs[j] \/ new.jobs[j] = gone
    BY <1>1 DEF DocumentDeleted, WithoutJobsOf, Tables
  <2>3. gone.status = "deleted"
    BY DEF UnusedJob
  <2>4. tables[Len(tables)] = new
    BY <2>1, DocumentStatements DEF IInv
  <2> HIDE DEF new, gone, tables
  <2> QED BY <1>1, <2>1, <2>2, <2>3, <2>4, StatementsOutcome
<1> QED BY <1>4, <1>5, <1>6, <1>7, <1>8, <1>9

LEMMA OnlyConfirmsWrite ==
    ASSUME IInv, Next, NEW j \in Jobs, Confirms(j)
    PROVE  Wrote(j)
BY OthersConfirmNothing, ConfirmWrote DEF Next

LEMMA WroteBackfill ==
    ASSUME IInv, NEW j \in Jobs, UnderReview(j), db.jobs[j].kind = "backfill",
           NEW target \in Version, NEW n \in 1..MaxRows, NEW decision \in Decisions,
           NEW rec \in Materialized(db, j, target, n, decision)
    PROVE  \A r \in RecordsIn(rec) :
             \/ /\ Kept(rec, r) /\ r[1] # j
                /\ ~(rec[r].document = DocumentOf[j] /\ rec[r].schema = target.schema)
             \/ New(rec, r, j, target)
<1>1. target # NoTarget
  BY ConstantsAssumption DEF NoTarget, Version
<1>2. rec = _apply_backfill_extracted_record(db.records, j, target, n)
  BY <1>1 DEF Materialized
<1> QED BY <1>2, BackfillWrites DEF IInv

LEMMA WroteExtract ==
    ASSUME IInv, NEW j \in Jobs, UnderReview(j), db.jobs[j].kind # "backfill",
           NEW target \in Version, NEW n \in 1..MaxRows, NEW decision \in Decisions,
           NEW rec \in Materialized(db, j, target, n, decision),
           NEW m \in Records, m = db.jobs[j].result.dedup, rec[m] # None,
           rec[m].document # db.records[m].document
    PROVE  _records_for(rec, db.records[m].document, target.schema) = {}
<1>1. target # NoTarget
  BY ConstantsAssumption DEF NoTarget, Version
<1>2. rec \in _apply_extracted_record(db.records, j, target, n, decision)
  BY <1>1 DEF Materialized
<1>3. m \in RecordsIn(rec) /\ m \in RecordIds /\ m # None /\ m[1] # j
  BY NoRowsUnderReview, ConstantsAssumption DEF Records, RecordsIn, IInv
<1>4. Overwritten(rec, m, j, target, decision)
  <2>1. Sound(db) /\ ForeignKeysHold(db)
    BY DEF IInv
  <2>2. \A r \in RecordsIn(rec) :
           \/ Kept(rec, r) /\ r[1] # j
           \/ New(rec, r, j, target)
           \/ Overwritten(rec, r, j, target, decision)
    BY <1>2, <2>1, ExtractWrites
  <2> QED BY <1>3, <2>2 DEF Kept, New
<1>5. rec = Replaced(db.records, j, target, n, m) /\ rec[m].document = DocumentOf[j]
  BY <1>2, <1>3, <1>4 DEF Overwritten, _apply_extracted_record
<1>6. /\ db.records \in RecordTable /\ m \in RecordsIn(db.records)
      /\ \A r \in RecordsIn(db.records) : r[1] # j
  BY NoRowsUnderReview DEF IInv, Sound, Tables, RecordTable, Records
<1> QED BY <1>5, <1>6, ReplacedSet

\* After a confirmed backfill the document's rows in the schema are the job's.
THEOREM BackfillLeaves == Spec => BackfillLeavesOneSet
<1>1. ASSUME IInv, Next, NEW j \in Jobs, Confirms(j), db.jobs[j].kind = "backfill"
      PROVE  LeavesOneSet(j)
  <2>1. PICK target \in Version : \E n \in 1..MaxRows, decision \in Decisions :
           /\ db'.records \in Materialized(db, j, target, n, decision)
           /\ db'.target[DocumentOf[j]] = target
    BY <1>1, OnlyConfirmsWrite DEF Wrote
  <2>2. \A r \in RecordsIn(db'.records) :
           \/ /\ Kept(db'.records, r) /\ r[1] # j
              /\ ~(/\ db'.records[r].document = DocumentOf[j]
                   /\ db'.records[r].schema = target.schema)
           \/ New(db'.records, r, j, target)
    BY <1>1, <2>1, WroteBackfill DEF Confirms
  <2> QED BY <2>1, <2>2 DEF LeavesOneSet, _records_for, New
<1>2. ASSUME IInv, [Next]_vars
      PROVE  [\A j \in Jobs : Confirms(j) /\ db.jobs[j].kind = "backfill"
                => LeavesOneSet(j)]_vars
  BY <1>1, <1>2
<1>3. [][IInv /\ [Next]_vars]_vars => BackfillLeavesOneSet
  BY <1>2, PTL DEF BackfillLeavesOneSet
<1> QED BY <1>3, Invariance, PTL DEF Spec

\* A "replace" under the matched row's schema leaves nothing of the set it
\* takes over.
THEOREM ReplaceLeaves == Spec => ReplaceLeavesNoPartialSet
<1> DEFINE Empties(j) ==
      \A m \in {db.jobs[j].result.dedup} \cap Records :
        LET old == db.records[m] IN
        ( /\ db'.records[m] # None
          /\ db'.records[m].document # old.document
          /\ db'.target[DocumentOf[j]].schema = old.schema )
        => _records_for(db'.records, old.document, old.schema) = {}
<1>1. ASSUME IInv, Next, NEW j \in Jobs, Confirms(j)
      PROVE  Empties(j)
  <2> SUFFICES ASSUME NEW m \in Records, m = db.jobs[j].result.dedup,
                      db'.records[m] # None,
                      db'.records[m].document # db.records[m].document,
                      db'.target[DocumentOf[j]].schema = db.records[m].schema
               PROVE  _records_for(db'.records, db.records[m].document,
                                   db.records[m].schema) = {}
    OBVIOUS
  <2>1. PICK target \in Version, n \in 1..MaxRows, decision \in Decisions :
           /\ db'.records \in Materialized(db, j, target, n, decision)
           /\ db'.target[DocumentOf[j]] = target
    BY <1>1, OnlyConfirmsWrite DEF Wrote
  <2>2. UnderReview(j) /\ Sound(db)
    BY <1>1 DEF Confirms, IInv
  <2>3. db.jobs[j].kind # "backfill"
    <3> SUFFICES ASSUME db.jobs[j].kind = "backfill" PROVE FALSE
      OBVIOUS
    <3>1. m \in RecordsIn(db'.records) /\ m[1] # j
      BY <2>2, NoRowsUnderReview DEF Records, RecordsIn
    <3> QED BY <1>1, <2>1, <2>2, <3>1, WroteBackfill DEF Kept, New
  <2> QED BY <1>1, <2>1, <2>2, <2>3, WroteExtract
<1>2. ASSUME IInv, [Next]_vars
      PROVE  [\A j \in Jobs : Confirms(j) => Empties(j)]_vars
  BY <1>1, <1>2
<1>3. [][IInv /\ [Next]_vars]_vars => ReplaceLeavesNoPartialSet
  BY <1>2, PTL DEF ReplaceLeavesNoPartialSet
<1> QED BY <1>3, Invariance, PTL DEF Spec
=============================================================================
