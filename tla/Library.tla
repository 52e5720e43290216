------------------------------ MODULE Library ------------------------------
(***************************************************************************)
(* The documents from upload to deletion: the file on disk, the batch, the *)
(* topics a document is filed under, and the copy of them its chunks carry *)
(* for retrieval (app/routers/documents.py and topics.py, app/storage.py,  *)
(* app/pipeline/topics_util.py, the topic half of confirm.py).             *)
(*                                                                         *)
(* Requests overlap.  Each is a few steps, one per point where what it has *)
(* read can grow stale; a step sees the committed tables (READ COMMITTED), *)
(* and what a request wrote is seen by the others when it commits.  Rows a *)
(* request has written stay locked until then.  Names of topics are left   *)
(* out: a topic is its id, each used at most once.                         *)
(***************************************************************************)
EXTENDS Naturals, FiniteSets

CONSTANTS
    Documents,      \* document ids, each used at most once
    Batches,        \* batch ids, each used at most once
    BatchOf,        \* documents.batch_id
    WithSchema,     \* documents uploaded under a schema; the others get
                    \* theirs, if any, as they are confirmed
    Backfilled,     \* documents whose schema users edit (bound)
    Topics,         \* ids of the topics users make
    Uncategorized,  \* the topic seeded at start-up, which is never deleted
    Requests,       \* requests that can be open at the same time
    None            \* no document, topic or batch

Labels == Topics \cup {Uncategorized}

ASSUME LibraryAssumption ==
    /\ BatchOf \in [Documents -> Batches]
    /\ \A b \in Batches : \E d \in Documents : BatchOf[d] = b  \* no empty upload
    /\ WithSchema \subseteq Documents /\ Backfilled \subseteq Documents
    /\ Uncategorized \notin Topics
    /\ None \notin Documents \cup Batches \cup Labels

VARIABLES
    topics,     \* each id: not inserted yet, live or deleted
    batches,    \* ids of batches rows
    hint,       \* batches.default_topic_ids
    documents,  \* ids of documents rows
    links,      \* document_topics: the labels of each document
    chunks,     \* chunks.topic_ids of each document's chunks
    jobs,       \* the job each document was uploaded with
    suggested,  \* result.suggested_topic_ids of that job
    backfill,   \* kind of each document's backfill under review, if it has one
    run,        \* the suggestion of the pipeline under way
    files,      \* documents whose file is on disk
    req,        \* the requests under way
    races,      \* history: which requests of one kind have overlapped
    refiled     \* history: documents a backfill sent back has been confirmed for

tables == <<topics, batches, hint, documents, links, chunks, jobs, suggested,
            backfill>>
vars == <<tables, run, files, req, races, refiled>>

-----------------------------------------------------------------------------
(* Types *)

BatchDocuments(b) == {d \in Documents : BatchOf[d] = b}

\* What a request has done so far.
Steps == {"idle", "writing_files", "labels_resolved", "documents_listed",
          "relabelled", "rows_deleted", "rows_gone"}

Kinds == {"confirm", "topic", "document"}

\* The statuses of a job whose result is still staged, not history.
_STAGED_JOB_STATUSES == {"queued", "extracting", "awaiting_review"}

\* kind, adds: the confirmed job's kind and the links it inserts; chunked: the
\* documents whose chunks a topic delete found; during: the kinds of requests
\* that committed while this one was open.
Request ==
    [at : Steps, batch : Batches \cup {None}, doc : Documents \cup {None},
     topic : Topics \cup {None}, docs : SUBSET Documents, ids : SUBSET Labels,
     links : [Documents -> SUBSET Labels],
     suggested : [Documents -> SUBSET Topics],
     kind : {"extract", "backfill", "reextract"}, adds : SUBSET Labels,
     chunked : SUBSET Documents, last : BOOLEAN, during : SUBSET Kinds]

NoRequest ==
    [at |-> "idle", batch |-> None, doc |-> None, topic |-> None, docs |-> {},
     ids |-> {}, links |-> [d \in Documents |-> {}],
     suggested |-> [d \in Documents |-> {}], kind |-> "extract", adds |-> {},
     chunked |-> {}, last |-> FALSE, during |-> {}]

TypeOK ==
    /\ topics \in [Topics -> {"unused", "live", "deleted"}]
    /\ batches \subseteq Batches
    /\ hint \in [Batches -> SUBSET Topics]
    /\ documents \subseteq Documents
    /\ links \in [Documents -> SUBSET Labels]
    /\ chunks \in [Documents -> SUBSET Labels]
    /\ jobs \in [Documents -> _STAGED_JOB_STATUSES
                              \cup {"none", "confirmed", "deleted"}]
    /\ suggested \in [Documents -> SUBSET Topics]
    /\ backfill \in [Documents -> {"none", "backfill", "reextract"}]
    /\ run \in [Documents -> SUBSET Topics]
    /\ files \subseteq Documents
    /\ req \in [Requests -> Request]
    /\ races \subseteq {"labels", "batch"}
    /\ refiled \subseteq Documents

-----------------------------------------------------------------------------
(* Requests *)

Init ==
    /\ topics = [t \in Topics |-> "unused"]
    /\ batches = {}
    /\ hint = [b \in Batches |-> {}]
    /\ documents = {}
    /\ links = [d \in Documents |-> {}]
    /\ chunks = [d \in Documents |-> {}]
    /\ jobs = [d \in Documents |-> "none"]
    /\ suggested = [d \in Documents |-> {}]
    /\ backfill = [d \in Documents |-> "none"]
    /\ run = [d \in Documents |-> {}]
    /\ files = {}
    /\ req = [r \in Requests |-> NoRequest]
    /\ races = {}
    /\ refiled = {}

Open(r, request) ==
    /\ req[r].at = "idle"
    /\ req' = [req EXCEPT ![r] = request]

Close(r) == req' = [req EXCEPT ![r] = NoRequest]

\* Request r commits and is at `next` after it; the others were overtaken.
Commit(r, kind, next) ==
    req' = [q \in Requests |->
              IF q = r THEN next
              ELSE IF req[q].at = "idle" THEN req[q]
              ELSE [req[q] EXCEPT !.during = @ \cup {kind}]]

\* A topic delete that a confirm or another topic delete overtook, or a
\* document delete that another one did.
Overtaken(r, kind) ==
    LET labels == kind = "topic" /\ req[r].during \cap {"confirm", "topic"} # {}
        batch  == kind = "document" /\ "document" \in req[r].during
    IN  races' = races \cup (IF labels THEN {"labels"} ELSE {})
                      \cup (IF batch THEN {"batch"} ELSE {})

Live(set) == {t \in set : topics[t] = "live"}
Known == {t \in Topics : topics[t] # "unused"}

\* Ids of topics an open confirm has inserted but not committed.
Reserved == UNION {req[r].ids : r \in Requests}
Fresh == {t \in Topics : topics[t] = "unused"} \ Reserved

\* Another request has deleted d's rows and not committed yet.
Deleting(d) == \E q \in Requests : req[q].at = "rows_deleted" /\ req[q].doc = d

\* Another request is confirming a job of d.
Deciding(d) == \E q \in Requests : req[q].at = "labels_resolved" /\ req[q].doc = d

\* Another request has rewritten d's links or chunks and not committed yet.
Relabelling(d) ==
    \E q \in Requests : /\ req[q].at = "relabelled"
                        /\ d \in req[q].docs \/ req[q].topic \in req[q].links[d]

-----------------------------------------------------------------------------
(* Uploads *)

Unused(b) ==
    /\ \A d \in BatchDocuments(b) : jobs[d] = "none" /\ d \notin files
    /\ \A q \in Requests : req[q].batch # b

\* The upload page's topics may have been deleted since it loaded them.
upload_documents(r, b) ==
    /\ Unused(b)
    /\ \E ids \in SUBSET Known :
         Open(r, [NoRequest EXCEPT !.at = "writing_files", !.batch = b, !.ids = ids])
    /\ UNCHANGED <<tables, run, files, races, refiled>>

write_file(r, d) ==
    /\ req[r].at = "writing_files"
    /\ BatchOf[d] = req[r].batch
    /\ files' = files \cup {d}
    /\ UNCHANGED <<tables, run, req, races, refiled>>

\* Mutant: the rows are committed before the last file is written.
SomeWritten(b) == BatchDocuments(b) \cap files # {}

AllWritten(b) == BatchDocuments(b) \subseteq files

\* One commit for the batch, its documents and their jobs.
CommitUpload(r) ==
    LET b == req[r].batch
        new == BatchDocuments(b)
    IN  /\ req[r].at = "writing_files"
        /\ AllWritten(b)
        /\ batches' = batches \cup {b}
        /\ hint' = [hint EXCEPT ![b] = req[r].ids]
        /\ documents' = documents \cup new
        /\ jobs' = [d \in Documents |-> IF d \in new THEN "queued" ELSE jobs[d]]
        /\ Close(r)
        /\ UNCHANGED <<topics, links, chunks, suggested, backfill, run, files,
                       races, refiled>>

-----------------------------------------------------------------------------
(* The pipeline and the review *)

\* What the model may be asked to choose from: nothing if the batch hints.
Suggestions(d) ==
    LET hinted == hint[BatchOf[d]]
    IN  IF hinted = {} THEN SUBSET Live(Topics) ELSE {hinted}

StartRun(d) ==
    /\ jobs[d] = "queued"
    /\ jobs' = [jobs EXCEPT ![d] = "extracting"]
    /\ \E ids \in Suggestions(d) : run' = [run EXCEPT ![d] = ids]
    /\ UNCHANGED <<topics, batches, hint, documents, links, chunks, suggested,
                   backfill, files, req, races, refiled>>

StageRun(d) ==
    /\ jobs[d] = "extracting"
    /\ ~Deleting(d)
    /\ jobs' = [jobs EXCEPT ![d] = "awaiting_review"]
    /\ suggested' = [suggested EXCEPT ![d] = run[d]]
    /\ run' = [run EXCEPT ![d] = {}]
    /\ UNCHANGED <<topics, batches, hint, documents, links, chunks, backfill,
                   files, req, races, refiled>>

\* The reviewer's topics, those that still exist.
patch_review(d) ==
    /\ jobs[d] = "awaiting_review"
    /\ ~Deleting(d)
    /\ \E ids \in SUBSET Live(Topics) :
         suggested' = [suggested EXCEPT ![d] = ids]
    /\ UNCHANGED <<topics, batches, hint, documents, links, chunks, jobs,
                   backfill, run, files, req, races, refiled>>

\* A schema edit has the document read again.  That run reads and writes
\* nothing of this module: here the job is under review at once, with no
\* topics and no chunks in its result.  One at a time of a document (bound).
_enqueue_backfill(d) ==
    /\ d \in documents \cap Backfilled
    /\ d \in WithSchema \/ jobs[d] = "confirmed"
    /\ backfill[d] = "none"
    /\ ~Deleting(d)
    /\ backfill' = [backfill EXCEPT ![d] = "backfill"]
    /\ UNCHANGED <<topics, batches, hint, documents, links, chunks, jobs,
                   suggested, run, files, req, races, refiled>>

\* Whatever a job was, sent back it is of kind reextract, and its next run
\* keeps the topics of its last result.  The upload's job is claimed at once:
\* waiting, it only loses topics as it does under review.  Not while the
\* document is being confirmed (bound); JobLifecycle overlaps the two.
reextract_job(d) ==
    /\ ~Deleting(d) /\ ~Deciding(d)
    /\ \/ /\ jobs[d] = "awaiting_review"
          /\ jobs' = [jobs EXCEPT ![d] = "extracting"]
          /\ run' = [run EXCEPT ![d] = suggested[d]]
          /\ UNCHANGED backfill
       \/ /\ backfill[d] = "backfill"
          /\ backfill' = [backfill EXCEPT ![d] = "reextract"]
          /\ UNCHANGED <<jobs, run>>
    /\ UNCHANGED <<topics, batches, hint, documents, links, chunks, suggested,
                   files, req, races, refiled>>

create_topic(t) ==
    /\ t \in Fresh
    /\ topics' = [topics EXCEPT ![t] = "live"]
    /\ UNCHANGED <<batches, hint, documents, links, chunks, jobs, suggested,
                   backfill, run, files, req, races, refiled>>

-----------------------------------------------------------------------------
(* Confirming *)

\* Mutant: the staged ids are taken as they are.
StagedIds(d) == suggested[d]

\* The staged topics that still exist.
StagedTopics(d) == Live(suggested[d])

\* With the topics confirmed by name, which the confirm inserts itself.
_resolve_confirmed_topic_ids(staged, made) ==
    IF staged \cup made = {} THEN {Uncategorized} ELSE staged \cup made

Made == {{}} \cup {{t} : t \in Fresh}

\* One confirm of a document at a time (bound).
Confirm(r, d, kind, ids) ==
    /\ ~Deciding(d)
    /\ Open(r, [NoRequest EXCEPT !.at = "labels_resolved", !.doc = d,
                                 !.kind = kind, !.ids = ids,
                                 !.adds = ids \ links[d]])
    /\ UNCHANGED <<tables, run, files, races, refiled>>

\* A backfill has no topics of its own: sent back, it is given those that the
\* review screen saves as it confirms, if any.
confirm_job(r, d) ==
    \/ /\ jobs[d] = "awaiting_review"
       /\ \E made \in Made :
            Confirm(r, d, "extract",
                    _resolve_confirmed_topic_ids(StagedTopics(d), made))
    \/ /\ backfill[d] = "backfill"
       /\ Confirm(r, d, "backfill", {})
    \/ /\ backfill[d] = "reextract"
       /\ \E chosen \in SUBSET Live(Topics), made \in Made :
            Confirm(r, d, "reextract", _resolve_confirmed_topic_ids(chosen, made))

\* The database refuses to commit: the document is gone, or a topic to link,
\* or a topic delete has made the link since.
ConfirmRefused(r) ==
    /\ req[r].at = "labels_resolved"
    /\ \/ req[r].doc \notin documents
       \/ \E t \in req[r].adds \cap Topics : topics[t] = "deleted"
       \/ req[r].adds \cap links[req[r].doc] # {}

\* The listed documents left with no topic once the links to t are gone.
Orphaned(docs, t, seen) == {d \in docs : seen[d] \ {t} = {}}

\* A topic delete has filed d under Uncategorized and not committed yet.
Refiling(d) ==
    \E q \in Requests : /\ req[q].at = "relabelled"
                        /\ d \in Orphaned(req[q].docs, req[q].topic, req[q].links)

\* The upload's result has chunks, a backfill's has none even if sent back.  A
\* confirmed job's suggestion is history, read by nobody: here it is left out.
CommitConfirm(r) ==
    LET d == req[r].doc
        upload == req[r].kind = "extract"
    IN  /\ req[r].at = "labels_resolved" /\ req[r].kind # "backfill"
        /\ ~Deleting(d)
        /\ Uncategorized \in req[r].adds => ~Refiling(d)
        /\ ~ConfirmRefused(r)
        /\ topics' = [t \in Topics |-> IF t \in req[r].adds THEN "live" ELSE topics[t]]
        /\ links' = [links EXCEPT ![d] = @ \cup req[r].adds]
        /\ chunks' = IF upload THEN [chunks EXCEPT ![d] = req[r].ids] ELSE chunks
        /\ jobs' = IF upload THEN [jobs EXCEPT ![d] = "confirmed"] ELSE jobs
        /\ suggested' = IF upload THEN [suggested EXCEPT ![d] = {}] ELSE suggested
        /\ backfill' = IF upload THEN backfill ELSE [backfill EXCEPT ![d] = "none"]
        /\ refiled' = IF upload THEN refiled ELSE refiled \cup {d}
        /\ Commit(r, "confirm", NoRequest)
        /\ UNCHANGED <<batches, hint, documents, run, files, races>>

\* A backfill never touches topics or chunks, and so overtakes nobody.
CommitBackfill(r) ==
    /\ req[r].at = "labels_resolved" /\ req[r].kind = "backfill"
    /\ ~Deleting(req[r].doc)
    /\ ~ConfirmRefused(r)
    /\ backfill' = [backfill EXCEPT ![req[r].doc] = "none"]
    /\ Close(r)
    /\ UNCHANGED <<topics, batches, hint, documents, links, chunks, jobs,
                   suggested, run, files, races, refiled>>

-----------------------------------------------------------------------------
(* Deleting a topic *)

\* The documents filed under it, read before their links are touched.
delete_topic(r, t) ==
    /\ topics[t] = "live"
    /\ Open(r, [NoRequest EXCEPT !.at = "documents_listed", !.topic = t,
                                 !.docs = {d \in Documents : t \in links[d]}])
    /\ UNCHANGED <<tables, run, files, races, refiled>>

\* The staged results that name t, and the others left out.
Naming(t) ==
    [d \in Documents |->
       IF jobs[d] \in _STAGED_JOB_STATUSES /\ t \in suggested[d] THEN suggested[d] ELSE {}]

\* The statements up to the commit, on the tables of this moment.  They wait
\* for the rows a document delete or another delete of t holds.
Relabel(r) ==
    LET t == req[r].topic
        touched == req[r].docs \cup {d \in Documents : t \in links[d]}
    IN  /\ req[r].at = "documents_listed"
        /\ \A d \in touched : ~Deleting(d)
        /\ \A q \in Requests : req[q].at = "relabelled" => req[q].topic # t
        /\ Orphaned(req[r].docs, t, links) \subseteq documents
        /\ req' = [req EXCEPT ![r].at = "relabelled", ![r].links = links,
                              ![r].suggested = Naming(t),
                              ![r].chunked = {d \in req[r].docs : chunks[d] # {}}]
        /\ UNCHANGED <<tables, run, files, races, refiled>>

\* What Relabel wrote, of what it had seen.
Relinked(r, d) ==
    LET t == req[r].topic IN
    (links[d] \ (IF t \in req[r].links[d] THEN {t} ELSE {}))
      \cup (IF d \in Orphaned(req[r].docs, t, req[r].links)
            THEN {Uncategorized} ELSE {})

\* Mutant: the chunks are rewritten before the orphans are filed again.
resync_before_retagging(r, d) ==
    IF d \in req[r].chunked
    THEN req[r].links[d] \ {req[r].topic} ELSE chunks[d]

resync_chunk_topic_ids(r, d) ==
    LET t == req[r].topic
        seen == req[r].links
    IN  IF d \in req[r].chunked
        THEN (seen[d] \ {t}) \cup (IF d \in Orphaned(req[r].docs, t, seen)
                                  THEN {Uncategorized} ELSE {})
        ELSE chunks[d]

\* The whole result column is written back, less the topic.
_clear_topic_from_staged_jobs(r, d) ==
    IF req[r].topic \in req[r].suggested[d]
    THEN req[r].suggested[d] \ {req[r].topic} ELSE suggested[d]

\* Refused: an orphan to file again is gone, a job to clear is gone, or the
\* topic has been linked again.
TopicRefused(r) ==
    LET t == req[r].topic IN
    \/ /\ req[r].at = "documents_listed"
       /\ ~(Orphaned(req[r].docs, t, links) \subseteq documents)
    \/ /\ req[r].at = "relabelled"
       /\ \E d \in Documents :
            \/ t \in links[d] /\ t \notin req[r].links[d]
            \/ t \in req[r].suggested[d] /\ d \notin documents

CommitDeleteTopic(r) ==
    LET t == req[r].topic IN
    /\ req[r].at = "relabelled"
    /\ ~TopicRefused(r)
    /\ \A d \in Documents : t \in req[r].suggested[d] => ~Deleting(d)
    /\ topics' = [topics EXCEPT ![t] = "deleted"]
    /\ links' = [d \in Documents |-> Relinked(r, d)]
    /\ chunks' = [d \in Documents |-> resync_chunk_topic_ids(r, d)]
    /\ hint' = [b \in Batches |-> hint[b] \ {t}]
    /\ suggested' = [d \in Documents |-> _clear_topic_from_staged_jobs(r, d)]
    /\ Commit(r, "topic", NoRequest)
    /\ Overtaken(r, "topic")
    /\ UNCHANGED <<batches, documents, jobs, backfill, run, files, refiled>>

\* Answered 500 (or the like) with nothing written.
Refuse(r) ==
    /\ ConfirmRefused(r) \/ TopicRefused(r)
    /\ Close(r)
    /\ UNCHANGED <<tables, run, files, races, refiled>>

-----------------------------------------------------------------------------
(* Deleting a document *)

\* Mutant: the batch is dropped although a document of it is left.
LastOfAny(d) == BatchOf[d] \in batches

LastOfBatch(d) == documents \cap BatchDocuments(BatchOf[d]) = {d}

\* The deletes, flushed, then the look at what is left of the batch.
delete_document(r, d) ==
    /\ d \in documents
    /\ ~Deleting(d) /\ ~Relabelling(d)
    /\ Open(r, [NoRequest EXCEPT !.at = "rows_deleted", !.doc = d,
                                 !.last = LastOfBatch(d)])
    /\ UNCHANGED <<tables, run, files, races, refiled>>

CommitDeleteDocument(r) ==
    LET d == req[r].doc IN
    /\ req[r].at = "rows_deleted"
    /\ documents' = documents \ {d}
    /\ batches' = IF req[r].last THEN batches \ {BatchOf[d]} ELSE batches
    /\ hint' = IF req[r].last THEN [hint EXCEPT ![BatchOf[d]] = {}] ELSE hint
    /\ links' = [links EXCEPT ![d] = {}]
    /\ chunks' = [chunks EXCEPT ![d] = {}]
    /\ jobs' = [jobs EXCEPT ![d] = "deleted"]
    /\ suggested' = [suggested EXCEPT ![d] = {}]
    /\ backfill' = [backfill EXCEPT ![d] = "none"]
    /\ refiled' = refiled \ {d}
    /\ run' = [run EXCEPT ![d] = {}]
    /\ Commit(r, "document", [NoRequest EXCEPT !.at = "rows_gone", !.doc = d])
    /\ Overtaken(r, "document")
    /\ UNCHANGED <<topics, files>>

\* After the commit, never before.
delete_file(r) ==
    /\ req[r].at = "rows_gone"
    /\ files' = files \ {req[r].doc}
    /\ Close(r)
    /\ UNCHANGED <<tables, run, races, refiled>>

\* The API process dies with every request it was serving.
Crash ==
    /\ \E r \in Requests : req[r].at # "idle"
    /\ req' = [r \in Requests |-> NoRequest]
    /\ UNCHANGED <<tables, run, files, races, refiled>>

-----------------------------------------------------------------------------
Next ==
    \/ \E r \in Requests :
         \/ \E b \in Batches : upload_documents(r, b)
         \/ \E d \in Documents : \/ write_file(r, d)
                                 \/ confirm_job(r, d)
                                 \/ delete_document(r, d)
         \/ \E t \in Topics : delete_topic(r, t)
         \/ CommitUpload(r)
         \/ CommitConfirm(r)
         \/ CommitBackfill(r)
         \/ Relabel(r)
         \/ CommitDeleteTopic(r)
         \/ Refuse(r)
         \/ CommitDeleteDocument(r)
         \/ delete_file(r)
    \/ \E d \in Documents : \/ StartRun(d)
                            \/ StageRun(d)
                            \/ patch_review(d)
                            \/ _enqueue_backfill(d)
                            \/ reextract_job(d)
    \/ \E t \in Topics : create_topic(t)
    \/ Crash

Spec == Init /\ [][Next]_vars

-----------------------------------------------------------------------------
(* Properties *)

\* A document in the list can be opened: files are written before the rows
\* and unlinked after them, over a crash at any point of either.
RowsHaveFiles == documents \subseteq files

\* What retrieval finds is what the document is filed under: a confirmed
\* document has a topic, its links name live topics, and its chunks carry
\* exactly those.  Two exceptions: a confirm or a second topic delete committed
\* in the middle of a topic delete; and the chunks of a document for which a
\* backfill was sent back, which its confirm files anew and leaves as they are.
FiledAlike(d) ==
    /\ links[d] # {}
    /\ \A t \in links[d] \cap Topics : topics[t] = "live"
    /\ d \notin refiled => chunks[d] = links[d]

ConfirmedAreFiled ==
    "labels" \notin races =>
        \A d \in documents : jobs[d] = "confirmed" => FiledAlike(d)

\* The database never refuses a confirm or a topic delete that no other
\* request's commit overtook, whatever dead topics the staged results, the
\* pipelines under way and the review screens still name.
OnlyRacesAreRefused ==
    \A r \in Requests : ConfirmRefused(r) \/ TopicRefused(r) => req[r].during # {}

\* A batch goes with its last document, unless two deletes overlapped.
BatchesHaveDocuments ==
    "batch" \notin races =>
        /\ \A b \in batches : \E d \in documents : BatchOf[d] = b
        /\ \A d \in documents : BatchOf[d] \in batches
=============================================================================
