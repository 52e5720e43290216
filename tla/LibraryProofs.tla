--------------------------- MODULE LibraryProofs ---------------------------
(***************************************************************************)
(* Library for any documents, batches, topics and overlapping requests:    *)
(* its types, that a row has its file over any crash, that the database    *)
(* refuses only what another request overtook, that a batch goes with its  *)
(* last document, and that confirmed documents are filed.                  *)
(***************************************************************************)
EXTENDS Library, TLAPS

-----------------------------------------------------------------------------
(* What a step does to the requests *)

\* What a request names at each of its steps.
Named(q) ==
    /\ q.at = "writing_files" => q.batch \in Batches /\ q.ids \subseteq Topics
    /\ q.at \in {"labels_resolved", "rows_deleted", "rows_gone"} => q.doc \in Documents
    /\ q.at \in {"documents_listed", "relabelled"} => q.topic \in Topics

\* Another request's commit changes nothing of a request but its history.
Carries(old, new) ==
    /\ new.at = old.at /\ new.batch = old.batch /\ new.doc = old.doc
    /\ new.topic = old.topic /\ new.docs = old.docs /\ new.ids = old.ids
    /\ new.links = old.links /\ new.suggested = old.suggested /\ new.last = old.last
    /\ new.kind = old.kind /\ new.adds = old.adds /\ new.chunked = old.chunked

Overtakes(kind, old, new) ==
    old.at # "idle" => new.during = old.during \cup {kind}

Typed == TypeOK /\ \A r \in Requests : Named(req[r])

LEMMA NoRequestTyped ==
    NoRequest \in Request /\ NoRequest.at = "idle" /\ Named(NoRequest)
  BY DEF NoRequest, Request, Steps, Named

LEMMA Opened ==
    ASSUME Typed, NEW r \in Requests, NEW request \in Request, Named(request),
           Open(r, request)
    PROVE  /\ req[r].at = "idle"
           /\ req' \in [Requests -> Request]
           /\ \A q \in Requests : Named(req'[q])
           /\ \A q \in Requests : req'[q] = IF q = r THEN request ELSE req[q]
  BY DEF Open, Typed, TypeOK

LEMMA Closed ==
    ASSUME Typed, NEW r \in Requests, Close(r)
    PROVE  /\ req' \in [Requests -> Request]
           /\ \A q \in Requests : Named(req'[q])
           /\ \A q \in Requests : req'[q] = IF q = r THEN NoRequest ELSE req[q]
  BY NoRequestTyped DEF Close, Typed, TypeOK

LEMMA Committed ==
    ASSUME Typed, NEW r \in Requests, NEW kind \in Kinds, NEW next \in Request,
           Named(next), Commit(r, kind, next)
    PROVE  /\ req' \in [Requests -> Request]
           /\ \A q \in Requests : Named(req'[q])
           /\ req'[r] = next
           /\ \A q \in Requests \ {r} : Carries(req[q], req'[q]) /\ Overtakes(kind, req[q], req'[q])
<1>1. \A q \in Requests : req[q] \in Request /\ Named(req[q])
  BY DEF Typed, TypeOK
<1>2. \A q \in Requests : LET over == [req[q] EXCEPT !.during = @ \cup {kind}]
                          IN  /\ over \in Request /\ Named(over)
                              /\ Carries(req[q], over)
                              /\ over.during = req[q].during \cup {kind}
  BY <1>1 DEF Request, Named, Carries
<1> QED
  BY <1>1, <1>2 DEF Commit, Carries, Overtakes

LEMMA Raced ==
    ASSUME TypeOK, NEW r \in Requests, NEW kind, Overtaken(r, kind)
    PROVE  races' \subseteq {"labels", "batch"} /\ races \subseteq races'
  BY DEF Overtaken, TypeOK

\* The labels a confirm resolves.
LEMMA Resolved ==
    ASSUME NEW staged \in SUBSET Topics, NEW made \in Made
    PROVE  /\ _resolve_confirmed_topic_ids(staged, made) \in SUBSET Labels
           /\ _resolve_confirmed_topic_ids(staged, made) # {}
           /\ \A t \in _resolve_confirmed_topic_ids(staged, made) \cap Topics :
                t \in staged \/ t \in Fresh
<1>1. made \in SUBSET Topics /\ made \subseteq Fresh
  BY DEF Made, Fresh
<1> QED
  BY <1>1, LibraryAssumption DEF _resolve_confirmed_topic_ids, Labels

LEMMA StagedLive ==
    ASSUME TypeOK, NEW d \in Documents
    PROVE  StagedTopics(d) \in SUBSET Live(Topics)
  BY DEF StagedTopics, Live, TypeOK

\* The request a confirm opens.
Confirming(d, kind, ids) ==
    [NoRequest EXCEPT !.at = "labels_resolved", !.doc = d, !.kind = kind, !.ids = ids,
                      !.adds = ids \ links[d]]

LEMMA Confirms ==
    ASSUME Typed, NEW r \in Requests, NEW d \in Documents, confirm_job(r, d)
    PROVE  \E kind \in {"extract", "backfill", "reextract"}, ids \in SUBSET Labels :
             /\ Confirm(r, d, kind, ids)
             /\ kind = "extract" => jobs[d] = "awaiting_review"
             /\ kind # "extract" => backfill[d] # "none"
             /\ kind = "backfill" => ids = {}
             /\ kind # "backfill" => ids # {}
             /\ \A t \in ids \cap Topics : topics[t] # "deleted"
<1> USE LibraryAssumption
<1>1. \A t \in Live(Topics) \cup Fresh : topics[t] # "deleted"
  BY DEF Live, Fresh
<1>2. CASE jobs[d] = "awaiting_review" /\ \E made \in Made :
             Confirm(r, d, "extract", _resolve_confirmed_topic_ids(StagedTopics(d), made))
  <2>1. PICK made \in Made :
          Confirm(r, d, "extract", _resolve_confirmed_topic_ids(StagedTopics(d), made))
    BY <1>2
  <2>2. StagedTopics(d) \in SUBSET Live(Topics) /\ Live(Topics) \subseteq Topics
    BY StagedLive DEF Typed, Live
  <2> DEFINE ids == _resolve_confirmed_topic_ids(StagedTopics(d), made)
  <2>3. /\ ids \in SUBSET Labels /\ ids # {}
        /\ \A t \in ids \cap Topics : t \in Live(Topics) \cup Fresh
    BY <2>2, Resolved
  <2> HIDE DEF ids
  <2> QED
    BY <1>1, <1>2, <2>1, <2>3 DEF ids
<1>3. CASE backfill[d] = "backfill" /\ Confirm(r, d, "backfill", {})
  BY <1>3
<1>4. CASE backfill[d] = "reextract" /\ \E chosen \in SUBSET Live(Topics), made \in Made :
             Confirm(r, d, "reextract", _resolve_confirmed_topic_ids(chosen, made))
  <2>1. PICK chosen \in SUBSET Live(Topics), made \in Made :
          Confirm(r, d, "reextract", _resolve_confirmed_topic_ids(chosen, made))
    BY <1>4
  <2>2. chosen \in SUBSET Topics
    BY DEF Live
  <2> DEFINE ids == _resolve_confirmed_topic_ids(chosen, made)
  <2>3. /\ ids \in SUBSET Labels /\ ids # {}
        /\ \A t \in ids \cap Topics : t \in Live(Topics) \cup Fresh
    BY <2>2, Resolved
  <2> HIDE DEF ids
  <2> QED
    BY <1>1, <1>4, <2>1, <2>3 DEF ids
<1> QED
  BY <1>2, <1>3, <1>4 DEF confirm_job

LEMMA ConfirmOpened ==
    ASSUME Typed, NEW r \in Requests, NEW d \in Documents,
           NEW kind \in {"extract", "backfill", "reextract"}, NEW ids \in SUBSET Labels,
           Confirm(r, d, kind, ids)
    PROVE  /\ req' \in [Requests -> Request]
           /\ \A q \in Requests : Named(req'[q])
           /\ req[r].at = "idle"
           /\ req'[r].at = "labels_resolved" /\ req'[r].doc = d /\ req'[r].kind = kind
           /\ req'[r].ids = ids /\ req'[r].adds = ids \ links[d]
           /\ \A q \in Requests \ {r} : req'[q] = req[q]
           /\ \A q \in Requests : req[q].at = "labels_resolved" => req[q].doc # d
           /\ UNCHANGED <<tables, run, files, races, refiled>>
<1> DEFINE next == Confirming(d, kind, ids)
<1>1. /\ next \in Request /\ Named(next)
      /\ next.at = "labels_resolved" /\ next.doc = d /\ next.kind = kind
      /\ next.ids = ids /\ next.adds = ids \ links[d]
  BY NoRequestTyped DEF Confirming, Request, Steps, Named
<1>2. Open(r, next)
  BY DEF Confirm, Confirming
<1> HIDE DEF next
<1>3. /\ req[r].at = "idle" /\ req' \in [Requests -> Request]
      /\ \A q \in Requests : Named(req'[q])
      /\ \A q \in Requests : req'[q] = IF q = r THEN next ELSE req[q]
  BY <1>1, <1>2, Opened
<1> QED
  BY <1>1, <1>3 DEF Confirm, Deciding

\* A topic delete once it has read and written.
Relabelled(r) ==
    [req[r] EXCEPT !.at = "relabelled", !.links = links,
                   !.suggested = Naming(req[r].topic),
                   !.chunked = {d \in req[r].docs : chunks[d] # {}}]

LEMMA RelabelOpened ==
    ASSUME Typed, NEW r \in Requests, Relabel(r)
    PROVE  /\ Relabelled(r) \in Request /\ Named(Relabelled(r))
           /\ req' = [req EXCEPT ![r] = Relabelled(r)]
           /\ req'[r].at = "relabelled" /\ req'[r].links = links
           /\ req'[r].docs = req[r].docs /\ req'[r].topic = req[r].topic
           /\ req'[r].during = req[r].during
           /\ req'[r].suggested = Naming(req[r].topic)
           /\ req'[r].chunked = {d \in req[r].docs : chunks[d] # {}}
           /\ \A q \in Requests \ {r} : req'[q] = req[q]
<1>1. req[r] \in Request /\ req[r].at = "documents_listed" /\ req[r].topic \in Topics
  BY DEF Typed, TypeOK, Relabel, Named
<1>2. /\ Naming(req[r].topic) \in [Documents -> SUBSET Topics]
      /\ {d \in req[r].docs : chunks[d] # {}} \in SUBSET Documents
  BY <1>1 DEF Naming, Typed, TypeOK, Request
<1>3. /\ Relabelled(r) \in Request /\ Named(Relabelled(r))
      /\ Relabelled(r).at = "relabelled" /\ Relabelled(r).links = links
      /\ Relabelled(r).docs = req[r].docs /\ Relabelled(r).topic = req[r].topic
      /\ Relabelled(r).during = req[r].during
      /\ Relabelled(r).suggested = Naming(req[r].topic)
      /\ Relabelled(r).chunked = {d \in req[r].docs : chunks[d] # {}}
  BY <1>1, <1>2 DEF Relabelled, Request, Steps, Typed, TypeOK, Named
<1>4. req' = [req EXCEPT ![r] = Relabelled(r)]
  BY <1>1 DEF Relabel, Relabelled, Typed, TypeOK, Request
<1>5. req'[r] = Relabelled(r) /\ \A q \in Requests \ {r} : req'[q] = req[q]
  BY <1>4 DEF Typed, TypeOK
<1> QED
  BY <1>3, <1>4, <1>5

-----------------------------------------------------------------------------
(* Types *)

LEMMA TypeStep == Typed /\ [Next]_vars => Typed'
<1> SUFFICES ASSUME Typed, [Next]_vars PROVE Typed'
  OBVIOUS
<1> USE LibraryAssumption DEF Typed
<1>1. ASSUME NEW r \in Requests, NEW b \in Batches, upload_documents(r, b) PROVE Typed'
  <2>1. PICK ids \in SUBSET Known :
          Open(r, [NoRequest EXCEPT !.at = "writing_files", !.batch = b, !.ids = ids])
    BY <1>1 DEF upload_documents
  <2>2. [NoRequest EXCEPT !.at = "writing_files", !.batch = b, !.ids = ids] \in Request
    BY NoRequestTyped DEF Request, Steps, Known, Labels
  <2>3. Named([NoRequest EXCEPT !.at = "writing_files", !.batch = b, !.ids = ids])
    BY NoRequestTyped DEF Named, Request, Known
  <2> QED
    BY <1>1, <2>1, <2>2, <2>3, Opened DEF upload_documents, TypeOK, tables
<1>2. ASSUME NEW r \in Requests, NEW d \in Documents, write_file(r, d) PROVE Typed'
  BY <1>2 DEF write_file, TypeOK, tables
<1>3. ASSUME NEW r \in Requests, CommitUpload(r) PROVE Typed'
  <2>1. req[r].batch \in Batches /\ req[r].ids \in SUBSET Topics
    BY <1>3 DEF CommitUpload, Named
  <2>2. BatchDocuments(req[r].batch) \subseteq Documents
    BY DEF BatchDocuments
  <2> QED
    BY <1>3, <2>1, <2>2, Closed DEF CommitUpload, TypeOK, _STAGED_JOB_STATUSES
<1>4. ASSUME NEW d \in Documents, StartRun(d) PROVE Typed'
  <2>1. Suggestions(d) \subseteq SUBSET Topics
    BY DEF Suggestions, TypeOK, Live
  <2> QED
    BY <1>4, <2>1 DEF StartRun, TypeOK, _STAGED_JOB_STATUSES
<1>5. ASSUME NEW d \in Documents, StageRun(d) PROVE Typed'
  BY <1>5 DEF StageRun, TypeOK, _STAGED_JOB_STATUSES
<1>6. ASSUME NEW d \in Documents, patch_review(d) PROVE Typed'
  BY <1>6 DEF patch_review, TypeOK, Live, tables
<1>7. ASSUME NEW t \in Topics, create_topic(t) PROVE Typed'
  BY <1>7 DEF create_topic, TypeOK, tables
<1>8. ASSUME NEW r \in Requests, NEW d \in Documents, confirm_job(r, d) PROVE Typed'
  <2>1. PICK kind \in {"extract", "backfill", "reextract"}, ids \in SUBSET Labels :
          Confirm(r, d, kind, ids)
    BY <1>8, Confirms
  <2>2. /\ req' \in [Requests -> Request] /\ \A q \in Requests : Named(req'[q])
        /\ UNCHANGED <<tables, run, files, races, refiled>>
    BY <2>1, ConfirmOpened
  <2> QED
    BY <2>2 DEF TypeOK, tables
<1>9. ASSUME NEW r \in Requests, CommitConfirm(r) PROVE Typed'
  <2>1. req[r] \in Request /\ req[r].at = "labels_resolved"
    BY <1>9 DEF TypeOK, CommitConfirm
  <2>2. /\ req' \in [Requests -> Request] /\ \A q \in Requests : Named(req'[q])
    BY <1>9, NoRequestTyped, Committed DEF CommitConfirm, Kinds
  <2>3. /\ req[r].doc \in Documents
        /\ req[r].ids \in SUBSET Labels /\ req[r].adds \in SUBSET Labels
    BY <2>1 DEF Named, Request
  <2> QED
    BY <1>9, <2>2, <2>3 DEF CommitConfirm, TypeOK
<1>10. ASSUME NEW r \in Requests, NEW t \in Topics, delete_topic(r, t) PROVE Typed'
  <2>1. [NoRequest EXCEPT !.at = "documents_listed", !.topic = t,
                          !.docs = {d \in Documents : t \in links[d]}] \in Request
    BY NoRequestTyped DEF Request, Steps
  <2>2. Named([NoRequest EXCEPT !.at = "documents_listed", !.topic = t,
                                !.docs = {d \in Documents : t \in links[d]}])
    BY NoRequestTyped DEF Named, Request
  <2> QED
    BY <1>10, <2>1, <2>2, Opened DEF delete_topic, TypeOK, tables
<1>11. ASSUME NEW r \in Requests, Relabel(r) PROVE Typed'
  <2>1. req[r] \in Request
    BY DEF TypeOK
  <2>2. /\ Relabelled(r) \in Request /\ Named(Relabelled(r))
        /\ req' = [req EXCEPT ![r] = Relabelled(r)]
    BY <1>11, RelabelOpened
  <2>4. req' \in [Requests -> Request] /\ \A q \in Requests : Named(req'[q])
    BY <2>2 DEF TypeOK
  <2> QED
    BY <1>11, <2>4 DEF Relabel, TypeOK, tables
<1>12. ASSUME NEW r \in Requests, CommitDeleteTopic(r) PROVE Typed'
  <2>1. req[r] \in Request
    BY DEF TypeOK
  <2>2. /\ req' \in [Requests -> Request] /\ \A q \in Requests : Named(req'[q])
        /\ races' \subseteq {"labels", "batch"}
    BY <1>12, NoRequestTyped, Committed, Raced DEF CommitDeleteTopic, Kinds
  <2>3. \A d \in Documents : /\ Relinked(r, d) \in SUBSET Labels
                             /\ resync_chunk_topic_ids(r, d) \in SUBSET Labels
                             /\ _clear_topic_from_staged_jobs(r, d) \in SUBSET Topics
    BY <2>1 DEF Relinked, resync_chunk_topic_ids, _clear_topic_from_staged_jobs,
                TypeOK, Request, Labels
  <2> QED
    BY <1>12, <2>1, <2>2, <2>3 DEF CommitDeleteTopic, TypeOK
<1>13. ASSUME NEW r \in Requests, Refuse(r) PROVE Typed'
  BY <1>13, Closed DEF Refuse, TypeOK, tables
<1>14. ASSUME NEW r \in Requests, NEW d \in Documents, delete_document(r, d) PROVE Typed'
  <2>1. [NoRequest EXCEPT !.at = "rows_deleted", !.doc = d, !.last = LastOfBatch(d)] \in Request
    BY NoRequestTyped DEF Request, Steps, LastOfBatch
  <2>2. Named([NoRequest EXCEPT !.at = "rows_deleted", !.doc = d, !.last = LastOfBatch(d)])
    BY NoRequestTyped DEF Named, Request
  <2> QED
    BY <1>14, <2>1, <2>2, Opened DEF delete_document, TypeOK, tables
<1>15. ASSUME NEW r \in Requests, CommitDeleteDocument(r) PROVE Typed'
  <2>1. req[r] \in Request
    BY DEF TypeOK
  <2>2. [NoRequest EXCEPT !.at = "rows_gone", !.doc = req[r].doc] \in Request
        /\ Named([NoRequest EXCEPT !.at = "rows_gone", !.doc = req[r].doc])
    BY <1>15, <2>1, NoRequestTyped DEF CommitDeleteDocument, Request, Steps, Named
  <2>3. /\ req' \in [Requests -> Request] /\ \A q \in Requests : Named(req'[q])
        /\ races' \subseteq {"labels", "batch"}
    BY <1>15, <2>2, Committed, Raced DEF CommitDeleteDocument, Kinds
  <2> QED
    BY <1>15, <2>1, <2>3 DEF CommitDeleteDocument, TypeOK, Request
<1>16. ASSUME NEW r \in Requests, delete_file(r) PROVE Typed'
  BY <1>16, Closed DEF delete_file, TypeOK, tables
<1>17. CASE Crash
  BY <1>17, NoRequestTyped DEF Crash, TypeOK, tables
<1>18. CASE UNCHANGED vars
  BY <1>18 DEF vars, TypeOK, tables
<1>19. ASSUME NEW d \in Documents, _enqueue_backfill(d) \/ reextract_job(d) PROVE Typed'
  <2>1. /\ UNCHANGED <<topics, batches, hint, documents, links, chunks, suggested, files,
                     req, races, refiled>>
        /\ jobs' = jobs \/ jobs' = [jobs EXCEPT ![d] = "extracting"]
        /\ run' = run \/ run' = [run EXCEPT ![d] = suggested[d]]
        /\ \/ backfill' = backfill
           \/ \E kind \in {"backfill", "reextract"} : backfill' = [backfill EXCEPT ![d] = kind]
    BY <1>19 DEF _enqueue_backfill, reextract_job
  <2> QED
    BY <2>1 DEF TypeOK, _STAGED_JOB_STATUSES
<1>20. ASSUME NEW r \in Requests, CommitBackfill(r) PROVE Typed'
  BY <1>20, Closed DEF CommitBackfill, TypeOK
<1> QED
  BY <1>1, <1>2, <1>3, <1>4, <1>5, <1>6, <1>7, <1>8, <1>9, <1>10, <1>11, <1>12,
     <1>13, <1>14, <1>15, <1>16, <1>17, <1>18, <1>19, <1>20 DEF Next

\* Every reachable state is typed.
THEOREM TypeCorrect == Spec => []TypeOK
<1>1. Init => Typed
  BY NoRequestTyped, LibraryAssumption DEF Init, Typed, TypeOK
<1>2. Typed => TypeOK
  BY DEF Typed
<1> QED
  BY <1>1, <1>2, TypeStep, PTL DEF Spec

-----------------------------------------------------------------------------
(* Rows and files *)

Present == {"queued", "extracting", "awaiting_review", "confirmed"}

\* A document has a row exactly while its job has a status.
RowsMatchJobs == \A d \in Documents : d \in documents <=> jobs[d] \in Present

\* An upload under way is of documents never seen, and nobody else's.
UploadsAreNew ==
    /\ \A r \in Requests : req[r].at = "writing_files" =>
         \A d \in BatchDocuments(req[r].batch) : jobs[d] = "none"
    /\ \A r, q \in Requests :
         req[r].at = "writing_files" /\ req[q].at = "writing_files"
           /\ req[r].batch = req[q].batch => r = q

\* A delete that has not committed holds a document that is there, alone.
DeletesHoldRows ==
    /\ \A r \in Requests : req[r].at = "rows_deleted" => req[r].doc \in documents
    /\ \A r, q \in Requests :
         req[r].at = "rows_deleted" /\ req[q].at = "rows_deleted"
           /\ req[r].doc = req[q].doc => r = q

\* A file is only unlinked for a document that is gone for good.
GoneForGood ==
    \A r \in Requests : req[r].at = "rows_gone" => jobs[req[r].doc] = "deleted"

FilesInv ==
    RowsHaveFiles /\ RowsMatchJobs /\ UploadsAreNew /\ DeletesHoldRows /\ GoneForGood

\* A job moves on among the statuses of a document that has a row.
LEMMA FilesKept ==
    ASSUME FilesInv, documents' = documents, files' = files, req' = req,
           \A d \in Documents : jobs'[d] = jobs[d]
                               \/ (jobs[d] \in Present /\ jobs'[d] \in Present),
           \A r \in Requests : req[r].at = "rows_gone" => req[r].doc \in Documents
    PROVE  FilesInv'
  BY DEF FilesInv, RowsHaveFiles, RowsMatchJobs, UploadsAreNew, DeletesHoldRows,
         GoneForGood, BatchDocuments, Present

\* A request that has not got to writing or deleting rows and files opens or closes.
LEMMA FilesIdle ==
    ASSUME FilesInv, NEW r \in Requests,
           req'[r].at \notin {"writing_files", "rows_deleted", "rows_gone"},
           \A q \in Requests \ {r} : Carries(req[q], req'[q]),
           UNCHANGED <<documents, files, jobs>>
    PROVE  FilesInv'
  BY DEF FilesInv, RowsHaveFiles, RowsMatchJobs, UploadsAreNew, DeletesHoldRows,
         GoneForGood, BatchDocuments, Present, Carries

LEMMA FilesStep == Typed /\ FilesInv /\ [Next]_vars => FilesInv'
<1> SUFFICES ASSUME Typed, FilesInv, [Next]_vars PROVE FilesInv'
  OBVIOUS
<1> USE LibraryAssumption
<1>0. \A q \in Requests : Named(req[q])
  BY DEF Typed
<1>a. \A q \in Requests : req[q].at = "rows_gone" => req[q].doc \in Documents
  BY <1>0 DEF Named
<1>b. jobs \in [Documents -> Present \cup {"none", "deleted"}]
  BY DEF Typed, TypeOK, Present, _STAGED_JOB_STATUSES
<1>1. ASSUME NEW r \in Requests, NEW b \in Batches, upload_documents(r, b) PROVE FilesInv'
  <2>1. PICK ids \in SUBSET Known :
          Open(r, [NoRequest EXCEPT !.at = "writing_files", !.batch = b, !.ids = ids])
    BY <1>1 DEF upload_documents
  <2>2. req' = [req EXCEPT ![r] = [NoRequest EXCEPT !.at = "writing_files", !.batch = b, !.ids = ids]]
    BY <2>1 DEF Open
  <2>3. /\ req'[r].at = "writing_files" /\ req'[r].batch = b
        /\ \A q \in Requests \ {r} : req'[q] = req[q]
    BY <2>2 DEF NoRequest, Typed, TypeOK
  <2> QED
    BY <1>1, <2>3 DEF upload_documents, tables, Unused, FilesInv, RowsHaveFiles,
       RowsMatchJobs, UploadsAreNew, DeletesHoldRows, GoneForGood, BatchDocuments
<1>2. ASSUME NEW r \in Requests, NEW d \in Documents, write_file(r, d) PROVE FilesInv'
  BY <1>2 DEF write_file, tables, FilesInv, RowsHaveFiles, RowsMatchJobs, UploadsAreNew,
     DeletesHoldRows, GoneForGood, BatchDocuments
<1>3. ASSUME NEW r \in Requests, CommitUpload(r) PROVE FilesInv'
  <2>1. /\ req'[r].at = "idle"
        /\ \A q \in Requests \ {r} : req'[q] = req[q]
    BY <1>3, Closed, NoRequestTyped DEF CommitUpload
  <2>2. /\ req[r].at = "writing_files"
        /\ BatchDocuments(req[r].batch) \subseteq files
        /\ documents' = documents \cup BatchDocuments(req[r].batch)
        /\ \A d \in Documents :
             jobs'[d] = IF d \in BatchDocuments(req[r].batch) THEN "queued" ELSE jobs[d]
        /\ files' = files
    BY <1>3 DEF CommitUpload, AllWritten
  <2>3. \A q \in Requests \ {r} : req[q].at = "writing_files" =>
          BatchDocuments(req[q].batch) \cap BatchDocuments(req[r].batch) = {}
    BY <2>2 DEF FilesInv, UploadsAreNew, BatchDocuments
  <2>4. RowsHaveFiles' /\ RowsMatchJobs'
    BY <2>2 DEF FilesInv, RowsHaveFiles, RowsMatchJobs, Present, BatchDocuments
  <2>5. UploadsAreNew'
    BY <2>1, <2>2, <2>3 DEF FilesInv, UploadsAreNew, BatchDocuments
  <2>6. DeletesHoldRows' /\ GoneForGood'
    BY <1>0, <2>1, <2>2 DEF FilesInv, UploadsAreNew, DeletesHoldRows, GoneForGood, Named
  <2> QED
    BY <2>4, <2>5, <2>6 DEF FilesInv
<1>4. ASSUME NEW d \in Documents, StartRun(d) \/ StageRun(d) \/ patch_review(d)
      PROVE FilesInv'
  <2>1. UNCHANGED <<documents, files, req>>
    BY <1>4 DEF StartRun, StageRun, patch_review
  <2>2. \/ jobs' = jobs
        \/ /\ jobs[d] \in Present
           /\ \E s \in Present : jobs' = [jobs EXCEPT ![d] = s]
    BY <1>4 DEF StartRun, StageRun, patch_review, Present
  <2>3. \A e \in Documents : jobs'[e] = jobs[e]
                            \/ (jobs[e] \in Present /\ jobs'[e] \in Present)
    BY <1>b, <2>2
  <2> QED
    BY <1>a, <2>1, <2>3, FilesKept
<1>5. ASSUME NEW t \in Topics, create_topic(t) PROVE FilesInv'
  <2>1. UNCHANGED <<documents, files, jobs, req>>
    BY <1>5 DEF create_topic
  <2>2. \A e \in Documents : jobs'[e] = jobs[e]
    BY <2>1
  <2> QED
    BY <1>a, <2>1, <2>2, FilesKept
<1>6. ASSUME NEW r \in Requests, NEW d \in Documents, confirm_job(r, d) PROVE FilesInv'
  <2>1. /\ req'[r].at = "labels_resolved"
        /\ \A q \in Requests \ {r} : req'[q] = req[q]
        /\ UNCHANGED <<documents, files, jobs>>
    BY <1>6, Confirms, ConfirmOpened DEF tables
  <2> QED
    BY <2>1, FilesIdle DEF Carries
<1>7. ASSUME NEW r \in Requests, NEW t \in Topics, delete_topic(r, t) PROVE FilesInv'
  <2>1. /\ req'[r].at = "documents_listed"
        /\ \A q \in Requests \ {r} : req'[q] = req[q]
    BY <1>7 DEF delete_topic, Open, NoRequest, Typed, TypeOK
  <2> QED
    BY <1>7, <2>1, FilesIdle DEF delete_topic, tables, Carries
<1>8. ASSUME NEW r \in Requests, Relabel(r) PROVE FilesInv'
  <2>1. /\ req'[r].at = "relabelled"
        /\ \A q \in Requests \ {r} : req'[q] = req[q]
    BY <1>8, RelabelOpened
  <2> QED
    BY <1>8, <2>1, FilesIdle DEF Relabel, tables, Carries
<1>9. ASSUME NEW r \in Requests, CommitConfirm(r) PROVE FilesInv'
  <2>1. /\ req'[r].at = "idle"
        /\ \A q \in Requests \ {r} : Carries(req[q], req'[q])
    BY <1>9, Committed, NoRequestTyped DEF CommitConfirm, Kinds
  <2>2. /\ req[r].doc \in documents
        /\ jobs' = jobs \/ jobs' = [jobs EXCEPT ![req[r].doc] = "confirmed"]
        /\ UNCHANGED <<documents, files>>
    BY <1>9 DEF CommitConfirm, ConfirmRefused
  <2>3. \A d \in Documents : jobs'[d] = jobs[d]
                            \/ (jobs[d] \in Present /\ jobs'[d] \in Present)
    <3>1. \A d \in Documents : d # req[r].doc => jobs'[d] = jobs[d]
      BY <1>b, <2>2
    <3>2. req[r].doc \in Documents => jobs[req[r].doc] \in Present
      BY <2>2 DEF FilesInv, RowsMatchJobs
    <3>3. req[r].doc \in Documents => jobs'[req[r].doc] \in Present
      BY <1>b, <2>2, <3>2 DEF Present
    <3> QED
      BY <3>1, <3>2, <3>3
  <2> QED
    BY <1>0, <2>1, <2>2, <2>3 DEF FilesInv, RowsHaveFiles, RowsMatchJobs, UploadsAreNew,
       DeletesHoldRows, GoneForGood, BatchDocuments, Present, Carries, Named
<1>10. ASSUME NEW r \in Requests, CommitDeleteTopic(r) PROVE FilesInv'
  <2>1. /\ req'[r].at = "idle"
        /\ \A q \in Requests \ {r} : Carries(req[q], req'[q])
    BY <1>10, Committed, NoRequestTyped DEF CommitDeleteTopic, Kinds
  <2> QED
    BY <1>10, <2>1, FilesIdle DEF CommitDeleteTopic
<1>11. ASSUME NEW r \in Requests, Refuse(r) PROVE FilesInv'
  <2>1. /\ req'[r].at = "idle"
        /\ \A q \in Requests \ {r} : req'[q] = req[q]
    BY <1>11, Closed, NoRequestTyped DEF Refuse
  <2> QED
    BY <1>11, <2>1, FilesIdle DEF Refuse, tables, Carries
<1>12. ASSUME NEW r \in Requests, NEW d \in Documents, delete_document(r, d) PROVE FilesInv'
  <2>1. /\ req'[r].at = "rows_deleted" /\ req'[r].doc = d
        /\ \A q \in Requests \ {r} : req'[q] = req[q]
    BY <1>12 DEF delete_document, Open, NoRequest, Typed, TypeOK
  <2> QED
    BY <1>12, <2>1 DEF delete_document, tables, Deleting, FilesInv, RowsHaveFiles,
       RowsMatchJobs, UploadsAreNew, DeletesHoldRows, GoneForGood, BatchDocuments
<1>13. ASSUME NEW r \in Requests, CommitDeleteDocument(r) PROVE FilesInv'
  <2>1. req[r] \in Request /\ req[r].at = "rows_deleted" /\ req[r].doc \in documents
    BY <1>13 DEF CommitDeleteDocument, FilesInv, DeletesHoldRows, Typed, TypeOK
  <2>2. LET next == [NoRequest EXCEPT !.at = "rows_gone", !.doc = req[r].doc]
        IN  next \in Request /\ Named(next) /\ next.at = "rows_gone" /\ next.doc = req[r].doc
    BY <1>0, <2>1, NoRequestTyped DEF Request, Steps, Named
  <2>3. /\ req'[r].at = "rows_gone" /\ req'[r].doc = req[r].doc
        /\ \A q \in Requests \ {r} : Carries(req[q], req'[q])
    BY <1>13, <2>2, Committed DEF CommitDeleteDocument, Kinds
  <2>4. /\ documents' = documents \ {req[r].doc} /\ files' = files
        /\ \A d \in Documents : jobs'[d] = IF d = req[r].doc THEN "deleted" ELSE jobs[d]
    BY <1>13 DEF CommitDeleteDocument, Typed, TypeOK
  <2>5. RowsHaveFiles' /\ RowsMatchJobs'
    BY <2>4 DEF FilesInv, RowsHaveFiles, RowsMatchJobs, Present
  <2>6. UploadsAreNew'
    BY <2>1, <2>3, <2>4 DEF FilesInv, UploadsAreNew, RowsMatchJobs, Present, BatchDocuments, Carries
  <2>7. DeletesHoldRows' /\ GoneForGood'
    BY <1>0, <2>1, <2>3, <2>4 DEF FilesInv, DeletesHoldRows, GoneForGood, Carries, Named
  <2> QED
    BY <2>5, <2>6, <2>7 DEF FilesInv
<1>14. ASSUME NEW r \in Requests, delete_file(r) PROVE FilesInv'
  <2>1. /\ req'[r].at = "idle"
        /\ \A q \in Requests \ {r} : req'[q] = req[q]
    BY <1>14, Closed, NoRequestTyped DEF delete_file
  <2>2. req[r].doc \notin documents
    BY <1>0, <1>14 DEF delete_file, FilesInv, GoneForGood, RowsMatchJobs, Present, Named
  <2> QED
    BY <1>14, <2>1, <2>2 DEF delete_file, tables, FilesInv, RowsHaveFiles,
       RowsMatchJobs, UploadsAreNew, DeletesHoldRows, GoneForGood, BatchDocuments
<1>15. CASE Crash
  BY <1>15, NoRequestTyped DEF Crash, tables, FilesInv, RowsHaveFiles,
     RowsMatchJobs, UploadsAreNew, DeletesHoldRows, GoneForGood
<1>16. CASE UNCHANGED vars
  BY <1>16 DEF vars, tables, FilesInv, RowsHaveFiles, RowsMatchJobs, UploadsAreNew,
     DeletesHoldRows, GoneForGood, BatchDocuments
<1>17. ASSUME NEW d \in Documents, _enqueue_backfill(d) \/ reextract_job(d)
       PROVE FilesInv'
  <2>1. /\ UNCHANGED <<documents, files, req>>
        /\ \/ jobs' = jobs
           \/ jobs[d] = "awaiting_review" /\ jobs' = [jobs EXCEPT ![d] = "extracting"]
    BY <1>17 DEF _enqueue_backfill, reextract_job
  <2>2. \A e \in Documents : jobs'[e] = jobs[e]
                            \/ (jobs[e] \in Present /\ jobs'[e] \in Present)
    BY <1>b, <2>1 DEF Present
  <2> QED
    BY <1>a, <2>1, <2>2, FilesKept
<1>18. ASSUME NEW r \in Requests, CommitBackfill(r) PROVE FilesInv'
  <2>1. /\ req'[r].at = "idle"
        /\ \A q \in Requests \ {r} : req'[q] = req[q]
    BY <1>18, Closed, NoRequestTyped DEF CommitBackfill
  <2> QED
    BY <1>18, <2>1, FilesIdle DEF CommitBackfill, Carries
<1> QED
  BY <1>1, <1>2, <1>3, <1>4, <1>5, <1>6, <1>7, <1>8, <1>9, <1>10, <1>11, <1>12,
     <1>13, <1>14, <1>15, <1>16, <1>17, <1>18 DEF Next

\* A document that has a row has its file, whatever overlaps and whenever the
\* process dies.
THEOREM FilesOutliveRows == Spec => []RowsHaveFiles
<1>1. Init => Typed /\ FilesInv
  BY NoRequestTyped, LibraryAssumption DEF Init, Typed, TypeOK, FilesInv, RowsHaveFiles,
     RowsMatchJobs, Present, UploadsAreNew, DeletesHoldRows, GoneForGood
<1>2. FilesInv => RowsHaveFiles
  BY DEF FilesInv
<1> QED
  BY <1>1, <1>2, TypeStep, FilesStep, PTL DEF Spec

-----------------------------------------------------------------------------
(* Refusals *)

LabelsHaveRows ==
    \A d \in Documents :
      links[d] # {} \/ suggested[d] # {} \/ backfill[d] # "none" => d \in documents

\* What request q has read is still so, unless another has committed since.
Current(q) ==
    /\ q.during = {} =>
         /\ q.at = "labels_resolved" =>
              /\ q.doc \in documents /\ q.adds \cap links[q.doc] = {}
              /\ \A t \in q.adds \cap Topics : topics[t] # "deleted"
         /\ q.at = "documents_listed" => q.docs \subseteq documents
         /\ q.at = "relabelled" =>
              \A d \in Documents : /\ links[d] \subseteq q.links[d]
                                   /\ q.suggested[d] # {} => d \in documents
    /\ q.at = "relabelled" => Orphaned(q.docs, q.topic, q.links) \subseteq documents

\* A topic delete that has written holds its documents against a document
\* delete.
Apart(q, p) == q.at = "relabelled" /\ p.at = "rows_deleted" => p.doc \notin q.docs

RefusalInv ==
    /\ LabelsHaveRows
    /\ \A r \in Requests : Current(req[r])
    /\ \A r, q \in Requests : Apart(req[r], req[q])

\* One request moves, the tables do not, but for topics that come to life.
LEMMA RefusalMoved ==
    ASSUME RefusalInv, NEW r \in Requests,
           UNCHANGED <<documents, links, suggested>>,
           \A d \in Documents : backfill'[d] \in {backfill[d], "none"},
           \A t \in Topics : topics'[t] = "deleted" => topics[t] = "deleted",
           \A q \in Requests \ {r} : req'[q] = req[q],
           Current(req[r])',
           \A q \in Requests : Apart(req[r], req[q])' /\ Apart(req[q], req[r])'
    PROVE  RefusalInv'
  BY DEF RefusalInv, LabelsHaveRows, Current, Apart

\* One request commits and is done with the tables: the others are overtaken.
LEMMA RefusalCommitted ==
    ASSUME RefusalInv, NEW r \in Requests, NEW kind \in Kinds,
           req'[r].at \in {"idle", "rows_gone"},
           \A q \in Requests \ {r} : Carries(req[q], req'[q])
                                     /\ Overtakes(kind, req[q], req'[q]),
           LabelsHaveRows',
           \A q \in Requests \ {r} : req[q].at = "relabelled" =>
             Orphaned(req[q].docs, req[q].topic, req[q].links) \subseteq documents'
    PROVE  RefusalInv'
<1>1. \A q \in Requests \ {r} : Current(req[q])'
  BY DEF RefusalInv, Current, Carries, Overtakes, Orphaned
<1>2. Current(req[r])'
  BY DEF Current
<1>3. \A p, q \in Requests : Apart(req[p], req[q])'
  BY DEF RefusalInv, Apart, Carries
<1> QED
  BY <1>1, <1>2, <1>3 DEF RefusalInv

\* A row appears, or a result is staged for one.
LEMMA RefusalGrown ==
    ASSUME RefusalInv, documents \subseteq documents', UNCHANGED <<topics, links>>,
           \A d \in Documents :
             suggested'[d] # {} \/ backfill'[d] # "none" => d \in documents',
           NEW r \in Requests,
           \A q \in Requests \ {r} : req'[q] = req[q],
           req'[r] = req[r] \/ req'[r].at = "idle"
    PROVE  RefusalInv'
<1>1. LabelsHaveRows'
  BY DEF RefusalInv, LabelsHaveRows
<1>2. \A q \in Requests : Current(req[q])'
  BY DEF RefusalInv, Current
<1>3. \A p, q \in Requests : Apart(req[p], req[q])'
  BY DEF RefusalInv, Apart
<1> QED
  BY <1>1, <1>2, <1>3 DEF RefusalInv

LEMMA RefusalStep == Typed /\ FilesInv /\ RefusalInv /\ [Next]_vars => RefusalInv'
<1> SUFFICES ASSUME Typed, FilesInv, RefusalInv, [Next]_vars PROVE RefusalInv'
  OBVIOUS
<1> USE LibraryAssumption
<1>0. /\ \A q \in Requests : Named(req[q]) /\ req[q] \in Request
      /\ DOMAIN topics = Topics /\ DOMAIN suggested = Documents /\ DOMAIN links = Documents
      /\ DOMAIN backfill = Documents
  BY DEF Typed, TypeOK
<1>1. ASSUME NEW r \in Requests, NEW b \in Batches, upload_documents(r, b) PROVE RefusalInv'
  <2>1. /\ req'[r].at = "writing_files"
        /\ \A q \in Requests \ {r} : req'[q] = req[q]
    BY <1>1 DEF upload_documents, Open, NoRequest, Typed, TypeOK
  <2>2. UNCHANGED <<documents, links, suggested, topics, backfill>>
    BY <1>1 DEF upload_documents, tables
  <2> QED
    BY <2>1, <2>2, RefusalMoved DEF Current, Apart
<1>2. ASSUME NEW r \in Requests, NEW d \in Documents, write_file(r, d) PROVE RefusalInv'
  BY <1>2 DEF write_file, tables, RefusalInv, LabelsHaveRows, Current, Apart
<1>3. ASSUME NEW r \in Requests, CommitUpload(r) PROVE RefusalInv'
  <2>1. /\ req'[r].at = "idle"
        /\ \A q \in Requests \ {r} : req'[q] = req[q]
    BY <1>3, Closed, NoRequestTyped DEF CommitUpload
  <2>2. documents \subseteq documents' /\ UNCHANGED <<topics, links, suggested, backfill>>
    BY <1>3 DEF CommitUpload
  <2>3. \A d \in Documents :
          suggested'[d] # {} \/ backfill'[d] # "none" => d \in documents'
    BY <2>2 DEF RefusalInv, LabelsHaveRows
  <2> QED
    BY <2>1, <2>2, <2>3, RefusalGrown
<1>4. ASSUME NEW d \in Documents, StartRun(d) PROVE RefusalInv'
  BY <1>4 DEF StartRun, RefusalInv, LabelsHaveRows, Current, Apart
<1>5. ASSUME NEW d \in Documents, StageRun(d) \/ patch_review(d) PROVE RefusalInv'
  <2>1. /\ d \in documents
        /\ \A e \in Documents : e # d => suggested'[e] = suggested[e]
        /\ UNCHANGED <<topics, links, documents, req, backfill>>
    BY <1>0, <1>5 DEF StageRun, patch_review, FilesInv, RowsMatchJobs, Present
  <2>2. \A e \in Documents :
          suggested'[e] # {} \/ backfill'[e] # "none" => e \in documents'
    BY <2>1 DEF RefusalInv, LabelsHaveRows
  <2>3. \A q \in Requests : req'[q] = req[q]
    BY <2>1
  <2> QED
    BY <2>1, <2>2 DEF RefusalInv, LabelsHaveRows, Current, Apart
<1>6. ASSUME NEW t \in Topics, create_topic(t) PROVE RefusalInv'
  <2>1. \A s \in Topics : topics'[s] = "deleted" => topics[s] = "deleted"
    BY <1>0, <1>6 DEF create_topic
  <2> QED
    BY <1>6, <2>1 DEF create_topic, RefusalInv, LabelsHaveRows, Current, Apart
<1>7. ASSUME NEW r \in Requests, NEW d \in Documents, confirm_job(r, d) PROVE RefusalInv'
  <2>1. PICK kind \in {"extract", "backfill", "reextract"}, ids \in SUBSET Labels :
          /\ Confirm(r, d, kind, ids)
          /\ kind = "extract" => jobs[d] = "awaiting_review"
          /\ kind # "extract" => backfill[d] # "none"
          /\ \A t \in ids \cap Topics : topics[t] # "deleted"
    BY <1>7, Confirms
  <2>2. /\ req'[r].at = "labels_resolved" /\ req'[r].doc = d
        /\ req'[r].adds = ids \ links[d]
        /\ \A q \in Requests \ {r} : req'[q] = req[q]
        /\ UNCHANGED <<documents, links, suggested, topics, backfill>>
    BY <2>1, ConfirmOpened DEF tables
  <2>3. d \in documents
    BY <2>1 DEF FilesInv, RowsMatchJobs, Present, RefusalInv, LabelsHaveRows
  <2>4. \A t \in req'[r].adds \cap Topics : topics'[t] # "deleted"
    BY <2>1, <2>2
  <2>5. req'[r].adds \cap links'[req'[r].doc] = {}
    BY <2>2
  <2> QED
    BY <2>2, <2>3, <2>4, <2>5, RefusalMoved DEF Current, Apart
<1>8. ASSUME NEW r \in Requests, CommitConfirm(r) PROVE RefusalInv'
  <2>1. /\ req'[r].at = "idle"
        /\ \A q \in Requests \ {r} : Carries(req[q], req'[q])
                                     /\ Overtakes("confirm", req[q], req'[q])
    BY <1>8, Committed, NoRequestTyped DEF CommitConfirm, Kinds
  <2>2. /\ req[r].doc \in documents /\ UNCHANGED documents
        /\ \A d \in Documents : d # req[r].doc =>
             /\ links'[d] = links[d] /\ suggested'[d] = suggested[d]
             /\ backfill'[d] = backfill[d]
    BY <1>0, <1>8 DEF CommitConfirm, ConfirmRefused
  <2>3. LabelsHaveRows'
    BY <2>2 DEF RefusalInv, LabelsHaveRows
  <2>4. \A q \in Requests \ {r} : req[q].at = "relabelled" =>
          Orphaned(req[q].docs, req[q].topic, req[q].links) \subseteq documents'
    BY <2>2 DEF RefusalInv, Current
  <2> QED
    BY <2>1, <2>3, <2>4, RefusalCommitted DEF Kinds
<1>9. ASSUME NEW r \in Requests, NEW t \in Topics, delete_topic(r, t) PROVE RefusalInv'
  <2>1. /\ req'[r].at = "documents_listed"
        /\ req'[r].docs = {d \in Documents : t \in links[d]}
        /\ \A q \in Requests \ {r} : req'[q] = req[q]
        /\ UNCHANGED <<documents, links, suggested, topics, backfill>>
    BY <1>9 DEF delete_topic, Open, NoRequest, Typed, TypeOK, tables
  <2>2. req'[r].docs \subseteq documents'
    BY <2>1 DEF RefusalInv, LabelsHaveRows
  <2> QED
    BY <2>1, <2>2, RefusalMoved DEF Current, Apart
<1>10. ASSUME NEW r \in Requests, Relabel(r) PROVE RefusalInv'
  <2>1. /\ UNCHANGED <<documents, links, suggested, topics, backfill>>
        /\ Orphaned(req[r].docs, req[r].topic, links) \subseteq documents
        /\ \A d \in req[r].docs : ~Deleting(d)
    BY <1>10 DEF Relabel, tables
  <2>2. /\ req'[r].at = "relabelled" /\ req'[r].links = links
        /\ \A d \in Documents : req'[r].suggested[d] # {} => suggested[d] # {}
        /\ req'[r].docs = req[r].docs /\ req'[r].topic = req[r].topic
        /\ \A q \in Requests \ {r} : req'[q] = req[q]
    BY <1>10, RelabelOpened DEF Naming
  <2>3. Current(req[r])'
    BY <2>1, <2>2 DEF Current, RefusalInv, LabelsHaveRows, Orphaned
  <2>4. \A q \in Requests : req'[q].at = "rows_deleted" => req'[q].doc \notin req'[r].docs
    <3>1. \A q \in Requests : req[q].at = "rows_deleted" => req[q].doc \notin req[r].docs
      BY <2>1 DEF Deleting
    <3>2. \A q \in Requests \ {r} : req'[q] = req[q]
      BY <2>2
    <3> QED
      BY <2>2, <3>1, <3>2
  <2>5. \A q \in Requests : Apart(req[r], req[q])' /\ Apart(req[q], req[r])'
    BY <2>2, <2>4 DEF Apart
  <2> QED
    BY <2>1, <2>2, <2>3, <2>5, RefusalMoved
<1>11. ASSUME NEW r \in Requests, CommitDeleteTopic(r) PROVE RefusalInv'
  <2>1. /\ req'[r].at = "idle"
        /\ \A q \in Requests \ {r} : Carries(req[q], req'[q])
                                     /\ Overtakes("topic", req[q], req'[q])
    BY <1>11, Committed, NoRequestTyped DEF CommitDeleteTopic, Kinds
  <2>2. /\ Orphaned(req[r].docs, req[r].topic, req[r].links) \subseteq documents
        /\ documents' = documents
        /\ \A d \in Documents : req[r].topic \in req[r].suggested[d] => d \in documents
    BY <1>11 DEF CommitDeleteTopic, TopicRefused, RefusalInv, Current
  <2>3. \A d \in Documents : /\ links'[d] # {} => links[d] # {} \/ d \in documents
                             /\ suggested'[d] # {} => suggested[d] # {} \/ d \in documents
                             /\ backfill'[d] = backfill[d]
    BY <1>11, <2>2 DEF CommitDeleteTopic, Relinked, _clear_topic_from_staged_jobs
  <2>4. LabelsHaveRows'
    BY <2>2, <2>3 DEF RefusalInv, LabelsHaveRows
  <2>5. \A q \in Requests \ {r} : req[q].at = "relabelled" =>
          Orphaned(req[q].docs, req[q].topic, req[q].links) \subseteq documents'
    BY <2>2 DEF RefusalInv, Current
  <2> QED
    BY <2>1, <2>4, <2>5, RefusalCommitted DEF Kinds
<1>12. ASSUME NEW r \in Requests, Refuse(r) \/ delete_file(r) PROVE RefusalInv'
  <2>1. /\ req'[r].at = "idle"
        /\ \A q \in Requests \ {r} : req'[q] = req[q]
        /\ UNCHANGED <<documents, links, suggested, topics, backfill>>
    BY <1>12, Closed, NoRequestTyped DEF Refuse, delete_file, tables
  <2> QED
    BY <2>1, RefusalMoved DEF Current, Apart
<1>13. ASSUME NEW r \in Requests, NEW d \in Documents, delete_document(r, d)
       PROVE RefusalInv'
  <2>1. /\ req'[r].at = "rows_deleted" /\ req'[r].doc = d
        /\ \A q \in Requests \ {r} : req'[q] = req[q]
        /\ UNCHANGED <<documents, links, suggested, topics, backfill>>
        /\ ~Relabelling(d)
    BY <1>13 DEF delete_document, Open, NoRequest, Typed, TypeOK, tables
  <2> QED
    BY <2>1, RefusalMoved DEF Current, Apart, Relabelling
<1>14. ASSUME NEW r \in Requests, CommitDeleteDocument(r) PROVE RefusalInv'
  <2>1. req[r] \in Request /\ req[r].at = "rows_deleted"
    BY <1>0, <1>14 DEF CommitDeleteDocument
  <2> DEFINE next == [NoRequest EXCEPT !.at = "rows_gone", !.doc = req[r].doc]
  <2>2. next \in Request /\ Named(next) /\ next.at = "rows_gone"
    BY <1>0, <2>1, NoRequestTyped DEF Request, Steps, Named
  <2>3. /\ req'[r].at = "rows_gone"
        /\ \A q \in Requests \ {r} : Carries(req[q], req'[q])
                                     /\ Overtakes("document", req[q], req'[q])
    <3>1. Commit(r, "document", next)
      BY <1>14 DEF CommitDeleteDocument
    <3> HIDE DEF next
    <3> QED
      BY <2>2, <3>1, Committed DEF Kinds
  <2>4. /\ documents' = documents \ {req[r].doc}
        /\ \A d \in Documents : /\ links'[d] = IF d = req[r].doc THEN {} ELSE links[d]
                                /\ suggested'[d] = IF d = req[r].doc THEN {} ELSE suggested[d]
                                /\ backfill'[d] = IF d = req[r].doc THEN "none"
                                                  ELSE backfill[d]
    BY <1>0, <1>14 DEF CommitDeleteDocument
  <2>5. LabelsHaveRows'
    BY <2>4 DEF RefusalInv, LabelsHaveRows
  <2>6. \A q \in Requests \ {r} : req[q].at = "relabelled" =>
          Orphaned(req[q].docs, req[q].topic, req[q].links) \subseteq documents'
    BY <2>1, <2>4 DEF RefusalInv, Current, Apart, Orphaned
  <2> QED
    BY <2>3, <2>5, <2>6, RefusalCommitted DEF Kinds
<1>15. CASE Crash
  BY <1>15, NoRequestTyped DEF Crash, tables, RefusalInv, LabelsHaveRows, Current, Apart
<1>16. CASE UNCHANGED vars
  BY <1>16 DEF vars, tables, RefusalInv, LabelsHaveRows, Current, Apart
<1>17. ASSUME NEW d \in Documents, _enqueue_backfill(d) PROVE RefusalInv'
  <2>1. /\ d \in documents /\ UNCHANGED <<documents, links, suggested, topics, req>>
        /\ \A e \in Documents : e # d => backfill'[e] = backfill[e]
    BY <1>0, <1>17 DEF _enqueue_backfill
  <2> QED
    BY <2>1 DEF RefusalInv, LabelsHaveRows, Current, Apart
<1>18. ASSUME NEW d \in Documents, reextract_job(d) PROVE RefusalInv'
  <2>1. /\ UNCHANGED <<documents, links, suggested, topics, req>>
        /\ \A e \in Documents : backfill'[e] # "none" => backfill[e] # "none"
    BY <1>0, <1>18 DEF reextract_job
  <2> QED
    BY <2>1 DEF RefusalInv, LabelsHaveRows, Current, Apart
<1>19. ASSUME NEW r \in Requests, CommitBackfill(r) PROVE RefusalInv'
  <2>1. /\ req'[r].at = "idle"
        /\ \A q \in Requests \ {r} : req'[q] = req[q]
        /\ UNCHANGED <<documents, links, suggested, topics>>
        /\ \A d \in Documents : backfill'[d] \in {backfill[d], "none"}
    BY <1>0, <1>19, Closed, NoRequestTyped DEF CommitBackfill
  <2> QED
    BY <2>1, RefusalMoved DEF Current, Apart
<1> QED
  BY <1>1, <1>2, <1>3, <1>4, <1>5, <1>6, <1>7, <1>8, <1>9, <1>10, <1>11, <1>12,
     <1>13, <1>14, <1>15, <1>16, <1>17, <1>18, <1>19 DEF Next

\* The database never refuses a confirm or a topic delete that no other
\* request's commit overtook.
THEOREM RefusalsAreRaces == Spec => []OnlyRacesAreRefused
<1>1. Init => Typed /\ FilesInv /\ RefusalInv
  BY NoRequestTyped, LibraryAssumption DEF Init, Typed, TypeOK, FilesInv, RowsHaveFiles,
     RowsMatchJobs, Present, UploadsAreNew, DeletesHoldRows, GoneForGood, RefusalInv,
     LabelsHaveRows, Current, Apart
<1>2. Typed /\ RefusalInv => OnlyRacesAreRefused
  BY DEF RefusalInv, Current, OnlyRacesAreRefused, ConfirmRefused, TopicRefused, Orphaned
<1> QED
  BY <1>1, <1>2, TypeStep, FilesStep, RefusalStep, PTL DEF Spec

-----------------------------------------------------------------------------
(* Batches and their documents *)

\* A delete nobody overtook saw the batch as it still is.
SawItsBatch(q) ==
    q.at = "rows_deleted" /\ "document" \notin q.during => q.last = LastOfBatch(q.doc)

BatchInv ==
    /\ BatchesHaveDocuments
    /\ \A r \in Requests : SawItsBatch(req[r])

\* Rows and batches stay, one request moves or is overtaken.
LEMMA BatchesKept ==
    ASSUME BatchInv, NEW r \in Requests, UNCHANGED <<documents, batches>>,
           races \subseteq races',
           \A q \in Requests \ {r} :
             req'[q] = req[q] \/ (Carries(req[q], req'[q])
                                  /\ \E kind \in Kinds : Overtakes(kind, req[q], req'[q])),
           SawItsBatch(req[r])'
    PROVE  BatchInv'
<1>1. \A q \in Requests \ {r} : SawItsBatch(req[q])'
  BY DEF BatchInv, SawItsBatch, Carries, Overtakes, LastOfBatch, BatchDocuments
<1>2. BatchesHaveDocuments'
  BY DEF BatchInv, BatchesHaveDocuments
<1> QED
  BY <1>1, <1>2 DEF BatchInv

LEMMA BatchStep == Typed /\ FilesInv /\ BatchInv /\ [Next]_vars => BatchInv'
<1> SUFFICES ASSUME Typed, FilesInv, BatchInv, [Next]_vars PROVE BatchInv'
  OBVIOUS
<1> USE LibraryAssumption
<1>0. /\ \A q \in Requests : Named(req[q]) /\ req[q] \in Request
      /\ documents \subseteq Documents
  BY DEF Typed, TypeOK
<1>1. ASSUME NEW r \in Requests, NEW b \in Batches, upload_documents(r, b) PROVE BatchInv'
  <2>1. /\ req'[r].at = "writing_files"
        /\ \A q \in Requests \ {r} : req'[q] = req[q]
        /\ UNCHANGED <<documents, batches, races>>
    BY <1>1 DEF upload_documents, Open, NoRequest, Typed, TypeOK, tables
  <2> QED
    BY <2>1, BatchesKept DEF SawItsBatch
<1>2. CASE UNCHANGED <<documents, batches, races, req>>
  BY <1>2 DEF BatchInv, BatchesHaveDocuments, SawItsBatch, LastOfBatch, BatchDocuments
<1>3. ASSUME NEW r \in Requests, CommitUpload(r) PROVE BatchInv'
  <2> DEFINE b == req[r].batch
  <2>1. /\ req'[r].at = "idle"
        /\ \A q \in Requests \ {r} : req'[q] = req[q]
    BY <1>3, Closed, NoRequestTyped DEF CommitUpload
  <2>2. /\ b \in Batches
        /\ batches' = batches \cup {b} /\ documents' = documents \cup BatchDocuments(b)
        /\ races' = races
        /\ \A d \in BatchDocuments(b) : d \notin documents
    BY <1>0, <1>3 DEF CommitUpload, Named, FilesInv, UploadsAreNew, RowsMatchJobs,
                      Present, BatchDocuments
  <2>3. PICK d \in Documents : BatchOf[d] = b
    BY <2>2
  <2>4. BatchesHaveDocuments'
    BY <2>2, <2>3 DEF BatchInv, BatchesHaveDocuments, BatchDocuments
  <2>5. \A q \in Requests : req[q].at = "rows_deleted" => req[q].doc \in documents
    BY DEF FilesInv, DeletesHoldRows
  <2>6. \E e \in BatchDocuments(b) : TRUE
    BY <2>3 DEF BatchDocuments
  <2>7. ASSUME NEW q \in Requests \ {r} PROVE SawItsBatch(req[q])'
    <3>1. SawItsBatch(req[q]) /\ req'[q] = req[q]
      BY <2>1 DEF BatchInv
    <3>2. CASE req[q].at = "rows_deleted"
      <4>1. req[q].doc \in documents
        BY <2>5, <3>2
      <4>2. CASE BatchOf[req[q].doc] = b
        BY <1>3, <2>2, <4>1, <4>2, <1>0 DEF CommitUpload, BatchDocuments
      <4>3. CASE BatchOf[req[q].doc] # b
        <5>1. documents' \cap BatchDocuments(BatchOf[req[q].doc])
                = documents \cap BatchDocuments(BatchOf[req[q].doc])
          BY <2>2, <4>3 DEF BatchDocuments
        <5> QED
          BY <3>1, <5>1 DEF SawItsBatch, LastOfBatch, BatchDocuments
      <4> QED
        BY <4>2, <4>3
    <3> QED
      BY <3>1, <3>2 DEF SawItsBatch
  <2> QED
    BY <2>1, <2>4, <2>7 DEF BatchInv, SawItsBatch
<1>4. ASSUME NEW r \in Requests, NEW d \in Documents, confirm_job(r, d) PROVE BatchInv'
  <2>1. /\ req'[r].at = "labels_resolved"
        /\ \A q \in Requests \ {r} : req'[q] = req[q]
        /\ UNCHANGED <<documents, batches, races>>
    BY <1>4, Confirms, ConfirmOpened DEF tables
  <2> QED
    BY <2>1, BatchesKept DEF SawItsBatch
<1>5. ASSUME NEW r \in Requests, CommitConfirm(r) PROVE BatchInv'
  <2>1. /\ req'[r].at = "idle"
        /\ \A q \in Requests \ {r} : Carries(req[q], req'[q])
                                     /\ Overtakes("confirm", req[q], req'[q])
    BY <1>5, Committed, NoRequestTyped DEF CommitConfirm, Kinds
  <2>2. UNCHANGED <<documents, batches>> /\ races \subseteq races'
    BY <1>5 DEF CommitConfirm
  <2> QED
    BY <2>1, <2>2, BatchesKept DEF SawItsBatch, Kinds
<1>6. ASSUME NEW r \in Requests, NEW t \in Topics, delete_topic(r, t) PROVE BatchInv'
  <2>1. /\ req'[r].at = "documents_listed"
        /\ \A q \in Requests \ {r} : req'[q] = req[q]
        /\ UNCHANGED <<documents, batches, races>>
    BY <1>6 DEF delete_topic, Open, NoRequest, Typed, TypeOK, tables
  <2> QED
    BY <2>1, BatchesKept DEF SawItsBatch
<1>7. ASSUME NEW r \in Requests, Relabel(r) PROVE BatchInv'
  <2>1. /\ req'[r].at = "relabelled"
        /\ \A q \in Requests \ {r} : req'[q] = req[q]
        /\ UNCHANGED <<documents, batches, races>>
    BY <1>7, RelabelOpened DEF Relabel, tables
  <2> QED
    BY <2>1, BatchesKept DEF SawItsBatch
<1>8. ASSUME NEW r \in Requests, CommitDeleteTopic(r) PROVE BatchInv'
  <2>1. /\ req'[r].at = "idle"
        /\ \A q \in Requests \ {r} : Carries(req[q], req'[q])
                                     /\ Overtakes("topic", req[q], req'[q])
    BY <1>8, Committed, NoRequestTyped DEF CommitDeleteTopic, Kinds
  <2>2. UNCHANGED <<documents, batches>> /\ races \subseteq races'
    BY <1>8 DEF CommitDeleteTopic, Overtaken
  <2> QED
    BY <2>1, <2>2, BatchesKept DEF SawItsBatch, Kinds
<1>9. ASSUME NEW r \in Requests, Refuse(r) \/ delete_file(r) \/ CommitBackfill(r)
      PROVE BatchInv'
  <2>1. /\ req'[r].at = "idle"
        /\ \A q \in Requests \ {r} : req'[q] = req[q]
        /\ UNCHANGED <<documents, batches, races>>
    BY <1>9, Closed, NoRequestTyped DEF Refuse, delete_file, CommitBackfill, tables
  <2> QED
    BY <2>1, BatchesKept DEF SawItsBatch
<1>10. ASSUME NEW r \in Requests, NEW d \in Documents, delete_document(r, d)
       PROVE BatchInv'
  <2>1. /\ req'[r].doc = d /\ req'[r].last = LastOfBatch(d)
        /\ \A q \in Requests \ {r} : req'[q] = req[q]
        /\ UNCHANGED <<documents, batches, races>>
    BY <1>10 DEF delete_document, Open, NoRequest, Typed, TypeOK, tables
  <2>2. SawItsBatch(req[r])'
    BY <2>1 DEF SawItsBatch, LastOfBatch, BatchDocuments
  <2> QED
    BY <2>1, <2>2, BatchesKept
<1>11. ASSUME NEW r \in Requests, CommitDeleteDocument(r) PROVE BatchInv'
  <2> DEFINE d == req[r].doc
             next == [NoRequest EXCEPT !.at = "rows_gone", !.doc = d]
  <2>1. /\ req[r].at = "rows_deleted" /\ d \in documents
        /\ documents' = documents \ {d}
        /\ batches' = IF req[r].last THEN batches \ {BatchOf[d]} ELSE batches
    BY <1>11 DEF CommitDeleteDocument, FilesInv, DeletesHoldRows
  <2>2. next \in Request /\ Named(next) /\ next.at = "rows_gone"
    BY <1>0, <2>1, NoRequestTyped DEF Request, Steps, Named
  <2>3. /\ req'[r].at = "rows_gone"
        /\ \A q \in Requests \ {r} : Carries(req[q], req'[q])
                                     /\ Overtakes("document", req[q], req'[q])
    <3>1. Commit(r, "document", next)
      BY <1>11 DEF CommitDeleteDocument
    <3> HIDE DEF next
    <3> QED
      BY <2>2, <3>1, Committed DEF Kinds
  <2>4. \A q \in Requests : SawItsBatch(req[q])'
    BY <2>3 DEF SawItsBatch, Carries, Overtakes
  <2>5. races \subseteq races' /\ ("batch" \notin races' => "document" \notin req[r].during)
    BY <1>11 DEF CommitDeleteDocument, Overtaken
  <2>6. ASSUME "batch" \notin races' PROVE BatchesHaveDocuments'
    <3>1. req[r].last = (documents \cap BatchDocuments(BatchOf[d]) = {d})
      BY <2>1, <2>5, <2>6 DEF BatchInv, SawItsBatch, LastOfBatch
    <3>2. /\ \A b \in batches : \E e \in documents : BatchOf[e] = b
          /\ \A e \in documents : BatchOf[e] \in batches
      BY <2>5, <2>6 DEF BatchInv, BatchesHaveDocuments
    <3>3. CASE req[r].last
      <4>1. \A e \in documents : BatchOf[e] = BatchOf[d] => e = d
        BY <1>0, <3>1, <3>3 DEF BatchDocuments
      <4> QED
        BY <2>1, <3>2, <3>3, <4>1 DEF BatchesHaveDocuments
    <3>4. CASE ~req[r].last
      <4>1. PICK e \in documents \cap BatchDocuments(BatchOf[d]) : e # d
        <5>1. d \in BatchDocuments(BatchOf[d])
          BY <1>0, <2>1 DEF BatchDocuments
        <5>2. documents \cap BatchDocuments(BatchOf[d]) # {d}
          BY <3>1, <3>4
        <5> QED
          BY <2>1, <5>1, <5>2
      <4>2. e \in documents' /\ BatchOf[e] = BatchOf[d]
        BY <2>1, <4>1 DEF BatchDocuments
      <4> QED
        BY <2>1, <3>2, <3>4, <4>2 DEF BatchesHaveDocuments
    <3> QED
      <4>1. req[r].last \in BOOLEAN
        BY <1>0 DEF Request
      <4> QED
        BY <3>3, <3>4, <4>1
  <2> QED
    BY <2>4, <2>6 DEF BatchInv, BatchesHaveDocuments
<1>12. CASE Crash
  BY <1>12, NoRequestTyped DEF Crash, tables, BatchInv, BatchesHaveDocuments, SawItsBatch
<1>13. \/ \E r \in Requests, e \in Documents : write_file(r, e)
       \/ \E e \in Documents : StartRun(e) \/ StageRun(e) \/ patch_review(e)
                               \/ _enqueue_backfill(e) \/ reextract_job(e)
       \/ \E t \in Topics : create_topic(t)
       \/ UNCHANGED vars
       => UNCHANGED <<documents, batches, races, req>>
  BY DEF write_file, StartRun, StageRun, patch_review, _enqueue_backfill, reextract_job,
         create_topic, tables, vars
<1> QED
  BY <1>1, <1>2, <1>3, <1>4, <1>5, <1>6, <1>7, <1>8, <1>9, <1>10, <1>11, <1>12,
     <1>13 DEF Next

\* A batch goes with its last document, unless two deletes overlapped.
THEOREM BatchesGoWithTheLast == Spec => []BatchesHaveDocuments
<1>1. Init => Typed /\ FilesInv /\ BatchInv
  BY NoRequestTyped, LibraryAssumption DEF Init, Typed, TypeOK, FilesInv, RowsHaveFiles,
     RowsMatchJobs, Present, UploadsAreNew, DeletesHoldRows, GoneForGood, BatchInv,
     BatchesHaveDocuments, SawItsBatch
<1>2. BatchInv => BatchesHaveDocuments
  BY DEF BatchInv
<1> QED
  BY <1>1, <1>2, TypeStep, FilesStep, BatchStep, PTL DEF Spec

-----------------------------------------------------------------------------
(* Filing *)

\* Only a document confirmed, or filed by a backfill sent back, has links;
\* they are live, and a confirmed document is filed fully.
Filed ==
    /\ \A d \in Documents : links[d] # {} => jobs[d] = "confirmed" \/ d \in refiled
    /\ \A d \in documents : \A t \in links[d] \cap Topics : topics[t] = "live"
    /\ \A d \in documents : jobs[d] = "confirmed" => FiledAlike(d)

\* A confirm under way is of a document's upload not confirmed yet, or of a
\* backfill; it is the only one of the document, and files it if it may.
ConfirmsOnce ==
    /\ \A r \in Requests : req[r].at = "labels_resolved" =>
         /\ jobs[req[r].doc] # "none"
         /\ req[r].kind = "extract" => jobs[req[r].doc] \in {"awaiting_review", "deleted"}
         /\ req[r].kind # "backfill" => req[r].ids # {}
    /\ \A r, q \in Requests :
         req[r].at = "labels_resolved" /\ req[q].at = "labels_resolved"
           /\ req[r].doc = req[q].doc => r = q

\* What a topic delete listed and read of a document that is not gone is
\* still so, unless a confirm or a topic delete has committed since.
ReadTruly(q) ==
    q.during \cap {"confirm", "topic"} = {} =>
      \A d \in Documents : jobs[d] # "deleted" =>
        /\ q.at \in {"documents_listed", "relabelled"} =>
             (d \in q.docs <=> q.topic \in links[d])
        /\ q.at = "relabelled" => q.links[d] = links[d]

\* A confirm that inserts no link is of a document that has one; the first to
\* file a document inserts them all.
FilesFully(q) ==
    q.at = "labels_resolved" /\ q.kind # "backfill" /\ q.doc \in documents =>
      /\ q.adds = {} => links[q.doc] # {}
      /\ q.kind = "extract" /\ q.doc \notin refiled => q.adds = q.ids

\* The chunks a topic delete rewrites are those of documents confirmed.
RewritesChunks(q) ==
    q.at = "relabelled" /\ q.during \cap {"confirm", "topic"} = {} =>
      /\ q.chunked \subseteq q.docs
      /\ \A d \in Documents :
           jobs[d] # "deleted" /\ d \in q.docs /\ chunks[d] # {} => d \in q.chunked

FilingInv ==
    /\ ConfirmsOnce
    /\ "labels" \notin races =>
         Filed /\ \A r \in Requests : /\ ReadTruly(req[r])
                                     /\ FilesFully(req[r])
                                     /\ RewritesChunks(req[r])

\* One request moves, the tables do not, but for topics that come to life and
\* jobs that move on up to the review.
LEMMA FilingMoved ==
    ASSUME FilingInv, NEW r \in Requests,
           UNCHANGED <<documents, links, chunks, races, refiled>>,
           \A t \in Topics : topics[t] = "live" => topics'[t] = "live",
           \A d \in Documents : jobs'[d] = jobs[d]
             \/ (jobs[d] \in {"queued", "extracting"} /\ jobs'[d] \in {"extracting", "awaiting_review"}),
           \A q \in Requests : req[q].at = "labels_resolved" => req[q].doc \in Documents,
           documents \subseteq Documents,
           \A q \in Requests \ {r} : req'[q] = req[q],
           ReadTruly(req[r])', RewritesChunks(req[r])',
           "labels" \notin races => FilesFully(req[r])',
           req'[r].at = "labels_resolved" =>
             /\ jobs'[req'[r].doc] # "none"
             /\ req'[r].kind = "extract" =>
                  jobs'[req'[r].doc] \in {"awaiting_review", "deleted"}
             /\ req'[r].kind # "backfill" => req'[r].ids # {}
             /\ \A q \in Requests \ {r} :
                  req[q].at = "labels_resolved" => req[q].doc # req'[r].doc
    PROVE  FilingInv'
<1>1. ConfirmsOnce'
  BY DEF FilingInv, ConfirmsOnce
<1>2. "labels" \notin races' => Filed'
  BY DEF FilingInv, Filed, FiledAlike
<1>3. "labels" \notin races' => \A q \in Requests : /\ ReadTruly(req[q])'
                                                   /\ FilesFully(req[q])'
                                                   /\ RewritesChunks(req[q])'
  BY DEF FilingInv, ReadTruly, FilesFully, RewritesChunks
<1> QED
  BY <1>1, <1>2, <1>3 DEF FilingInv

\* A confirm under way survives a commit of another request.
LEMMA ConfirmsKept ==
    ASSUME FilingInv, NEW r \in Requests,
           req'[r].at # "labels_resolved",
           \A q \in Requests \ {r} : Carries(req[q], req'[q]),
           \A q \in Requests \ {r} : req[q].at = "labels_resolved" =>
             /\ jobs'[req[q].doc] # "none"
             /\ \/ jobs'[req[q].doc] \in {jobs[req[q].doc], "deleted"}
                \/ req[q].kind # "extract"
    PROVE  ConfirmsOnce'
  BY DEF FilingInv, ConfirmsOnce, Carries

LEMMA FilingStep ==
    Typed /\ FilesInv /\ RefusalInv /\ FilingInv /\ [Next]_vars => FilingInv'
<1> SUFFICES ASSUME Typed, FilesInv, RefusalInv, FilingInv, [Next]_vars PROVE FilingInv'
  OBVIOUS
<1> USE LibraryAssumption
<1>0. /\ \A q \in Requests : Named(req[q]) /\ req[q] \in Request
      /\ documents \subseteq Documents
      /\ \A q \in Requests : req[q].at = "labels_resolved" => req[q].doc \in Documents
  BY DEF Typed, TypeOK, Named
<1>a. /\ jobs \in [Documents -> Present \cup {"none", "deleted"}]
      /\ links \in [Documents -> SUBSET Labels] /\ chunks \in [Documents -> SUBSET Labels]
      /\ topics \in [Topics -> {"unused", "live", "deleted"}]
  BY DEF Typed, TypeOK, Present, _STAGED_JOB_STATUSES
<1>1. ASSUME NEW r \in Requests, NEW b \in Batches, upload_documents(r, b) PROVE FilingInv'
  <2>1. /\ req'[r].at = "writing_files"
        /\ \A q \in Requests \ {r} : req'[q] = req[q]
        /\ UNCHANGED <<documents, links, chunks, races, refiled, topics, jobs>>
    BY <1>1 DEF upload_documents, Open, NoRequest, Typed, TypeOK, tables
  <2> QED
    BY <1>0, <2>1, FilingMoved DEF ReadTruly, FilesFully, RewritesChunks
<1>2. CASE UNCHANGED <<documents, links, chunks, races, refiled, topics, jobs, req>>
  BY <1>2 DEF FilingInv, ConfirmsOnce, Filed, FiledAlike, ReadTruly, FilesFully,
              RewritesChunks
<1>3. ASSUME NEW r \in Requests, CommitUpload(r) PROVE FilingInv'
  <2> DEFINE new == BatchDocuments(req[r].batch)
  <2>1. /\ req'[r].at = "idle"
        /\ \A q \in Requests \ {r} : req'[q] = req[q]
    BY <1>3, Closed, NoRequestTyped DEF CommitUpload
  <2>2. /\ documents' = documents \cup new
        /\ \A d \in Documents : jobs'[d] = IF d \in new THEN "queued" ELSE jobs[d]
        /\ \A d \in new : d \in Documents /\ jobs[d] = "none"
        /\ UNCHANGED <<links, chunks, races, refiled, topics>>
        /\ \A d \in new : d \notin documents
    BY <1>3 DEF CommitUpload, FilesInv, UploadsAreNew, RowsMatchJobs,
                       Present, BatchDocuments
  <2>6. \A d \in new : links[d] = {}
    BY <2>2 DEF RefusalInv, LabelsHaveRows
  <2>3. ConfirmsOnce'
    BY <1>0, <2>1, <2>2 DEF FilingInv, ConfirmsOnce
  <2>4. "labels" \notin races' => Filed'
    BY <1>0, <2>2, <2>6 DEF FilingInv, Filed, FiledAlike
  <2>5. "labels" \notin races' => \A q \in Requests : ReadTruly(req[q])'
                                                   /\ RewritesChunks(req[q])'
    BY <2>1, <2>2 DEF FilingInv, ReadTruly, RewritesChunks
  <2>7. "labels" \notin races' => \A q \in Requests : FilesFully(req[q])'
    <3>1. \A q \in Requests : req[q].at = "labels_resolved" => req[q].doc \notin new
      BY <2>2 DEF FilingInv, ConfirmsOnce
    <3> QED
      BY <2>1, <2>2, <3>1 DEF FilingInv, FilesFully
  <2> QED
    BY <2>3, <2>4, <2>5, <2>7 DEF FilingInv
<1>4. ASSUME NEW d \in Documents,
             StartRun(d) \/ StageRun(d) \/ _enqueue_backfill(d) \/ reextract_job(d)
      PROVE FilingInv'
  <2>1. /\ \A e \in Documents : \/ jobs'[e] = jobs[e]
                               \/ /\ jobs[e] \in {"queued", "extracting", "awaiting_review"}
                                  /\ jobs'[e] \in {"extracting", "awaiting_review"}
                                  /\ \A q \in Requests :
                                       req[q].at = "labels_resolved" /\ req[q].kind = "extract"
                                         => req[q].doc # e
        /\ UNCHANGED <<documents, links, chunks, races, refiled, topics, req>>
    <3>1. \A q \in Requests : req[q].at = "labels_resolved" /\ req[q].kind = "extract" =>
            jobs[req[q].doc] \in {"awaiting_review", "deleted"}
      BY DEF FilingInv, ConfirmsOnce
    <3>2. CASE StartRun(d) \/ StageRun(d)
      BY <1>a, <3>1, <3>2 DEF StartRun, StageRun
    <3>3. CASE _enqueue_backfill(d) \/ reextract_job(d)
      BY <1>a, <3>3 DEF _enqueue_backfill, reextract_job, Deciding
    <3> QED
      BY <1>4, <3>2, <3>3
  <2>2. ConfirmsOnce'
    BY <1>0, <2>1 DEF FilingInv, ConfirmsOnce
  <2>3. "labels" \notin races' => Filed'
    BY <1>0, <2>1 DEF FilingInv, Filed, FiledAlike
  <2>4. "labels" \notin races' => \A q \in Requests : /\ ReadTruly(req[q])'
                                                   /\ FilesFully(req[q])'
                                                   /\ RewritesChunks(req[q])'
    BY <2>1 DEF FilingInv, ReadTruly, FilesFully, RewritesChunks
  <2> QED
    BY <2>2, <2>3, <2>4 DEF FilingInv
<1>5. ASSUME NEW t \in Topics, create_topic(t) PROVE FilingInv'
  <2>1. /\ \A s \in Topics : topics[s] = "live" => topics'[s] = "live"
        /\ UNCHANGED <<documents, links, chunks, races, refiled, jobs, req>>
    BY <1>a, <1>5 DEF create_topic
  <2> QED
    BY <1>0, <2>1 DEF FilingInv, ConfirmsOnce, Filed, FiledAlike, ReadTruly, FilesFully,
                      RewritesChunks
<1>6. ASSUME NEW r \in Requests, NEW d \in Documents, confirm_job(r, d) PROVE FilingInv'
  <2>1. PICK kind \in {"extract", "backfill", "reextract"}, ids \in SUBSET Labels :
          /\ Confirm(r, d, kind, ids)
          /\ kind = "extract" => jobs[d] = "awaiting_review"
          /\ kind # "extract" => backfill[d] # "none"
          /\ kind # "backfill" => ids # {}
    BY <1>6, Confirms
  <2>2. /\ req'[r].at = "labels_resolved" /\ req'[r].doc = d /\ req'[r].kind = kind
        /\ req'[r].ids = ids /\ req'[r].adds = ids \ links[d]
        /\ \A q \in Requests \ {r} : req'[q] = req[q]
        /\ UNCHANGED <<documents, links, chunks, races, refiled, topics, jobs>>
        /\ \A q \in Requests : req[q].at = "labels_resolved" => req[q].doc # d
    BY <2>1, ConfirmOpened DEF tables
  <2>3. jobs[d] # "none"
    BY <2>1 DEF RefusalInv, LabelsHaveRows, FilesInv, RowsMatchJobs, Present
  <2>4. ASSUME "labels" \notin races PROVE FilesFully(req[r])'
    <3>1. kind # "backfill" /\ ids \ links[d] = {} => links[d] # {}
      BY <2>1
    <3>2. kind = "extract" /\ d \notin refiled => links[d] = {}
      BY <2>1, <2>4 DEF FilingInv, Filed
    <3> QED
      BY <2>2, <3>1, <3>2 DEF FilesFully
  <2>5. ReadTruly(req[r])' /\ RewritesChunks(req[r])'
    BY <2>2 DEF ReadTruly, RewritesChunks
  <2> QED
    BY <1>0, <2>1, <2>2, <2>3, <2>4, <2>5, FilingMoved
<1>7. ASSUME NEW r \in Requests, CommitConfirm(r) PROVE FilingInv'
  <2>0. PICK d \in Documents : d = req[r].doc
    BY <1>0, <1>7 DEF CommitConfirm
  <2> DEFINE ids == req[r].ids
             adds == req[r].adds
             upload == req[r].kind = "extract"
  <2>1. /\ req'[r].at = "idle"
        /\ \A q \in Requests \ {r} : Carries(req[q], req'[q])
                                     /\ Overtakes("confirm", req[q], req'[q])
    BY <1>7, Committed, NoRequestTyped DEF CommitConfirm, Kinds
  <2>2. /\ d \in documents /\ documents' = documents /\ races' = races
        /\ req[r].at = "labels_resolved" /\ req[r].kind # "backfill"
        /\ \A e \in Documents : links'[e] = IF e = d THEN links[d] \cup adds ELSE links[e]
        /\ \A t \in Topics : topics'[t] = IF t \in adds THEN "live" ELSE topics[t]
    BY <1>a, <1>7, <2>0 DEF CommitConfirm, ConfirmRefused
  <2>3. /\ \A e \in Documents : chunks'[e] = IF e = d /\ upload THEN ids ELSE chunks[e]
        /\ \A e \in Documents : jobs'[e] = IF e = d /\ upload THEN "confirmed" ELSE jobs[e]
        /\ refiled' = IF upload THEN refiled ELSE refiled \cup {d}
    BY <1>a, <1>7, <2>0 DEF CommitConfirm
  <2>a. upload => jobs[d] = "awaiting_review"
    BY <2>0, <2>2 DEF FilingInv, ConfirmsOnce, FilesInv, RowsMatchJobs, Present
  <2>b. \A q \in Requests \ {r} : req[q].at = "labels_resolved" => req[q].doc # d
    BY <2>0, <2>2 DEF FilingInv, ConfirmsOnce
  <2> HIDE DEF ids, adds, upload
  <2>4. ConfirmsOnce'
    <3>1. \A q \in Requests \ {r} : req[q].at = "labels_resolved" =>
            jobs'[req[q].doc] = jobs[req[q].doc] /\ jobs[req[q].doc] # "none"
      BY <1>0, <2>3, <2>b DEF FilingInv, ConfirmsOnce
    <3> QED
      BY <2>1, <3>1, ConfirmsKept
  <2>5. ASSUME "labels" \notin races' PROVE Filed'
    <3>1. Filed /\ FilesFully(req[r])
      BY <2>2, <2>5 DEF FilingInv
    <3>2. links'[d] # {} /\ \A t \in links'[d] \cap Topics : topics'[t] = "live"
      BY <2>0, <2>2, <3>1 DEF Filed, FilesFully, adds
    <3>3. \A e \in documents : \A t \in links'[e] \cap Topics : topics'[t] = "live"
      BY <1>0, <2>2, <3>1, <3>2 DEF Filed
    <3>4. \A e \in Documents : links'[e] # {} => jobs'[e] = "confirmed" \/ e \in refiled'
      BY <2>2, <2>3, <3>1 DEF Filed
    <3>5. upload /\ d \notin refiled => chunks'[d] = links'[d]
      <4> SUFFICES ASSUME upload, d \notin refiled PROVE chunks'[d] = links'[d]
        OBVIOUS
      <4>1. links[d] = {}
        BY <2>a, <3>1 DEF Filed
      <4>2. adds = ids
        BY <2>0, <2>2, <3>1 DEF FilesFully, ids, adds, upload
      <4> QED
        BY <2>2, <2>3, <4>1, <4>2
    <3>6. FiledAlike(d)'
      BY <2>2, <2>3, <3>2, <3>5 DEF FiledAlike
    <3>7. \A e \in documents : e # d /\ jobs'[e] = "confirmed" => FiledAlike(e)'
      BY <1>0, <2>2, <2>3, <3>1, <3>3 DEF Filed, FiledAlike
    <3> QED
      BY <2>2, <3>3, <3>4, <3>6, <3>7 DEF Filed
  <2>6. \A q \in Requests : ReadTruly(req[q])' /\ RewritesChunks(req[q])'
    BY <2>1 DEF ReadTruly, RewritesChunks, Carries, Overtakes
  <2>7. "labels" \notin races' => \A q \in Requests : FilesFully(req[q])'
    <3>1. \A q \in Requests \ {r} : req[q].at = "labels_resolved" =>
            /\ links'[req[q].doc] = links[req[q].doc]
            /\ req[q].doc \in refiled' <=> req[q].doc \in refiled
      BY <1>0, <2>2, <2>3, <2>b
    <3> QED
      BY <2>1, <2>2, <3>1 DEF FilingInv, FilesFully, Carries
  <2> QED
    BY <2>4, <2>5, <2>6, <2>7 DEF FilingInv
<1>8. ASSUME NEW r \in Requests, NEW t \in Topics, delete_topic(r, t) PROVE FilingInv'
  <2>1. /\ req'[r].at = "documents_listed" /\ req'[r].topic = t
        /\ req'[r].docs = {d \in Documents : t \in links[d]}
        /\ \A q \in Requests \ {r} : req'[q] = req[q]
        /\ UNCHANGED <<documents, links, chunks, races, refiled, topics, jobs>>
    BY <1>8 DEF delete_topic, Open, NoRequest, Typed, TypeOK, tables
  <2>2. ReadTruly(req[r])' /\ FilesFully(req[r])' /\ RewritesChunks(req[r])'
    BY <2>1 DEF ReadTruly, FilesFully, RewritesChunks
  <2> QED
    BY <1>0, <2>1, <2>2, FilingMoved
<1>9. ASSUME NEW r \in Requests, Relabel(r) PROVE FilingInv'
  <2>2. /\ req'[r].at = "relabelled" /\ req'[r].links = links
        /\ req'[r].docs = req[r].docs /\ req'[r].topic = req[r].topic
        /\ req'[r].during = req[r].during
        /\ req'[r].chunked = {d \in req[r].docs : chunks[d] # {}}
        /\ \A q \in Requests \ {r} : req'[q] = req[q]
    BY <1>9, RelabelOpened
  <2>b. /\ UNCHANGED <<documents, links, chunks, races, refiled, topics, jobs>>
        /\ req[r].at = "documents_listed"
    BY <1>9 DEF Relabel, tables
  <2>3. ConfirmsOnce'
    BY <2>2, <2>b DEF FilingInv, ConfirmsOnce
  <2>4. "labels" \notin races' => Filed'
    BY <2>b DEF FilingInv, Filed, FiledAlike
  <2>5. "labels" \notin races' => \A q \in Requests \ {r} : /\ ReadTruly(req[q])'
                                                         /\ FilesFully(req[q])'
                                                         /\ RewritesChunks(req[q])'
    BY <2>2, <2>b DEF FilingInv, ReadTruly, FilesFully, RewritesChunks
  <2>6. "labels" \notin races' => ReadTruly(req[r])'
    BY <2>2, <2>b DEF FilingInv, ReadTruly
  <2>7. FilesFully(req[r])' /\ RewritesChunks(req[r])'
    BY <2>2, <2>b DEF FilesFully, RewritesChunks
  <2> QED
    BY <2>3, <2>4, <2>5, <2>6, <2>7 DEF FilingInv
<1>10. ASSUME NEW r \in Requests, CommitDeleteTopic(r) PROVE FilingInv'
  <2> DEFINE t == req[r].topic
  <2>1. /\ req'[r].at = "idle"
        /\ \A q \in Requests \ {r} : Carries(req[q], req'[q])
                                     /\ Overtakes("topic", req[q], req'[q])
    BY <1>10, Committed, NoRequestTyped DEF CommitDeleteTopic, Kinds
  <2>2. /\ req[r].at = "relabelled"
        /\ UNCHANGED <<documents, jobs, refiled>>
        /\ races \subseteq races'
        /\ "labels" \notin races' => req[r].during \cap {"confirm", "topic"} = {}
        /\ \A d \in Documents : /\ links'[d] = Relinked(r, d)
                                /\ chunks'[d] = resync_chunk_topic_ids(r, d)
        /\ \A s \in Topics : s # t => topics'[s] = topics[s]
    BY <1>a, <1>10 DEF CommitDeleteTopic, Overtaken
  <2>3. ConfirmsOnce'
    <3>1. \A q \in Requests : req[q].at = "labels_resolved" => jobs'[req[q].doc] # "none"
      BY <2>2 DEF FilingInv, ConfirmsOnce
    <3> QED
      BY <2>1, <2>2, <3>1, ConfirmsKept
  <2>4. ASSUME "labels" \notin races'
        PROVE  Filed' /\ \A q \in Requests : FilesFully(req[q])'
    <3>1. Filed /\ ReadTruly(req[r]) /\ RewritesChunks(req[r])
      BY <2>2, <2>4 DEF FilingInv
    <3>2. \A d \in documents : /\ jobs[d] # "deleted"
                               /\ req[r].links[d] = links[d]
                               /\ d \in req[r].docs <=> t \in links[d]
      BY <1>0, <2>2, <2>4, <3>1 DEF ReadTruly, FilesInv, RowsMatchJobs, Present
    <3>3. \A d \in Documents \ documents : links[d] = {}
      BY <1>a DEF RefusalInv, LabelsHaveRows
    <3>4. Orphaned(req[r].docs, t, req[r].links) \subseteq documents
      BY <2>2 DEF RefusalInv, Current
    <3>5. \A d \in Documents \ documents : links'[d] = {}
      BY <2>2, <3>3, <3>4 DEF Relinked
    <3>a. req[r].chunked \subseteq req[r].docs
      BY <2>2, <2>4, <3>1 DEF RewritesChunks
    <3>6. \A d \in documents : t \notin links[d] => links'[d] = links[d] /\ chunks'[d] = chunks[d]
      <4> SUFFICES ASSUME NEW d \in documents, t \notin links[d]
                   PROVE  links'[d] = links[d] /\ chunks'[d] = chunks[d]
        OBVIOUS
      <4>1. d \notin req[r].docs /\ t \notin req[r].links[d] /\ d \in Documents
        BY <1>0, <3>2
      <4>2. Relinked(r, d) = links[d]
        BY <4>1 DEF Relinked, Orphaned
      <4>3. resync_chunk_topic_ids(r, d) = chunks[d]
        <5>1. d \notin req[r].chunked
          BY <1>0, <2>2, <4>1, <3>a
        <5> QED
          BY <5>1 DEF resync_chunk_topic_ids
      <4> QED
        BY <2>2, <4>1, <4>2, <4>3
    <3>7. \A d \in documents : t \in links[d] =>
            /\ links'[d] = (links[d] \ {t}) \cup (IF links[d] \ {t} = {} THEN {Uncategorized} ELSE {})
            /\ chunks[d] # {} => chunks'[d] = links'[d]
      <4> SUFFICES ASSUME NEW d \in documents, t \in links[d]
                   PROVE  /\ links'[d] = (links[d] \ {t})
                                 \cup (IF links[d] \ {t} = {} THEN {Uncategorized} ELSE {})
                          /\ chunks[d] # {} => chunks'[d] = links'[d]
        OBVIOUS
      <4>1. d \in req[r].docs /\ req[r].links[d] = links[d] /\ d \in Documents
        BY <1>0, <3>2
      <4>2. d \in Orphaned(req[r].docs, t, req[r].links) <=> links[d] \ {t} = {}
        BY <4>1 DEF Orphaned
      <4>3. Relinked(r, d) = (links[d] \ {t})
                              \cup (IF links[d] \ {t} = {} THEN {Uncategorized} ELSE {})
        BY <4>1, <4>2 DEF Relinked
      <4>4. chunks[d] # {} => resync_chunk_topic_ids(r, d) = Relinked(r, d)
        <5>1. chunks[d] # {} => d \in req[r].chunked
          BY <2>2, <2>4, <3>1, <3>2, <4>1 DEF RewritesChunks
        <5> QED
          BY <4>1, <4>2, <4>3, <5>1 DEF resync_chunk_topic_ids
      <4>5. links'[d] = Relinked(r, d) /\ chunks'[d] = resync_chunk_topic_ids(r, d)
        BY <2>2, <4>1
      <4> QED
        BY <4>3, <4>4, <4>5
    <3>8. \A d \in Documents :
            links'[d] # {} => jobs'[d] = "confirmed" \/ d \in refiled'
      <4>1. \A d \in documents : links'[d] # {} => links[d] # {}
        BY <3>6
      <4> QED
        BY <1>0, <2>2, <3>1, <3>5, <4>1 DEF Filed
    <3>b. \A d \in documents :
            /\ links[d] # {} => links'[d] # {}
            /\ \A s \in links'[d] \cap Topics : s \in links[d] /\ s # t
      <4> SUFFICES ASSUME NEW d \in documents
                   PROVE  /\ links[d] # {} => links'[d] # {}
                          /\ \A s \in links'[d] \cap Topics : s \in links[d] /\ s # t
        OBVIOUS
      <4>1. CASE t \notin links[d]
        BY <3>6, <4>1
      <4>2. CASE t \in links[d]
        BY <3>7, <4>2
      <4> QED
        BY <4>1, <4>2
    <3>c. \A d \in documents : \A s \in links'[d] \cap Topics : topics'[s] = "live"
      BY <2>2, <3>1, <3>b DEF Filed
    <3>9. ASSUME NEW d \in documents, jobs'[d] = "confirmed" PROVE FiledAlike(d)'
      <4>1. FiledAlike(d) /\ d \in Documents
        BY <1>0, <2>2, <3>1, <3>9 DEF Filed
      <4>2. links'[d] # {}
        BY <3>b, <4>1 DEF FiledAlike
      <4>3. d \notin refiled => chunks'[d] = links'[d]
        BY <3>6, <3>7, <4>1 DEF FiledAlike
      <4> QED
        BY <2>2, <3>c, <4>2, <4>3 DEF FiledAlike
    <3>d. Filed'
      BY <2>2, <3>8, <3>9, <3>c DEF Filed
    <3>e. \A q \in Requests : FilesFully(req[q])'
      BY <2>1, <2>2, <2>4, <3>b DEF FilingInv, FilesFully, Carries
    <3> QED
      BY <3>d, <3>e
  <2>5. \A q \in Requests : ReadTruly(req[q])' /\ RewritesChunks(req[q])'
    BY <2>1 DEF ReadTruly, RewritesChunks, Carries, Overtakes
  <2> QED
    BY <2>3, <2>4, <2>5 DEF FilingInv
<1>11. ASSUME NEW r \in Requests, Refuse(r) \/ delete_file(r) \/ CommitBackfill(r)
       PROVE FilingInv'
  <2>1. /\ req'[r].at = "idle"
        /\ \A q \in Requests \ {r} : req'[q] = req[q]
        /\ UNCHANGED <<documents, links, chunks, races, refiled, topics, jobs>>
    BY <1>11, Closed, NoRequestTyped DEF Refuse, delete_file, CommitBackfill, tables
  <2> QED
    BY <1>0, <2>1, FilingMoved DEF ReadTruly, FilesFully, RewritesChunks
<1>12. ASSUME NEW r \in Requests, NEW d \in Documents, delete_document(r, d)
       PROVE FilingInv'
  <2>1. /\ req'[r].at = "rows_deleted"
        /\ \A q \in Requests \ {r} : req'[q] = req[q]
        /\ UNCHANGED <<documents, links, chunks, races, refiled, topics, jobs>>
    BY <1>12 DEF delete_document, Open, NoRequest, Typed, TypeOK, tables
  <2> QED
    BY <1>0, <2>1, FilingMoved DEF ReadTruly, FilesFully, RewritesChunks
<1>13. ASSUME NEW r \in Requests, CommitDeleteDocument(r) PROVE FilingInv'
  <2> DEFINE d == req[r].doc
             next == [NoRequest EXCEPT !.at = "rows_gone", !.doc = d]
  <2>1. /\ d \in Documents /\ documents' = documents \ {d} /\ topics' = topics
        /\ \A e \in Documents : /\ jobs'[e] = IF e = d THEN "deleted" ELSE jobs[e]
                                /\ links'[e] = IF e = d THEN {} ELSE links[e]
                                /\ chunks'[e] = IF e = d THEN {} ELSE chunks[e]
        /\ races \subseteq races' /\ refiled' = refiled \ {d}
    BY <1>0, <1>a, <1>13 DEF CommitDeleteDocument, Named, Overtaken
  <2>2. next \in Request /\ Named(next) /\ next.at = "rows_gone"
    BY <1>0, <2>1, NoRequestTyped DEF Request, Steps, Named
  <2>3. /\ req'[r].at = "rows_gone"
        /\ \A q \in Requests \ {r} : Carries(req[q], req'[q])
                                     /\ Overtakes("document", req[q], req'[q])
    <3>1. Commit(r, "document", next)
      BY <1>13 DEF CommitDeleteDocument
    <3> HIDE DEF next
    <3> QED
      BY <2>2, <3>1, Committed DEF Kinds
  <2>4. ConfirmsOnce'
    <3>1. \A q \in Requests : req[q].at = "labels_resolved" =>
            /\ jobs'[req[q].doc] # "none"
            /\ jobs'[req[q].doc] \in {jobs[req[q].doc], "deleted"}
      BY <1>0, <2>1 DEF FilingInv, ConfirmsOnce
    <3> QED
      BY <2>3, <3>1, ConfirmsKept
  <2>5. "labels" \notin races' => Filed'
    BY <1>0, <2>1 DEF FilingInv, Filed, FiledAlike
  <2>6. ASSUME "labels" \notin races', NEW q \in Requests \ {r}
        PROVE  ReadTruly(req[q])' /\ FilesFully(req[q])' /\ RewritesChunks(req[q])'
    <3>1. ReadTruly(req[q]) /\ FilesFully(req[q]) /\ RewritesChunks(req[q]) /\ (req[q].at # "idle" => req[q].during \subseteq req'[q].during)
      BY <2>1, <2>3, <2>6 DEF FilingInv, Overtakes
    <3>2. ReadTruly(req[q])' /\ RewritesChunks(req[q])'
      BY <2>1, <2>3, <3>1 DEF ReadTruly, RewritesChunks, Carries
    <3>3. FilesFully(req[q])'
      BY <1>0, <2>1, <2>3, <3>1 DEF FilesFully, Carries
    <3> QED
      BY <3>2, <3>3
  <2>7. ReadTruly(req[r])' /\ FilesFully(req[r])' /\ RewritesChunks(req[r])'
    BY <2>3 DEF ReadTruly, FilesFully, RewritesChunks
  <2> QED
    BY <2>4, <2>5, <2>6, <2>7 DEF FilingInv
<1>14. CASE Crash
  BY <1>14, NoRequestTyped DEF Crash, tables, FilingInv, ConfirmsOnce, Filed, FiledAlike,
     ReadTruly, FilesFully, RewritesChunks
<1>15. \/ \E r \in Requests, e \in Documents : write_file(r, e)
       \/ \E e \in Documents : patch_review(e)
       \/ UNCHANGED vars
       => UNCHANGED <<documents, links, chunks, races, refiled, topics, jobs, req>>
  BY DEF write_file, patch_review, tables, vars
<1> QED
  BY <1>1, <1>2, <1>3, <1>4, <1>5, <1>6, <1>7, <1>8, <1>9, <1>10, <1>11, <1>12,
     <1>13, <1>14, <1>15 DEF Next

\* A confirmed document has a topic, its topics are live and its chunks carry
\* exactly those, unless a topic delete was overtaken or, of the chunks, a
\* backfill sent back was confirmed for the document.
THEOREM FilingSurvivesDeletes == Spec => []ConfirmedAreFiled
<1>1. Init => Typed /\ FilesInv /\ RefusalInv /\ FilingInv
  BY NoRequestTyped, LibraryAssumption DEF Init, Typed, TypeOK, FilesInv, RowsHaveFiles,
     RowsMatchJobs, Present, UploadsAreNew, DeletesHoldRows, GoneForGood, RefusalInv,
     LabelsHaveRows, Current, Apart, FilingInv, ConfirmsOnce, Filed, ReadTruly, FilesFully,
     RewritesChunks
<1>2. FilingInv => ConfirmedAreFiled
  BY DEF FilingInv, Filed, ConfirmedAreFiled
<1> QED
  BY <1>1, <1>2, TypeStep, FilesStep, RefusalStep, FilingStep, PTL DEF Spec
=============================================================================
