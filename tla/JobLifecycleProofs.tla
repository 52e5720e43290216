------------------------- MODULE JobLifecycleProofs -------------------------
(***************************************************************************)
(* Theorems about JobLifecycle for any number of documents, jobs, workers  *)
(* and requests.                                                           *)
(*                                                                         *)
(* Whatever requests overlap: the types (TypeCorrect), live data kept      *)
(* (CommittedDataIsKept) and no run lost sight of (NoRunIsLost).           *)
(* When requests run one at a time (SerialRequests): no two workers run    *)
(* the same job (ClaimsAreExclusive, from SerialInv), a worker writes only *)
(* its run (WorkersWriteOnlyRuns), and, because every session then writes  *)
(* over the columns it loaded (ColumnsInv), a queued job has an attempt    *)
(* left and feedback is used up (QueuedJobsHaveAttempts, FeedbackIsUsedUp),*)
(* and every step is for each job one that JobStatus allows or none        *)
(* (QueueImplementsJobStatus).                                             *)
(* Last, whatever requests overlap again, a staged table lands once unless *)
(* two decisions held its job at once (TablesLandOnce, from LandingInv).   *)
(***************************************************************************)
EXTENDS JobLifecycle, FiniteSetTheorems, TLAPS

-----------------------------------------------------------------------------
(* Lemmas: the operators on rows stay within their types *)

LEMMA BlankTypes ==
    /\ BlankRow \in Row
    /\ IdleSession \in Session
    /\ IdleRequest \in Request
  BY ConstantsAssumption
     DEF BlankRow, NoProgress, NoResult, Row, Status, Progress, Result,
         IdleSession, Session, IdleRequest, Request

LEMMA CopyType ==
    ASSUME NEW row \in Row, NEW columns
    PROVE  Copy(row, columns) \in Row
  BY ConstantsAssumption
     DEF Copy, NoProgress, NoResult, Row, Status, Progress, Result

LEMMA WriteBackType ==
    ASSUME NEW current \in Row, NEW loaded \in Row, NEW new \in Row
    PROVE  WriteBack(current, loaded, new) \in Row
  BY DEF WriteBack, Column, Row

LEMMA PipelineResultType ==
    ASSUME NEW row \in Row, NEW table \in {"flagged", "clean"}
    PROVE  PipelineResult(row, table) \in Result
  BY ConstantsAssumption DEF PipelineResult, Row, Result

LEMMA RateLimitedType ==
    ASSUME NEW row \in Row
    PROVE  RateLimited(row) \in Row
<1> DEFINE attempts == row.progress.attempts + 1
           waiting == [attempts |-> attempts, deferred |-> TRUE, step |-> "waiting"]
<1>1. row.progress \in Progress /\ attempts \in Nat
  BY DEF Row, Progress
<1>2. waiting \in Progress
  BY <1>1 DEF Progress
<1>3. [row.progress EXCEPT !.attempts = attempts] \in Progress
  BY <1>1 DEF Progress
<1>4. CASE attempts >= MAX_RATE_LIMIT_ATTEMPTS
  <2>1. RateLimited(row)
          = [row EXCEPT !.status = "failed",
                        !.progress = [row.progress EXCEPT !.attempts = attempts]]
    BY <1>4 DEF RateLimited, Row
  <2> QED
    BY <2>1, <1>3 DEF Row, Status
<1>5. CASE ~(attempts >= MAX_RATE_LIMIT_ATTEMPTS)
  <2>1. RateLimited(row) = [row EXCEPT !.status = "pending", !.lockedBy = None,
                                       !.progress = waiting]
    BY <1>5 DEF RateLimited
  <2> QED
    BY <2>1, <1>2 DEF Row, Status
<1> QED
  BY <1>4, <1>5

LEMMA LandType ==
    ASSUME TypeOK, NEW confirmed \in SUBSET jobs, Land(confirmed)
    PROVE  /\ live' \in SUBSET Documents
           /\ landings' \in [Jobs -> 0..2]
<1>1. {DocumentOf[j] : j \in confirmed} \subseteq Documents
  BY ConstantsAssumption DEF TypeOK
<1>2. live' \in SUBSET Documents
  BY <1>1 DEF Land, TypeOK
<1>3. landings' \in [Jobs -> 0..2]
  BY DEF Land, TypeOK
<1> QED
  BY <1>2, <1>3

LEMMA DropJobsType ==
    ASSUME TypeOK, NEW gone, DropJobs(gone)
    PROVE  jobs' \in SUBSET Jobs /\ job' \in [Jobs -> Row]
  BY BlankTypes DEF TypeOK, DropJobs

LEMMA DropDocumentsType ==
    ASSUME TypeOK, NEW gone, DropDocuments(gone)
    PROVE  /\ documents' \in SUBSET Documents
           /\ live' \in SUBSET Documents
           /\ batches' \in SUBSET Batches
  BY DEF TypeOK, DropDocuments

LEMMA InsertJobsType ==
    ASSUME TypeOK, NEW new \in SUBSET Jobs,
           NEW kind \in {"extract", "backfill"}, InsertJobs(new, kind)
    PROVE  /\ jobs' \in SUBSET Jobs
           /\ job' \in [Jobs -> Row]
           /\ createdAt' \in [Jobs -> Nat]
<1>1. [BlankRow EXCEPT !.kind = kind] \in Row
  BY BlankTypes DEF Row
<1>2. job' \in [Jobs -> Row]
  BY <1>1 DEF InsertJobs, TypeOK
<1>3. createdAt' \in [Jobs -> Nat]
  <2>1. Cardinality(Jobs) \in Nat
    BY FS_CardinalityType, ConstantsAssumption
  <2>2. PICK t \in 1..(Cardinality(Jobs) + 1) :
          createdAt' = [j \in Jobs |-> IF j \in new THEN t ELSE createdAt[j]]
    BY DEF InsertJobs
  <2> QED
    BY <2>1, <2>2 DEF TypeOK
<1> QED
  BY <1>2, <1>3 DEF InsertJobs, TypeOK

\* The commit of a single-job handler keeps the types, given its new row.
LEMMA CommitType ==
    ASSUME TypeOK, NEW c \in Clients, NEW op, NEW new \in Row, Commit(c, op, new)
    PROVE  job' \in [Jobs -> Row] /\ req' \in [Clients -> Request]
<1>1. req[c].seen \in Row
  BY DEF TypeOK, Request
<1>2. \A j \in Jobs : WriteBack(job[j], req[c].seen, new) \in Row
  BY <1>1, WriteBackType DEF TypeOK
<1> QED
  BY <1>2, BlankTypes DEF Commit, TypeOK

LEMMA ContestType ==
    ASSUME TypeOK, NEW c, NEW held \in SUBSET Jobs, NEW op, Contest(c, held, op)
    PROVE  contested' \in SUBSET Jobs
  BY DEF Contest, TypeOK

LEMMA LoadType ==
    ASSUME TypeOK, NEW c \in Clients, NEW j \in Jobs,
           NEW op \in {"patch", "confirm", "reextract", "reject", "retry"},
           Load(c, j, op)
    PROVE  req' \in [Clients -> Request] /\ contested' \in SUBSET Jobs
<1>1. Copy(job[j], HandlerColumns[op]) \in Row
  BY CopyType DEF TypeOK
<1>2. req' \in [Clients -> Request]
  BY <1>1 DEF Load, TypeOK, Request
<1> QED
  BY <1>2, ContestType DEF Load

\* The conjuncts of TypeOK about worker sessions.
SessionsTyped ==
    /\ sess \in [Workers -> Session]
    /\ \A v \in Workers : sess[v].pc # "idle" => sess[v].job \in Jobs

\* A worker's next session.
LEMMA SessionType ==
    ASSUME TypeOK, NEW w \in Workers, NEW s \in Session,
           s = IdleSession \/ s.job \in Jobs,
           sess' = [sess EXCEPT ![w] = s]
    PROVE  SessionsTyped'
  BY DEF TypeOK, SessionsTyped, IdleSession

-----------------------------------------------------------------------------
(* Type correctness *)

LEMMA TypeInit == Init => TypeOK
  BY BlankTypes DEF Init, TypeOK, IdleSession

LEMMA WorkerTypeOK ==
    ASSUME TypeOK, NEW w \in Workers, WorkerStep(w) \/ Crash(w)
    PROVE  TypeOK'
<1>0. /\ sess[w].pc \in {"idle", "claimed", "running", "failing", "limited"}
      /\ sess[w].job \in Jobs \cup {None}
      /\ sess[w].row \in Row
  BY DEF TypeOK, Session
<1>1. CASE claim_job(w)
  <2>1. PICK j \in Jobs :
          /\ job' = [job EXCEPT ![j].status = "extracting", ![j].lockedBy = w]
          /\ sess' = [sess EXCEPT ![w] = [pc |-> "claimed", job |-> j,
                                          row |-> BlankRow]]
    BY <1>1 DEF claim_job
  <2>2. job' \in [Jobs -> Row]
    <3> DEFINE claimed == [job[j] EXCEPT !.status = "extracting", !.lockedBy = w]
    <3>1. job[j] \in Row
      BY DEF TypeOK
    <3>2. claimed \in Row
      BY <3>1 DEF Row, Status
    <3>3. job' = [job EXCEPT ![j] = claimed]
      BY <2>1, <3>1 DEF Row
    <3> HIDE DEF claimed
    <3> QED
      BY <3>2, <3>3 DEF TypeOK
  <2>3. SessionsTyped'
    <3>1. [pc |-> "claimed", job |-> j, row |-> BlankRow] \in Session
      BY BlankTypes DEF Session
    <3> QED
      BY <2>1, <3>1, SessionType
  <2> QED
    BY <1>1, <2>2, <2>3 DEF claim_job, SessionsTyped, TypeOK
<1>2. CASE LoadJob(w)
  <2>1. \A j \in Jobs : Copy(job[j], {"status", "kind", "progress", "result"}) \in Row
    BY CopyType DEF TypeOK
  <2> DEFINE loaded == [pc |-> "running", job |-> sess[w].job,
                        row |-> Copy(job[sess[w].job],
                                     {"status", "kind", "progress", "result"})]
  <2>2. SessionsTyped'
    <3>1. sess[w].job \in Jobs
      BY <1>2 DEF LoadJob, TypeOK
    <3>2. loaded \in Session
      BY <2>1, <3>1 DEF Session
    <3>3. sess' = [sess EXCEPT ![w] = loaded] \/ sess' = [sess EXCEPT ![w] = IdleSession]
      BY <1>2 DEF LoadJob
    <3> QED
      BY <3>1, <3>2, <3>3, BlankTypes, SessionType
  <2> QED
    BY <1>2, <2>2 DEF LoadJob, tables, SessionsTyped, TypeOK
<1>3. CASE CompleteRun(w)
  <2> DEFINE row == sess[w].row
             done(table) ==
               [row EXCEPT !.status   = "awaiting_review",
                           !.result   = PipelineResult(row, table),
                           !.progress = [attempts |-> 0, deferred |-> FALSE,
                                         step |-> "done"]]
  <2>1. \A table \in {"flagged", "clean"} : done(table) \in Row
    BY <1>0, PipelineResultType DEF Row, Status, Progress
  <2>2. \A j \in Jobs, table \in {"flagged", "clean"} :
          WriteBack(job[j], row, done(table)) \in Row
    BY <1>0, <2>1, WriteBackType DEF TypeOK
  <2>3. job' \in [Jobs -> Row]
    BY <1>3, <2>2 DEF CompleteRun, TypeOK
  <2>4. SessionsTyped'
    BY <1>3, BlankTypes, SessionType DEF CompleteRun
  <2> QED
    BY <1>3, <2>3, <2>4 DEF CompleteRun, SessionsTyped, TypeOK
<1>4. CASE RollbackRun(w)
  <2>1. \A j \in Jobs, columns \in {FailureColumns[r] : r \in {"failing", "limited"}} :
          Copy(job[j], columns) \in Row
    BY CopyType DEF TypeOK
  <2> DEFINE failed(r) == [pc |-> r, job |-> sess[w].job,
                           row |-> Copy(job[sess[w].job], FailureColumns[r])]
  <2>2. SessionsTyped'
    <3>1. sess[w].job \in Jobs
      BY <1>4 DEF RollbackRun, TypeOK
    <3>2. \A r \in {"failing", "limited"} : failed(r) \in Session
      BY <2>1, <3>1 DEF Session
    <3>3. PICK r \in {"failing", "limited"} :
            sess' = [sess EXCEPT ![w] = failed(r)] \/ sess' = [sess EXCEPT ![w] = IdleSession]
      BY <1>4 DEF RollbackRun
    <3> QED
      BY <3>1, <3>2, <3>3, BlankTypes, SessionType
  <2> QED
    BY <1>4, <2>2 DEF RollbackRun, tables, SessionsTyped, TypeOK
<1>5. CASE RecordFailure(w)
  <2> DEFINE row == sess[w].row
  <2>1. RateLimited(row) \in Row
    BY <1>0, RateLimitedType
  <2>2. [row EXCEPT !.status = "failed"] \in Row
    BY <1>0 DEF Row, Status
  <2>3. \A j \in Jobs : /\ WriteBack(job[j], row, RateLimited(row)) \in Row
                        /\ WriteBack(job[j], row, [row EXCEPT !.status = "failed"]) \in Row
    BY <1>0, <2>1, <2>2, WriteBackType DEF TypeOK
  <2>4. job' \in [Jobs -> Row]
    BY <1>5, <2>3 DEF RecordFailure, TypeOK
  <2>5. SessionsTyped'
    BY <1>5, BlankTypes, SessionType DEF RecordFailure
  <2> QED
    BY <1>5, <2>4, <2>5 DEF RecordFailure, SessionsTyped, TypeOK
<1>6. CASE Crash(w)
  <2>1. SessionsTyped'
    BY <1>6, BlankTypes, SessionType DEF Crash
  <2> QED
    BY <1>6, <1>0, <2>1 DEF Crash, tables, SessionsTyped, TypeOK
<1> QED
  BY <1>1, <1>2, <1>3, <1>4, <1>5, <1>6 DEF WorkerStep

LEMMA RequestTypeOK ==
    ASSUME TypeOK, NEW c \in Clients, LoadStep(c) \/ CommitStep(c)
    PROVE  TypeOK'
<1> DEFINE seen == req[c].seen
<1>0. seen \in Row /\ req[c].jobs \in SUBSET Jobs /\ req[c].docs \in SUBSET Documents
  BY DEF TypeOK, Request
<1>1. ASSUME NEW j \in Jobs,
             NEW op \in {"patch", "confirm", "reextract", "reject", "retry"},
             Load(c, j, op)
      PROVE  TypeOK'
  <2>1. req' \in [Clients -> Request] /\ contested' \in SUBSET Jobs
    BY <1>1, LoadType
  <2> QED
    BY <1>1, <2>1 DEF Load, tables, TypeOK
<1>2. ASSUME NEW op, NEW new \in Row, Commit(c, op, new),
             \/ UNCHANGED <<live, landings>>
             \/ Land(req[c].jobs \cap jobs)
      PROVE  TypeOK'
  <2>1. job' \in [Jobs -> Row] /\ req' \in [Clients -> Request]
    BY <1>2, CommitType
  <2>2. live' \in SUBSET Documents /\ landings' \in [Jobs -> 0..2]
    BY <1>2, LandType DEF TypeOK
  <2> QED
    BY <1>2, <2>1, <2>2 DEF Commit, TypeOK
<1>3. CASE \E j \in Jobs : \/ LoadPatch(c, j)
                           \/ LoadConfirm(c, j)
                           \/ LoadReextract(c, j)
                           \/ LoadReject(c, j)
                           \/ LoadRetry(c, j)
  BY <1>1, <1>3 DEF LoadPatch, LoadConfirm, LoadReextract, LoadReject, LoadRetry
<1>4. CASE \E b \in Batches : LoadConfirmAll(c, b)
  <2>1. PICK chosen \in SUBSET Jobs :
          /\ req' = [req EXCEPT ![c] = [op |-> "confirm_all", jobs |-> chosen,
                                        seen |-> BlankRow, docs |-> {}]]
          /\ Contest(c, chosen, "confirm_all")
    BY <1>4 DEF LoadConfirmAll, JobsOfBatch, TypeOK
  <2>2. [op |-> "confirm_all", jobs |-> chosen, seen |-> BlankRow, docs |-> {}]
          \in Request
    BY BlankTypes DEF Request
  <2> QED
    BY <1>4, <2>1, <2>2, ContestType DEF LoadConfirmAll, tables, TypeOK
<1>5. CASE \E b \in Batches : LoadDeleteBatch(c, b)
  <2>1. PICK doomed \in SUBSET Documents :
          req' = [req EXCEPT ![c] = [op   |-> "delete_batch",
                                     jobs |-> {j \in jobs : DocumentOf[j] \in doomed},
                                     seen |-> BlankRow, docs |-> doomed]]
    BY <1>5 DEF LoadDeleteBatch, TypeOK
  <2>2. [op |-> "delete_batch", jobs |-> {j \in jobs : DocumentOf[j] \in doomed},
         seen |-> BlankRow, docs |-> doomed] \in Request
    BY BlankTypes DEF Request, TypeOK
  <2> QED
    BY <1>5, <2>1, <2>2 DEF LoadDeleteBatch, tables, TypeOK
<1>6. CASE patch_review(c)
  <2>1. PICK table \in {seen.result.table, "clean"} :
          Commit(c, "patch", [seen EXCEPT !.result.table = table])
    BY <1>6 DEF patch_review
  <2>2. [seen.result EXCEPT !.table = table] \in Result
    BY <1>0 DEF Row, Result
  <2>3. [seen EXCEPT !.result = [seen.result EXCEPT !.table = table]] \in Row
    BY <1>0, <2>2 DEF Row
  <2> QED
    BY <1>2, <1>6, <2>1, <2>3 DEF patch_review
<1>7. CASE confirm_job(c)
  <2>1. [seen EXCEPT !.status = "confirmed"] \in Row
    BY <1>0 DEF Row, Status
  <2> QED
    BY <1>2, <1>7, <2>1 DEF confirm_job
<1>8. CASE refuse_confirm(c)
  BY <1>8, BlankTypes DEF refuse_confirm, tables, TypeOK
<1>9. CASE reextract_job(c)
  <2> DEFINE result == [seen.result EXCEPT !.feedback = TRUE,
                          !.asked = IF @ < MaxReextracts THEN @ + 1 ELSE @]
             new == [seen EXCEPT !.kind = "reextract", !.status = "pending",
                                 !.progress = NoProgress, !.lockedBy = None,
                                 !.result = result]
  <2>1. result \in Result
    <3>1. seen.result \in Result
      BY <1>0 DEF Row
    <3>2. (IF seen.result.asked < MaxReextracts THEN seen.result.asked + 1
                                                ELSE seen.result.asked)
             \in 0..MaxReextracts
      BY <3>1, ConstantsAssumption DEF Result
    <3> QED
      BY <3>1, <3>2 DEF Result
  <2>2. new \in Row
    <3> HIDE DEF result
    <3> QED
      BY <1>0, <2>1 DEF Row, Status, Progress, NoProgress
  <2>3. Commit(c, "reextract", new) /\ UNCHANGED <<live, landings>>
    BY <1>9 DEF reextract_job
  <2> HIDE DEF new
  <2> QED
    BY <1>2, <2>2, <2>3
<1>10. CASE reject_job(c)
  <2>1. [seen EXCEPT !.status = "rejected"] \in Row
    BY <1>0 DEF Row, Status
  <2> QED
    BY <1>2, <1>10, <2>1 DEF reject_job
<1>11. CASE retry_job(c)
  <2> DEFINE progress == [seen.progress EXCEPT !.attempts = 0, !.deferred = FALSE]
             new == [seen EXCEPT !.status = "pending", !.lockedBy = None,
                                 !.progress = progress]
  <2>1. progress \in Progress
    BY <1>0 DEF Row, Progress
  <2>2. new \in Row
    <3> HIDE DEF progress
    <3> QED
      BY <1>0, <2>1 DEF Row, Status
  <2>3. Commit(c, "retry", new) /\ UNCHANGED <<live, landings>>
    BY <1>11 DEF retry_job
  <2> HIDE DEF new
  <2> QED
    BY <1>2, <2>2, <2>3
<1>12. CASE confirm_all_clean(c)
  <2>1. \A j \in Jobs : [job[j] EXCEPT !.status = "confirmed"] \in Row
    <3> SUFFICES ASSUME NEW j \in Jobs
                 PROVE  [job[j] EXCEPT !.status = "confirmed"] \in Row
      OBVIOUS
    <3>1. job[j] \in Row
      BY DEF TypeOK
    <3> QED
      BY <3>1 DEF Row, Status
  <2>2. job' \in [Jobs -> Row]
    BY <1>12, <2>1 DEF confirm_all_clean, TypeOK
  <2>3. live' \in SUBSET Documents /\ landings' \in [Jobs -> 0..2]
    BY <1>12, LandType DEF confirm_all_clean, TypeOK
  <2>4. req' \in [Clients -> Request]
    BY <1>12, BlankTypes DEF confirm_all_clean, TypeOK
  <2> QED
    BY <1>12, <2>2, <2>3, <2>4 DEF confirm_all_clean, TypeOK
<1>13. CASE delete_batch(c)
  <2>1. jobs' \in SUBSET Jobs /\ job' \in [Jobs -> Row]
    BY <1>13, DropJobsType DEF delete_batch, TypeOK
  <2>2. /\ documents' \in SUBSET Documents
        /\ live' \in SUBSET Documents
        /\ batches' \in SUBSET Batches
    BY <1>13, DropDocumentsType DEF delete_batch, TypeOK
  <2>3. req' \in [Clients -> Request]
    BY <1>13, BlankTypes DEF delete_batch, TypeOK
  <2> QED
    BY <1>13, <2>1, <2>2, <2>3 DEF delete_batch, TypeOK
<1> QED
  BY <1>3, <1>4, <1>5, <1>6, <1>7, <1>8, <1>9, <1>10, <1>11, <1>12, <1>13
     DEF LoadStep, CommitStep

LEMMA OneShotTypeOK ==
    ASSUME TypeOK, OneShotStep \/ \E j \in Jobs : DelayElapses(j)
    PROVE  TypeOK'
<1>1. CASE \E b \in Batches : upload_documents(b)
  <2>1. PICK b \in Batches : upload_documents(b)
    BY <1>1
  <2> DEFINE new == {UploadJob[d] : d \in {e \in Documents : BatchOf[e] = b}}
  <2>2. new \in SUBSET Jobs /\ InsertJobs(new, "extract")
    BY <2>1, ConstantsAssumption DEF upload_documents
  <2>3. /\ jobs' \in SUBSET Jobs
        /\ job' \in [Jobs -> Row]
        /\ createdAt' \in [Jobs -> Nat]
    BY <2>2, InsertJobsType
  <2> QED
    BY <2>1, <2>3 DEF upload_documents, TypeOK
<1>2. CASE enqueue_backfill
  <2>1. PICK new \in SUBSET Jobs : /\ InsertJobs(new, "backfill")
                                   /\ UNCHANGED <<documents, batches, live, landings,
                                                  sess, orphaned, contested,
                                                  req>>
    BY <1>2 DEF enqueue_backfill
  <2>2. /\ jobs' \in SUBSET Jobs
        /\ job' \in [Jobs -> Row]
        /\ createdAt' \in [Jobs -> Nat]
    BY <2>1, InsertJobsType
  <2> QED
    BY <2>1, <2>2 DEF TypeOK
<1>3. CASE \E d \in Documents : delete_document(d)
  BY <1>3, DropJobsType, DropDocumentsType DEF delete_document, TypeOK
<1>4. CASE \E j \in Jobs : DelayElapses(j)
  <2>1. PICK j \in Jobs : DelayElapses(j)
    BY <1>4
  <2>2. job[j] \in Row
    BY DEF TypeOK
  <2> DEFINE progress == [job[j].progress EXCEPT !.deferred = FALSE]
  <2>3. progress \in Progress
    BY <2>2 DEF Row, Progress
  <2>4. [job[j] EXCEPT !.progress = progress] \in Row
    <3> HIDE DEF progress
    <3> QED
      BY <2>2, <2>3 DEF Row
  <2>5. job' = [job EXCEPT ![j] = [job[j] EXCEPT !.progress = progress]]
    BY <2>1 DEF DelayElapses
  <2> HIDE DEF progress
  <2>6. job' \in [Jobs -> Row]
    BY <2>4, <2>5 DEF TypeOK
  <2>7. UNCHANGED <<documents, batches, jobs, createdAt, live, landings, sess,
                    orphaned, contested, req>>
    BY <2>1 DEF DelayElapses
  <2> QED
    BY <2>6, <2>7 DEF TypeOK
<1> QED
  BY <1>1, <1>2, <1>3, <1>4 DEF OneShotStep

\* Every reachable state is typed: in particular the dirty-column write of any
\* overlap of sessions still leaves a well-formed row.
THEOREM TypeCorrect == Spec => []TypeOK
<1>1. TypeOK /\ [Next]_vars => TypeOK'
  <2> SUFFICES ASSUME TypeOK, [Next]_vars
               PROVE  TypeOK'
    OBVIOUS
  <2>1. CASE UNCHANGED vars
    BY <2>1 DEF vars, TypeOK
  <2>2. CASE Next
    BY <2>2, WorkerTypeOK, RequestTypeOK, OneShotTypeOK
       DEF Next, SystemStep, UserStep
  <2> QED
    BY <2>1, <2>2
<1> QED
  BY <1>1, TypeInit, PTL DEF Spec

-----------------------------------------------------------------------------
(* One request at a time: the claim is exclusive *)

\* The reviewer works in one tab.
SerialRequests == \E c \in Clients : Clients = {c}

\* The job of a busy worker is `extracting`, or was rejected meanwhile.
RunsAreExtracting ==
    \A w \in Workers : Busy(w) /\ sess[w].job \in jobs =>
        job[sess[w].job].status \in {"extracting", "rejected"}

\* An id somebody holds has been inserted once, so it is never inserted again.
IdsAreUsed ==
    \A j \in Jobs :
        (j \in jobs \/ (\E w \in Workers : RunsJob(w, j)) \/ MayBeLocked(j))
            => createdAt[j] # 0

\* What a request will write over is still what it loaded.
RequestsAreCurrent ==
    \A c \in Clients : \A j \in req[c].jobs \cap jobs :
        /\ req[c].op \in {"confirm", "reextract", "confirm_all"}
             => job[j].status = "awaiting_review"
        /\ req[c].op = "retry" => job[j].status = "failed"

SerialInv ==
    ClaimExclusive /\ RunsAreExtracting /\ IdsAreUsed /\ RequestsAreCurrent

\* A run ends: the worker goes idle and only the row it ran may change.
LEMMA RunEnds ==
    ASSUME TypeOK, SerialInv, NEW w \in Workers, Busy(w),
           sess' = [sess EXCEPT ![w] = IdleSession],
           \A k \in Jobs : k # sess[w].job => job'[k] = job[k],
           UNCHANGED <<jobs, createdAt, req>>
    PROVE  SerialInv'
<1>1. \A v \in Workers : Busy(v)' =>
        v # w /\ Busy(v) /\ sess'[v] = sess[v] /\ sess[v].job # sess[w].job
  BY DEF SerialInv, ClaimExclusive, Busy, RunsJob, TypeOK, IdleSession
<1>2. ClaimExclusive'
  BY <1>1 DEF SerialInv, ClaimExclusive, RunsJob
<1>3. RunsAreExtracting'
  BY <1>1 DEF SerialInv, RunsAreExtracting, TypeOK
<1>4. IdsAreUsed'
  BY <1>1 DEF SerialInv, IdsAreUsed, RunsJob, MayBeLocked
<1>5. RequestsAreCurrent'
  BY DEF SerialInv, RequestsAreCurrent, RunsAreExtracting, TypeOK
<1> QED
  BY <1>2, <1>3, <1>4, <1>5 DEF SerialInv

\* A worker moves on with the same job, or drops it.
LEMMA RunContinues ==
    ASSUME TypeOK, SerialInv, NEW w \in Workers, Busy(w), NEW s,
           sess' = [sess EXCEPT ![w] = s],
           s = IdleSession \/ s.job = sess[w].job,
           UNCHANGED <<jobs, job, createdAt, req>>
    PROVE  SerialInv'
<1>1. \A v \in Workers : Busy(v)' => Busy(v) /\ sess'[v].job = sess[v].job
  BY DEF Busy, TypeOK, IdleSession
<1>2. ClaimExclusive'
  BY <1>1 DEF SerialInv, ClaimExclusive, RunsJob
<1>3. RunsAreExtracting'
  BY <1>1 DEF SerialInv, RunsAreExtracting
<1>4. IdsAreUsed'
  BY <1>1 DEF SerialInv, IdsAreUsed, RunsJob, MayBeLocked
<1>5. RequestsAreCurrent'
  BY DEF SerialInv, RequestsAreCurrent
<1> QED
  BY <1>2, <1>3, <1>4, <1>5 DEF SerialInv

\* Fresh ids: nobody runs them or has loaded them.
LEMMA JobsInserted ==
    ASSUME TypeOK, SerialInv, NEW new \in SUBSET Jobs, NEW kind,
           InsertJobs(new, kind), UNCHANGED <<sess, req>>
    PROVE  SerialInv'
<1>0. Cardinality(Jobs) \in Nat
  BY FS_CardinalityType, ConstantsAssumption
<1>1. \A j \in Jobs : (j \in new => createdAt'[j] # 0)
                      /\ (j \notin new => createdAt'[j] = createdAt[j] /\ job'[j] = job[j])
  BY <1>0 DEF InsertJobs
<1>2. \A j \in new : /\ j \notin jobs
                     /\ \A w \in Workers : ~RunsJob(w, j)
                     /\ ~MayBeLocked(j)
  BY DEF SerialInv, IdsAreUsed, InsertJobs
<1>3. \A w \in Workers : Busy(w) => sess[w].job \in Jobs \ new
  BY <1>2 DEF TypeOK, Busy, RunsJob
<1>4. ClaimExclusive'
  BY DEF SerialInv, ClaimExclusive, Busy, RunsJob
<1>5. RunsAreExtracting'
  BY <1>1, <1>3 DEF SerialInv, RunsAreExtracting, Busy, InsertJobs
<1>6. IdsAreUsed'
  BY <1>1 DEF SerialInv, IdsAreUsed, Busy, RunsJob, MayBeLocked, InsertJobs
<1>7. RequestsAreCurrent'
  <2> SUFFICES ASSUME NEW c \in Clients, NEW j \in req[c].jobs \cap jobs'
               PROVE  /\ req[c].op \in {"confirm", "reextract", "confirm_all"}
                           => job'[j].status = "awaiting_review"
                      /\ req[c].op = "retry" => job'[j].status = "failed"
    BY DEF RequestsAreCurrent
  <2>1. j \notin new
    BY <1>2 DEF MayBeLocked
  <2>2. j \in jobs
    BY <2>1 DEF InsertJobs
  <2>3. job'[j] = job[j]
    BY <1>1, <2>1, <2>2 DEF TypeOK
  <2> QED
    BY <2>2, <2>3 DEF SerialInv, RequestsAreCurrent
<1> QED
  BY <1>4, <1>5, <1>6, <1>7 DEF SerialInv

\* Rows go, the rest of the table stays.
LEMMA JobsDropped ==
    ASSUME TypeOK, SerialInv, NEW gone, DropJobs(gone),
           \A c \in Clients : req'[c] = req[c] \/ req'[c] = IdleRequest,
           UNCHANGED <<sess, createdAt>>
    PROVE  SerialInv'
<1>1. jobs' \subseteq jobs /\ \A j \in jobs' : job'[j] = job[j]
  BY DEF DropJobs, TypeOK
<1>2. ClaimExclusive'
  BY DEF SerialInv, ClaimExclusive, Busy, RunsJob
<1>3. RunsAreExtracting'
  BY <1>1 DEF SerialInv, RunsAreExtracting, Busy
<1>4. IdsAreUsed'
  BY <1>1 DEF SerialInv, IdsAreUsed, Busy, RunsJob, MayBeLocked, IdleRequest
<1>5. RequestsAreCurrent'
  BY <1>1 DEF SerialInv, RequestsAreCurrent, IdleRequest
<1> QED
  BY <1>2, <1>3, <1>4, <1>5 DEF SerialInv

\* A request loads rows in the status its handler asks for.
LEMMA RowsLoaded ==
    ASSUME TypeOK, SerialInv, NEW c \in Clients, NEW r,
           req' = [req EXCEPT ![c] = r], r.jobs \subseteq jobs,
           \A j \in r.jobs :
              /\ r.op \in {"confirm", "reextract", "confirm_all"}
                   => job[j].status = "awaiting_review"
              /\ r.op = "retry" => job[j].status = "failed",
           UNCHANGED <<jobs, job, createdAt, sess>>
    PROVE  SerialInv'
<1>1. \A v \in Clients : req'[v] = IF v = c THEN r ELSE req[v]
  BY DEF TypeOK
<1>2. ClaimExclusive' /\ RunsAreExtracting'
  BY DEF SerialInv, ClaimExclusive, RunsAreExtracting, Busy, RunsJob
<1>3. IdsAreUsed'
  BY <1>1 DEF SerialInv, IdsAreUsed, Busy, RunsJob, MayBeLocked
<1>4. RequestsAreCurrent'
  BY <1>1 DEF SerialInv, RequestsAreCurrent
<1> QED
  BY <1>2, <1>3, <1>4 DEF SerialInv

\* The only request commits: it leaves alone the status of every row a worker
\* runs, except that it may reject it.
LEMMA RowsWritten ==
    ASSUME TypeOK, SerialInv, NEW c \in Clients, Clients = {c},
           req' = [req EXCEPT ![c] = IdleRequest],
           \A w \in Workers : Busy(w) /\ sess[w].job \in jobs =>
              job'[sess[w].job].status \in {job[sess[w].job].status, "rejected"},
           UNCHANGED <<jobs, createdAt, sess>>
    PROVE  SerialInv'
<1>1. req'[c] = IdleRequest
  BY DEF TypeOK
<1>2. ClaimExclusive'
  BY DEF SerialInv, ClaimExclusive, Busy, RunsJob
<1>3. RunsAreExtracting'
  BY DEF SerialInv, RunsAreExtracting, Busy
<1>4. IdsAreUsed'
  BY <1>1 DEF SerialInv, IdsAreUsed, Busy, RunsJob, MayBeLocked, IdleRequest
<1>5. RequestsAreCurrent'
  BY <1>1 DEF RequestsAreCurrent, IdleRequest
<1> QED
  BY <1>2, <1>3, <1>4, <1>5 DEF SerialInv

LEMMA WorkerSerial ==
    ASSUME TypeOK, SerialInv, NEW w \in Workers, WorkerStep(w) \/ Crash(w)
    PROVE  SerialInv'
<1>1. CASE claim_job(w)
  <2>1. PICK j \in Jobs :
          /\ Claimable(j)
          /\ job' = [job EXCEPT ![j].status = "extracting", ![j].lockedBy = w]
          /\ sess' = [sess EXCEPT ![w] = [pc |-> "claimed", job |-> j,
                                          row |-> BlankRow]]
    BY <1>1 DEF claim_job
  <2>2. UNCHANGED <<jobs, createdAt, req>>
    BY <1>1 DEF claim_job
  <2>3. j \in jobs /\ job[j].status = "pending" /\ job[j] \in Row
    BY <2>1 DEF Claimable, TypeOK
  <2>4. \A v \in Workers : Busy(v) => sess[v].job # j
    BY <2>3 DEF SerialInv, RunsAreExtracting
  <2>5. /\ job'[j].status = "extracting"
        /\ \A k \in Jobs : k # j => job'[k] = job[k]
    BY <2>1, <2>3 DEF TypeOK, Row
  <2>6. /\ sess'[w].job = j
        /\ \A v \in Workers : v # w => sess'[v] = sess[v]
    BY <2>1 DEF TypeOK
  <2>7. ClaimExclusive'
    BY <2>4, <2>6 DEF SerialInv, ClaimExclusive, Busy, RunsJob
  <2>8. RunsAreExtracting'
    BY <2>2, <2>4, <2>5, <2>6 DEF SerialInv, RunsAreExtracting, Busy, TypeOK
  <2>9. IdsAreUsed'
    BY <2>2, <2>3, <2>6 DEF SerialInv, IdsAreUsed, Busy, RunsJob, MayBeLocked
  <2>10. RequestsAreCurrent'
    BY <2>2, <2>3, <2>5 DEF SerialInv, RequestsAreCurrent, TypeOK
  <2> QED
    BY <2>7, <2>8, <2>9, <2>10 DEF SerialInv
<1>2. CASE LoadJob(w) \/ RollbackRun(w)
  <2>1. Busy(w) /\ UNCHANGED <<jobs, job, createdAt, req>>
    BY <1>2 DEF LoadJob, RollbackRun, tables, Busy
  <2>2. PICK s : /\ sess' = [sess EXCEPT ![w] = s]
                 /\ s = IdleSession \/ s.job = sess[w].job
    BY <1>2 DEF LoadJob, RollbackRun
  <2> QED
    BY <2>1, <2>2, RunContinues
<1>3. CASE CompleteRun(w) \/ RecordFailure(w) \/ Crash(w)
  <2>1. /\ Busy(w)
        /\ sess' = [sess EXCEPT ![w] = IdleSession]
        /\ UNCHANGED <<jobs, createdAt, req>>
    BY <1>3 DEF CompleteRun, RecordFailure, Crash, tables, Busy
  <2>2. \A k \in Jobs : k # sess[w].job => job'[k] = job[k]
    BY <1>3 DEF CompleteRun, RecordFailure, Crash, tables, TypeOK
  <2> QED
    BY <2>1, <2>2, RunEnds
<1> QED
  BY <1>1, <1>2, <1>3 DEF WorkerStep

LEMMA LoadSerial ==
    ASSUME TypeOK, SerialInv, NEW c \in Clients, LoadStep(c)
    PROVE  SerialInv'
<1>1. ASSUME NEW j \in Jobs,
             NEW op \in {"patch", "confirm", "reextract", "reject", "retry"},
             Load(c, j, op),
             op \in {"confirm", "reextract"} => job[j].status = "awaiting_review",
             op = "retry" => job[j].status = "failed"
      PROVE  SerialInv'
  <2> DEFINE r == [op |-> op, jobs |-> {j}, docs |-> {},
                   seen |-> Copy(job[j], HandlerColumns[op])]
  <2>1. req' = [req EXCEPT ![c] = r] /\ r.jobs \subseteq jobs
    BY <1>1 DEF Load
  <2>2. UNCHANGED <<jobs, job, createdAt, sess>>
    BY <1>1 DEF Load, tables
  <2>3. \A k \in r.jobs :
          /\ r.op \in {"confirm", "reextract", "confirm_all"}
               => job[k].status = "awaiting_review"
          /\ r.op = "retry" => job[k].status = "failed"
    BY <1>1
  <2> HIDE DEF r
  <2> QED
    BY <2>1, <2>2, <2>3, RowsLoaded
<1>2. CASE \E j \in Jobs : \/ LoadPatch(c, j)
                           \/ LoadConfirm(c, j)
                           \/ LoadReextract(c, j)
                           \/ LoadReject(c, j)
                           \/ LoadRetry(c, j)
  BY <1>1, <1>2 DEF LoadPatch, LoadConfirm, LoadReextract, LoadReject, LoadRetry
<1>3. CASE \E b \in Batches : LoadConfirmAll(c, b)
  <2>1. PICK chosen \in SUBSET {j \in jobs : job[j].status = "awaiting_review"} :
          req' = [req EXCEPT ![c] = [op |-> "confirm_all", jobs |-> chosen,
                                     seen |-> BlankRow, docs |-> {}]]
    BY <1>3 DEF LoadConfirmAll, JobsOfBatch
  <2>2. UNCHANGED <<jobs, job, createdAt, sess>>
    BY <1>3 DEF LoadConfirmAll, tables
  <2> DEFINE r == [op |-> "confirm_all", jobs |-> chosen, seen |-> BlankRow,
                   docs |-> {}]
  <2>3. /\ r.jobs \subseteq jobs
        /\ r.op # "retry"
        /\ \A j \in r.jobs : job[j].status = "awaiting_review"
    OBVIOUS
  <2>4. req' = [req EXCEPT ![c] = r]
    BY <2>1
  <2> HIDE DEF r
  <2> QED
    BY <2>2, <2>3, <2>4, RowsLoaded
<1>4. CASE \E b \in Batches : LoadDeleteBatch(c, b)
  <2>1. PICK doomed :
          req' = [req EXCEPT ![c] = [op   |-> "delete_batch",
                                     jobs |-> {j \in jobs : DocumentOf[j] \in doomed},
                                     seen |-> BlankRow, docs |-> doomed]]
    BY <1>4 DEF LoadDeleteBatch
  <2>2. UNCHANGED <<jobs, job, createdAt, sess>>
    BY <1>4 DEF LoadDeleteBatch, tables
  <2> DEFINE r == [op   |-> "delete_batch",
                   jobs |-> {j \in jobs : DocumentOf[j] \in doomed},
                   seen |-> BlankRow, docs |-> doomed]
  <2>3. r.jobs \subseteq jobs /\ r.op = "delete_batch"
    OBVIOUS
  <2>4. req' = [req EXCEPT ![c] = r]
    BY <2>1
  <2> HIDE DEF r
  <2> QED
    BY <2>2, <2>3, <2>4, RowsLoaded
<1> QED
  BY <1>2, <1>3, <1>4 DEF LoadStep

LEMMA CommitSerial ==
    ASSUME TypeOK, SerialInv, NEW c \in Clients, Clients = {c}, CommitStep(c)
    PROVE  SerialInv'
<1> DEFINE seen == req[c].seen
           Harmless == \A w \in Workers : Busy(w) /\ sess[w].job \in jobs =>
             job'[sess[w].job].status \in {job[sess[w].job].status, "rejected"}
<1>0. seen \in Row
  BY DEF TypeOK, Request
\* A handler writes its rows only, and their status only if it assigns it.
<1>1. ASSUME NEW op, NEW new \in Row, Commit(c, op, new),
             \/ new.status \in {seen.status, "rejected"}
             \/ op \in {"confirm", "reextract", "retry"}
      PROVE  SerialInv'
  <2>1. /\ req' = [req EXCEPT ![c] = IdleRequest]
        /\ UNCHANGED <<jobs, createdAt, sess>>
        /\ req[c].op = op
    BY <1>1 DEF Commit
  <2>2. Harmless
    <3> SUFFICES ASSUME NEW w \in Workers, Busy(w), sess[w].job \in jobs
                 PROVE  job'[sess[w].job].status \in {job[sess[w].job].status, "rejected"}
      OBVIOUS
    <3> DEFINE j == sess[w].job
    <3>0. j \in Jobs /\ job[j].status \in {"extracting", "rejected"}
      BY DEF SerialInv, RunsAreExtracting, TypeOK
    <3>1. CASE j \notin req[c].jobs
      BY <1>1, <3>0, <3>1 DEF Commit
    <3>2. CASE j \in req[c].jobs
      <4>1. op \notin {"confirm", "reextract", "retry"}
        BY <2>1, <3>0, <3>2 DEF SerialInv, RequestsAreCurrent
      <4>2. job'[j] = WriteBack(job[j], seen, new)
        BY <1>1, <3>0, <3>2 DEF Commit
      <4>3. job'[j].status = Column(job[j].status, seen.status, new.status)
        BY <4>2 DEF WriteBack
      <4> QED
        BY <1>1, <4>1, <4>3 DEF Column
    <3> QED
      BY <3>1, <3>2
  <2> QED
    BY <2>1, <2>2, RowsWritten
<1>2. CASE patch_review(c)
  <2>1. PICK table \in {seen.result.table, "clean"} :
          Commit(c, "patch", [seen EXCEPT !.result.table = table])
    BY <1>2 DEF patch_review
  <2> DEFINE result == [seen.result EXCEPT !.table = table]
             new == [seen EXCEPT !.result = result]
  <2>2. result \in Result
    BY <1>0 DEF Row, Result
  <2>3. new \in Row /\ new.status = seen.status
    <3> HIDE DEF result
    <3> QED
      BY <1>0, <2>2 DEF Row
  <2>4. Commit(c, "patch", new)
    BY <2>1
  <2> HIDE DEF new
  <2> QED
    BY <1>1, <2>3, <2>4
<1>3. CASE confirm_job(c)
  <2>1. [seen EXCEPT !.status = "confirmed"] \in Row
    BY <1>0 DEF Row, Status
  <2> QED
    BY <1>1, <1>3, <2>1 DEF confirm_job
<1>4. CASE refuse_confirm(c)
  BY <1>4, RowsWritten DEF refuse_confirm, tables
<1>5. CASE reextract_job(c)
  <2> DEFINE result == [seen.result EXCEPT !.feedback = TRUE,
                          !.asked = IF @ < MaxReextracts THEN @ + 1 ELSE @]
             new == [seen EXCEPT !.kind = "reextract", !.status = "pending",
                                 !.progress = NoProgress, !.lockedBy = None,
                                 !.result = result]
  <2>1. result \in Result
    <3>1. seen.result \in Result
      BY <1>0 DEF Row
    <3>2. (IF seen.result.asked < MaxReextracts THEN seen.result.asked + 1
                                                ELSE seen.result.asked)
             \in 0..MaxReextracts
      BY <3>1, ConstantsAssumption DEF Result
    <3> QED
      BY <3>1, <3>2 DEF Result
  <2>2. new \in Row
    <3> HIDE DEF result
    <3> QED
      BY <1>0, <2>1 DEF Row, Status, Progress, NoProgress
  <2>3. Commit(c, "reextract", new)
    BY <1>5 DEF reextract_job
  <2> HIDE DEF new
  <2> QED
    BY <1>1, <2>2, <2>3
<1>6. CASE reject_job(c)
  <2>1. [seen EXCEPT !.status = "rejected"] \in Row
    BY <1>0 DEF Row, Status
  <2>2. [seen EXCEPT !.status = "rejected"].status = "rejected"
    BY <1>0 DEF Row
  <2> QED
    BY <1>1, <1>6, <2>1, <2>2 DEF reject_job
<1>7. CASE retry_job(c)
  <2> DEFINE progress == [seen.progress EXCEPT !.attempts = 0, !.deferred = FALSE]
             new == [seen EXCEPT !.status = "pending", !.lockedBy = None,
                                 !.progress = progress]
  <2>1. progress \in Progress
    BY <1>0 DEF Row, Progress
  <2>2. new \in Row
    <3> HIDE DEF progress
    <3> QED
      BY <1>0, <2>1 DEF Row, Status
  <2>3. Commit(c, "retry", new)
    BY <1>7 DEF retry_job
  <2> HIDE DEF new
  <2> QED
    BY <1>1, <2>2, <2>3
<1>8. CASE confirm_all_clean(c)
  <2>1. /\ req' = [req EXCEPT ![c] = IdleRequest]
        /\ UNCHANGED <<jobs, createdAt, sess>>
        /\ req[c].op = "confirm_all"
    BY <1>8 DEF confirm_all_clean
  <2>2. Harmless
    <3> SUFFICES ASSUME NEW w \in Workers, Busy(w), sess[w].job \in jobs
                 PROVE  job'[sess[w].job] = job[sess[w].job]
      OBVIOUS
    <3>1. sess[w].job \in Jobs /\ job[sess[w].job].status # "awaiting_review"
      BY DEF SerialInv, RunsAreExtracting, TypeOK
    <3>2. sess[w].job \notin req[c].jobs
      BY <2>1, <3>1 DEF SerialInv, RequestsAreCurrent
    <3> QED
      BY <1>8, <3>1, <3>2 DEF confirm_all_clean
  <2> QED
    BY <2>1, <2>2, RowsWritten
<1>9. CASE delete_batch(c)
  <2>1. /\ UNCHANGED <<sess, createdAt>>
        /\ \A v \in Clients : req'[v] = req[v] \/ req'[v] = IdleRequest
        /\ req' = [req EXCEPT ![c] = IdleRequest]
    BY <1>9 DEF delete_batch, TypeOK
  <2>2. CASE DropJobs(req[c].jobs \cap jobs)
    BY <2>1, <2>2, JobsDropped
  <2>3. CASE UNCHANGED <<jobs, job>>
    BY <2>1, <2>3, RowsWritten
  <2> QED
    BY <1>9, <2>2, <2>3 DEF delete_batch
<1> QED
  BY <1>2, <1>3, <1>4, <1>5, <1>6, <1>7, <1>8, <1>9 DEF CommitStep

LEMMA OneShotSerial ==
    ASSUME TypeOK, SerialInv, OneShotStep
    PROVE  SerialInv'
<1>1. CASE \E b \in Batches : upload_documents(b)
  <2>1. PICK b \in Batches : upload_documents(b)
    BY <1>1
  <2> DEFINE new == {UploadJob[d] : d \in {e \in Documents : BatchOf[e] = b}}
  <2>2. /\ new \in SUBSET Jobs
        /\ InsertJobs(new, "extract")
        /\ UNCHANGED <<sess, req>>
    BY <2>1, ConstantsAssumption DEF upload_documents
  <2> QED
    BY <2>2, JobsInserted
<1>2. CASE enqueue_backfill
  <2>1. PICK new \in SUBSET Jobs : InsertJobs(new, "backfill") /\ UNCHANGED <<sess, req>>
    BY <1>2 DEF enqueue_backfill
  <2> QED
    BY <2>1, JobsInserted
<1>3. CASE \E d \in Documents : delete_document(d)
  BY <1>3, JobsDropped DEF delete_document
<1> QED
  BY <1>1, <1>2, <1>3 DEF OneShotStep

LEMMA DelaySerial ==
    ASSUME TypeOK, SerialInv, NEW j \in Jobs, DelayElapses(j)
    PROVE  SerialInv'
<1>1. \A k \in Jobs : job'[k].status = job[k].status
  <2>1. job[j] \in Row
    BY DEF TypeOK
  <2>2. job' = [job EXCEPT ![j] = [job[j] EXCEPT
                  !.progress = [job[j].progress EXCEPT !.deferred = FALSE]]]
    BY DEF DelayElapses
  <2> QED
    BY <2>1, <2>2 DEF TypeOK, Row
<1>2. UNCHANGED <<jobs, createdAt, sess, req>>
  BY DEF DelayElapses
<1> QED
  BY <1>1, <1>2
     DEF SerialInv, ClaimExclusive, RunsAreExtracting, IdsAreUsed,
         RequestsAreCurrent, Busy, RunsJob, MayBeLocked, TypeOK

LEMMA SerialInit == Init => SerialInv
  BY ConstantsAssumption
     DEF Init, SerialInv, ClaimExclusive, RunsAreExtracting, IdsAreUsed,
         RequestsAreCurrent, Busy, RunsJob, MayBeLocked, IdleSession, IdleRequest

LEMMA SerialStep ==
    ASSUME SerialRequests, TypeOK, SerialInv, [Next]_vars
    PROVE  SerialInv'
<1>1. CASE UNCHANGED vars
  BY <1>1 DEF vars, SerialInv, ClaimExclusive, RunsAreExtracting, IdsAreUsed,
              RequestsAreCurrent, Busy, RunsJob, MayBeLocked
<1>2. CASE \E c \in Clients : CommitStep(c)
  BY <1>2, CommitSerial DEF SerialRequests
<1>3. CASE Next /\ ~(\E c \in Clients : CommitStep(c))
  BY <1>3, WorkerSerial, LoadSerial, OneShotSerial, DelaySerial
     DEF Next, SystemStep, UserStep
<1> QED
  BY <1>1, <1>2, <1>3

\* However many workers poll the queue, no two of them run the same job, as
\* long as the handlers that write job rows run one at a time.
THEOREM ClaimsAreExclusive ==
    ASSUME SerialRequests
    PROVE  Spec => []ClaimExclusive
<1>1. SerialInv /\ TypeOK /\ [Next]_vars => SerialInv'
  BY SerialStep
<1>2. SerialInv => ClaimExclusive
  BY DEF SerialInv
<1> QED
  BY <1>1, <1>2, SerialInit, TypeCorrect, PTL DEF Spec

\* And a worker's commit lands only on a run in progress or one rejected
\* meanwhile, never on a table under review, a confirmed or a requeued job.
THEOREM WorkersWriteOnlyRuns ==
    ASSUME SerialRequests
    PROVE  Spec => WorkersWriteOnlyTheirRuns
<1>1. SerialInv /\ TypeOK /\ [Next]_vars => SerialInv'
  BY SerialStep
<1>2. SerialInv =>
        [\A w \in Workers : CompleteRun(w) \/ RecordFailure(w)
                              => ~WorkerOverwrites(w)]_vars
  BY DEF SerialInv, RunsAreExtracting, WorkerOverwrites, CompleteRun,
         RecordFailure, Busy
<1> QED
  BY <1>1, <1>2, SerialInit, TypeCorrect, PTL DEF Spec, WorkersWriteOnlyTheirRuns

-----------------------------------------------------------------------------
(* Requests may overlap: only deleting a document removes live data *)

\* Workers and handlers that still load leave the live tables alone.
LEMMA LiveFramed ==
    ASSUME \/ \E w \in Workers : WorkerStep(w) \/ Crash(w)
           \/ \E j \in Jobs : DelayElapses(j)
           \/ \E c \in Clients : LoadStep(c)
    PROVE  live' = live
<1>1. CASE \E w \in Workers : WorkerStep(w) \/ Crash(w)
  BY <1>1 DEF WorkerStep, claim_job, LoadJob, CompleteRun, RollbackRun,
              RecordFailure, Crash, tables
<1>2. CASE \E j \in Jobs : DelayElapses(j)
  BY <1>2 DEF DelayElapses
<1>3. CASE \E c \in Clients : LoadStep(c)
  BY <1>3 DEF LoadStep, LoadPatch, LoadConfirm, LoadReextract, LoadReject,
              LoadRetry, Load, LoadConfirmAll, LoadDeleteBatch, tables
<1> QED
  BY <1>1, <1>2, <1>3

\* A commit adds live data or, the batch delete's, removes documents none of
\* which is live by then.
LEMMA CommitsKeepLive ==
    ASSUME NEW c \in Clients, CommitStep(c)
    PROVE  live \subseteq live'
<1>1. CASE patch_review(c) \/ reextract_job(c) \/ reject_job(c) \/ retry_job(c)
           \/ refuse_confirm(c)
  BY <1>1 DEF patch_review, reextract_job, reject_job, retry_job, refuse_confirm,
              tables
<1>2. CASE confirm_job(c) \/ confirm_all_clean(c)
  BY <1>2 DEF confirm_job, confirm_all_clean, Land
<1>3. CASE delete_batch(c)
  <2> DEFINE doomed == req[c].docs \cap documents
  <2>1. CASE doomed \cap live = {} /\ DropDocuments(doomed)
    BY <2>1 DEF DropDocuments
  <2>2. CASE live' = live
    BY <2>2
  <2> QED
    BY <1>3, <2>1, <2>2 DEF delete_batch
<1> QED
  BY <1>1, <1>2, <1>3 DEF CommitStep

LEMMA OneShotsKeepLive ==
    ASSUME OneShotStep, NEW d \in live \ live'
    PROVE  delete_document(d)
<1>1. ~\E b \in Batches : upload_documents(b)
  BY DEF upload_documents
<1>2. ~enqueue_backfill
  BY DEF enqueue_backfill
<1>3. PICK e \in Documents : delete_document(e)
  BY <1>1, <1>2 DEF OneShotStep
<1>4. d = e
  BY <1>3 DEF delete_document, DropDocuments
<1> QED
  BY <1>3, <1>4

\* Whatever requests overlap: a document leaves the live tables only in the
\* request that deletes it (DELETE /documents/{id}).
THEOREM CommittedDataIsKept == Spec => KeepsCommittedData
<1>1. [Next]_vars => [\A d \in live \ live' : delete_document(d)]_vars
  <2> SUFFICES ASSUME Next, NEW d \in live \ live' PROVE delete_document(d)
    OBVIOUS
  <2>1. OneShotStep
    BY LiveFramed, CommitsKeepLive DEF Next, SystemStep, UserStep
  <2> QED
    BY <2>1, OneShotsKeepLive
<1> QED
  BY <1>1, PTL DEF Spec, KeepsCommittedData

-----------------------------------------------------------------------------
(* Requests may overlap: no run is lost sight of *)

\* Whoever runs an `extracting` job has not loaded it yet or loaded it as
\* `extracting`, so its commit will find the status changed and write it.
SeenExtracting(w) == sess[w].pc = "claimed" \/ sess[w].row.status = "extracting"

RunnersWillWrite ==
    \A j \in jobs : job[j].status = "extracting" =>
        j \in orphaned \/ \E w \in Workers : RunsJob(w, j) /\ SeenExtracting(w)

\* Only a claim makes a row `extracting`.
NoneStarts == \A j \in jobs' : job'[j].status = "extracting" =>
                  j \in jobs /\ job[j].status = "extracting"

LEMMA HandlersStartNone ==
    ASSUME RunnersWillWrite, NoneStarts, UNCHANGED <<sess, orphaned>>
    PROVE  RunnersWillWrite'
  BY DEF RunnersWillWrite, NoneStarts, RunsJob, Busy, SeenExtracting

LEMMA WorkersWillWrite ==
    ASSUME TypeOK, RunnersWillWrite, NEW w \in Workers, WorkerStep(w) \/ Crash(w)
    PROVE  RunnersWillWrite'
<1> SUFFICES ASSUME NEW j \in jobs', job'[j].status = "extracting"
             PROVE  \/ j \in orphaned'
                    \/ \E v \in Workers : RunsJob(v, j)' /\ SeenExtracting(v)'
  BY DEF RunnersWillWrite
<1>0. jobs' = jobs /\ j \in Jobs /\ j \in jobs
  BY DEF WorkerStep, claim_job, LoadJob, CompleteRun, RollbackRun,
         RecordFailure, Crash, tables, TypeOK
<1>1. CASE claim_job(w)
  <2>1. PICK k \in Jobs :
          /\ job' = [job EXCEPT ![k].status = "extracting", ![k].lockedBy = w]
          /\ sess' = [sess EXCEPT ![w] = [pc |-> "claimed", job |-> k,
                                          row |-> BlankRow]]
    BY <1>1 DEF claim_job
  <2>2. ~Busy(w) /\ orphaned' = orphaned
    BY <1>1 DEF claim_job, Busy
  <2>3. /\ sess'[w].pc = "claimed" /\ sess'[w].job = k
        /\ \A v \in Workers : v # w => sess'[v] = sess[v]
    BY <2>1 DEF TypeOK
  <2>4. CASE j = k
    BY <2>3, <2>4 DEF RunsJob, Busy, SeenExtracting
  <2>5. CASE j # k
    <3>1. job'[j] = job[j]
      BY <2>1, <2>5, <1>0 DEF TypeOK
    <3>2. j \in orphaned \/ \E v \in Workers \ {w} : RunsJob(v, j) /\ SeenExtracting(v)
      BY <1>0, <2>2, <3>1 DEF RunnersWillWrite, RunsJob
    <3> QED
      BY <2>2, <2>3, <3>2 DEF RunsJob, Busy, SeenExtracting
  <2> QED
    BY <2>4, <2>5
<1>2. CASE LoadJob(w) \/ RollbackRun(w)
  <2>1. UNCHANGED <<job, orphaned>>
    BY <1>2 DEF LoadJob, RollbackRun, tables
  <2>2. CASE sess[w].job = j
    <3>1. Copy(job[j], {"status", "kind", "progress", "result"}).status = "extracting"
      BY <2>1 DEF Copy
    <3>2. \A reason \in {"failing", "limited"} :
            Copy(job[j], FailureColumns[reason]).status = "extracting"
      BY <2>1 DEF Copy, FailureColumns
    <3>3. PICK pc, row :
            /\ pc \in {"running", "failing", "limited"}
            /\ sess' = [sess EXCEPT ![w] = [pc |-> pc, job |-> j, row |-> row]]
            /\ row.status = "extracting"
      BY <1>0, <1>2, <2>2, <3>1, <3>2 DEF LoadJob, RollbackRun
    <3>4. sess'[w] = [pc |-> pc, job |-> j, row |-> row]
      BY <3>3 DEF TypeOK
    <3>5. RunsJob(w, j)' /\ SeenExtracting(w)'
      BY <3>3, <3>4 DEF RunsJob, Busy, SeenExtracting
    <3> QED
      BY <3>5
  <2>3. CASE sess[w].job # j
    <3>1. \A v \in Workers : v # w => sess'[v] = sess[v]
      BY <1>2 DEF LoadJob, RollbackRun, TypeOK
    <3>2. j \in orphaned \/ \E v \in Workers \ {w} : RunsJob(v, j) /\ SeenExtracting(v)
      BY <1>0, <2>1, <2>3 DEF RunnersWillWrite, RunsJob
    <3> QED
      BY <2>1, <3>1, <3>2 DEF RunsJob, Busy, SeenExtracting
  <2> QED
    BY <2>2, <2>3
<1>3. CASE CompleteRun(w) \/ RecordFailure(w)
  <2>1. /\ sess[w].pc \in {"running", "failing", "limited"}
        /\ orphaned' = orphaned
        /\ \A v \in Workers : v # w => sess'[v] = sess[v]
    BY <1>3 DEF CompleteRun, RecordFailure, TypeOK
  <2>2. sess[w].row \in Row
    BY DEF TypeOK, Session
  <2>3. sess[w].job # j => job'[j] = job[j]
    BY <1>0, <1>3 DEF CompleteRun, RecordFailure, TypeOK
  <2>4. sess[w].job = j =>
          \E s \in {"awaiting_review", "failed", "pending"} :
            job'[j].status = Column(job[j].status, sess[w].row.status, s)
    <3> SUFFICES ASSUME sess[w].job = j
                 PROVE  \E s \in {"awaiting_review", "failed", "pending"} :
                          job'[j].status = Column(job[j].status, sess[w].row.status, s)
      OBVIOUS
    <3> DEFINE row == sess[w].row
    <3>1. CASE CompleteRun(w)
      <4>1. PICK table \in {"flagged", "clean"} :
              job' = [job EXCEPT ![j] = WriteBack(job[j], row,
                        [row EXCEPT !.status   = "awaiting_review",
                                    !.result   = PipelineResult(row, table),
                                    !.progress = [attempts |-> 0,
                                                  deferred |-> FALSE,
                                                  step     |-> "done"]])]
        BY <3>1, <1>0 DEF CompleteRun
      <4> DEFINE new == [row EXCEPT !.status   = "awaiting_review",
                                    !.result   = PipelineResult(row, table),
                                    !.progress = [attempts |-> 0,
                                                  deferred |-> FALSE,
                                                  step     |-> "done"]]
      <4>2. new.status = "awaiting_review"
        BY <2>2 DEF Row
      <4>3. job'[j] = WriteBack(job[j], row, new)
        BY <4>1, <1>0 DEF TypeOK
      <4> HIDE DEF new
      <4>4. job'[j].status = Column(job[j].status, row.status, new.status)
        BY <4>3 DEF WriteBack
      <4> QED
        BY <4>2, <4>4
    <3>2. CASE RecordFailure(w)
      <4>1. PICK new : /\ job' = [job EXCEPT ![j] = WriteBack(job[j], row, new)]
                       /\ new = RateLimited(row) \/ new = [row EXCEPT !.status = "failed"]
        BY <3>2, <1>0 DEF RecordFailure
      <4>2. RateLimited(row).status \in {"failed", "pending"}
        BY <2>2 DEF RateLimited, Row
      <4>3. new.status \in {"failed", "pending"}
        BY <4>1, <4>2, <2>2 DEF Row
      <4>4. job'[j] = WriteBack(job[j], row, new)
        BY <4>1, <1>0 DEF TypeOK
      <4>5. job'[j].status = Column(job[j].status, row.status, new.status)
        BY <4>4 DEF WriteBack
      <4> QED
        BY <4>3, <4>5
    <3> QED
      BY <1>3, <3>1, <3>2
  <2>5. job[j].status = "extracting"
    BY <2>3, <2>4 DEF Column
  <2>6. j \in orphaned \/ \E v \in Workers : RunsJob(v, j) /\ SeenExtracting(v)
    BY <1>0, <2>5 DEF RunnersWillWrite
  <2>7. ~(RunsJob(w, j) /\ SeenExtracting(w))
    BY <2>1, <2>4 DEF RunsJob, SeenExtracting, Column
  <2> QED
    BY <2>1, <2>6, <2>7 DEF RunsJob, Busy, SeenExtracting
<1>4. CASE Crash(w)
  <2>1. /\ job' = job
        /\ orphaned' = orphaned \cup {sess[w].job}
        /\ \A v \in Workers : v # w => sess'[v] = sess[v]
    BY <1>4 DEF Crash, tables, TypeOK
  <2>2. j \in orphaned \/ \E v \in Workers : RunsJob(v, j) /\ SeenExtracting(v)
    BY <1>0, <2>1 DEF RunnersWillWrite
  <2> QED
    BY <2>1, <2>2 DEF RunsJob, Busy, SeenExtracting
<1> QED
  BY <1>1, <1>2, <1>3, <1>4 DEF WorkerStep

\* A handler's new row is `extracting` only if the copy was: then the column
\* is not written.
LEMMA CommitStartsNone ==
    ASSUME TypeOK, NEW c \in Clients, NEW op, NEW new, Commit(c, op, new),
           new.status \in {req[c].seen.status, "pending", "confirmed", "rejected"}
    PROVE  NoneStarts
<1>1. \A j \in Jobs : job'[j] = job[j]
                      \/ job'[j] = WriteBack(job[j], req[c].seen, new)
  BY DEF Commit
<1>2. \A j \in Jobs : job'[j].status = job[j].status
                      \/ job'[j].status = Column(job[j].status, req[c].seen.status, new.status)
  <2>1. \A current : WriteBack(current, req[c].seen, new).status
                       = Column(current.status, req[c].seen.status, new.status)
    BY DEF WriteBack
  <2> QED
    BY <1>1, <2>1
<1>3. jobs' = jobs /\ jobs \subseteq Jobs
  BY DEF Commit, TypeOK
<1> QED
  BY <1>2, <1>3 DEF NoneStarts, Column

LEMMA RequestsStartNone ==
    ASSUME TypeOK, NEW c \in Clients, LoadStep(c) \/ CommitStep(c)
    PROVE  NoneStarts /\ UNCHANGED <<sess, orphaned>>
<1> DEFINE seen == req[c].seen
<1>0. seen \in Row
  BY DEF TypeOK, Request
<1>1. CASE LoadStep(c) \/ refuse_confirm(c)
  BY <1>1 DEF LoadStep, LoadPatch, LoadConfirm, LoadReextract, LoadReject,
              LoadRetry, Load, LoadConfirmAll, LoadDeleteBatch, refuse_confirm,
              tables, NoneStarts
<1>2. CASE patch_review(c)
  <2>1. PICK table : Commit(c, "patch", [seen EXCEPT !.result.table = table])
    BY <1>2 DEF patch_review
  <2>2. [seen EXCEPT !.result.table = table].status = seen.status
    BY <1>0 DEF Row
  <2>3. UNCHANGED <<sess, orphaned>>
    BY <2>1 DEF Commit
  <2> QED
    BY <2>1, <2>2, <2>3, CommitStartsNone
<1>3. CASE confirm_job(c)
  <2>1. [seen EXCEPT !.status = "confirmed"].status = "confirmed"
    BY <1>0 DEF Row
  <2> QED
    BY <1>3, <2>1, CommitStartsNone DEF confirm_job, Commit
<1>4. CASE reextract_job(c)
  <2> DEFINE new == [seen EXCEPT !.kind = "reextract", !.status = "pending",
                                 !.progress = NoProgress, !.lockedBy = None,
                                 !.result.feedback = TRUE,
                                 !.result.asked = IF @ < MaxReextracts THEN @ + 1 ELSE @]
  <2>1. Commit(c, "reextract", new)
    BY <1>4 DEF reextract_job
  <2>2. new.status = "pending"
    BY <1>0 DEF Row
  <2> HIDE DEF new
  <2>3. UNCHANGED <<sess, orphaned>>
    BY <2>1 DEF Commit
  <2> QED
    BY <2>1, <2>2, <2>3, CommitStartsNone
<1>5. CASE reject_job(c)
  <2>1. [seen EXCEPT !.status = "rejected"].status = "rejected"
    BY <1>0 DEF Row
  <2> QED
    BY <1>5, <2>1, CommitStartsNone DEF reject_job, Commit
<1>6. CASE retry_job(c)
  <2> DEFINE new == [seen EXCEPT !.status = "pending", !.lockedBy = None,
                                 !.progress.attempts = 0, !.progress.deferred = FALSE]
  <2>1. Commit(c, "retry", new)
    BY <1>6 DEF retry_job
  <2>2. new.status = "pending"
    BY <1>0 DEF Row
  <2> HIDE DEF new
  <2>3. UNCHANGED <<sess, orphaned>>
    BY <2>1 DEF Commit
  <2> QED
    BY <2>1, <2>2, <2>3, CommitStartsNone
<1>7. CASE confirm_all_clean(c)
  <2>1. \A j \in Jobs : job'[j] = job[j] \/ job'[j].status = "confirmed"
    <3>1. \A j \in Jobs : [job[j] EXCEPT !.status = "confirmed"].status = "confirmed"
      BY DEF TypeOK, Row
    <3> QED
      BY <1>7, <3>1 DEF confirm_all_clean
  <2> QED
    BY <1>7, <2>1 DEF confirm_all_clean, NoneStarts, TypeOK
<1>8. CASE delete_batch(c)
  BY <1>8 DEF delete_batch, DropJobs, NoneStarts, TypeOK
<1> QED
  BY <1>1, <1>2, <1>3, <1>4, <1>5, <1>6, <1>7, <1>8 DEF CommitStep

LEMMA OneShotStartsNone ==
    ASSUME TypeOK, OneShotStep \/ \E j \in Jobs : DelayElapses(j)
    PROVE  NoneStarts /\ UNCHANGED <<sess, orphaned>>
<1>1. ASSUME NEW new \in SUBSET Jobs, NEW kind, InsertJobs(new, kind)
      PROVE  NoneStarts
  <2>1. [BlankRow EXCEPT !.kind = kind].status = "pending"
    BY DEF BlankRow
  <2>2. \A j \in Jobs : job'[j] = IF j \in new THEN [BlankRow EXCEPT !.kind = kind]
                                               ELSE job[j]
    BY <1>1 DEF InsertJobs
  <2>3. jobs' = jobs \cup new
    BY <1>1 DEF InsertJobs
  <2>4. ASSUME NEW j \in jobs', job'[j].status = "extracting"
        PROVE  j \in jobs /\ job[j].status = "extracting"
    BY <2>1, <2>2, <2>3, <2>4 DEF TypeOK
  <2> QED
    BY <2>4 DEF NoneStarts
<1>2. CASE \E b \in Batches : upload_documents(b)
  BY <1>1, <1>2, ConstantsAssumption DEF upload_documents
<1>3. CASE enqueue_backfill
  BY <1>1, <1>3 DEF enqueue_backfill
<1>4. CASE \E d \in Documents : delete_document(d)
  BY <1>4 DEF delete_document, DropJobs, NoneStarts, TypeOK
<1>5. CASE \E j \in Jobs : DelayElapses(j)
  <2>1. PICK j \in Jobs : DelayElapses(j)
    BY <1>5
  <2>2. \A k \in Jobs : job'[k].status = job[k].status
    <3>1. job' = [job EXCEPT ![j] = [job[j] EXCEPT
                    !.progress = [job[j].progress EXCEPT !.deferred = FALSE]]]
      BY <2>1 DEF DelayElapses
    <3> QED
      BY <3>1 DEF TypeOK, Row
  <2> QED
    BY <2>1, <2>2 DEF DelayElapses, NoneStarts, TypeOK
<1> QED
  BY <1>2, <1>3, <1>4, <1>5 DEF OneShotStep

\* Whatever requests overlap, a job is left in `extracting` only by a worker
\* that died.
THEOREM NoRunIsLost == Spec => []ExtractingIsRun
<1>1. Init => RunnersWillWrite
  BY DEF Init, RunnersWillWrite
<1>2. TypeOK /\ RunnersWillWrite /\ [Next]_vars => RunnersWillWrite'
  <2> SUFFICES ASSUME TypeOK, RunnersWillWrite, [Next]_vars
               PROVE  RunnersWillWrite'
    OBVIOUS
  <2>1. CASE UNCHANGED vars
    BY <2>1 DEF vars, RunnersWillWrite, RunsJob, Busy, SeenExtracting
  <2>2. CASE \E w \in Workers : WorkerStep(w) \/ Crash(w)
    BY <2>2, WorkersWillWrite
  <2>3. CASE UserStep \/ \E j \in Jobs : DelayElapses(j)
    BY <2>3, RequestsStartNone, OneShotStartsNone, HandlersStartNone DEF UserStep
  <2> QED
    BY <2>1, <2>2, <2>3 DEF Next, SystemStep
<1>3. RunnersWillWrite => ExtractingIsRun
  BY DEF RunnersWillWrite, ExtractingIsRun
<1> QED
  BY <1>1, <1>2, <1>3, TypeCorrect, PTL DEF Spec

-----------------------------------------------------------------------------
(* One request at a time: counters and feedback *)

\* The copy a request writes over still has the column it will compare.
CopiesAreCurrent ==
    \A c \in Clients : \A j \in req[c].jobs \cap jobs :
        /\ req[c].op = "patch" =>
             /\ job[j].status = "awaiting_review"
             /\ req[c].seen.result.feedback = job[j].result.feedback
        /\ req[c].op \in {"reextract", "retry"} =>
             req[c].seen.progress.attempts = job[j].progress.attempts
        /\ req[c].op = "reextract" => req[c].seen.status = "awaiting_review"

\* So has the copy of a worker that runs the pipeline.
RunsAreCurrent ==
    \A w \in Workers : sess[w].pc = "running" /\ sess[w].job \in jobs =>
        sess[w].row.result.feedback = job[sess[w].job].result.feedback

ColumnsInv ==
    AttemptsLeft /\ FeedbackAppliedOnce /\ CopiesAreCurrent /\ RunsAreCurrent

\* What ColumnsInv says of a row depends on these columns.
Alike(r1, r2) ==
    /\ r1.status = r2.status
    /\ r1.progress.attempts = r2.progress.attempts
    /\ r1.result.feedback = r2.result.feedback

\* Nothing ColumnsInv speaks of moves, except that rows may go, requests and
\* runs may end.
LEMMA ColumnsFramed ==
    ASSUME TypeOK, ColumnsInv, jobs' \subseteq jobs,
           \A j \in jobs' : Alike(job'[j], job[j]),
           \A c \in Clients : req'[c] = req[c] \/ req'[c] = IdleRequest,
           \A w \in Workers : sess'[w] = sess[w] \/ sess'[w].pc # "running"
    PROVE  ColumnsInv'
<1>1. AttemptsLeft' /\ FeedbackAppliedOnce'
  BY DEF ColumnsInv, AttemptsLeft, FeedbackAppliedOnce, Alike
<1>2. CopiesAreCurrent'
  BY DEF ColumnsInv, CopiesAreCurrent, Alike, IdleRequest
<1>3. RunsAreCurrent'
  BY DEF ColumnsInv, RunsAreCurrent, Alike
<1> QED
  BY <1>1, <1>2, <1>3 DEF ColumnsInv

\* One row is written, which no request holds and no worker goes on running.
LEMMA RowWritten ==
    ASSUME TypeOK, ColumnsInv, NEW j \in Jobs, jobs' = jobs,
           \A k \in Jobs : k # j => job'[k] = job[k],
           j \in jobs => /\ job'[j].status = "pending" =>
                              job'[j].progress.attempts < MAX_RATE_LIMIT_ATTEMPTS
                         /\ job'[j].status \in {"awaiting_review", "confirmed"} =>
                              ~job'[j].result.feedback,
           \A c \in Clients : \/ req'[c] = IdleRequest
                              \/ /\ req'[c] = req[c]
                                 /\ j \in req[c].jobs \cap jobs =>
                                      req[c].op \notin {"patch", "reextract", "retry"},
           \A w \in Workers : \/ sess'[w].pc # "running"
                              \/ sess'[w] = sess[w] /\ sess[w].job # j
    PROVE  ColumnsInv'
<1>1. AttemptsLeft' /\ FeedbackAppliedOnce'
  BY DEF ColumnsInv, AttemptsLeft, FeedbackAppliedOnce, TypeOK
<1>2. CopiesAreCurrent'
  BY DEF ColumnsInv, CopiesAreCurrent, IdleRequest, TypeOK
<1>3. RunsAreCurrent'
  BY DEF ColumnsInv, RunsAreCurrent, TypeOK
<1> QED
  BY <1>1, <1>2, <1>3 DEF ColumnsInv

LEMMA WriteBackColumns ==
    ASSUME NEW current, NEW loaded, NEW new
    PROVE  LET written == WriteBack(current, loaded, new) IN
           /\ written.status = Column(current.status, loaded.status, new.status)
           /\ written.progress = Column(current.progress, loaded.progress, new.progress)
           /\ written.result = Column(current.result, loaded.result, new.result)
  BY DEF WriteBack

\* A rate-limited run either goes back to the queue with an attempt counted,
\* which is a progress the session did not load, or is given up.
LEMMA RateLimitedColumns ==
    ASSUME NEW row \in Row
    PROVE  LET new == RateLimited(row) IN
           /\ new.status \in {"pending", "failed"}
           /\ new.result = row.result
           /\ new.status = "pending" =>
                /\ new.progress # row.progress
                /\ new.progress.attempts < MAX_RATE_LIMIT_ATTEMPTS
<1> DEFINE attempts == row.progress.attempts + 1
           waiting == [attempts |-> attempts, deferred |-> TRUE, step |-> "waiting"]
<1>1. row.progress \in Progress /\ attempts \in Nat /\ row.progress.attempts \in Nat
  BY DEF Row, Progress
<1>2. CASE attempts >= MAX_RATE_LIMIT_ATTEMPTS
  <2>1. RateLimited(row)
          = [row EXCEPT !.status = "failed",
                        !.progress = [row.progress EXCEPT !.attempts = attempts]]
    BY <1>2 DEF RateLimited, Row
  <2> QED
    BY <2>1 DEF Row
<1>3. CASE ~(attempts >= MAX_RATE_LIMIT_ATTEMPTS)
  <2>1. RateLimited(row) = [row EXCEPT !.status = "pending", !.lockedBy = None,
                                       !.progress = waiting]
    BY <1>3 DEF RateLimited
  <2>2. waiting.attempts = attempts /\ attempts < MAX_RATE_LIMIT_ATTEMPTS
    BY <1>1, <1>3, ConstantsAssumption
  <2>3. waiting # row.progress
    BY <1>1, <2>2
  <2> HIDE DEF waiting
  <2> QED
    BY <2>1, <2>2, <2>3 DEF Row
<1> QED
  BY <1>2, <1>3

LEMMA WorkerColumns ==
    ASSUME TypeOK, SerialInv, ColumnsInv, NEW w \in Workers, WorkerStep(w) \/ Crash(w)
    PROVE  ColumnsInv'
<1>1. CASE claim_job(w)
  <2>1. PICK j \in Jobs :
          /\ Claimable(j)
          /\ job' = [job EXCEPT ![j].status = "extracting", ![j].lockedBy = w]
          /\ sess' = [sess EXCEPT ![w] = [pc |-> "claimed", job |-> j,
                                          row |-> BlankRow]]
          /\ UNCHANGED <<jobs, req>>
    BY <1>1 DEF claim_job
  <2>2. j \in jobs /\ job[j].status = "pending" /\ job[j] \in Row
    BY <2>1 DEF Claimable, TypeOK
  <2>3. /\ job'[j].status = "extracting"
        /\ job'[j].progress = job[j].progress
        /\ job'[j].result = job[j].result
        /\ \A k \in Jobs : k # j => job'[k] = job[k]
    BY <2>1, <2>2 DEF TypeOK, Row
  <2>4. /\ sess'[w].pc = "claimed"
        /\ \A v \in Workers : v # w => sess'[v] = sess[v]
    BY <2>1 DEF TypeOK
  <2>5. AttemptsLeft' /\ FeedbackAppliedOnce'
    BY <2>1, <2>3 DEF ColumnsInv, AttemptsLeft, FeedbackAppliedOnce, TypeOK
  <2>6. CopiesAreCurrent'
    BY <2>1, <2>2, <2>3 DEF ColumnsInv, CopiesAreCurrent, TypeOK
  <2>7. RunsAreCurrent'
    BY <2>1, <2>3, <2>4 DEF ColumnsInv, RunsAreCurrent, TypeOK
  <2> QED
    BY <2>5, <2>6, <2>7 DEF ColumnsInv
<1>2. CASE LoadJob(w)
  <2> DEFINE j == sess[w].job
             row == Copy(job[j], {"status", "kind", "progress", "result"})
  <2>1. UNCHANGED <<jobs, job, req>>
    BY <1>2 DEF LoadJob, tables
  <2>2. row.result = job[j].result
    BY DEF Copy
  <2>3. sess' = [sess EXCEPT ![w] = IF j \in jobs
                                    THEN [pc |-> "running", job |-> j, row |-> row]
                                    ELSE IdleSession]
    BY <1>2 DEF LoadJob
  <2> HIDE DEF row
  <2>4. sess'[w].pc = "running" =>
          sess'[w].job = j /\ sess'[w].row.result = job[j].result
    BY <2>2, <2>3 DEF TypeOK, IdleSession
  <2>5. \A v \in Workers : v # w => sess'[v] = sess[v]
    BY <2>3 DEF TypeOK
  <2>6. RunsAreCurrent'
    BY <2>1, <2>4, <2>5 DEF ColumnsInv, RunsAreCurrent
  <2>7. AttemptsLeft' /\ FeedbackAppliedOnce' /\ CopiesAreCurrent'
    BY <2>1 DEF ColumnsInv, AttemptsLeft, FeedbackAppliedOnce, CopiesAreCurrent
  <2> QED
    BY <2>6, <2>7 DEF ColumnsInv
<1>3. CASE RollbackRun(w) \/ Crash(w)
  <2>1. UNCHANGED <<jobs, job, req>>
    BY <1>3 DEF RollbackRun, Crash, tables
  <2>2. \A v \in Workers : sess'[v] = sess[v] \/ sess'[v].pc # "running"
    <3>1. sess'[w].pc # "running"
      BY <1>3 DEF RollbackRun, Crash, TypeOK, IdleSession
    <3>2. \A v \in Workers : v # w => sess'[v] = sess[v]
      BY <1>3 DEF RollbackRun, Crash, TypeOK
    <3> QED
      BY <3>1, <3>2
  <2> QED
    BY <2>1, <2>2, ColumnsFramed DEF Alike
<1>4. CASE CompleteRun(w) \/ RecordFailure(w)
  <2> DEFINE j == sess[w].job
             row == sess[w].row
  <2>1. /\ sess[w].pc \in {"running", "failing", "limited"} /\ Busy(w)
        /\ UNCHANGED <<jobs, req>>
        /\ sess'[w].pc = "idle"
        /\ \A v \in Workers : v # w => sess'[v] = sess[v]
    BY <1>4 DEF CompleteRun, RecordFailure, TypeOK, IdleSession, Busy
  <2>2. /\ j \in Jobs
        /\ row \in Row
        /\ j \in jobs => job[j].status \in {"extracting", "rejected"}
    BY <2>1 DEF TypeOK, Session, SerialInv, RunsAreExtracting
  <2>3. \A k \in Jobs : k # j => job'[k] = job[k]
    BY <1>4 DEF CompleteRun, RecordFailure, TypeOK
  <2>4. j \in jobs =>
          /\ job'[j].status = "pending" =>
               job'[j].progress.attempts < MAX_RATE_LIMIT_ATTEMPTS
          /\ job'[j].status \in {"awaiting_review", "confirmed"} =>
               ~job'[j].result.feedback
    <3> SUFFICES ASSUME j \in jobs
                 PROVE  /\ job'[j].status = "pending" =>
                             job'[j].progress.attempts < MAX_RATE_LIMIT_ATTEMPTS
                        /\ job'[j].status \in {"awaiting_review", "confirmed"} =>
                             ~job'[j].result.feedback
      OBVIOUS
    <3>1. CASE CompleteRun(w)
      <4>1. PICK table \in {"flagged", "clean"} :
              job' = [job EXCEPT ![j] = WriteBack(job[j], row,
                        [row EXCEPT !.status   = "awaiting_review",
                                    !.result   = PipelineResult(row, table),
                                    !.progress = [attempts |-> 0,
                                                  deferred |-> FALSE,
                                                  step     |-> "done"]])]
        BY <3>1 DEF CompleteRun
      <4> DEFINE new == [row EXCEPT !.status   = "awaiting_review",
                                    !.result   = PipelineResult(row, table),
                                    !.progress = [attempts |-> 0,
                                                  deferred |-> FALSE,
                                                  step     |-> "done"]]
      <4>2. /\ new.status = "awaiting_review"
            /\ new.result = PipelineResult(row, table)
        BY <2>2 DEF Row
      <4>3. job'[j] = WriteBack(job[j], row, new)
        BY <4>1, <2>2 DEF TypeOK
      <4> HIDE DEF new
      <4>4. /\ job'[j].status = Column(job[j].status, row.status, new.status)
            /\ job'[j].result = Column(job[j].result, row.result, new.result)
        BY <4>3, WriteBackColumns
      <4>5. job'[j].status # "pending"
        BY <2>2, <4>2, <4>4 DEF Column
      <4>6. ~new.result.feedback
        BY <4>2 DEF PipelineResult
      <4>7. row.result.feedback = job[j].result.feedback
        BY <3>1 DEF CompleteRun, ColumnsInv, RunsAreCurrent
      <4>8. ~job'[j].result.feedback
        BY <4>4, <4>6, <4>7 DEF Column
      <4> QED
        BY <4>5, <4>8
    <3>2. CASE RecordFailure(w)
      <4>1. PICK new : /\ job' = [job EXCEPT ![j] = WriteBack(job[j], row, new)]
                       /\ new = RateLimited(row) \/ new = [row EXCEPT !.status = "failed"]
        BY <3>2 DEF RecordFailure
      <4>2. /\ new.status \in {"failed", "pending"}
            /\ new.result = row.result
            /\ new.status = "pending" =>
                 /\ new.progress # row.progress
                 /\ new.progress.attempts < MAX_RATE_LIMIT_ATTEMPTS
        <5>1. CASE new = RateLimited(row)
          BY <2>2, <5>1, RateLimitedColumns
        <5>2. CASE new = [row EXCEPT !.status = "failed"]
          BY <2>2, <5>2 DEF Row
        <5> QED
          BY <4>1, <5>1, <5>2
      <4>3. job'[j] = WriteBack(job[j], row, new)
        BY <4>1, <2>2 DEF TypeOK
      <4>4. /\ job'[j].status = Column(job[j].status, row.status, new.status)
            /\ job'[j].progress = Column(job[j].progress, row.progress, new.progress)
        BY <4>3, WriteBackColumns
      <4>5. job'[j].status \in {"failed", "pending", "extracting", "rejected"}
        BY <2>2, <4>2, <4>4 DEF Column
      <4>6. job'[j].status = "pending" => new.status = "pending"
        BY <2>2, <4>4 DEF Column
      <4>7. job'[j].status = "pending" => job'[j].progress = new.progress
        BY <4>2, <4>4, <4>6 DEF Column
      <4> QED
        BY <4>2, <4>5, <4>6, <4>7
    <3> QED
      BY <1>4, <3>1, <3>2
  <2>5. ASSUME NEW c \in Clients, j \in req[c].jobs \cap jobs
        PROVE  req[c].op \notin {"patch", "reextract", "retry"}
    BY <2>2, <2>5 DEF SerialInv, RequestsAreCurrent, ColumnsInv, CopiesAreCurrent
  <2>6. ASSUME NEW v \in Workers, v # w, sess'[v].pc = "running"
        PROVE  sess[v].job # j
    BY <2>1, <2>6 DEF SerialInv, ClaimExclusive, Busy, RunsJob
  <2>7. \A v \in Workers : sess'[v].pc # "running" \/ (sess'[v] = sess[v] /\ sess[v].job # j)
    BY <2>1, <2>6
  <2>8. \A c \in Clients : \/ req'[c] = IdleRequest
                           \/ /\ req'[c] = req[c]
                              /\ j \in req[c].jobs \cap jobs =>
                                   req[c].op \notin {"patch", "reextract", "retry"}
    BY <2>1, <2>5
  <2> HIDE DEF row
  <2> QED
    BY <2>1, <2>2, <2>3, <2>4, <2>7, <2>8, RowWritten
<1> QED
  BY <1>1, <1>2, <1>3, <1>4 DEF WorkerStep

\* A handler loads the columns it will write.
LEMMA LoadColumns ==
    ASSUME TypeOK, ColumnsInv, NEW c \in Clients, LoadStep(c)
    PROVE  ColumnsInv'
<1>1. UNCHANGED <<jobs, job, sess>>
  BY DEF LoadStep, LoadPatch, LoadConfirm, LoadReextract, LoadReject,
         LoadRetry, Load, LoadConfirmAll, LoadDeleteBatch, tables
<1>2. \A v \in Clients : v # c => req'[v] = req[v]
  BY DEF LoadStep, LoadPatch, LoadConfirm, LoadReextract, LoadReject,
         LoadRetry, Load, LoadConfirmAll, LoadDeleteBatch, TypeOK
<1>3. ASSUME NEW k \in req'[c].jobs \cap jobs
      PROVE  /\ req'[c].op = "patch" =>
                  /\ job[k].status = "awaiting_review"
                  /\ req'[c].seen.result.feedback = job[k].result.feedback
             /\ req'[c].op \in {"reextract", "retry"} =>
                  req'[c].seen.progress.attempts = job[k].progress.attempts
             /\ req'[c].op = "reextract" => req'[c].seen.status = "awaiting_review"
  <2>1. ASSUME NEW j \in Jobs, NEW op, Load(c, j, op)
        PROVE  /\ req'[c].op = op
               /\ req'[c].jobs = {j}
               /\ req'[c].seen = Copy(job[j], HandlerColumns[op])
    BY <2>1 DEF Load, TypeOK
  <2>2. CASE \E j \in Jobs : LoadPatch(c, j)
    <3>1. PICK j \in Jobs : job[j].status = "awaiting_review" /\ Load(c, j, "patch")
      BY <2>2 DEF LoadPatch
    <3>2. Copy(job[j], HandlerColumns["patch"]).result = job[j].result
      BY DEF Copy, HandlerColumns
    <3> QED
      BY <1>3, <2>1, <3>1, <3>2
  <2>3. CASE \E j \in Jobs : LoadReextract(c, j)
    <3>1. PICK j \in Jobs : job[j].status = "awaiting_review" /\ Load(c, j, "reextract")
      BY <2>3 DEF LoadReextract
    <3>2. /\ Copy(job[j], HandlerColumns["reextract"]).progress = job[j].progress
          /\ Copy(job[j], HandlerColumns["reextract"]).status = job[j].status
      BY DEF Copy, HandlerColumns
    <3> QED
      BY <1>3, <2>1, <3>1, <3>2
  <2>4. CASE \E j \in Jobs : LoadRetry(c, j)
    <3>1. PICK j \in Jobs : Load(c, j, "retry")
      BY <2>4 DEF LoadRetry
    <3>2. Copy(job[j], HandlerColumns["retry"]).progress = job[j].progress
      BY DEF Copy, HandlerColumns
    <3> QED
      BY <1>3, <2>1, <3>1, <3>2
  <2>5. CASE \E j \in Jobs : LoadConfirm(c, j) \/ LoadReject(c, j)
    <3>1. req'[c].op \in {"confirm", "reject"}
      BY <2>1, <2>5 DEF LoadConfirm, LoadReject
    <3> QED
      BY <3>1
  <2>6. CASE \E b \in Batches : LoadConfirmAll(c, b) \/ LoadDeleteBatch(c, b)
    <3>1. req'[c].op \in {"confirm_all", "delete_batch"}
      BY <2>6 DEF LoadConfirmAll, LoadDeleteBatch, TypeOK
    <3> QED
      BY <3>1
  <2> QED
    BY <2>2, <2>3, <2>4, <2>5, <2>6 DEF LoadStep
<1>4. CopiesAreCurrent'
  BY <1>1, <1>2, <1>3 DEF ColumnsInv, CopiesAreCurrent
<1>5. AttemptsLeft' /\ FeedbackAppliedOnce' /\ RunsAreCurrent'
  BY <1>1 DEF ColumnsInv, AttemptsLeft, FeedbackAppliedOnce, RunsAreCurrent
<1> QED
  BY <1>4, <1>5 DEF ColumnsInv

\* The only request commits one row.
LEMMA CommitKeepsColumns ==
    ASSUME TypeOK, ColumnsInv, NEW c \in Clients, Clients = {c},
           NEW op, NEW new, Commit(c, op, new),
           \A j \in req[c].jobs \cap jobs :
             LET written == WriteBack(job[j], req[c].seen, new) IN
             /\ written.status = "pending" =>
                  written.progress.attempts < MAX_RATE_LIMIT_ATTEMPTS
             /\ written.status \in {"awaiting_review", "confirmed"} =>
                  ~written.result.feedback
             /\ \/ written.result.feedback = job[j].result.feedback
                \/ \A w \in Workers : Busy(w) => sess[w].job # j
    PROVE  ColumnsInv'
<1>1. /\ UNCHANGED <<jobs, sess>>
      /\ req'[c] = IdleRequest
      /\ \A j \in jobs : job'[j] = IF j \in req[c].jobs
                                   THEN WriteBack(job[j], req[c].seen, new)
                                   ELSE job[j]
  BY DEF Commit, TypeOK
<1>2. AttemptsLeft' /\ FeedbackAppliedOnce'
  BY <1>1 DEF ColumnsInv, AttemptsLeft, FeedbackAppliedOnce
<1>3. CopiesAreCurrent'
  BY <1>1 DEF CopiesAreCurrent, IdleRequest
<1>4. RunsAreCurrent'
  BY <1>1 DEF ColumnsInv, RunsAreCurrent, Busy
<1> QED
  BY <1>2, <1>3, <1>4 DEF ColumnsInv

LEMMA CommitColumns ==
    ASSUME TypeOK, SerialInv, ColumnsInv, NEW c \in Clients, Clients = {c},
           CommitStep(c)
    PROVE  ColumnsInv'
<1> DEFINE seen == req[c].seen
           Written(j, new) == WriteBack(job[j], seen, new)
<1>0. seen \in Row
  BY DEF TypeOK, Request
<1>a. \A j \in req[c].jobs \cap jobs, w \in Workers :
        job[j].status \in {"awaiting_review", "failed"} /\ Busy(w) => sess[w].job # j
  BY DEF SerialInv, RunsAreExtracting
<1>1. CASE patch_review(c)
  <2>1. PICK table : Commit(c, "patch", [seen EXCEPT !.result.table = table])
    BY <1>1 DEF patch_review
  <2> DEFINE new == [seen EXCEPT !.result.table = table]
  <2>2. new.status = seen.status /\ new.progress = seen.progress
    BY <1>0 DEF Row
  <2>3. new.result.feedback = seen.result.feedback
    BY <1>0 DEF Row, Result
  <2>4. Commit(c, "patch", new)
    BY <2>1
  <2> HIDE DEF new
  <2>5. ASSUME NEW j \in req[c].jobs \cap jobs
        PROVE  /\ Written(j, new).status = "awaiting_review"
               /\ ~Written(j, new).result.feedback
               /\ \A w \in Workers : Busy(w) => sess[w].job # j
    <3>1. /\ job[j].status = "awaiting_review"
          /\ seen.result.feedback = job[j].result.feedback
          /\ ~job[j].result.feedback
      BY <2>4 DEF Commit, ColumnsInv, CopiesAreCurrent, FeedbackAppliedOnce
    <3> QED
      BY <1>a, <2>2, <2>3, <3>1, WriteBackColumns DEF Column
  <2> QED
    BY <2>4, <2>5, CommitKeepsColumns
<1>2. CASE confirm_job(c)
  <2> DEFINE new == [seen EXCEPT !.status = "confirmed"]
  <2>1. /\ new.status = "confirmed"
        /\ new.progress = seen.progress
        /\ new.result = seen.result
    BY <1>0 DEF Row
  <2>2. Commit(c, "confirm", new)
    BY <1>2 DEF confirm_job
  <2> HIDE DEF new
  <2>3. ASSUME NEW j \in req[c].jobs \cap jobs
        PROVE  /\ Written(j, new).status \in {"awaiting_review", "confirmed"}
               /\ ~Written(j, new).result.feedback
               /\ \A w \in Workers : Busy(w) => sess[w].job # j
    <3>1. job[j].status = "awaiting_review" /\ ~job[j].result.feedback
      BY <2>2 DEF Commit, SerialInv, RequestsAreCurrent, ColumnsInv,
                  FeedbackAppliedOnce
    <3> QED
      BY <1>a, <2>1, <3>1, WriteBackColumns DEF Column
  <2> QED
    BY <2>2, <2>3, CommitKeepsColumns
<1>3. CASE refuse_confirm(c)
  BY <1>3, ColumnsFramed DEF refuse_confirm, tables, Alike, TypeOK
<1>4. CASE reextract_job(c)
  <2> DEFINE new == [seen EXCEPT !.kind = "reextract", !.status = "pending",
                                 !.progress = NoProgress, !.lockedBy = None,
                                 !.result.feedback = TRUE,
                                 !.result.asked = IF @ < MaxReextracts THEN @ + 1 ELSE @]
  <2>1. new.status = "pending" /\ new.progress = NoProgress
    BY <1>0 DEF Row
  <2>2. Commit(c, "reextract", new)
    BY <1>4 DEF reextract_job
  <2> HIDE DEF new
  <2>3. ASSUME NEW j \in req[c].jobs \cap jobs
        PROVE  /\ Written(j, new).status = "pending"
               /\ Written(j, new).progress.attempts < MAX_RATE_LIMIT_ATTEMPTS
               /\ \A w \in Workers : Busy(w) => sess[w].job # j
    <3>1. /\ job[j].status = "awaiting_review"
          /\ seen.status = "awaiting_review"
          /\ seen.progress.attempts = job[j].progress.attempts
      BY <2>2 DEF Commit, SerialInv, RequestsAreCurrent, ColumnsInv, CopiesAreCurrent
    <3>2. Written(j, new).status = "pending"
      BY <2>1, <3>1, WriteBackColumns DEF Column
    <3>3. Written(j, new).progress.attempts = 0
      BY <2>1, <3>1, WriteBackColumns DEF Column, NoProgress
    <3>4. \A w \in Workers : Busy(w) => sess[w].job # j
      BY <1>a, <3>1
    <3> QED
      BY <3>2, <3>3, <3>4, ConstantsAssumption
  <2> QED
    BY <2>2, <2>3, CommitKeepsColumns
<1>5. CASE reject_job(c)
  <2> DEFINE new == [seen EXCEPT !.status = "rejected"]
  <2>1. /\ new.status = "rejected"
        /\ new.progress = seen.progress
        /\ new.result = seen.result
    BY <1>0 DEF Row
  <2>2. Commit(c, "reject", new)
    BY <1>5 DEF reject_job
  <2> HIDE DEF new
  <2>3. ASSUME NEW j \in req[c].jobs \cap jobs
        PROVE  /\ Written(j, new).status \in {job[j].status, "rejected"}
               /\ Written(j, new).progress = job[j].progress
               /\ Written(j, new).result = job[j].result
    BY <2>1, WriteBackColumns DEF Column
  <2>4. ASSUME NEW j \in req[c].jobs \cap jobs
        PROVE  /\ Written(j, new).status = "pending" =>
                    Written(j, new).progress.attempts < MAX_RATE_LIMIT_ATTEMPTS
               /\ Written(j, new).status \in {"awaiting_review", "confirmed"} =>
                    ~Written(j, new).result.feedback
               /\ Written(j, new).result.feedback = job[j].result.feedback
    BY <2>3 DEF ColumnsInv, AttemptsLeft, FeedbackAppliedOnce
  <2> QED
    BY <2>2, <2>4, CommitKeepsColumns
<1>6. CASE retry_job(c)
  <2> DEFINE new == [seen EXCEPT !.status = "pending", !.lockedBy = None,
                                 !.progress.attempts = 0, !.progress.deferred = FALSE]
  <2>1. /\ new.status = "pending"
        /\ new.progress.attempts = 0
        /\ new.result = seen.result
    BY <1>0 DEF Row, Progress
  <2>2. Commit(c, "retry", new)
    BY <1>6 DEF retry_job
  <2> HIDE DEF new
  <2>3. ASSUME NEW j \in req[c].jobs \cap jobs
        PROVE  /\ Written(j, new).status \in {"failed", "pending"}
               /\ Written(j, new).progress.attempts < MAX_RATE_LIMIT_ATTEMPTS
               /\ \A w \in Workers : Busy(w) => sess[w].job # j
    <3>1. /\ job[j].status = "failed"
          /\ seen.progress.attempts = job[j].progress.attempts
      BY <2>2 DEF Commit, SerialInv, RequestsAreCurrent, ColumnsInv, CopiesAreCurrent
    <3>2. Written(j, new).status \in {"failed", "pending"}
      BY <2>1, <3>1, WriteBackColumns DEF Column
    <3>3. Written(j, new).progress.attempts = 0
      BY <2>1, <3>1, WriteBackColumns DEF Column
    <3>4. \A w \in Workers : Busy(w) => sess[w].job # j
      BY <1>a, <3>1
    <3> QED
      BY <3>2, <3>3, <3>4, ConstantsAssumption
  <2> QED
    BY <2>2, <2>3, CommitKeepsColumns
<1>7. CASE confirm_all_clean(c)
  <2>1. /\ UNCHANGED <<jobs, sess>>
        /\ req[c].op = "confirm_all"
        /\ req'[c] = IdleRequest
    BY <1>7 DEF confirm_all_clean, TypeOK
  <2>2. ASSUME NEW j \in jobs
        PROVE  \/ job'[j] = job[j]
               \/ /\ job'[j].status = "confirmed"
                  /\ job[j].status = "awaiting_review"
                  /\ job'[j].result = job[j].result
    <3>1. job[j] \in Row /\ j \in Jobs
      BY DEF TypeOK
    <3>2. CASE j \in req[c].jobs
      <4>1. job[j].status = "awaiting_review"
        BY <2>1, <3>2 DEF SerialInv, RequestsAreCurrent
      <4>2. job'[j] = [job[j] EXCEPT !.status = "confirmed"] \/ job'[j] = job[j]
        BY <1>7, <3>1, <3>2 DEF confirm_all_clean
      <4> QED
        BY <3>1, <4>1, <4>2 DEF Row
    <3>3. CASE j \notin req[c].jobs
      BY <1>7, <3>1, <3>3 DEF confirm_all_clean
    <3> QED
      BY <3>2, <3>3
  <2>3. AttemptsLeft' /\ FeedbackAppliedOnce'
    BY <2>1, <2>2 DEF ColumnsInv, AttemptsLeft, FeedbackAppliedOnce
  <2>4. CopiesAreCurrent'
    BY <2>1 DEF CopiesAreCurrent, IdleRequest
  <2>5. RunsAreCurrent'
    BY <2>1, <2>2 DEF ColumnsInv, RunsAreCurrent
  <2> QED
    BY <2>3, <2>4, <2>5 DEF ColumnsInv
<1>8. CASE delete_batch(c)
  <2>1. UNCHANGED sess /\ jobs' \subseteq jobs /\ req'[c] = IdleRequest
    BY <1>8 DEF delete_batch, DropJobs, TypeOK
  <2>2. \A j \in jobs' : job'[j] = job[j]
    BY <1>8 DEF delete_batch, DropJobs, TypeOK
  <2> QED
    BY <2>1, <2>2, ColumnsFramed DEF Alike
<1> QED
  BY <1>1, <1>2, <1>3, <1>4, <1>5, <1>6, <1>7, <1>8 DEF CommitStep

LEMMA OneShotColumns ==
    ASSUME TypeOK, SerialInv, ColumnsInv,
           OneShotStep \/ \E j \in Jobs : DelayElapses(j)
    PROVE  ColumnsInv'
<1>1. ASSUME NEW new \in SUBSET Jobs, NEW kind, InsertJobs(new, kind),
             UNCHANGED <<sess, req>>
      PROVE  ColumnsInv'
  <2>1. jobs' = jobs \cup new
    BY <1>1 DEF InsertJobs
  <2>2. \A j \in new : ~MayBeLocked(j) /\ \A w \in Workers : ~RunsJob(w, j)
    BY <1>1 DEF InsertJobs, SerialInv, IdsAreUsed
  <2>3. \A j \in jobs : j \notin new
    BY <1>1 DEF InsertJobs, SerialInv, IdsAreUsed, TypeOK
  <2>4. \A j \in jobs : job'[j] = job[j]
    BY <1>1, <2>3 DEF InsertJobs, TypeOK
  <2>5. \A j \in new : /\ job'[j].status = "pending"
                       /\ job'[j].progress.attempts = 0
    <3>1. /\ [BlankRow EXCEPT !.kind = kind].status = "pending"
          /\ [BlankRow EXCEPT !.kind = kind].progress.attempts = 0
      BY DEF BlankRow, NoProgress
    <3>2. \A j \in new : job'[j] = [BlankRow EXCEPT !.kind = kind]
      BY <1>1 DEF InsertJobs
    <3> QED
      BY <3>1, <3>2
  <2>6. AttemptsLeft' /\ FeedbackAppliedOnce'
    BY <2>1, <2>4, <2>5, ConstantsAssumption
       DEF ColumnsInv, AttemptsLeft, FeedbackAppliedOnce
  <2>7. CopiesAreCurrent'
    BY <1>1, <2>1, <2>2, <2>4 DEF ColumnsInv, CopiesAreCurrent, MayBeLocked
  <2>8. RunsAreCurrent'
    BY <1>1, <2>1, <2>2, <2>4 DEF ColumnsInv, RunsAreCurrent, RunsJob, Busy
  <2> QED
    BY <2>6, <2>7, <2>8 DEF ColumnsInv
<1>2. CASE \E b \in Batches : upload_documents(b)
  BY <1>1, <1>2, ConstantsAssumption DEF upload_documents
<1>3. CASE enqueue_backfill
  BY <1>1, <1>3 DEF enqueue_backfill
<1>4. CASE \E d \in Documents : delete_document(d)
  <2>1. UNCHANGED <<sess, req>> /\ jobs' \subseteq jobs /\ \A j \in jobs' : job'[j] = job[j]
    BY <1>4 DEF delete_document, DropJobs, TypeOK
  <2> QED
    BY <2>1, ColumnsFramed DEF Alike
<1>5. CASE \E j \in Jobs : DelayElapses(j)
  <2>1. PICK j \in Jobs : DelayElapses(j)
    BY <1>5
  <2>2. \A k \in Jobs : Alike(job'[k], job[k])
    <3>1. job' = [job EXCEPT ![j] = [job[j] EXCEPT
                    !.progress = [job[j].progress EXCEPT !.deferred = FALSE]]]
      BY <2>1 DEF DelayElapses
    <3>2. job[j] \in Row
      BY DEF TypeOK
    <3>3. \A k \in Jobs : k # j => job'[k] = job[k]
      BY <3>1 DEF TypeOK
    <3>4. job'[j] = [job[j] EXCEPT
                    !.progress = [job[j].progress EXCEPT !.deferred = FALSE]]
      BY <3>1 DEF TypeOK
    <3>5. /\ job'[j].status = job[j].status
          /\ job'[j].result = job[j].result
          /\ job'[j].progress = [job[j].progress EXCEPT !.deferred = FALSE]
      BY <3>2, <3>4 DEF Row
    <3>6. job'[j].progress.attempts = job[j].progress.attempts
      BY <3>2, <3>5 DEF Row, Progress
    <3> QED
      BY <3>3, <3>5, <3>6 DEF Alike
  <2>3. UNCHANGED <<jobs, sess, req>> /\ jobs \subseteq Jobs
    BY <2>1 DEF DelayElapses, TypeOK
  <2> QED
    BY <2>2, <2>3, ColumnsFramed
<1> QED
  BY <1>2, <1>3, <1>4, <1>5 DEF OneShotStep

\* ColumnsInv is inductive beside SerialInv.
LEMMA ColumnsInvariant ==
    ASSUME SerialRequests
    PROVE  Spec => []ColumnsInv
<1>1. Init => ColumnsInv
  BY DEF Init, ColumnsInv, AttemptsLeft, FeedbackAppliedOnce, CopiesAreCurrent,
         RunsAreCurrent, IdleSession, IdleRequest
<1>2. TypeOK /\ SerialInv /\ ColumnsInv /\ [Next]_vars => ColumnsInv'
  <2> SUFFICES ASSUME TypeOK, SerialInv, ColumnsInv, [Next]_vars PROVE ColumnsInv'
    OBVIOUS
  <2>1. CASE UNCHANGED vars
    BY <2>1, ColumnsFramed DEF vars, Alike
  <2>2. CASE \E w \in Workers : WorkerStep(w) \/ Crash(w)
    BY <2>2, WorkerColumns
  <2>3. CASE \E c \in Clients : LoadStep(c)
    BY <2>3, LoadColumns
  <2>4. CASE \E c \in Clients : CommitStep(c)
    BY <2>4, CommitColumns DEF SerialRequests
  <2>5. CASE OneShotStep \/ \E j \in Jobs : DelayElapses(j)
    BY <2>5, OneShotColumns
  <2> QED
    BY <2>1, <2>2, <2>3, <2>4, <2>5 DEF Next, SystemStep, UserStep
<1>3. SerialInv /\ TypeOK /\ [Next]_vars => SerialInv'
  BY SerialStep
<1> QED
  BY <1>1, <1>2, <1>3, SerialInit, TypeCorrect, PTL DEF Spec

\* A job in the queue has an attempt left, for any limit: the counter survives
\* every rewrite of `progress` that does not mean to reset it.
THEOREM QueuedJobsHaveAttempts ==
    ASSUME SerialRequests
    PROVE  Spec => []AttemptsLeft
<1>1. ColumnsInv => AttemptsLeft
  BY DEF ColumnsInv
<1> QED
  BY <1>1, ColumnsInvariant, PTL

\* No table is reviewed or confirmed while the feedback that asked for it is
\* still pending.
THEOREM FeedbackIsUsedUp ==
    ASSUME SerialRequests
    PROVE  Spec => []FeedbackAppliedOnce
<1>1. ColumnsInv => FeedbackAppliedOnce
  BY DEF ColumnsInv
<1> QED
  BY <1>1, ColumnsInvariant, PTL

-----------------------------------------------------------------------------
(* Requests run one at a time: the queue implements JobStatus *)

Running(j) == \E w \in Workers : RunsJob(w, j)

\* Once a table has landed no worker has the job, and none will get it again.
LandedIsOver ==
    \A j \in Jobs : landings[j] > 0 =>
        /\ StatusOf(j) \in {"confirmed", "rejected", "deleted"}
        /\ ~Running(j)

\* The status a confirm compares with at its flush is the one it asked for.
ConfirmSawReview ==
    \A c \in Clients : req[c].op = "confirm" => req[c].seen.status = "awaiting_review"

LandedOnce == \A j \in Jobs : landings[j] <= 1

GateInv == LandedIsOver /\ LandedOnce /\ ConfirmSawReview

\* A step of JobStatus for j, or none.
Allowed(j) == [Life(j)!Next]_(Life(j)!vars)

-----------------------------------------------------------------------------
(* One job *)

LEMMA Unmoved ==
    ASSUME NEW j \in Jobs, StatusOf(j)' = StatusOf(j), Running(j)' = Running(j),
           landings'[j] = landings[j]
    PROVE  Allowed(j)
  BY DEF Allowed, Life!vars, Running

LEMMA SameRunners ==
    ASSUME NEW j \in Jobs, sess' = sess
    PROVE  Running(j)' = Running(j)
  BY DEF Running, RunsJob, Busy

\* A row that waits, is under review or has failed is run by nobody and has
\* not landed.
LEMMA AtRest ==
    ASSUME TypeOK, SerialInv, GateInv, NEW j \in jobs,
           job[j].status \in {"pending", "awaiting_review", "failed"}
    PROVE  /\ ~Running(j)
           /\ landings[j] = 0
           /\ StatusOf(j) = job[j].status
<1>1. ~Running(j)
  BY DEF SerialInv, RunsAreExtracting, Running, RunsJob
<1>2. StatusOf(j) = job[j].status
  BY DEF StatusOf
<1>3. landings[j] \in 0..2 /\ ~(landings[j] > 0)
  BY <1>2 DEF GateInv, LandedIsOver, TypeOK
<1> QED
  BY <1>1, <1>2, <1>3

\* A worker drops its job: the row may get the status a finished run leaves.
LEMMA RunOver ==
    ASSUME TypeOK, SerialInv, NEW w \in Workers, Busy(w),
           sess' = [sess EXCEPT ![w] = IdleSession],
           UNCHANGED <<jobs, createdAt, landings>>,
           \A k \in Jobs : k # sess[w].job => job'[k] = job[k],
           sess[w].job \in jobs =>
             job'[sess[w].job].status \in
               {job[sess[w].job].status, "awaiting_review", "failed", "pending"},
           NEW j \in Jobs
    PROVE  Allowed(j)
<1>0. \A v \in Workers : sess'[v] = IF v = w THEN IdleSession ELSE sess[v]
  BY DEF TypeOK
<1>1. CASE j # sess[w].job
  <2>1. Running(j)' = Running(j)
    BY <1>0, <1>1 DEF Running, RunsJob, Busy, IdleSession
  <2>2. StatusOf(j)' = StatusOf(j)
    BY <1>1 DEF StatusOf
  <2> QED
    BY <2>1, <2>2, Unmoved
<1>2. CASE j = sess[w].job
  <2>1. Running(j)
    BY <1>2 DEF Running, RunsJob
  <2>2. ~Running(j)'
    BY <1>0, <1>2 DEF SerialInv, ClaimExclusive, Running, RunsJob, Busy, IdleSession
  <2>3. CASE StatusOf(j)' = StatusOf(j)
    <3>1. Life(j)!AbandonRun
      BY <2>1, <2>2, <2>3 DEF Life!AbandonRun, Running
    <3> QED
      BY <3>1 DEF Allowed, Life!Next
  <2>4. CASE StatusOf(j)' # StatusOf(j)
    <3>1. j \in jobs
      BY <2>4 DEF StatusOf
    <3>2. StatusOf(j) \in {"extracting", "rejected"}
      BY <1>2, <3>1 DEF SerialInv, RunsAreExtracting, StatusOf
    <3>3. StatusOf(j)' \in {"awaiting_review", "failed", "pending"}
      BY <1>2, <2>4, <3>1 DEF StatusOf
    <3>4. Life(j)!FinishRun
      BY <2>1, <2>2, <3>2, <3>3 DEF Life!FinishRun, Running
    <3> QED
      BY <3>4 DEF Allowed, Life!Next
  <2> QED
    BY <2>3, <2>4
<1> QED
  BY <1>1, <1>2

-----------------------------------------------------------------------------
(* Workers *)

LEMMA WorkerAllowed ==
    ASSUME TypeOK, SerialInv, GateInv, NEW w \in Workers,
           WorkerStep(w) \/ Crash(w), NEW j \in Jobs
    PROVE  Allowed(j)
<1>1. CASE claim_job(w)
  <2>1. PICK k \in Jobs :
          /\ Claimable(k)
          /\ job' = [job EXCEPT ![k].status = "extracting", ![k].lockedBy = w]
          /\ sess' = [sess EXCEPT ![w] = [pc |-> "claimed", job |-> k,
                                          row |-> BlankRow]]
    BY <1>1 DEF claim_job
  <2>2. ~Busy(w) /\ UNCHANGED <<jobs, createdAt, landings>>
    BY <1>1 DEF claim_job, Busy
  <2>3. k \in jobs /\ job[k].status = "pending" /\ job[k] \in Row
    BY <2>1 DEF Claimable, TypeOK
  <2>4. job'[k].status = "extracting" /\ \A i \in Jobs : i # k => job'[i] = job[i]
    BY <2>1, <2>3 DEF TypeOK, Row
  <2>5. sess'[w].job = k /\ sess'[w].pc = "claimed"
        /\ \A v \in Workers : v # w => sess'[v] = sess[v]
    BY <2>1 DEF TypeOK
  <2>6. CASE j = k
    <3>1. ~Running(j) /\ StatusOf(j) = "pending"
      BY <2>3, <2>6, AtRest
    <3>2. Running(j)' /\ StatusOf(j)' = "extracting"
      BY <2>2, <2>3, <2>4, <2>5, <2>6 DEF Running, RunsJob, Busy, StatusOf
    <3>3. Life(j)!Claim
      BY <2>2, <3>1, <3>2 DEF Life!Claim, Running
    <3> QED
      BY <3>3 DEF Allowed, Life!Next
  <2>7. CASE j # k
    <3>1. Running(j)' = Running(j)
      BY <2>2, <2>5, <2>7 DEF Running, RunsJob, Busy
    <3>2. StatusOf(j)' = StatusOf(j)
      BY <2>2, <2>4, <2>7 DEF StatusOf
    <3> QED
      BY <2>2, <3>1, <3>2, Unmoved
  <2> QED
    BY <2>6, <2>7
<1>2. CASE LoadJob(w) \/ RollbackRun(w)
  <2>1. Busy(w) /\ UNCHANGED <<jobs, job, createdAt, landings>>
    BY <1>2 DEF LoadJob, RollbackRun, tables, Busy
  <2>2. CASE sess' = [sess EXCEPT ![w] = IdleSession]
    BY <2>1, <2>2, RunOver
  <2>3. CASE \E s : /\ sess' = [sess EXCEPT ![w] = s]
                    /\ s.job = sess[w].job /\ s.pc # "idle"
    <3>1. Running(j)' = Running(j)
      BY <2>1, <2>3 DEF Running, RunsJob, Busy, TypeOK
    <3>2. StatusOf(j)' = StatusOf(j)
      BY <2>1 DEF StatusOf
    <3> QED
      BY <2>1, <3>1, <3>2, Unmoved
  <2>4. ASSUME NEW reason \in {"running", "failing", "limited"}, NEW row
        PROVE  LET s == [pc |-> reason, job |-> sess[w].job, row |-> row]
               IN  s.job = sess[w].job /\ s.pc # "idle"
    OBVIOUS
  <2> QED
    BY <1>2, <2>2, <2>3, <2>4 DEF LoadJob, RollbackRun
<1>3. CASE CompleteRun(w) \/ RecordFailure(w) \/ Crash(w)
  <2>1. /\ Busy(w)
        /\ sess' = [sess EXCEPT ![w] = IdleSession]
        /\ UNCHANGED <<jobs, createdAt, landings>>
    BY <1>3 DEF CompleteRun, RecordFailure, Crash, tables, Busy
  <2>2. \A k \in Jobs : k # sess[w].job => job'[k] = job[k]
    BY <1>3 DEF CompleteRun, RecordFailure, Crash, tables, TypeOK
  <2> DEFINE k == sess[w].job
  <2>3. k \in Jobs /\ sess[w].row \in Row
    BY <2>1 DEF Busy, TypeOK, Session
  <2>4. ASSUME k \in jobs
        PROVE  job'[k].status \in {job[k].status, "awaiting_review", "failed", "pending"}
    <3>1. CASE CompleteRun(w)
      <4>1. PICK table \in {"flagged", "clean"} :
              job' = [job EXCEPT ![k] = WriteBack(job[k], sess[w].row,
                        [sess[w].row EXCEPT
                           !.status   = "awaiting_review",
                           !.result   = PipelineResult(sess[w].row, table),
                           !.progress = [attempts |-> 0, deferred |-> FALSE,
                                         step |-> "done"]])]
        BY <2>4, <3>1 DEF CompleteRun
      <4> DEFINE result == PipelineResult(sess[w].row, table)
                 done == [sess[w].row EXCEPT
                            !.status = "awaiting_review", !.result = result,
                            !.progress = [attempts |-> 0, deferred |-> FALSE,
                                          step |-> "done"]]
      <4>a. job' = [job EXCEPT ![k] = WriteBack(job[k], sess[w].row, done)]
        BY <4>1
      <4> HIDE DEF result
      <4>b. done.status = "awaiting_review"
        BY <2>3 DEF Row
      <4> HIDE DEF done
      <4>c. job'[k].status = Column(job[k].status, sess[w].row.status, done.status)
        BY <2>3, <4>a DEF TypeOK, WriteBack
      <4> QED
        BY <4>b, <4>c DEF Column
    <3>2. CASE RecordFailure(w)
      <4>1. PICK new : /\ job' = [job EXCEPT ![k] = WriteBack(job[k], sess[w].row, new)]
                       /\ new.status \in {"failed", "pending"}
        <5>1. RateLimited(sess[w].row).status \in {"failed", "pending"}
          BY <2>3 DEF RateLimited, Row
        <5>2. [sess[w].row EXCEPT !.status = "failed"].status = "failed"
          BY <2>3 DEF Row
        <5> QED
          BY <2>4, <3>2, <5>1, <5>2 DEF RecordFailure
      <4>2. job'[k].status = Column(job[k].status, sess[w].row.status, new.status)
        BY <2>3, <4>1 DEF TypeOK, WriteBack
      <4> QED
        BY <4>1, <4>2 DEF Column
    <3>3. CASE Crash(w)
      BY <3>3 DEF Crash, tables
    <3> QED
      BY <1>3, <3>1, <3>2, <3>3
  <2> QED
    BY <2>1, <2>2, <2>4, RunOver
<1> QED
  BY <1>1, <1>2, <1>3 DEF WorkerStep

-----------------------------------------------------------------------------
(* Requests *)

\* Rows are written, none comes or goes, and nothing lands.
LEMMA RowMoves ==
    ASSUME TypeOK, SerialInv, GateInv, NEW j \in Jobs,
           UNCHANGED <<jobs, createdAt, sess>>, landings'[j] = landings[j],
           j \in jobs =>
             \/ job'[j].status \in {job[j].status, "rejected"}
             \/ /\ job[j].status \in {"awaiting_review", "failed"}
                /\ job'[j].status = "pending"
    PROVE  Allowed(j)
<1>1. Running(j)' = Running(j)
  BY SameRunners
<1>2. CASE StatusOf(j)' = StatusOf(j)
  BY <1>1, <1>2, Unmoved
<1>3. CASE StatusOf(j)' # StatusOf(j)
  <2>1. j \in jobs /\ StatusOf(j) = job[j].status /\ StatusOf(j)' = job'[j].status
    BY <1>3 DEF StatusOf
  <2>2. CASE job'[j].status = "rejected"
    <3>1. job[j].status \in Life(j)!Status
      BY DEF TypeOK, Row, Status, Life!Status
    <3>2. Life(j)!Reject
      BY <1>1, <2>1, <2>2, <3>1 DEF Life!Reject, Running
    <3> QED
      BY <3>2 DEF Allowed, Life!Next
  <2>3. CASE /\ job[j].status \in {"awaiting_review", "failed"}
             /\ job'[j].status = "pending"
    <3>1. ~Running(j) /\ landings[j] = 0
      BY <2>1, <2>3, AtRest
    <3>2. Life(j)!Requeue
      BY <1>1, <2>1, <2>3, <3>1 DEF Life!Requeue, Running
    <3> QED
      BY <3>2 DEF Allowed, Life!Next
  <2> QED
    BY <1>3, <2>1, <2>2, <2>3
<1> QED
  BY <1>2, <1>3

LEMMA RowsGo ==
    ASSUME TypeOK, NEW j \in Jobs, NEW gone, DropJobs(gone),
           gone \subseteq jobs, IdsAreUsed,
           UNCHANGED <<createdAt, landings, sess>>
    PROVE  Allowed(j)
<1>1. Running(j)' = Running(j)
  BY SameRunners
<1>2. CASE j \in gone
  <2>1. StatusOf(j) = job[j].status /\ job[j].status \in Life(j)!Status
    BY <1>2 DEF StatusOf, TypeOK, Row, Status, Life!Status
  <2>2. StatusOf(j)' = "deleted"
    BY <1>2 DEF StatusOf, DropJobs, IdsAreUsed
  <2>3. Life(j)!Delete
    BY <1>1, <2>1, <2>2 DEF Life!Delete, Running
  <2> QED
    BY <2>3 DEF Allowed, Life!Next
<1>3. CASE j \notin gone
  <2>1. StatusOf(j)' = StatusOf(j)
    BY <1>3 DEF StatusOf, DropJobs
  <2> QED
    BY <1>1, <2>1, Unmoved
<1> QED
  BY <1>2, <1>3

\* A confirm: what it confirms was under review.
LEMMA RowLands ==
    ASSUME TypeOK, SerialInv, GateInv, NEW j \in jobs,
           UNCHANGED <<jobs, createdAt, sess>>,
           job[j].status = "awaiting_review", job'[j].status = "confirmed",
           landings'[j] = landings[j] + 1
    PROVE  Allowed(j)
<1>1. ~Running(j) /\ landings[j] = 0 /\ StatusOf(j) = "awaiting_review"
  BY AtRest
<1>2. Running(j)' = Running(j) /\ StatusOf(j)' = "confirmed" /\ landings'[j] = 1
  BY <1>1, SameRunners DEF StatusOf, TypeOK
<1>3. Life(j)!Confirm
  BY <1>1, <1>2 DEF Life!Confirm, Running
<1> QED
  BY <1>3 DEF Allowed, Life!Next

LEMMA LandCounts ==
    ASSUME TypeOK, GateInv, NEW confirmed \in SUBSET jobs, Land(confirmed), NEW j \in Jobs
    PROVE  landings'[j] = IF j \in confirmed THEN landings[j] + 1 ELSE landings[j]
<1>1. landings[j] \in 0..2 /\ landings[j] <= 1
  BY DEF TypeOK, GateInv, LandedOnce
<1> QED
  BY <1>1 DEF Land

\* What the commit of a single-job handler does to the statuses.
LEMMA CommitMoves ==
    ASSUME TypeOK, NEW c \in Clients, NEW op, NEW new, Commit(c, op, new), NEW j \in Jobs
    PROVE  /\ UNCHANGED <<jobs, createdAt, sess>>
           /\ req[c].op = op
           /\ j \notin req[c].jobs \cap jobs => job'[j] = job[j]
           /\ j \in req[c].jobs \cap jobs =>
                job'[j].status = Column(job[j].status, req[c].seen.status, new.status)
  BY DEF Commit, WriteBack, TypeOK

LEMMA RequestAllowed ==
    ASSUME TypeOK, SerialInv, GateInv, NEW c \in Clients, CommitStep(c), NEW j \in Jobs
    PROVE  Allowed(j)
<1> DEFINE seen == req[c].seen
<1>0. seen \in Row
  BY DEF TypeOK, Request
<1>1. CASE patch_review(c) \/ reject_job(c)
  <2>1. PICK op, new : /\ Commit(c, op, new)
                       /\ new.status \in {seen.status, "rejected"}
    <3>1. \A table : [seen EXCEPT !.result.table = table].status = seen.status
      BY <1>0 DEF Row
    <3>2. [seen EXCEPT !.status = "rejected"].status = "rejected"
      BY <1>0 DEF Row
    <3> QED
      BY <1>1, <3>1, <3>2 DEF patch_review, reject_job
  <2>2. landings' = landings
    BY <1>1 DEF patch_review, reject_job
  <2>3. UNCHANGED <<jobs, createdAt, sess>>
        /\ job'[j].status \in {job[j].status, "rejected"}
    BY <2>1, CommitMoves DEF Column
  <2> QED
    BY <2>2, <2>3, RowMoves
<1>2. CASE reextract_job(c) \/ retry_job(c)
  <2>1. PICK op, new : /\ Commit(c, op, new)
                       /\ op \in {"reextract", "retry"}
                       /\ new.status = "pending"
    <3>1. CASE reextract_job(c)
      <4> DEFINE result == [seen.result EXCEPT !.feedback = TRUE,
                              !.asked = IF @ < MaxReextracts THEN @ + 1 ELSE @]
                 new == [seen EXCEPT !.kind = "reextract", !.status = "pending",
                                     !.progress = NoProgress, !.lockedBy = None,
                                     !.result = result]
      <4>1. Commit(c, "reextract", new)
        BY <3>1 DEF reextract_job
      <4> HIDE DEF result
      <4>2. new.status = "pending"
        BY <1>0 DEF Row
      <4> QED
        BY <4>1, <4>2
    <3>2. CASE retry_job(c)
      <4> DEFINE progress == [seen.progress EXCEPT !.attempts = 0, !.deferred = FALSE]
                 new == [seen EXCEPT !.status = "pending", !.lockedBy = None,
                                     !.progress = progress]
      <4>1. Commit(c, "retry", new)
        BY <3>2 DEF retry_job
      <4> HIDE DEF progress
      <4>2. new.status = "pending"
        BY <1>0 DEF Row
      <4> QED
        BY <4>1, <4>2
    <3> QED
      BY <1>2, <3>1, <3>2
  <2>2. landings' = landings
    BY <1>2 DEF reextract_job, retry_job
  <2>3. j \in req[c].jobs \cap jobs => job[j].status \in {"awaiting_review", "failed"}
    BY <2>1, CommitMoves DEF SerialInv, RequestsAreCurrent
  <2>4. UNCHANGED <<jobs, createdAt, sess>>
        /\ \/ job'[j].status = job[j].status
           \/ j \in req[c].jobs \cap jobs /\ job'[j].status = "pending"
    BY <2>1, CommitMoves DEF Column
  <2> QED
    BY <2>2, <2>3, <2>4, RowMoves
<1>3. CASE confirm_job(c)
  <2> DEFINE confirmed == req[c].jobs \cap jobs
  <2>1. Commit(c, "confirm", [seen EXCEPT !.status = "confirmed"]) /\ Land(confirmed)
    BY <1>3 DEF confirm_job
  <2>2. [seen EXCEPT !.status = "confirmed"].status = "confirmed"
    BY <1>0 DEF Row
  <2>3. UNCHANGED <<jobs, createdAt, sess>> /\ req[c].op = "confirm"
    BY <2>1, CommitMoves
  <2>4. landings'[j] = IF j \in confirmed THEN landings[j] + 1 ELSE landings[j]
    BY <2>1, LandCounts
  <2>5. CASE j \in confirmed
    <3>1. job[j].status = "awaiting_review" /\ seen.status = "awaiting_review"
      BY <2>3, <2>5 DEF SerialInv, RequestsAreCurrent, GateInv, ConfirmSawReview
    <3>2. job'[j].status = "confirmed"
      <4> DEFINE new == [seen EXCEPT !.status = "confirmed"]
      <4>1. Commit(c, "confirm", new) /\ new.status = "confirmed"
        BY <2>1, <2>2
      <4> HIDE DEF new
      <4>2. job'[j].status = Column(job[j].status, seen.status, new.status)
        BY <2>5, <4>1, CommitMoves
      <4> QED
        BY <3>1, <4>1, <4>2 DEF Column
    <3> QED
      BY <2>3, <2>4, <2>5, <3>1, <3>2, RowLands
  <2>6. CASE j \notin confirmed
    <3>1. job'[j] = job[j]
      BY <2>1, <2>6, CommitMoves
    <3> QED
      BY <2>3, <2>4, <2>6, <3>1, RowMoves
  <2> QED
    BY <2>5, <2>6
<1>4. CASE refuse_confirm(c)
  BY <1>4, RowMoves DEF refuse_confirm, tables
<1>5. CASE confirm_all_clean(c)
  <2>1. UNCHANGED <<jobs, createdAt, sess>> /\ req[c].op = "confirm_all"
    BY <1>5 DEF confirm_all_clean
  <2>2. CASE req[c].jobs \subseteq jobs
    <3>1. Land(req[c].jobs)
          /\ job'[j] = IF j \in req[c].jobs THEN [job[j] EXCEPT !.status = "confirmed"]
                                            ELSE job[j]
      BY <1>5, <2>2 DEF confirm_all_clean
    <3>2. landings'[j] = IF j \in req[c].jobs THEN landings[j] + 1 ELSE landings[j]
      BY <2>2, <3>1, LandCounts
    <3>3. CASE j \in req[c].jobs
      <4>1. j \in jobs /\ job[j].status = "awaiting_review"
        BY <2>1, <2>2, <3>3 DEF SerialInv, RequestsAreCurrent
      <4>2. job'[j].status = "confirmed"
        BY <3>1, <3>3 DEF TypeOK, Row
      <4> QED
        BY <2>1, <3>2, <3>3, <4>1, <4>2, RowLands
    <3>4. CASE j \notin req[c].jobs
      BY <2>1, <3>1, <3>2, <3>4, RowMoves
    <3> QED
      BY <3>3, <3>4
  <2>3. CASE ~(req[c].jobs \subseteq jobs)
    <3>1. UNCHANGED <<job, landings>>
      BY <1>5, <2>3 DEF confirm_all_clean
    <3> QED
      BY <2>1, <3>1, RowMoves
  <2> QED
    BY <2>2, <2>3
<1>6. CASE delete_batch(c)
  <2>1. UNCHANGED <<sess, createdAt, landings>>
    BY <1>6 DEF delete_batch
  <2>2. CASE DropJobs(req[c].jobs \cap jobs)
    BY <2>1, <2>2, RowsGo DEF SerialInv
  <2>3. CASE UNCHANGED <<jobs, job>>
    BY <2>1, <2>3, RowMoves
  <2> QED
    BY <1>6, <2>2, <2>3 DEF delete_batch
<1> QED
  BY <1>1, <1>2, <1>3, <1>4, <1>5, <1>6 DEF CommitStep

-----------------------------------------------------------------------------
(* Uploads, backfills, deletes and time *)

LEMMA RowsCome ==
    ASSUME TypeOK, SerialInv, GateInv, NEW j \in Jobs, NEW new \in SUBSET Jobs,
           NEW kind, InsertJobs(new, kind), UNCHANGED <<landings, sess>>
    PROVE  Allowed(j)
<1>0. Cardinality(Jobs) \in Nat
  BY FS_CardinalityType, ConstantsAssumption
<1>1. Running(j)' = Running(j)
  BY SameRunners
<1>2. CASE j \in new
  <2>1. createdAt[j] = 0 /\ j \notin jobs
    BY <1>2 DEF InsertJobs, SerialInv, IdsAreUsed
  <2>2. StatusOf(j) = "unused"
    BY <2>1 DEF StatusOf
  <2>3. job'[j] = [BlankRow EXCEPT !.kind = kind] /\ j \in jobs'
    BY <1>2 DEF InsertJobs
  <2>4. StatusOf(j)' = "pending"
    BY <2>3 DEF StatusOf, BlankRow
  <2>5. Life(j)!Insert
    BY <1>1, <2>2, <2>4 DEF Life!Insert, Running
  <2> QED
    BY <2>5 DEF Allowed, Life!Next
<1>3. CASE j \notin new
  <2>1. createdAt'[j] = createdAt[j] /\ job'[j] = job[j] /\ (j \in jobs' <=> j \in jobs)
    BY <1>0, <1>3 DEF InsertJobs
  <2>2. StatusOf(j)' = StatusOf(j)
    BY <2>1 DEF StatusOf
  <2> QED
    BY <1>1, <2>2, Unmoved
<1> QED
  BY <1>2, <1>3

LEMMA OneShotAllowed ==
    ASSUME TypeOK, SerialInv, GateInv, OneShotStep, NEW j \in Jobs
    PROVE  Allowed(j)
<1>1. CASE \E b \in Batches : upload_documents(b)
  <2>1. PICK b \in Batches : upload_documents(b)
    BY <1>1
  <2> DEFINE new == {UploadJob[d] : d \in {e \in Documents : BatchOf[e] = b}}
  <2>2. /\ new \in SUBSET Jobs
        /\ InsertJobs(new, "extract")
        /\ UNCHANGED <<landings, sess>>
    BY <2>1, ConstantsAssumption DEF upload_documents
  <2> QED
    BY <2>2, RowsCome
<1>2. CASE enqueue_backfill
  <2>1. PICK new \in SUBSET Jobs :
          InsertJobs(new, "backfill") /\ UNCHANGED <<landings, sess>>
    BY <1>2 DEF enqueue_backfill
  <2> QED
    BY <2>1, RowsCome
<1>3. CASE \E d \in Documents : delete_document(d)
  <2>1. PICK d \in Documents : delete_document(d)
    BY <1>3
  <2>2. /\ DropJobs(JobsOf(d)) /\ JobsOf(d) \subseteq jobs
        /\ UNCHANGED <<createdAt, landings, sess>>
    BY <2>1 DEF delete_document, JobsOf
  <2> QED
    BY <2>2, RowsGo DEF SerialInv
<1> QED
  BY <1>1, <1>2, <1>3 DEF OneShotStep

LEMMA DelayAllowed ==
    ASSUME TypeOK, SerialInv, GateInv, NEW k \in Jobs, DelayElapses(k), NEW j \in Jobs
    PROVE  Allowed(j)
<1>1. job[k] \in Row
  BY DEF TypeOK
<1>2. job' = [job EXCEPT ![k] = [job[k] EXCEPT
                !.progress = [job[k].progress EXCEPT !.deferred = FALSE]]]
  BY DEF DelayElapses
<1>3. job'[j].status = job[j].status
  BY <1>1, <1>2 DEF TypeOK, Row
<1>4. UNCHANGED <<jobs, createdAt, sess, landings>>
  BY DEF DelayElapses
<1> QED
  BY <1>3, <1>4, RowMoves

LEMMA StepAllowed ==
    ASSUME TypeOK, SerialInv, GateInv, [Next]_vars, NEW j \in Jobs
    PROVE  Allowed(j)
<1>1. CASE UNCHANGED vars \/ \E c \in Clients : LoadStep(c)
  <2>1. UNCHANGED <<jobs, job, createdAt, landings, sess>>
    BY <1>1 DEF vars, LoadStep, LoadPatch, LoadConfirm, LoadReextract, LoadReject,
                LoadRetry, Load, LoadConfirmAll, LoadDeleteBatch, tables
  <2> QED
    BY <2>1, RowMoves
<1>2. CASE Next /\ ~(\E c \in Clients : LoadStep(c))
  BY <1>2, WorkerAllowed, RequestAllowed, OneShotAllowed, DelayAllowed
     DEF Next, SystemStep, UserStep
<1> QED
  BY <1>1, <1>2

-----------------------------------------------------------------------------
(* What JobStatus forbids keeps the invariant *)

LEMMA AllowedKeepsLandedOver ==
    ASSUME NEW j \in Jobs, Allowed(j), TypeOK, TypeOK',
           landings[j] > 0 => /\ StatusOf(j) \in {"confirmed", "rejected", "deleted"}
                              /\ ~Running(j)
    PROVE  landings'[j] > 0 => /\ StatusOf(j)' \in {"confirmed", "rejected", "deleted"}
                               /\ ~Running(j)'
  BY DEF Allowed, Running, Life!Next, Life!vars, Life!Insert, Life!Claim,
         Life!FinishRun, Life!AbandonRun, Life!Confirm, Life!Requeue,
         Life!Reject, Life!Delete, Life!Status

LEMMA LandedOnceStep ==
    ASSUME TypeOK, SerialInv, GateInv, [Next]_vars, NEW j \in Jobs
    PROVE  landings'[j] <= 1
<1>0. landings[j] \in 0..1
  BY DEF TypeOK, GateInv, LandedOnce
<1>1. ASSUME NEW c \in Clients, confirm_job(c) \/ confirm_all_clean(c)
      PROVE  landings'[j] <= 1
  <2>1. \A k \in req[c].jobs \cap jobs : landings[k] = 0
    <3>1. req[c].op \in {"confirm", "confirm_all"}
      BY <1>1 DEF confirm_job, Commit, confirm_all_clean
    <3>2. \A k \in req[c].jobs \cap jobs : job[k].status = "awaiting_review"
      BY <3>1 DEF SerialInv, RequestsAreCurrent
    <3> QED
      BY <3>2, AtRest
  <2>2. \/ landings' = landings
        \/ \E confirmed \in SUBSET (req[c].jobs \cap jobs) : Land(confirmed)
    BY <1>1 DEF confirm_job, confirm_all_clean
  <2> QED
    BY <1>0, <2>1, <2>2, LandCounts
<1>2. CASE ~(\E c \in Clients : confirm_job(c) \/ confirm_all_clean(c))
  <2>1. landings' = landings
    BY <1>2 DEF Next, vars, SystemStep, UserStep, OneShotStep, WorkerStep, LoadStep,
                CommitStep, claim_job, LoadJob, CompleteRun, RollbackRun,
                RecordFailure, Crash, DelayElapses, upload_documents,
                enqueue_backfill, delete_document, LoadPatch, LoadConfirm,
                LoadReextract, LoadReject, LoadRetry, Load, LoadConfirmAll,
                LoadDeleteBatch, patch_review, refuse_confirm, reextract_job,
                reject_job, retry_job, delete_batch, tables
  <2> QED
    BY <1>0, <2>1
<1> QED
  BY <1>1, <1>2

\* A confirm in flight was loaded as one.
LEMMA ConfirmSawReviewStep ==
    ASSUME TypeOK, ConfirmSawReview, [Next]_vars
    PROVE  ConfirmSawReview'
<1>1. ASSUME NEW c \in Clients, NEW r, req' = [req EXCEPT ![c] = r],
             r.op = "confirm" => r.seen.status = "awaiting_review"
      PROVE  ConfirmSawReview'
  BY <1>1 DEF ConfirmSawReview, TypeOK
<1>2. ASSUME NEW c \in Clients, CommitStep(c)
      PROVE  ConfirmSawReview'
  <2>1. req' = [req EXCEPT ![c] = IdleRequest] /\ IdleRequest.op # "confirm"
    BY <1>2 DEF CommitStep, patch_review, confirm_job, refuse_confirm, reextract_job,
                reject_job, retry_job, confirm_all_clean, delete_batch, Commit,
                IdleRequest
  <2> QED
    BY <1>1, <2>1
<1>3. ASSUME NEW c \in Clients, NEW j \in Jobs, NEW op, Load(c, j, op),
             op = "confirm" => job[j].status = "awaiting_review"
      PROVE  ConfirmSawReview'
  <2>1. op = "confirm" => Copy(job[j], HandlerColumns[op]).status = "awaiting_review"
    BY <1>3 DEF Copy, HandlerColumns
  <2> DEFINE r == [op |-> op, jobs |-> {j}, docs |-> {},
                   seen |-> Copy(job[j], HandlerColumns[op])]
  <2>2. req' = [req EXCEPT ![c] = r]
    BY <1>3 DEF Load
  <2>3. r.op = op /\ r.seen = Copy(job[j], HandlerColumns[op])
    OBVIOUS
  <2> HIDE DEF r
  <2> QED
    BY <1>1, <2>1, <2>2, <2>3
<1>4. ASSUME NEW c \in Clients, LoadStep(c)
      PROVE  ConfirmSawReview'
  <2>1. CASE \E b \in Batches : LoadConfirmAll(c, b) \/ LoadDeleteBatch(c, b)
    <3>1. PICK op, theirs, docs :
            /\ req' = [req EXCEPT ![c] = [op |-> op, jobs |-> theirs,
                                          seen |-> BlankRow, docs |-> docs]]
            /\ op \in {"confirm_all", "delete_batch"}
      BY <2>1 DEF LoadConfirmAll, LoadDeleteBatch
    <3> DEFINE r == [op |-> op, jobs |-> theirs, seen |-> BlankRow, docs |-> docs]
    <3>2. req' = [req EXCEPT ![c] = r] /\ r.op # "confirm"
      BY <3>1
    <3> HIDE DEF r
    <3> QED
      BY <1>1, <3>2
  <2>2. CASE \E j \in Jobs : \/ LoadPatch(c, j)
                             \/ LoadConfirm(c, j)
                             \/ LoadReextract(c, j)
                             \/ LoadReject(c, j)
                             \/ LoadRetry(c, j)
    BY <1>3, <2>2 DEF LoadPatch, LoadConfirm, LoadReextract, LoadReject, LoadRetry
  <2> QED
    BY <1>4, <2>1, <2>2 DEF LoadStep
<1>5. CASE UNCHANGED req
  BY <1>5 DEF ConfirmSawReview
<1> QED
  BY <1>2, <1>4, <1>5
     DEF Next, vars, SystemStep, UserStep, OneShotStep, WorkerStep, claim_job,
         LoadJob, CompleteRun, RollbackRun, RecordFailure, Crash, DelayElapses,
         upload_documents, enqueue_backfill, delete_document

LEMMA GateStep ==
    ASSUME TypeOK, TypeOK', SerialInv, GateInv, [Next]_vars
    PROVE  GateInv'
<1>1. LandedIsOver'
  BY StepAllowed, AllowedKeepsLandedOver DEF GateInv, LandedIsOver
<1>2. LandedOnce'
  BY LandedOnceStep DEF LandedOnce
<1>3. ConfirmSawReview'
  BY ConfirmSawReviewStep DEF GateInv
<1> QED
  BY <1>1, <1>2, <1>3 DEF GateInv

LEMMA GateInit == Init => GateInv
  BY DEF Init, GateInv, LandedIsOver, LandedOnce, ConfirmSawReview, IdleRequest

\* With one request at a time SerialInv and GateInv hold always.
LEMMA SerialInvariant ==
    ASSUME SerialRequests
    PROVE  Spec => [](TypeOK /\ SerialInv /\ GateInv)
<1>1. SerialInv /\ TypeOK /\ [Next]_vars => SerialInv'
  BY SerialStep
<1>2. TypeOK /\ TypeOK' /\ SerialInv /\ GateInv /\ [Next]_vars => GateInv'
  BY GateStep
<1> QED
  BY <1>1, <1>2, SerialInit, GateInit, TypeCorrect, PTL DEF Spec

\* The queue implements JobStatus for each of its jobs.
THEOREM QueueImplementsJobStatus ==
    ASSUME SerialRequests
    PROVE  Spec => LivesAsPromised
<1>1. Init => \A j \in Jobs : Life(j)!Init
  BY DEF Init, Life!Init, StatusOf, RunsJob, Busy, IdleSession
<1>2. TypeOK /\ SerialInv /\ GateInv /\ [Next]_vars =>
        [\A j \in Jobs : [Life(j)!Next]_(Life(j)!vars)]_vars
  BY StepAllowed DEF Allowed
<1> QED
  BY <1>1, <1>2, SerialInvariant, PTL DEF Spec, LivesAsPromised

-----------------------------------------------------------------------------
(* Requests may overlap: a table lands once *)

Decided(c, j) == req[c].op \in Decisions /\ j \in req[c].jobs

\* A job that no two decisions held at once is held by one worker or by one
\* decision, and until the decision commits it has not landed; once it has
\* landed its row is confirmed, rejected or gone and nobody holds it.
Orderly(j) ==
    /\ \/ j \in jobs
       \/ Running(j)
       \/ \E c \in Clients : Decided(c, j)
       \/ landings[j] > 0
       => createdAt[j] # 0
    /\ \A v, w \in Workers : RunsJob(v, j) /\ RunsJob(w, j) => v = w
    /\ \A c, k \in Clients : Decided(c, j) /\ Decided(k, j) => c = k
    /\ Running(j) => /\ landings[j] = 0
                     /\ \A c \in Clients : ~Decided(c, j)
                     /\ j \in jobs => job[j].status \in {"extracting", "rejected"}
    /\ (\E c \in Clients : Decided(c, j)) =>
           /\ landings[j] = 0
           /\ j \in jobs =>
                job[j].status \in {"awaiting_review", "failed", "rejected"}
    /\ landings[j] <= 1
    /\ landings[j] = 1 /\ j \in jobs => job[j].status \in {"confirmed", "rejected"}

LandingInv == ConfirmSawReview /\ \A j \in Jobs \ contested : Orderly(j)

\* Nobody new holds the job and its row is gone, as it was, or rejected.
LEMMA StaysOrderly ==
    ASSUME TypeOK, TypeOK', NEW j \in Jobs, Orderly(j),
           landings'[j] = landings[j],
           createdAt[j] # 0 => createdAt'[j] # 0,
           \A w \in Workers : RunsJob(w, j)' => RunsJob(w, j),
           \A c \in Clients : Decided(c, j)' => Decided(c, j),
           j \in jobs' => /\ j \in jobs
                          /\ job'[j].status \in {job[j].status, "rejected"}
    PROVE  Orderly(j)'
  BY DEF Orderly, Running, TypeOK

\* A job's id is used for the first time.
LEMMA InsertedOrderly ==
    ASSUME TypeOK, TypeOK', NEW j \in Jobs, Orderly(j), createdAt[j] = 0,
           createdAt'[j] # 0, UNCHANGED <<sess, req, landings>>
    PROVE  Orderly(j)'
<1>1. ~Running(j) /\ landings[j] = 0 /\ \A c \in Clients : ~Decided(c, j)
  BY DEF Orderly, TypeOK
<1>2. ~Running(j)' /\ \A c \in Clients : ~Decided(c, j)'
  BY <1>1 DEF Running, RunsJob, Busy, Decided
<1> QED
  BY <1>1, <1>2 DEF Orderly, Running, TypeOK

\* The only worker that has the job lets it go, whatever it writes.
LEMMA RunOverOrderly ==
    ASSUME TypeOK, TypeOK', NEW j \in Jobs, Orderly(j), NEW w \in Workers,
           RunsJob(w, j), sess' = [sess EXCEPT ![w] = IdleSession],
           UNCHANGED <<jobs, createdAt, landings, req>>
    PROVE  Orderly(j)'
<1>1. ~Running(j)'
  BY DEF Running, RunsJob, Busy, IdleSession, Orderly, TypeOK
<1>2. landings[j] = 0 /\ \A c \in Clients : ~Decided(c, j)'
  BY DEF Orderly, Running, Decided
<1> QED
  BY <1>1, <1>2 DEF Orderly, Running, Decided

\* The only decision about the job commits: it lands, or is queued again.
LEMMA DecisionOrderly ==
    ASSUME TypeOK, TypeOK', NEW j \in Jobs, Orderly(j), NEW c \in Clients,
           Decided(c, j), req' = [req EXCEPT ![c] = IdleRequest],
           UNCHANGED <<jobs, createdAt, sess>>,
           \/ landings'[j] = landings[j]
           \/ landings'[j] = landings[j] + 1 /\ job'[j].status = "confirmed"
    PROVE  Orderly(j)'
<1>1. landings[j] = 0 /\ createdAt[j] # 0 /\ ~Running(j)
  BY DEF Orderly
<1>2. ~Running(j)'
  BY <1>1 DEF Running, RunsJob, Busy
<1>3. \A k \in Clients : ~Decided(k, j)'
  BY DEF Decided, IdleRequest, Decisions, Orderly, TypeOK
<1> QED
  BY <1>1, <1>2, <1>3 DEF Orderly, Running

LEMMA WorkersOrderly ==
    ASSUME TypeOK, TypeOK', NEW j \in Jobs, Orderly(j), NEW w \in Workers,
           WorkerStep(w) \/ Crash(w)
    PROVE  Orderly(j)'
<1>0. /\ UNCHANGED <<jobs, createdAt, landings, req>>
      /\ \A c \in Clients : Decided(c, j)' => Decided(c, j)
  BY DEF WorkerStep, claim_job, LoadJob, CompleteRun, RollbackRun, RecordFailure,
         Crash, tables, Decided
<1>1. CASE claim_job(w)
  <2>1. PICK k \in Jobs :
          /\ Claimable(k)
          /\ job' = [job EXCEPT ![k].status = "extracting", ![k].lockedBy = w]
          /\ sess' = [sess EXCEPT ![w] = [pc |-> "claimed", job |-> k,
                                          row |-> BlankRow]]
    BY <1>1 DEF claim_job
  <2>2. ~Busy(w)
    BY <1>1 DEF claim_job, Busy
  <2>3. CASE k = j
    <3>1. /\ j \in jobs /\ ~Running(j) /\ landings[j] = 0
          /\ \A c \in Clients : ~Decided(c, j)
      BY <2>1, <2>3 DEF Claimable, Orderly, TypeOK
    <3>2. job'[j].status = "extracting"
      BY <2>1, <2>3 DEF TypeOK, Row
    <3>3. \A v \in Workers : RunsJob(v, j)' => v = w
      BY <2>1, <3>1 DEF Running, RunsJob, Busy, TypeOK
    <3> QED
      BY <1>0, <3>1, <3>2, <3>3 DEF Orderly, Running, Decided
  <2>4. CASE k # j
    <3>1. job'[j] = job[j]
      BY <2>1, <2>4 DEF TypeOK
    <3>2. \A v \in Workers : RunsJob(v, j)' => RunsJob(v, j)
      BY <2>1, <2>4 DEF RunsJob, Busy, TypeOK
    <3> QED
      BY <1>0, <3>1, <3>2, StaysOrderly
  <2> QED
    BY <2>3, <2>4
<1>2. CASE LoadJob(w) \/ RollbackRun(w) \/ Crash(w)
  <2>1. job' = job
    BY <1>2 DEF LoadJob, RollbackRun, Crash, tables
  <2>2. PICK s : sess' = [sess EXCEPT ![w] = s] /\ (s = IdleSession \/ s.job = sess[w].job)
    BY <1>2 DEF LoadJob, RollbackRun, Crash
  <2>3. Busy(w)
    BY <1>2 DEF LoadJob, RollbackRun, Crash, Busy
  <2>4. \A v \in Workers : RunsJob(v, j)' => RunsJob(v, j)
    BY <2>2, <2>3 DEF RunsJob, Busy, IdleSession, TypeOK
  <2> QED
    BY <1>0, <2>1, <2>4, StaysOrderly
<1>3. CASE CompleteRun(w) \/ RecordFailure(w)
  <2>1. sess' = [sess EXCEPT ![w] = IdleSession] /\ Busy(w)
    BY <1>3 DEF CompleteRun, RecordFailure, Busy
  <2>2. CASE RunsJob(w, j)
    BY <1>0, <2>1, <2>2, RunOverOrderly
  <2>3. CASE ~RunsJob(w, j)
    <3>1. sess[w].job # j
      BY <2>1, <2>3 DEF RunsJob
    <3>2. job'[j] = job[j]
      BY <1>3, <3>1 DEF CompleteRun, RecordFailure, TypeOK
    <3>3. \A v \in Workers : RunsJob(v, j)' => RunsJob(v, j)
      BY <2>1 DEF RunsJob, Busy, IdleSession, TypeOK
    <3> QED
      BY <1>0, <3>2, <3>3, StaysOrderly
  <2> QED
    BY <2>2, <2>3
<1> QED
  BY <1>1, <1>2, <1>3 DEF WorkerStep

\* A request loads some jobs: no decision, or the first one about each of
\* them, which lets it through only where it waits for one.
LEMMA HeldOrderly ==
    ASSUME TypeOK, TypeOK', NEW j \in Jobs \ contested', Orderly(j),
           NEW c \in Clients, NEW r, req' = [req EXCEPT ![c] = r],
           UNCHANGED <<tables, sess>>,
           r.op \in Decisions /\ j \in r.jobs =>
               /\ j \in jobs
               /\ job[j].status \in {"awaiting_review", "failed"}
               /\ \A k \in Clients \ {c} : ~Decided(k, j)
    PROVE  Orderly(j)'
<1>0. UNCHANGED <<jobs, job, createdAt, landings>>
  BY DEF tables
<1>1. \A w \in Workers : RunsJob(w, j)' => RunsJob(w, j)
  BY DEF RunsJob, Busy
<1>2. CASE r.op \in Decisions /\ j \in r.jobs
  <2>1. ~Running(j) /\ landings[j] = 0 /\ createdAt[j] # 0
    BY <1>2 DEF Orderly, TypeOK
  <2>2. ~Running(j)'
    BY <2>1, <1>1 DEF Running
  <2>3. \A k \in Clients : Decided(k, j)' => k = c
    BY <1>2 DEF Decided, TypeOK
  <2> QED
    BY <1>0, <1>2, <2>1, <2>2, <2>3 DEF Orderly, Running
<1>3. CASE ~(r.op \in Decisions /\ j \in r.jobs)
  <2>1. \A k \in Clients : Decided(k, j)' => Decided(k, j)
    BY <1>3 DEF Decided, TypeOK
  <2> QED
    BY <1>0, <1>1, <2>1, StaysOrderly
<1> QED
  BY <1>2, <1>3

LEMMA LoadsOrderly ==
    ASSUME TypeOK, TypeOK', NEW j \in Jobs \ contested', Orderly(j),
           NEW c \in Clients, LoadStep(c)
    PROVE  Orderly(j)'
<1>1. ASSUME NEW i \in Jobs, NEW op, Load(c, i, op),
             op \in Decisions => job[i].status \in {"awaiting_review", "failed"}
      PROVE  Orderly(j)'
  <2> DEFINE r == [op |-> op, jobs |-> {i}, docs |-> {},
                   seen |-> Copy(job[i], HandlerColumns[op])]
  <2>1. /\ req' = [req EXCEPT ![c] = r] /\ i \in jobs
        /\ UNCHANGED <<tables, sess>> /\ r.op = op /\ r.jobs = {i}
    BY <1>1 DEF Load
  <2>2. op \in Decisions /\ i = j => \A k \in Clients \ {c} : ~Decided(k, j)
    BY <1>1 DEF Load, Contest, Decided
  <2> HIDE DEF r
  <2> QED
    BY <1>1, <2>1, <2>2, HeldOrderly
<1>2. CASE \E i \in Jobs : \/ LoadPatch(c, i)
                           \/ LoadConfirm(c, i)
                           \/ LoadReextract(c, i)
                           \/ LoadReject(c, i)
                           \/ LoadRetry(c, i)
  <2>1. "patch" \notin Decisions /\ "reject" \notin Decisions
    BY DEF Decisions
  <2> QED
    BY <1>1, <1>2, <2>1 DEF LoadPatch, LoadConfirm, LoadReextract, LoadReject, LoadRetry
<1>3. CASE \E b \in Batches : LoadConfirmAll(c, b)
  <2>1. PICK chosen :
          /\ \A i \in chosen : i \in jobs /\ job[i].status = "awaiting_review"
          /\ req' = [req EXCEPT ![c] = [op |-> "confirm_all", jobs |-> chosen,
                                        seen |-> BlankRow, docs |-> {}]]
          /\ Contest(c, chosen, "confirm_all")
          /\ UNCHANGED <<tables, sess>>
    BY <1>3 DEF LoadConfirmAll, JobsOfBatch
  <2>2. j \in chosen => \A k \in Clients \ {c} : ~Decided(k, j)
    BY <2>1 DEF Contest, Decided, Decisions
  <2> DEFINE r == [op |-> "confirm_all", jobs |-> chosen, seen |-> BlankRow,
                   docs |-> {}]
  <2>3. req' = [req EXCEPT ![c] = r] /\ r.jobs = chosen
    BY <2>1
  <2> HIDE DEF r
  <2> QED
    BY <2>1, <2>2, <2>3, HeldOrderly
<1>4. CASE \E b \in Batches : LoadDeleteBatch(c, b)
  <2>1. PICK theirs, docs :
          /\ req' = [req EXCEPT ![c] = [op |-> "delete_batch", jobs |-> theirs,
                                        seen |-> BlankRow, docs |-> docs]]
          /\ UNCHANGED <<tables, sess>>
    BY <1>4 DEF LoadDeleteBatch
  <2> DEFINE r == [op |-> "delete_batch", jobs |-> theirs, seen |-> BlankRow,
                   docs |-> docs]
  <2>2. req' = [req EXCEPT ![c] = r] /\ r.op \notin Decisions
    BY <2>1 DEF Decisions
  <2> HIDE DEF r
  <2> QED
    BY <2>1, <2>2, HeldOrderly
<1> QED
  BY <1>2, <1>3, <1>4 DEF LoadStep

LEMMA CommitsOrderly ==
    ASSUME TypeOK, TypeOK', ConfirmSawReview, NEW j \in Jobs, Orderly(j),
           NEW c \in Clients, CommitStep(c)
    PROVE  Orderly(j)'
<1>0. /\ req' = [req EXCEPT ![c] = IdleRequest]
      /\ sess' = sess
      /\ createdAt' = createdAt
  BY DEF CommitStep, patch_review, confirm_job, refuse_confirm, reextract_job,
         reject_job, retry_job, confirm_all_clean, delete_batch, Commit, tables
<1>1. /\ \A w \in Workers : RunsJob(w, j)' => RunsJob(w, j)
      /\ \A k \in Clients : Decided(k, j)' => Decided(k, j)
  BY <1>0 DEF RunsJob, Busy, Decided, Decisions, IdleRequest, TypeOK
<1>2. ASSUME NEW op, NEW new, Commit(c, op, new), UNCHANGED landings,
             \/ new.status \in {req[c].seen.status, "rejected"}
             \/ op \in Decisions
      PROVE  Orderly(j)'
  <2>1. jobs' = jobs /\ req[c].op = op
    BY <1>2 DEF Commit
  <2>2. CASE j \notin req[c].jobs
    <3>1. job'[j] = job[j]
      BY <1>2, <2>2 DEF Commit
    <3> QED
      BY <1>0, <1>1, <1>2, <2>1, <3>1, StaysOrderly
  <2>3. CASE j \in req[c].jobs /\ op \in Decisions
    <3>1. Decided(c, j)
      BY <2>1, <2>3 DEF Decided
    <3> QED
      BY <1>0, <1>2, <2>1, <3>1, DecisionOrderly
  <2>4. CASE j \in req[c].jobs /\ new.status \in {req[c].seen.status, "rejected"}
    <3>1. j \in jobs => job'[j].status \in {job[j].status, "rejected"}
      BY <1>2, <2>4 DEF Commit, WriteBack, Column
    <3> QED
      BY <1>0, <1>1, <1>2, <2>1, <3>1, StaysOrderly
  <2> QED
    BY <1>2, <2>2, <2>3, <2>4
<1>3. ASSUME NEW lands \in SUBSET jobs, lands = req[c].jobs \cap jobs, Land(lands),
             req[c].op \in Decisions, jobs' = jobs,
             \A i \in lands : job'[i].status = "confirmed",
             \A i \in Jobs \ lands : job'[i] = job[i]
      PROVE  Orderly(j)'
  <2>1. CASE j \in lands
    <3>1. Decided(c, j)
      BY <1>3, <2>1 DEF Decided
    <3>2. landings'[j] = landings[j] + 1
      BY <1>3, <2>1, <3>1 DEF Land, Orderly
    <3> QED
      BY <1>0, <1>3, <2>1, <3>1, <3>2, DecisionOrderly
  <2>2. CASE j \notin lands
    <3>1. landings'[j] = landings[j]
      BY <1>3, <2>2 DEF Land
    <3> QED
      BY <1>0, <1>1, <1>3, <2>2, <3>1, StaysOrderly
  <2> QED
    BY <2>1, <2>2
<1>4. CASE patch_review(c)
  <2>1. PICK table : Commit(c, "patch", [req[c].seen EXCEPT !.result.table = table])
    BY <1>4 DEF patch_review
  <2>2. [req[c].seen EXCEPT !.result.table = table].status = req[c].seen.status
    BY DEF TypeOK, Request, Row
  <2> QED
    BY <1>2, <1>4, <2>1, <2>2 DEF patch_review
<1>5. CASE reject_job(c)
  <2>1. [req[c].seen EXCEPT !.status = "rejected"].status = "rejected"
    BY DEF TypeOK, Request, Row
  <2> QED
    BY <1>2, <1>5, <2>1 DEF reject_job
<1>6. CASE reextract_job(c) \/ retry_job(c)
  BY <1>2, <1>6 DEF reextract_job, retry_job, Decisions
<1>7. CASE confirm_job(c)
  <2> DEFINE new == [req[c].seen EXCEPT !.status = "confirmed"]
  <2>1. req[c].op = "confirm" /\ req[c].seen.status = "awaiting_review"
    BY <1>7 DEF confirm_job, Commit, ConfirmSawReview
  <2>2. new.status = "confirmed"
    BY DEF TypeOK, Request, Row
  <2>3. \A i \in req[c].jobs \cap jobs : job'[i].status = "confirmed"
    BY <1>7, <2>1, <2>2 DEF confirm_job, Commit, WriteBack, Column, TypeOK
  <2>4. \A i \in Jobs \ (req[c].jobs \cap jobs) : job'[i] = job[i]
    BY <1>7 DEF confirm_job, Commit
  <2>5. Land(req[c].jobs \cap jobs) /\ jobs' = jobs
    BY <1>7 DEF confirm_job, Commit
  <2> QED
    BY <1>3, <2>1, <2>3, <2>4, <2>5 DEF Decisions
<1>8. CASE confirm_all_clean(c)
  <2>1. jobs' = jobs /\ req[c].op = "confirm_all"
    BY <1>8 DEF confirm_all_clean
  <2>2. CASE req[c].jobs \subseteq jobs
    <3>1. \A i \in req[c].jobs : job'[i].status = "confirmed"
      BY <1>8, <2>2 DEF confirm_all_clean, TypeOK, Row
    <3>2. \A i \in Jobs \ req[c].jobs : job'[i] = job[i]
      BY <1>8, <2>2 DEF confirm_all_clean
    <3>3. Land(req[c].jobs) /\ req[c].jobs = req[c].jobs \cap jobs
      BY <1>8, <2>2 DEF confirm_all_clean
    <3> QED
      BY <1>3, <2>1, <3>1, <3>2, <3>3 DEF Decisions
  <2>3. CASE UNCHANGED <<job, landings>>
    BY <1>0, <1>1, <2>1, <2>3, StaysOrderly
  <2> QED
    BY <1>8, <2>2, <2>3 DEF confirm_all_clean
<1>9. CASE refuse_confirm(c)
  <2>1. UNCHANGED <<jobs, job, landings>>
    BY <1>9 DEF refuse_confirm, tables
  <2> QED
    BY <1>0, <1>1, <2>1, StaysOrderly
<1>10. CASE delete_batch(c)
  <2>1. j \in jobs' => j \in jobs /\ job'[j] = job[j]
    BY <1>10 DEF delete_batch, DropJobs
  <2>2. landings' = landings
    BY <1>10 DEF delete_batch
  <2> QED
    BY <1>0, <1>1, <2>1, <2>2, StaysOrderly
<1> QED
  BY <1>4, <1>5, <1>6, <1>7, <1>8, <1>9, <1>10 DEF CommitStep

LEMMA OneShotsOrderly ==
    ASSUME TypeOK, TypeOK', NEW j \in Jobs, Orderly(j),
           OneShotStep \/ \E i \in Jobs : DelayElapses(i)
    PROVE  Orderly(j)'
<1>0. UNCHANGED <<sess, req, landings>>
  BY DEF OneShotStep, upload_documents, enqueue_backfill, delete_document,
         DelayElapses
<1>1. /\ \A w \in Workers : RunsJob(w, j)' => RunsJob(w, j)
      /\ \A c \in Clients : Decided(c, j)' => Decided(c, j)
  BY <1>0 DEF RunsJob, Busy, Decided
<1>2. ASSUME NEW new \in SUBSET Jobs, NEW kind, InsertJobs(new, kind)
      PROVE  Orderly(j)'
  <2>1. PICK t \in 1..(Cardinality(Jobs) + 1) :
          createdAt' = [i \in Jobs |-> IF i \in new THEN t ELSE createdAt[i]]
    BY <1>2 DEF InsertJobs
  <2>2. t # 0
    BY <2>1, FS_CardinalityType, ConstantsAssumption
  <2>3. CASE j \in new
    BY <1>0, <1>2, <2>1, <2>2, <2>3, InsertedOrderly DEF InsertJobs
  <2>4. CASE j \notin new
    <3>1. job'[j] = job[j] /\ (j \in jobs' => j \in jobs) /\ createdAt'[j] = createdAt[j]
      BY <1>2, <2>1, <2>4 DEF InsertJobs
    <3> QED
      BY <1>0, <1>1, <3>1, StaysOrderly
  <2> QED
    BY <2>3, <2>4
<1>3. CASE \E b \in Batches : upload_documents(b)
  <2>1. \E new \in SUBSET Jobs : InsertJobs(new, "extract")
    BY <1>3, ConstantsAssumption DEF upload_documents
  <2> QED
    BY <1>2, <2>1
<1>4. CASE enqueue_backfill
  <2>1. \E new \in SUBSET Jobs : InsertJobs(new, "backfill")
    BY <1>4 DEF enqueue_backfill
  <2> QED
    BY <1>2, <2>1
<1>5. CASE \E d \in Documents : delete_document(d)
  <2>1. (j \in jobs' => j \in jobs /\ job'[j] = job[j]) /\ createdAt' = createdAt
    BY <1>5 DEF delete_document, DropJobs
  <2> QED
    BY <1>0, <1>1, <2>1, StaysOrderly
<1>6. CASE \E i \in Jobs : DelayElapses(i)
  <2>1. PICK i \in Jobs : DelayElapses(i)
    BY <1>6
  <2>2. job'[j].status = job[j].status
    <3>1. job[i] \in Row /\ job[j] \in Row
      BY DEF TypeOK
    <3> QED
      BY <2>1, <3>1 DEF DelayElapses, Row, TypeOK
  <2>3. jobs' = jobs /\ createdAt' = createdAt
    BY <2>1 DEF DelayElapses
  <2> QED
    BY <1>0, <1>1, <2>2, <2>3, StaysOrderly
<1> QED
  BY <1>3, <1>4, <1>5, <1>6 DEF OneShotStep

LEMMA ContestedStays ==
    ASSUME [Next]_vars
    PROVE  contested \subseteq contested'
<1>1. CASE UNCHANGED vars \/ SystemStep \/ OneShotStep
  BY <1>1 DEF vars, SystemStep, OneShotStep, WorkerStep, claim_job, LoadJob,
              CompleteRun, RollbackRun, RecordFailure, Crash, DelayElapses,
              upload_documents, enqueue_backfill, delete_document
<1>2. CASE \E c \in Clients : LoadStep(c)
  BY <1>2 DEF LoadStep, LoadPatch, LoadConfirm, LoadReextract, LoadReject, LoadRetry,
              Load, LoadConfirmAll, LoadDeleteBatch, Contest
<1>3. CASE \E c \in Clients : CommitStep(c)
  BY <1>3 DEF CommitStep, patch_review, confirm_job, refuse_confirm, reextract_job,
              reject_job, retry_job, confirm_all_clean, delete_batch, Commit
<1> QED
  BY <1>1, <1>2, <1>3 DEF Next, UserStep

LEMMA LandingStep ==
    ASSUME TypeOK, TypeOK', LandingInv, [Next]_vars
    PROVE  LandingInv'
<1>1. ConfirmSawReview'
  BY ConfirmSawReviewStep DEF LandingInv
<1>2. contested \subseteq contested'
  BY ContestedStays
<1>3. ASSUME NEW j \in Jobs \ contested'
      PROVE  Orderly(j)'
  <2>1. j \in Jobs /\ Orderly(j) /\ ConfirmSawReview
    BY <1>2, <1>3 DEF LandingInv
  <2>2. CASE UNCHANGED vars
    BY <2>1, <2>2 DEF vars, Orderly, Running, RunsJob, Busy, Decided
  <2>3. CASE Next
    BY <2>1, <2>3, WorkersOrderly, LoadsOrderly, CommitsOrderly, OneShotsOrderly
       DEF Next, SystemStep, UserStep
  <2> QED
    BY <2>2, <2>3
<1> QED
  BY <1>1, <1>3 DEF LandingInv

\* Whatever workers do and however requests overlap, a job's staged table is
\* committed to the live tables at most once, unless two decisions about the
\* job (confirm, confirm-all, re-extract, retry) were in flight together.
THEOREM TablesLandOnce == Spec => []LandsOnce
<1>1. Init => LandingInv
  BY DEF Init, LandingInv, ConfirmSawReview, Orderly, Running, RunsJob, Busy,
         Decided, Decisions, IdleSession, IdleRequest
<1>2. TypeOK /\ TypeOK' /\ LandingInv /\ [Next]_vars => LandingInv'
  BY LandingStep
<1>3. LandingInv => LandsOnce
  BY DEF LandingInv, Orderly, LandsOnce
<1> QED
  BY <1>1, <1>2, <1>3, TypeCorrect, PTL DEF Spec
=============================================================================
