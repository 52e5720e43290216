# Raw2Query: TLA+ specifications

Raw2Query turns uploaded files into reviewed, queryable tables. Files are
uploaded in batches; a worker process extracts a table from each; a person
reviews, edits, re-extracts, rejects or confirms it; confirming writes the live
records and chunks that questions are answered from. Everything goes through
one Postgres database. There is no broker: the `jobs` table is the queue.

This directory holds the models of that system, the TLC configurations that
check them on small instances and the proofs that hold for all sizes.

## Inventory

| Component | State it keeps | Operations | What makes it correct |
| --- | --- | --- | --- |
| Extraction queue and workers (`app/worker.py`) | `jobs.status`, `locked_by`, `progress`, `result`; each worker's session | claim, load, run, complete, roll back, fail, requeue after a rate limit | one worker per job; no job lost or stranded; retries bounded; a run writes only its own job |
| Job handlers (`routers/jobs.py`) | a request's copy of a job | patch review, confirm, re-extract, reject, retry, event stream | a decision acts on what the reviewer saw; feedback applied once; result landed once |
| Batches (`routers/batches.py`) | `batches` | confirm all clean, delete | clearing a queue never removes live data; no empty batch unless deletes overlap |
| Documents (`routers/documents.py`) | `documents`, files | upload, delete, serve | a delete takes every child row, in an order the keys accept |
| Confirm (`pipeline/confirm.py`) | `extracted_records`, `chunks`, `documents.schema_id` | apply records, dedup decision, backfill, save as schema, chunk and embed | a backfill or a replacement acts on a whole record set |
| Schemas and records (`routers/schemas.py`) | `schemas`, `schema_versions` | create, version, backfill, delete schema, delete and edit record | deletes leave no dangling pointer; a backfill reaches every row of the schema |
| Pipelines (`pipeline/extract.py`) | what a run has computed | extract, backfill, re-extract, dedup match | a run stages a match of the lineage it was extracted for |
| Rate limiter (`pipeline/ratelimit.py`) | request stamps, the quota | acquire, note a refusal | never more requests in a window than the limit; every waiter proceeds |
| Progress stream and polling (`useJobEvents.js`, `useBatchPolling.js`) | one tab's stream and poll | open, message, error, poll, close | the tab ends at the status the row has |
| Topics (`routers/topics.py`, `topics_util.py`) | `topics`, `document_topics`, the copy in `chunks.topic_ids`, hints of batches, suggestions of staged jobs | create, delete, confirm by name, resync | links and the copy in the chunks agree; nothing names a deleted topic; a topic that goes takes no confirm down with it |
| Schema fields and views (`schema_fields.py`, `views.py`) | fields of a version, column keys | save version, rebuild view | a column keeps its key across renames; no two columns share one |
| Value coercion (`coerce.py`) | none | coerce | total, idempotent |
| Questions (`query/*`) | none between questions | resolve topics, route, guard and scope the SQL, widen, retrieve | only a single read statement runs; an answer draws on what it says it searched; a guess hides nothing |
| Chats (`routers/query.py`, `routers/chats.py`, `useChatSession.js`, `QueryPage.jsx`) | `chat_sessions`, `chat_messages`; each tab's transcript | ask, answer, open, leave, delete | whole turns in their order; the transcript is the open conversation |
| File storage (`storage.py`) | files | write before the rows, unlink after them | never a row without its file |
| Preview, serializers, model and embedding calls, start-up, migrations, web interface | none of interest here | | |

How they interact. Handlers and workers share only the database, and they run
as separate processes: every handler is one SQLAlchemy session, every worker
another. A session SELECTs rows, computes on its copies, and at commit emits
`UPDATE ... SET <columns that changed> WHERE id = ...`. There is no version
column and the isolation level is READ COMMITTED, so whatever another process
commits between the SELECT and the UPDATE is neither seen nor, for columns left
alone, overwritten. The browser talks to the handlers by HTTP and watches a job
over a server-sent-event stream with a poll behind it. The pipelines call a
language model through a limiter shared by the threads of a process.

What is hard here:

* a handler's status check is on a copy, and its write is unconditional;
* a worker holds its copy of a job for as long as a model call takes, while
  users reject, delete or otherwise change the row;
* four things share the `progress` column: the step shown, the attempt counter,
  the not-before stamp and the terminal marks, and each writer must merge;
* a worker that dies leaves its job `extracting`, and nothing gives it back;
* foreign keys are `ON DELETE NO ACTION`, `is_duplicate_of` points from a record
  to any other document's record, and every delete orders its statements by hand;
* a document's record set can be created, extended, replaced, backfilled, switched
  to another schema and deleted, by jobs confirmed in any order;
* a topic is named in five places (links, chunks, batch hints, staged results,
  review screens), and deleting it goes through them one statement at a time;
* a question holds what it read - the chat, the scope, the page it was asked on -
  over a model call of many seconds.

`PROJECT.json` lists each hazard at its line, with the properties that guard it.

## Plan

Done, in the order of importance:

1. `JobLifecycle`: the queue, the workers and the overlapping handlers;
   `JobLifecycleProofs`.
2. `JobStatus`: an abstract specification of one job, which `JobLifecycle`
   implements while requests do not overlap, as `JobLifecycleProofs` also proves.
3. `RecordStore`: the live tables, their foreign keys, and what confirms and
   deletes do to record sets; `RecordStoreProofs`.
4. `Library`: uploads, files, topics, and the deletes of documents and topics that
   overlap them; `LibraryProofs`.
5. `Ask`: how one question is scoped, guarded, run and retried; `AskProofs`.
6. `Chats`: conversations on the server and in a tab; `ChatsProofs`.
7. `RateLimiter`: threads of a process sharing the sliding window;
   `RateLimiterProofs`.
8. `JobEvents`: one tab's stream and fallback poll over a job whose row moves
   as `JobStatus` lets it; `JobEventsProofs`.
9. `SchemaFields`: column keys over versions and how rows of old versions are read;
   `SchemaFieldsProofs`.

Left:

10. `SchemaViews`: views of several schemas, their names, and reconciliation at
    start-up.
11. Coercion and flattening as operators checked against reference definitions.
12. Editing single records, beside `RecordStore`'s whole sets.

## JobLifecycle

State, and the code it stands for:

| Variable | Code |
| --- | --- |
| `documents`, `batches`, `jobs` | the rows that exist |
| `job` | the columns of each job row |
| `createdAt` | `jobs.created_at`, the order of the queue; 0 for an id never used |
| `live` | documents with rows in `extracted_records` or `chunks` |
| `sess` | each worker's session: where it is in `process_job`, and its copy |
| `req` | each request between its SELECT and its commit, with its copy |
| `landings`, `orphaned` | history: confirms of a job; jobs whose worker died |
| `contested` | history: jobs that two decisions (confirm, confirm-all, re-extract, retry) held at once |

A run is `claim_job` (the `UPDATE ... FOR UPDATE SKIP LOCKED`), `LoadJob`
(`session.get`), then either `CompleteRun` (the one commit) or `RollbackRun` (the
rollback and the fresh load) and `RecordFailure` (the commit of the failure, or of
the requeue). Between any two of these other processes act, and the row may have
gone. `Crash` may strike between any two. What the model answers, and so whether
a run succeeds, is a choice.

A handler that writes a loaded job is a `Load...` step, guarded as the code
guards it, and a commit step named after it. `WriteBack` is the flush: a column
is written iff its value differs from the loaded copy. `Clients` is the number
of requests in flight, so with one client requests do not overlap each other but
still interleave with workers at every step. `upload_documents`,
`enqueue_backfill` and `delete_document` are single steps. A delete that leaves a
batch empty may drop it or not: the code decides by a look before its commit, which
another delete can overtake. `Library` has the look as a step of its own.

Data abstracted: the staged table is `none`, `flagged` (some confidence is under
the threshold) or `clean`; `progress` is the attempt counter, whether the
not-before stamp lies ahead, and the step shown. Progress steps within a run
are flushed but never committed, so nobody can see them, and a run is a single
commit in the model as well.

`live` is what confirms land and document deletes take: the deletes of records and
schemas, and what a replacement takes, are whole transactions of `RecordStore`. So
`KeepsCommittedData` is about workers, batch deletes and the other decisions on jobs.

Not in the model: locks are held only during the commit here, where in the code
a flush may hold them a little longer; `MayBeLocked` accounts for that where it
matters, by letting a claim skip a row that a request holds.

## JobStatus

What the queue promises about one job, in three variables: the status of its row
(`unused` before the insert, `deleted` after), whether a worker has it, and
whether its table has landed in the live tables. Its actions are the only ways a
status may be reached: a claim takes a pending job nobody runs, only the run that
lasts can put a table under review, fail or requeue, only a table under review
is confirmed, and once. The mapping is `Life` of `JobLifecycle`; the property
`LivesAsPromised` says of every job at once that it starts and moves as
`JobStatus` does, or stutters. It needs requests that do not overlap: in
`two_tabs` a running job becomes `pending`, which `Requeue` forbids. Rejecting a running
job, and the run undoing it, are in `JobStatus`, since the code does it.

## JobEvents

One tab that shows one job: the hook `useJobEvents` and the generator behind
`GET /jobs/{id}/events`. The row is an instance of `JobStatus` and moves in any way
it allows, deletion included; the tab may open at any moment of its life.

| Variable | Code |
| --- | --- |
| `status`, `running`, `landed` | the row, as `JobStatus` has it |
| `server`, `last` | the generator of the current connection and its `last_payload` |
| `wire` | what it sent and the tab has not received |
| `source`, `polling` | `sourceRef`, `pollRef` |
| `answer` | each `getJob` under way: asked, the status it read, or an error |
| `shown`, `missing`, `cancelled` | the hook's state, "job not found", unmounted |
| `over` | history: the row has been terminal or deleted |

A GET is three steps (`Poll` or the seed, `ReadRow` at the server, `Answered`), so
answers overtake one another and the stream. The stream is in order, but a dropped
connection loses what is on it; the browser then connects again (`ConnectionLost`,
`Connect`), except after a reply that is no stream (`Refuse`). `Show` is the `setState`
and teardown that both `applyJob` and `onmessage` do.

Data abstracted: of the payload only the status is kept. It also has the progress
and the error message, so the server may send the same status again.

Not in the model: which text is shown; a change of `jobId`, which is an unmount and a
mount; `useBatchPolling`, whose polling is the query library's.

## SchemaFields

One schema over its versions. `versions` is `schema_versions`, each version with its
fields and their column keys, its identity columns and `is_breaking_from_prev`;
`pinned` is the version a pipeline run resolved when it started: the one its document
points at, which may be any saved one. Records are left
out: what matters of a record is the version it was extracted for, and everything
is stated for records of every version.

`create_schema` (also what confirming with "save schema as" does) and
`create_schema_version` take any request of up to `MaxFields` fields, each with or
without a key of the lineage. `Resolved` says of one field which key
`assign_column_keys` gives it, so the result of a request is the set of assignments
in which every field is resolved; a minted key is any key not taken. The
view is not a variable: it is regenerated in the transaction that saves a version,
and `ReadsAs`, `Declaration` and `ColumnBefore` are its expression for a column, the
source of its name and type, and the order of its columns. `ReadsAs` is a set of names: one name, or
none where the expression yields NULL. `PayloadFields` and `RecordFields` are the
fields whose values `_find_dedup_match` compares.

Not in the model: values and casts, names as strings (quoting, trimming),
several schemas and their view names, `reconcile_schema_views`. Two saves that
overlap do not both commit, since `(schema_id, version)` is unique.

## RateLimiter

The pacer of `ratelimit.py` and its caller `_call_llm_json`. `sent` is `_sent`,
`limit` is `_limit`, `capacity` follows from it as in the code; `caller` is where
each thread is in `acquire` and how long it has waited. The block under the lock
is one step (`TakeSlot`, or the decision to sleep or give up); the sleep and the
call to the provider are not under the lock, so everything else can happen in
between. A refusal (`note_rate_limited`) may report any quota or none.

Time passes in ticks, and the model keeps ages in place of time stamps, which
makes it finite: a stamp of age `WINDOW_SECONDS` is dropped by the tick, where
the code drops it the next time it takes the lock, and every reader prunes first.
Ages are whole ticks; the code's are floats, and a comparison that holds for
every scale of the constants is not about their size. A thread may take as many
ticks as it likes at each step, so a `sleep` may end late.

`granted` and `quiet` are history: the slots given out in the last window, which
unlike `sent` are not rewritten by a refusal, and the time since the last refusal.

Not in the model: requests the client library repeats by itself within a call
(`max_retries=2`), which the pacer never sees; several processes, each of which
has a window of its own. `PacedGrants` is about the slots this process gives out.
The overhang is added to the time a sleeper waits, so only threads that slept
leave that margin: a thread that arrives later is paced to the bare window.

## RecordStore

Here handlers are single transactions, and the state `db` is the database as a
whole: schemas and how many versions each has, documents and the schema and
version each points at, records, and jobs with the match they staged. A
transaction builds the tables it would commit; `Transaction` commits them if the
foreign keys hold and otherwise leaves everything and sets `fault`, which is the
500 the handler answers. The three deletes, which order their statements by hand, build
the tables after each statement, and `Statements` asks the keys to hold after every one,
as `ON DELETE NO ACTION` does. The keys are those of records, of what a document points
at, and of jobs to their document. Pipelines are two steps, `StartRun` (reads the document,
its schema and the records to deduplicate against) and `StageRun` (the commit),
since records and schemas change in between.

A record is named by the job whose confirm inserted it and its place in that
insert. This relies on a job being confirmed once, which is `LandsOnce` of
`JobLifecycle` for jobs that no two decisions hold at once. Two overlapping confirms
of one job do insert its rows twice (see Disagreements); here handlers do not overlap, so a
second set from the same job is left out. The table itself is open: since the reviewer may edit it, a
confirm materializes any number of rows from 1 to `MaxRows`.

`switched` is history: the documents a confirm has moved from one schema to another,
which a reviewer may do. Backfills follow the schema a document carries, so the rows
it has in the other one are out of their reach, and `BackfillReachesEveryRow` excepts
such documents. The other exception is `Straddles`: a row whose version belongs to
another schema than the row, which a replace under another schema leaves behind (see
Disagreements).

`ConstantsAssumption` says that a document is uploaded once, by one job, and that no
id, row or handler is NULL.

Not in the model: topics, chunks and batches (they are in `Library`), column keys
(they are in `SchemaFields`) and cell values.

## Library

Documents from upload to deletion, and what they are filed under.

| Variable | Code |
| --- | --- |
| `topics`, `documents`, `batches` | the rows that exist |
| `hint` | `batches.default_topic_ids` |
| `links`, `chunks` | `document_topics`; `chunks.topic_ids` of a document's chunks |
| `jobs`, `suggested` | the extract job of a document and `result.suggested_topic_ids` |
| `backfill` | the kind of a document's backfill under review: `backfill`, or `reextract` once it was sent back |
| `run` | the suggestion of the pipeline under way |
| `files` | files on disk |
| `req` | each request between two of its steps, with what it has read |
| `races` | history: whether a topic delete was overtaken by a confirm or another topic delete ("labels"), or a document delete by another ("batch") |
| `refiled` | history: documents a backfill that was sent back has been confirmed for |

A request is several steps, cut where what it has read can grow stale. An upload
writes its files one by one and then commits all rows (`upload_documents`,
`write_file`, `CommitUpload`). A confirm resolves the topics, possibly inserting
one by name, and commits (`confirm_job`, `CommitConfirm`); of a backfill it touches no topic
and no chunk (`CommitBackfill`), and of a backfill sent back (`reextract_job`), whose
kind is then `reextract` and whose result has neither, it links what the reviewer
gives or Uncategorized and adds no chunk. A topic delete lists the
documents, then runs its statements, then commits (`delete_topic`, `Relabel`,
`CommitDeleteTopic`). A document delete flushes its deletes and looks at the rest of
the batch, commits, and unlinks the file (`delete_document`,
`CommitDeleteDocument`, `delete_file`). Each step sees the committed tables, as
READ COMMITTED does; a row that a request has written is locked, so who needs it
waits (`Deleting`, `Relabelling`). `Refuse` is a commit or statement the foreign
keys, or a row that has gone, refuse. `Crash` drops every request at any point,
with files written and rows not, or the other way round.

Data abstracted: the name of a topic is its id, so get-or-create of a name that
exists is that id. Of a job only the states the topics depend on are kept; the
rest is `JobLifecycle`.

Bounds: one confirm of a document at a time, and no re-extraction while one is under
way (`JobLifecycle` overlaps them); one backfill of a document at a time, of the
documents in `Backfilled`, of which those in `WithSchema` may have one before their
first confirm. A backfill is under review at once, since its run reads and writes
nothing of this module, and a re-extracted upload is claimed at once.

Not in the model: records and their keys, which are `RecordStore`'s; content hashes,
which are stored and never read; `delete_batch`, which unlinks after its commit as
`delete_document` does (its commit is in `JobLifecycle`).

## Ask

One question from the request to the answer. Questions share no state, so there is
one; the documents may be filed anew while it is under way (`Relink`, at most
`MaxRelinks` times), since the scope is read before the statement is generated and run.

| Variable | Code |
| --- | --- |
| `links`, `records` | topics of a document (and the copy in its chunks); documents with rows in each view |
| `explicit`, `topic_ids` | `body.topic_ids`; what `resolve_topic_ids` makes of it |
| `candidates` | the scopes still to try |
| `statement` | the generated SQL |
| `step`, `answer` | how far it is; what came back, the route and `topic_ids_used` |
| `seen`, `relinks` | history: documents that were under the topics at some moment since; the bound |

`decide_routing` goes to SQL or to retrieval. On the SQL way `run_safe_select` tries
each candidate scope, the next one if no rows came back and there is one; a
statement that the guard rejects or that fails hands over to retrieval
(`HandToRag`, `FailToRun`). Retrieval searches the topics, then everything if they
were only guessed and nothing was found (`_answer_with_rag`, `SearchUnscoped`).

Data abstracted: everything a model decides is a choice, the topics, the route and
the statement. A statement is the names of its CTEs, however many and however nested,
the references that Postgres binds to no CTE and those of them whose rows reach the
result, whether it aggregates, and whether it is a single pure SELECT. Where a CTE is in
scope decides how Postgres binds a reference, and the guard does not look at it, so the two
are chosen apart. `strip_qualifiers`, `parse_and_guard` and `inject_scope` are the three
passes of `sql_guard.py` over that. An answer is the documents it drew on.

Not in the model: statement timeouts and row limits, the ranking of chunks, prompts,
the wording of the answer.

## Chats

| Variable | Code |
| --- | --- |
| `chats`, `messages` | `chat_sessions`, `chat_messages` |
| `stage`, `chat`, `position` | each `POST /query`: how far it is, its `chat_id`, the position it read |
| `active`, `loading`, `shown` | `activeChatId`, `pendingChatId`, `messages` of a tab's hook |
| `pending`, `askedIn` | the mutation under way, and the `activeChatId` its callbacks captured |
| `fetch`, `cache` | the read under way of each chat, and the query library's copies |
| `opened`, `strayed`, `overlapped` | history: what a conversation held when it was opened or clicked again; tabs whose transcript may be another's, or behind; chats numbered twice at once |

On the server a question looks its chat up, is answered, reads the next position,
and commits the session (if new) and both turns at once (`run_query`, `Number`,
`CommitTurns`, `FailQuestion`). In a tab the user asks, opens another conversation
or the same again, starts a draft, leaves the page or deletes, at any time
(`handleAsk`, `selectChat`, `reselectChat`, `startNewChat`, `Leave`,
`handleDelete`); reads and answers come back later, or do not (`FetchReads`,
`FetchSettles`, `FetchFails`, `onSuccess`, `onError`). `AskElsewhere` and
`DeleteElsewhere` are other tabs and devices.

Reads are the query library's (`@tanstack/react-query` 5, external): `queryFn` takes no
abort signal, so a read goes on when its chat is left, fills the cache when it
settles, and is joined when the chat is opened again (`Joined`); clicking the open
chat starts none; invalidating after an answer restarts the read of the open
chat, or joins it while no copy is cached yet (`Invalidated`); deleting a chat drops its
read and its copy. A copy that the library discards after minutes without use is kept here.

Data abstracted: what a message says is the question it belongs to.

Not in the model: titles and renaming, the order of the sidebar, citations and
result tables.

## Runs

| Run | Instance | Question |
| --- | --- | --- |
| `queue_serial` | 2 workers, 1 client, 2 documents in a batch, 2 attempts, 1 re-extraction | with requests one at a time: exclusive claims, an attempt left for every queued job, feedback once; each job lives as `JobStatus` promises |
| `queue_overlap` | 1 worker, 2 clients, 1 document | what survives overlapping requests: nothing stranded in `extracting`, a table landed once unless two decisions overlapped, live data gone only with its document |
| `queue_live` | 2 workers, 1 client, an extract and a backfill job | every job settles, every run ends |
| `two_tabs` | 2 workers, 2 clients, 1 job | does the exclusive claim survive overlapping requests? It does not |
| `store_one_schema` | 1 schema of 2 versions, 2 documents, 1 backfill, up to 2 rows | whole record sets under confirms, backfills and replacements; which deletes and confirms the keys can refuse, and over what |
| `library` | 2 documents in a batch, both given their schema as they are confirmed, one of them backfilled; 2 topics besides the seeded one, 2 requests | rows have files, confirmed documents are filed alike in links and chunks, only a race is refused, a batch goes with its last document |
| `ask` | 2 documents, 2 topics, 2 views, 1 relinking | an answer drew on the topics it names; a guess hides nothing |
| `chats` | 1 tab beside others, 2 conversations, 3 questions | whole turns, in place; the transcript is the open conversation, whichever reads are under way |
| `chats_switch` | the same | is an answer only ever shown in its own conversation? No |
| `pacer` | 2 threads, quotas 2 and 3 at a margin of 90%, window 4, waits of at most 6 and 10 | slots within the capacity, silence after a refusal, no oversleeping, every acquire ends |
| `tab` | 2 requests under way, 2 messages on the stream | the tab settles whatever is lost, stops only after the row, learns of a deletion |
| `schema_fields` | 2 names, 4 keys, 3 versions of up to 2 fields, 1 identity field | columns distinct and in place, read under their own names, the view of old rows kept by edits that ask for no backfill; dedup compares like with like for payloads of the newest version |

Why the bounds are enough. `MAX_RATE_LIMIT_ATTEMPTS = 2` (3 in the code) has both
outcomes, the requeue and giving up. One re-extraction separates "asked, pending,
applied". Two workers and two requests are the least number that can collide, and
a third adds no new kind of pair; two jobs are needed for order in the queue and
for a batch of which one document goes. One document is enough for overlapping
requests because requests meet only on one job or one batch; on the batch they meet
in `Library`, with two documents. Two rows make a set
of which a part can stay behind; two documents give duplicates across documents;
two versions give a stale one. Two schemas are too many states for
a run of record, so the one of `RecordStore` has one schema of two versions. There
nobody can switch a schema: the exceptions of `SchemaDeletesSucceed` and
`BackfillReachesEveryRow` are never used and the hypothesis of
`ReplaceLeavesNoPartialSet` that the schemas agree is always true. The theorems hold
for any number of schemas, and the same properties and the inductive invariant were
checked with two schemas of one version each (1.8 million states). What else was
seen with two is under "Also seen".

For `Library`, two requests are the least that can overtake each other, and the
hazards are about pairs; two documents in one batch give the last and the one
before, and documents both inside and outside a topic; two topics leave a document
with one when the other goes, or with the seeded one when both do; one backfilled
document beside one that is not keeps the run to 2.6 million states. Backfills that
wait before the first confirm (`WithSchema`) were checked apart (5 million), and
the theorems cover any. For `Ask`, two
documents and topics separate inside from outside a scope, two views separate the
one a CTE is named after from one it is not, and every set of CTE names and of
references over them is tried. For `Chats`, two conversations are one to leave and one to be in,
and three questions are two turns in one with a third under way. One tab is
followed, since tabs meet only on the server, where what the others do is in the model.

For the pacer, two quotas give capacities of 1 and 2, so a refusal may both
shrink and widen a window in use; the window of 4 and the waits of 6 and 10 stand
in the same order as 60, 90 and 150 seconds, and leave room for two rounds of
sleeping before a thread gives up. Three threads were checked for safety too.

For a tab, two requests under way are what it takes for one answer to overtake
another, and two messages for one to be lost behind another. For fields, two names
and two fields give swaps, renames that free a name for a new field, and a field
dropped and added again; three versions give a name that comes back. Four keys let
every field of two versions have its own. One type is enough because a change of
scope is treated as a retype is.

`pacer` checks for deadlock. The others have `CHECK_DEADLOCK FALSE`: ids are never
reused and bounded, and users may stop, so a state with nothing left to do is
legitimate. `library`, `ask` and `chats` ask for safety only and assume no fairness.

### Fairness

`queue_live` assumes weak fairness of each worker's next step (the worker is a
loop that polls every couple of seconds, its waits are bounded, and compose
restarts the process), of each not-before stamp running out (time passes), and
of each request's commit (a handler that started returns). Users and crashes owe
nothing. `JobsSettle` asks that users stop; `RunsEnd` does not. Both excuse a job
whose worker died while holding it: it stays `extracting` for ever, which the code
accepts, having no reaper; `ExtractingIsRun` says it is the only way to get there.

`pacer` assumes that time passes and that a thread in `acquire` is scheduled.
Nobody has to make a call and the provider need not answer one, so `AcquireEnds`
holds with calls that hang. Other threads may take every slot that comes free:
what ends the wait then is the bound on the total wait.

`tab` assumes that the interval fires and answers are handled (weak fairness), and that
a request or connection that is tried again and again succeeds some time (strong
fairness of `ReadRow`, `Connect`, `ServerTurn`, `Receive`): each may fail any number of
times. Nobody owes a move of the row, so `TabSettles` speaks of rows that have
settled. A refused stream stays refused, and then a deletion is never learnt, since a poll
ignores a 404; `TabLearnsOfDeletion` says so.

### Disagreements found

Each is a run of its own, whose trace is the shortest scenario.

* `two_tabs`. The top-level README says of several workers "they cannot claim the
  same job". Two re-extract (or retry) requests for one job that overlap both
  read `awaiting_review`. The first commits, a worker claims the job, the second
  commits and puts it back to `pending` while it is running, and another worker
  claims it.
* `chats_switch`. `useChatSession.js` says the local array "*is* the live
  conversation". Ask in a draft, open another conversation before the answer comes:
  `onSuccess` puts the answer on the transcript now shown, and, since the chat it was
  asked in was none, adopts the new conversation without loading it. The next
  question goes there, below turns of the other.

Also seen while modelling, with no run of their own:

* Rejecting a job that is running is undone by the worker's commit: `reject_job` has
  no status guard. `JobStatus` has both steps (`Reject`, `FinishRun`), since the code
  does it.
* A kept duplicate points at the original; deleting the original's document does not
  detach the pointer and is refused. `DocumentDeleteFaultsAreDuplicates` says it is
  the only reason.
* Two confirms of one job that overlap both read `awaiting_review` (`confirm.py:93`), and
  both insert its rows and chunks; so do a confirm and a confirm-all. Two overlapping
  re-extracts or retries give two workers (`two_tabs`), and a confirm of the first
  result can be followed by one of the second. `LandsOnce` excepts jobs that two
  decisions held at once (`contested`), and only those.
* Re-extracting a backfill job makes it kind `reextract`, and confirming it inserts a
  second record set. So does a backfill queued before the document's first confirm.
  `BackfillLeavesOneSet` is about jobs confirmed as backfills.
* The result of such a job has no suggested topics and no chunks (`extract.py:685-695`).
  Its confirm links the topics the reviewer gives, or Uncategorized, and leaves the
  chunks as they are (`confirm.py:181-225`), so the document is listed under one
  set of topics and found under another, with no race. The comment there says that
  a backfill leaves chunks and topics as the extract confirm set them; it goes
  by the kind, which the re-extraction has changed. `ConfirmedAreFiled` excepts the chunks of such
  documents (`refiled`).
* With two schemas, switching the schema of a matched job on review and confirming
  with "replace" takes the matched row but leaves the rest of its set behind, because
  the set is looked up under the new schema. `ReplaceLeavesNoPartialSet` is about jobs
  confirmed under the schema of the row they replace.
* The same confirm gives the matched row a version of the new schema and lets it keep
  its old `schema_id` (`confirm.py:370-373`). The delete of the new schema looks for
  rows by `schema_id`, misses that one, and is refused over the version it
  still points at. The comment in `delete_schema` says that matches across lineages
  "should not arise". `SchemaDeletesSucceed` says it is the only way to be refused.
* `useJobEvents.js` says the first terminal status wins. A poll that read the row
  before it became terminal and is answered after the stream said so puts the older
  status back, and nothing is left running to correct it.
* `schema_fields.py` says the view and the dedup matcher must agree on the JSON key of
  a field. The matcher looks in the new payload for the newest name of an identity
  field; if a rename was saved while the run was under way, the payload has the older
  name, and the duplicate goes unreported, or another field's value is compared.
* A field dropped in one version and added again by name with another type or scope in
  a later one takes its old column, retyped, in a version that does not count as breaking:
  only the newest version is compared with (`schemas.py:155-185`).
  `QuietEditsKeepTheView` excepts it.
* Two schemas whose names map to one view name are both accepted, and creating the
  second drops the first one's view.
* A confirm that commits in the middle of a topic delete can be refused, have the
  delete refused, or leave the document without a topic or its chunks with a dead
  one. `ConfirmedAreFiled` excepts histories with such an overlap.
* Two documents of a batch deleted at once each see the other (`documents.py:303-315`),
  and the empty batch stays; a batch delete beside a document delete likewise
  (`batches.py:128-134`). `BatchesHaveDocuments` excepts it.
* Two questions of one conversation that are answered at once take the same
  positions, and read back in either order.
* The error note of the Ask page says nothing was saved. If the answer is lost on its
  way back, the turns are saved.
* A question asked while a conversation is still loading is dropped from the
  transcript when the read seeds it; a read that fails seeds the stale copy.
* `useChatSession.js` says that reopening a conversation "has to show every turn,
  including ones appended since it was last read". If the first read of it is still
  under way, reopening joins it, and if the server had answered it before the latest
  turn, that turn is missing. Clicking the conversation already open reads nothing
  and shows the cached copy. `TranscriptIsTheConversation` excepts both.
* `test_sql_guard.py` says that every view reference is scoped. The guard collects the
  names of all CTEs of the statement, wherever they are defined, and scopes no table so
  named (`sql_guard.py:83-85`, `184`). A view goes unscoped if any CTE has its name: its
  own, or, as in `WITH a AS (SELECT * FROM view_1), view_1 AS (SELECT * FROM view_2)
  SELECT * FROM a`, another that is not yet in scope where the view is read.
  `ScopeIsHonest` excepts statements that read a view under the name of a CTE.
* An aggregate returns one row over an empty guessed scope, so the retry without the
  scope does not happen. `GuessesFindSomething` excepts it.

## Proofs

Each theorem holds for every value of the constants under the named assumption of
its module (`ConstantsAssumption`, `LibraryAssumption` and so on), which TLC
evaluates on the runs. Every component proved about has a `TypeCorrect` besides:
`Spec => []TypeOK`, on which the others rest.

`JobLifecycleProofs`, for any finite set of jobs and any sets of workers, documents
and batches. However many requests overlap:

* `NoRunIsLost`: `Spec => []ExtractingIsRun`. That a worker runs every `extracting` job
  whose worker did not die is not enough to survive its commit: the commit writes the
  status only if it differs from the loaded copy. `RunnersWillWrite` adds that the
  worker has not loaded the row yet, or loaded it as `extracting`.
* `CommittedDataIsKept`: `Spec => KeepsCommittedData`. It needs no invariant: commits
  add live data, and the batch delete goes through only if none of its documents is
  live by then, which is the foreign key's doing and not its earlier check's.
* `TablesLandOnce`: `Spec => []LandsOnce`, for jobs not contested. `LandingInv` says of
  each of them (`Orderly`) that at most one worker or one decision holds it, and not
  both; that while anyone does its table has not landed; and that once it has, its row
  is confirmed, rejected or gone. A contested job keeps none of this, so what the proof
  shows for the others is that rejections, edits, deletes and late commits, which are
  not decisions and may overlap anything, take none of it away either.

With one request at a time (`SerialRequests`, a single client):

* `ClaimsAreExclusive`: `Spec => []ClaimExclusive`.
* `WorkersWriteOnlyRuns`: `Spec => WorkersWriteOnlyTheirRuns`.
* `QueuedJobsHaveAttempts`: `Spec => []AttemptsLeft`.
* `FeedbackIsUsedUp`: `Spec => []FeedbackAppliedOnce`.

`ClaimsAreExclusive` does need the assumption: `two_tabs` is the counterexample
without it. `ClaimExclusive` alone is not inductive. The invariant is `SerialInv`, the
conjunction of

* `ClaimExclusive`;
* `RunsAreExtracting`: the job of a busy worker, if its row is still there, is
  `extracting` or has been rejected, so it cannot be claimed and no guarded
  handler will load it;
* `IdsAreUsed`: an id a worker or a request holds has been inserted once, so an
  insert never brings it back;
* `RequestsAreCurrent`: a request in flight that goes on to queue or confirm its
  jobs found them in a status no worker is running, and they are still in it,
  since the only commit that could move them is that request's own.

Each action preserves each conjunct; the steps of a worker change only the row it
runs, the steps of a request only rows that no worker is running, and a rejection
is the exception `RunsAreExtracting` allows for. The action property follows from
the same invariant. For the counter and the feedback it is joined by `ColumnsInv`:
besides the two properties, that the copy a request or a running worker will
compare with still has the columns the row has (`CopiesAreCurrent`,
`RunsAreCurrent`), so that a changed column is always written.

Further, with one request at a time:

* `QueueImplementsJobStatus`: `Spec => LivesAsPromised`, the refinement.

It adds `GateInv` to the invariant: a job that has landed is confirmed, rejected or
deleted and no worker has it (`LandedIsOver`), it landed once, and a confirm in
flight saw its job under review (`ConfirmSawReview`). With `RequestsAreCurrent` a confirm then finds a job
that has not landed. The refinement takes the steps one kind at a time: a
worker's step moves the one job it holds, a request's the jobs it loaded, and every
other job stutters, its status, its runners and its landings unchanged.

`RecordStoreProofs`, for any number of schemas, versions, documents, jobs and rows:

* `SchemaDeletes`: `Spec => []SchemaDeletesSucceed`.
* `BackfillReaches`: `Spec => []BackfillReachesEveryRow`.
* `ConfirmFaults`: `Spec => ConfirmFaultsAreDuplicates`.
* `DocumentDeleteFaults`: `Spec => DocumentDeleteFaultsAreDuplicates`.
* `BackfillLeaves`: `Spec => BackfillLeavesOneSet`.
* `ReplaceLeaves`: `Spec => ReplaceLeavesNoPartialSet`.

The invariant `IInv` is the foreign keys, `BackfillReachesEveryRow` (`Reached`), and
`Sound`, what the arguments need besides:

* `PresentHaveDocuments`, the key of jobs, and `UploadedOnce`, `UploadsExtract`: no
  document comes back;
* `RowsAreConfirmed`: a row is named by a confirmed job, so the rows a confirm inserts
  are new, and none is inserted over another;
* `SchemasHaveVersions`: a schema that exists has a version, which is one to confirm under;
* `StagedMatched`: what a job has staged names a version of its schema, or neither;
  with the same of what runs compute (`Matched`);
* `BackfillsPointed`: while a backfill waits, its document points at a whole version or
  at no schema at all, so what its run stages is a version.

Every transaction is a function of tables, so the lemmas are about those functions:
what `_delete_records`, `_insert_records` and `Replaced` leave of a table
(`DeletedRecords`, `InsertedRecords`, `ReplacedRecords`), and that each result is
`Sound` and keeps `Reached` (`ConfirmSound`, `EnqueueSound` and the like). The keys
need no such lemma: a transaction with a statement that would break them does not commit, and the
content of the three theorems about refusals is which key it could have been
(`FaultExplained`). A refused schema delete leaves a pointer from a row of another
schema, and since pointers between rows are detached first, the pointer is to a
version, from a row that straddles. The order of its statements matters here: that no
earlier table breaks a key either is shown statement by statement. That `SchemaDeletes` is an invariant although the fault is
of the step before is because a refusal leaves the tables as they were. The two
theorems about record sets come from the lemmas alone with `OnlyConfirmsWrite`: a
step after which a job under review is confirmed is that job's confirm.

`RateLimiterProofs` proves, for any set of threads, any quotas and any window:

* `RequestsArePaced`: `Spec => PacedGrants`.
* `RefusalsAreHeeded`: `Spec => QuietAfterRefusal`.
* `NobodySleepsPastASlot`: `Spec => []NoSleepPastASlot`.

The first two rest on `WindowInvariant`. A refusal forgets the stamps, so
`sent` alone does not bound `granted`; the invariant says that either the last
refusal is a window ago and what was granted since are the youngest stamps of
`sent` (`Counted`), or `sent` is `capacity` stamps exactly as old as the refusal,
and everything granted is at least that old (`Refilled`). In the second case no
slot is free until all of them leave at once, and then everything granted before
the refusal has left too. The third adds a bound on each sleeper by the
oldest stamp it slept on.

`SchemaFieldsProofs` proves, for any names, types, keys and bounds:

* `ColumnsAreDistinct`: `Spec => []ColumnsDistinct`.
* `ViewIsFaithful`: `Spec => []ViewReadsOwnField`.
* `DedupIsFaithfulNow`: `Spec => []DedupComparesTheFieldNow`.
* `QuietEditsAreSafe`: `Spec => QuietEditsKeepTheView`.
* `ColumnsAreStable`: `Spec => ColumnsKeepTheirPlaces`.

The invariant `FieldsInv` is that columns and names are distinct within a version and
its identity fields are among its columns. `AssignedFields` is the heart: of two
fields of a request, whichever is resolved later finds the other's key used, and a
supplied key is used from the start. `ReadsOwnName` needs no invariant: the three
conditions of `_plain_is_safe` together say that every version declares the name, and for
this column. So `ReadsAs` of a saved version is the name it declares, and a later version
does not change that (`QuietEditsAreSafe`); what it can change is the newest declaration of a
column, hence the theorem's look at types and scopes. The dedup theorem needs distinct names too, for a name to lead back to one
field. That columns stay in place rests on the oldest declaration of a known column, which
exists because the order of versions is well-founded, and which a later version
does not change.

`LibraryProofs`, for any documents, batches, topics and overlapping requests:

* `FilesOutliveRows`: `Spec => []RowsHaveFiles`. `FilesInv` adds that a document has a
  row exactly while its job has a status, that an upload under way is of documents
  never seen and nobody else's, that an uncommitted delete holds its row alone, and
  that a file is unlinked only for a document gone for good.
* `RefusalsAreRaces`: `Spec => []OnlyRacesAreRefused`. `RefusalInv` says that what a
  request has read is still so unless another has committed since (`Current`), and
  that a topic delete that has written keeps document deletes off its rows (`Apart`).
* `BatchesGoWithTheLast`: `Spec => []BatchesHaveDocuments`. `BatchInv` adds that a
  delete nobody overtook saw the batch as it still is.
* `FilingSurvivesDeletes`: `Spec => []ConfirmedAreFiled`, backfills sent back included.
  `FilingInv` adds that only a document confirmed, or refiled by such a backfill, has
  links (`Filed`); that a document has one confirm under way at a time
  (`ConfirmsOnce`); that a confirm that inserts no link is of a document that has one, and
  the first to file a document inserts them all (`FilesFully`); that what a topic delete
  listed and read is still so unless a confirm or a topic delete has committed since
  (`ReadTruly`); and that the chunks it rewrites are those of the documents it listed
  (`RewritesChunks`).

`AskProofs`, for any documents, topics and views, and statements with any CTEs:

* `HonestScope`: `Spec => []ScopeIsHonest`.
* `GuessesHideNothing`: `Spec => []GuessesFindSomething`.

Both from `AskInv`, whose heart is `Ladder`: the scopes still to try are the one read
for the topics, whose documents were all seen under them, and after it all
documents if the topics were guessed. `DrawnInScope` is the lemma about the guard: what
a statement that passes it and runs reads under a scope is in the scope.

`ChatsProofs`, for any tabs, conversations and questions:

* `WholeTurns`: `Spec => []ChatsHoldWholeTurns`, inductive beside the types.
* `TurnsInPlace`: `Spec => []TurnsKeepTheirPlaces`. `NumberedFrom` says that a numbered
  question has the position its conversation still ends at.
* `TabsFollowTheirConversation`: `Spec => []TranscriptIsTheConversation`. For each tab,
  every read under way, of the open chat or of one left, is part of what its
  conversation still holds and no older than the copy cached (`ReadsHold`), the question under way belongs where the tab asked it (`AskedThere`),
  and a tab that has not strayed shows what it has open, or is about to (`Follows`): a read it waits for holds what the conversation held when it was opened.
  On the server conversations only grow until they are deleted (`Grows`).

`JobEventsProofs`, for any number of polls under way and any length of the stream:

* `NoEarlyStop`: `Spec => []StopsAfterTheRow`. A stop follows something read from the
  row long before, so `HeardFromTheRow` says it of every message and answer under way.

Every safety and action property of a passing run is thus a theorem but for the
hypotheses named. Only model-checked is liveness under fairness, which is beyond the
prover: `JobsSettle`, `RunsEnd`, `AcquireEnds`, `TabSettles` and `TabLearnsOfDeletion`.

## Not modelled

Views of several schemas and their reconciliation, value coercion and flattening, and
the editing of single records are planned above. Model and embedding calls are
external; their outcomes are choices. Preview, serializers, start-up, migrations and
presentation keep no state that a property could be about; `useBatchPolling` leaves
its polling to the query library. Prompts, the ranking of chunks, titles and the
order of the sidebar are data that no property tells apart.
