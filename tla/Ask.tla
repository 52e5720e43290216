-------------------------------- MODULE Ask --------------------------------
(***************************************************************************)
(* How one question is answered (app/query/routing.py, nl_to_sql.py,       *)
(* sql_guard.py, rag.py): the topics it is narrowed to, the generated      *)
(* SELECT with the scope written into it, the ladder of scopes it is run   *)
(* under, and retrieval from the chunks when SQL does not answer.          *)
(*                                                                         *)
(* Whatever a model says is a choice: the topics it detects, the route,    *)
(* the statement.  A statement is the names of its CTEs, at whatever       *)
(* depth, what it reads and whether it aggregates; what it answers with is *)
(* the documents it drew on.  Questions do not affect one another, so      *)
(* there is one; documents are filed anew meanwhile.                       *)
(***************************************************************************)
EXTENDS Naturals, Sequences, FiniteSets

CONSTANTS
    Documents,   \* confirmed documents, each with chunks
    Topics,      \* topic ids
    Views,       \* the view of each schema: what the catalog allows
    Other,       \* a relation name that is no view's
    MaxRelinks   \* bound: times a document is filed anew

ASSUME AskAssumption ==
    /\ Other \notin Views
    /\ MaxRelinks \in Nat

VARIABLES
    links,       \* document_topics, and the copy of them the chunks carry
    records,     \* documents with rows in each view
    step,        \* how far the question is
    explicit,    \* body.topic_ids
    topic_ids,   \* what the question is narrowed to
    candidates,  \* the scopes still to try, with the topics they stand for
    statement,   \* the generated SQL
    answer,      \* what came back
    seen,        \* history: documents under topic_ids since they were resolved
    relinks

data == <<links, records>>
vars == <<data, step, explicit, topic_ids, candidates, statement, answer, seen, relinks>>

-----------------------------------------------------------------------------
(* Statements *)

Relations == Views \cup {Other}

\* ctes: the names of all CTEs in the statement, however many and wherever
\* nested.  free: the references left when qualifiers are dropped that Postgres
\* does not bind to a CTE; where one stands decides that, so a CTE of the same
\* name may be bound elsewhere, or not be in scope here, or be this one's own.
\* reached: those whose rows go into the result (a CTE may be unused).
\* aggregate: it returns a row whatever it reads (no GROUP BY).
Select ==
    {s \in [pure : {TRUE}, ctes : SUBSET Relations, free : SUBSET Relations,
            reached : SUBSET Relations, aggregate : BOOLEAN] :
       s.reached \subseteq s.free}

\* Stacked statements, a write anywhere in the tree, SELECT INTO, no SELECT.
Impure ==
    [pure |-> FALSE, ctes |-> {}, free |-> {}, reached |-> {}, aggregate |-> FALSE]

Statement == Select \cup {Impure}

cte_names(s) == s.ctes

\* Every relation is a view or has the name of some CTE, in scope or not.
strip_qualifiers(s) == s.free \subseteq Views \cup cte_names(s)

parse_and_guard(s) == s.pure

normalize_sql(s) == parse_and_guard(s) /\ strip_qualifiers(s)

\* The view references inject_scope wraps.  A name that is also a CTE's is
\* taken for the CTE wherever it stands.
inject_scope(s) == Views \ cte_names(s)

\* The documents a view reference draws on; no scope ids is no scope.
FromView(s, v, scope) ==
    IF v \in inject_scope(s) /\ scope # {} THEN records[v] \cap scope ELSE records[v]

\* Of what no CTE stands for, the read-only role may read the views.
Runs(s) == s.free \subseteq Views

Drawn(s, scope) == UNION {FromView(s, v, scope) : v \in s.reached}

-----------------------------------------------------------------------------
Routes == {"sql", "rag"}

Candidate == [topics : SUBSET Topics, scope : SUBSET Documents]

Answer == [routing : Routes, found : BOOLEAN, drawn : SUBSET Documents,
           topic_ids_used : SUBSET Topics]

NoAnswer == [routing |-> "rag", found |-> FALSE, drawn |-> {}, topic_ids_used |-> {}]

TypeOK ==
    /\ links \in [Documents -> SUBSET Topics]
    /\ records \in [Views -> SUBSET Documents]
    /\ step \in {"idle", "resolved", "sql", "rag", "rag_unscoped", "answered"}
    /\ explicit \in SUBSET Topics
    /\ topic_ids \in SUBSET Topics
    /\ candidates \in Seq(Candidate)
    /\ statement \in Statement
    /\ answer \in Answer
    /\ seen \in SUBSET Documents
    /\ relinks \in 0..MaxRelinks

Init ==
    /\ links \in [Documents -> SUBSET Topics]
    /\ records \in [Views -> SUBSET Documents]
    /\ step = "idle"
    /\ explicit = {}
    /\ topic_ids = {}
    /\ candidates = <<>>
    /\ statement = Impure
    /\ answer = NoAnswer
    /\ seen = {}
    /\ relinks = 0

_documents_in_topics(ids) == {d \in Documents : links[d] \cap ids # {}}

auto_detected == explicit = {}

\* A confirm or a topic delete files a document differently.
Relink(d) ==
    /\ relinks < MaxRelinks
    /\ step \notin {"idle", "answered"}
    /\ relinks' = relinks + 1
    /\ \E set \in SUBSET Topics :
         /\ links' = [links EXCEPT ![d] = set]
         /\ seen' = IF set \cap topic_ids # {} THEN seen \cup {d} ELSE seen
    /\ UNCHANGED <<records, step, explicit, topic_ids, candidates, statement, answer>>

\* The user's topics as they are, or those a model picks from the list.
resolve_topic_ids(chosen) ==
    /\ step = "idle"
    /\ step' = "resolved"
    /\ explicit' = chosen
    /\ \E ids \in IF chosen # {} THEN {chosen} ELSE SUBSET Topics :
         /\ topic_ids' = ids
         /\ seen' = _documents_in_topics(ids)
    /\ UNCHANGED <<data, candidates, statement, answer, relinks>>

\* Mutant: a topic that holds no document is a candidate too.
candidates_unchecked(scope_ids) ==
    (IF topic_ids # {} THEN <<[topics |-> topic_ids, scope |-> scope_ids]>> ELSE <<>>)
      \o (IF topic_ids = {} \/ auto_detected
          THEN <<[topics |-> {}, scope |-> {}]>> ELSE <<>>)

\* Mutant: a guess is left as it is, like the user's own selection.
candidates_of_a_choice(scope_ids) ==
    IF topic_ids = {} \/ (auto_detected /\ scope_ids = {})
    THEN <<[topics |-> {}, scope |-> {}]>>
    ELSE IF scope_ids = {} THEN <<>> ELSE <<[topics |-> topic_ids, scope |-> scope_ids]>>

\* Scoped first, if there is anything in scope; unscoped unless the user chose.
scope_candidates(scope_ids) ==
    (IF topic_ids # {} /\ scope_ids # {}
     THEN <<[topics |-> topic_ids, scope |-> scope_ids]>> ELSE <<>>)
      \o (IF topic_ids = {} \/ auto_detected
          THEN <<[topics |-> {}, scope |-> {}]>> ELSE <<>>)

\* The route, the scope read for it, and one statement for the whole ladder.
decide_routing ==
    /\ step = "resolved"
    /\ \/ /\ step' = "rag"
          /\ UNCHANGED <<candidates, statement>>
       \/ /\ Views # {}
          /\ step' = "sql"
          /\ candidates' = scope_candidates(_documents_in_topics(topic_ids))
          /\ statement' \in Statement
    /\ UNCHANGED <<data, explicit, topic_ids, answer, seen, relinks>>

Reply(routing, found, drawn, used) ==
    /\ step' = "answered"
    /\ answer' = [routing |-> routing, found |-> found, drawn |-> drawn,
                  topic_ids_used |-> used]

\* Rejected, failed to run, or no candidate left: retrieval takes over.
HandToRag ==
    /\ step = "sql"
    /\ candidates = <<>> \/ ~normalize_sql(statement) \/ ~Runs(statement)
    /\ step' = "rag"
    /\ UNCHANGED <<data, explicit, topic_ids, candidates, statement, answer, seen, relinks>>

\* A hallucinated column or a type mismatch can fail any statement.
FailToRun ==
    /\ step = "sql"
    /\ candidates # <<>>
    /\ step' = "rag"
    /\ UNCHANGED <<data, explicit, topic_ids, candidates, statement, answer, seen, relinks>>

\* Can the statement return rows, having drawn on these documents?
Returns(s, drawn) ==
    IF s.aggregate THEN {TRUE} ELSE IF drawn = {} THEN {FALSE} ELSE BOOLEAN

run_safe_select ==
    /\ step = "sql"
    /\ candidates # <<>>
    /\ normalize_sql(statement) /\ Runs(statement)
    /\ LET used == Head(candidates)
           drawn == Drawn(statement, used.scope) IN
         \E rows \in Returns(statement, drawn) :
           IF ~rows /\ Len(candidates) > 1
           THEN candidates' = Tail(candidates) /\ UNCHANGED <<step, answer>>
           ELSE /\ Reply("sql", rows, drawn, used.topics)
                /\ UNCHANGED candidates
    /\ UNCHANGED <<data, explicit, topic_ids, statement, seen, relinks>>

\* The best of the chunks in scope; some, if there are any.
hybrid_search(ids) ==
    LET inScope == IF ids = {} THEN Documents ELSE _documents_in_topics(ids)
    IN  IF inScope = {} THEN {{}} ELSE SUBSET inScope \ {{}}

_answer_with_rag ==
    /\ step = "rag"
    /\ \E chunks \in hybrid_search(topic_ids) :
         IF chunks = {} /\ topic_ids # {} /\ auto_detected
         THEN step' = "rag_unscoped" /\ UNCHANGED answer
         ELSE Reply("rag", chunks # {}, chunks, topic_ids)
    /\ UNCHANGED <<data, explicit, topic_ids, candidates, statement, seen, relinks>>

SearchUnscoped ==
    /\ step = "rag_unscoped"
    /\ \E chunks \in hybrid_search({}) : Reply("rag", chunks # {}, chunks, {})
    /\ UNCHANGED <<data, explicit, topic_ids, candidates, statement, seen, relinks>>

Next ==
    \/ \E chosen \in SUBSET Topics : resolve_topic_ids(chosen)
    \/ \E d \in Documents : Relink(d)
    \/ decide_routing
    \/ HandToRag
    \/ FailToRun
    \/ run_safe_select
    \/ _answer_with_rag
    \/ SearchUnscoped

Spec == Init /\ [][Next]_vars

-----------------------------------------------------------------------------
(* Properties *)

\* A view is read under a name that a CTE has too, somewhere in the statement:
\* that reference goes unscoped.
Shadows(s) == s.reached \cap cte_names(s) # {}

\* What an answer says it searched is what it drew on: documents that were
\* under those topics while it was being answered, whatever the statement
\* joins or hides in CTEs.  And it says the user's topics if the user chose
\* any.  Known exception: a view read under the name of one of the CTEs.
ScopeIsHonest ==
    step = "answered" =>
        /\ explicit # {} => answer.topic_ids_used = explicit
        /\ answer.topic_ids_used # {} /\ ~(answer.routing = "sql" /\ Shadows(statement))
             => answer.drawn \subseteq seen

\* Topics only guessed never hide what is there: an answer that reports
\* guessed topics has found something in them.  Known exception: an
\* aggregate returns its one row over nothing, too.
GuessesFindSomething ==
    step = "answered" /\ auto_detected /\ answer.topic_ids_used # {} =>
        answer.drawn # {} \/ (answer.routing = "sql" /\ statement.aggregate)
=============================================================================
