----------------------------- MODULE AskProofs -----------------------------
(***************************************************************************)
(* Ask for any documents, topics and views: its types, that an answer drew *)
(* on what it says it searched, and that guessed topics hide nothing.      *)
(***************************************************************************)
EXTENDS Ask, SequenceTheorems, TLAPS

-----------------------------------------------------------------------------
(* Types *)

Scoped(scope) == [topics |-> topic_ids, scope |-> scope]
Unscoped == [topics |-> {}, scope |-> {}]

LEMMA CandidatesTyped ==
    ASSUME TypeOK, NEW scope \in SUBSET Documents
    PROVE  /\ Scoped(scope) \in Candidate /\ Unscoped \in Candidate
           /\ scope_candidates(scope) \in Seq(Candidate)
<1>1. Scoped(scope) \in Candidate /\ Unscoped \in Candidate
  BY DEF Scoped, Unscoped, Candidate, TypeOK
<1>2. /\ <<Scoped(scope)>> \in Seq(Candidate) /\ <<Unscoped>> \in Seq(Candidate)
      /\ <<>> \in Seq(Candidate)
  BY <1>1
<1>3. /\ (IF topic_ids # {} /\ scope # {} THEN <<Scoped(scope)>> ELSE <<>>) \in Seq(Candidate)
      /\ (IF topic_ids = {} \/ auto_detected THEN <<Unscoped>> ELSE <<>>) \in Seq(Candidate)
  BY <1>2
<1>4. scope_candidates(scope) =
        (IF topic_ids # {} /\ scope # {} THEN <<Scoped(scope)>> ELSE <<>>)
          \o (IF topic_ids = {} \/ auto_detected THEN <<Unscoped>> ELSE <<>>)
  BY DEF scope_candidates, Scoped, Unscoped
<1> QED
  BY <1>1, <1>3, <1>4

LEMMA InTopics == \A ids : _documents_in_topics(ids) \subseteq Documents
  BY DEF _documents_in_topics

LEMMA ReachedIsRead ==
    ASSUME NEW s \in Statement
    PROVE  s.reached \subseteq s.free
<1>1. CASE s \in Select
  BY <1>1 DEF Select
<1>2. CASE s = Impure
  <2>1. s.reached = {}
    BY <1>2 DEF Impure
  <2> QED
    BY <2>1
<1> QED
  BY <1>1, <1>2 DEF Statement

LEMMA DrawnTyped ==
    ASSUME TypeOK, NEW scope, Runs(statement)
    PROVE  Drawn(statement, scope) \subseteq Documents
<1>1. statement.reached \subseteq Views
  BY ReachedIsRead DEF Runs, TypeOK
<1>2. \A v \in Views : FromView(statement, v, scope) \subseteq Documents
  BY DEF FromView, TypeOK
<1> QED
  BY <1>1, <1>2 DEF Drawn

LEMMA HeadIsOne ==
    ASSUME TypeOK, candidates # <<>>
    PROVE  /\ Head(candidates) \in Candidate
           /\ Tail(candidates) \in Seq(Candidate)
  BY DEF TypeOK

LEMMA Replied ==
    ASSUME NEW routing \in Routes, NEW found \in BOOLEAN, NEW drawn \in SUBSET Documents,
           NEW used \in SUBSET Topics, Reply(routing, found, drawn, used)
    PROVE  /\ step' = "answered" /\ answer' \in Answer
           /\ answer'.routing = routing /\ answer'.found = found
           /\ answer'.drawn = drawn /\ answer'.topic_ids_used = used
  BY DEF Reply, Answer

LEMMA Searched ==
    ASSUME NEW ids, NEW chunks \in hybrid_search(ids)
    PROVE  /\ chunks \subseteq Documents
           /\ ids # {} => chunks \subseteq _documents_in_topics(ids)
  BY InTopics DEF hybrid_search

\* One rung of the ladder: an answer, or the next candidate.
LEMMA Rung ==
    ASSUME TypeOK, run_safe_select
    PROVE  LET used == Head(candidates)
               drawn == Drawn(statement, used.scope)
           IN  /\ used \in Candidate /\ drawn \subseteq Documents
               /\ \/ /\ Len(candidates) > 1 /\ candidates' = Tail(candidates)
                     /\ step' = step /\ answer' = answer
                  \/ /\ step' = "answered" /\ answer' \in Answer /\ candidates' = candidates
                     /\ answer'.routing = "sql" /\ answer'.drawn = drawn
                     /\ answer'.topic_ids_used = used.topics
                     /\ Len(candidates) > 1 => drawn # {} \/ statement.aggregate
<1> DEFINE used == Head(candidates)
           drawn == Drawn(statement, used.scope)
<1>1. used \in Candidate /\ drawn \subseteq Documents
  BY HeadIsOne, DrawnTyped DEF run_safe_select
<1>2. PICK rows \in Returns(statement, drawn) :
        IF ~rows /\ Len(candidates) > 1
        THEN candidates' = Tail(candidates) /\ UNCHANGED <<step, answer>>
        ELSE /\ Reply("sql", rows, drawn, used.topics)
             /\ UNCHANGED candidates
  BY DEF run_safe_select
<1>3. rows \in BOOLEAN /\ (rows => drawn # {} \/ statement.aggregate)
  BY <1>2 DEF Returns
<1>4. used.topics \in SUBSET Topics
  BY <1>1 DEF Candidate
<1> HIDE DEF used, drawn
<1>5. CASE ~rows /\ Len(candidates) > 1
  BY <1>1, <1>2, <1>5 DEF used, drawn
<1>6. CASE ~(~rows /\ Len(candidates) > 1)
  <2>1. Reply("sql", rows, drawn, used.topics) /\ candidates' = candidates
    BY <1>2, <1>6
  <2>2. /\ step' = "answered" /\ answer' \in Answer /\ answer'.routing = "sql"
        /\ answer'.drawn = drawn /\ answer'.topic_ids_used = used.topics
    BY <1>1, <1>3, <1>4, <2>1, Replied DEF Routes
  <2> QED
    BY <1>1, <1>3, <1>6, <2>1, <2>2 DEF used, drawn
<1> QED
  BY <1>5, <1>6

LEMMA TypeStep == TypeOK /\ [Next]_vars => TypeOK'
<1> SUFFICES ASSUME TypeOK, [Next]_vars PROVE TypeOK'
  OBVIOUS
<1> USE AskAssumption
<1>1. ASSUME NEW chosen \in SUBSET Topics, resolve_topic_ids(chosen) PROVE TypeOK'
  BY <1>1, InTopics DEF resolve_topic_ids, data, TypeOK
<1>2. ASSUME NEW d \in Documents, Relink(d) PROVE TypeOK'
  BY <1>2 DEF Relink, TypeOK
<1>3. CASE decide_routing
  <2>1. scope_candidates(_documents_in_topics(topic_ids)) \in Seq(Candidate)
    BY InTopics, CandidatesTyped
  <2> QED
    BY <1>3, <2>1 DEF decide_routing, data, TypeOK
<1>4. CASE HandToRag \/ FailToRun
  BY <1>4 DEF HandToRag, FailToRun, data, TypeOK
<1>5. CASE run_safe_select
  <2>1. Tail(candidates) \in Seq(Candidate)
    BY <1>5, HeadIsOne DEF run_safe_select
  <2>2. /\ candidates' \in Seq(Candidate) /\ answer' \in Answer
        /\ step' \in {step, "answered"}
    BY <1>5, <2>1, Rung DEF TypeOK
  <2> QED
    BY <1>5, <2>2 DEF run_safe_select, data, TypeOK
<1>6. CASE _answer_with_rag
  <2>1. PICK chunks \in hybrid_search(topic_ids) :
          IF chunks = {} /\ topic_ids # {} /\ auto_detected
          THEN step' = "rag_unscoped" /\ UNCHANGED answer
          ELSE Reply("rag", chunks # {}, chunks, topic_ids)
    BY <1>6 DEF _answer_with_rag
  <2>2. chunks \subseteq Documents /\ topic_ids \in SUBSET Topics
    BY <2>1, Searched DEF TypeOK
  <2>3. answer' \in Answer /\ step' \in {"rag_unscoped", "answered"}
    BY <2>1, <2>2, Replied DEF Routes, TypeOK
  <2> QED
    BY <1>6, <2>3 DEF _answer_with_rag, data, TypeOK
<1>7. CASE SearchUnscoped
  <2>1. PICK chunks \in hybrid_search({}) : Reply("rag", chunks # {}, chunks, {})
    BY <1>7 DEF SearchUnscoped
  <2>2. chunks \in SUBSET Documents /\ {} \in SUBSET Topics
    BY Searched
  <2>3. answer' \in Answer /\ step' = "answered"
    BY <2>1, <2>2, Replied DEF Routes
  <2> QED
    BY <1>7, <2>3 DEF SearchUnscoped, data, TypeOK
<1>8. CASE UNCHANGED vars
  BY <1>8 DEF vars, data, TypeOK
<1> QED
  BY <1>1, <1>2, <1>3, <1>4, <1>5, <1>6, <1>7, <1>8 DEF Next

LEMMA TypeInit == Init => TypeOK
  BY AskAssumption DEF Init, TypeOK, Statement, NoAnswer, Answer, Routes

\* Every reachable state is typed.
THEOREM TypeCorrect == Spec => []TypeOK
  BY TypeInit, TypeStep, PTL DEF Spec

-----------------------------------------------------------------------------
(* The ladder *)

\* The scopes still to try: the topics' own, which the documents in it were
\* seen under, and after it, if they were only guessed, all documents.
Ladder ==
    \/ candidates = <<>>
    \/ explicit = {} /\ candidates = <<Unscoped>>
    \/ \E scope \in (SUBSET seen) \ {{}} :
         /\ topic_ids # {}
         /\ candidates = IF explicit = {} THEN <<Scoped(scope), Unscoped>> ELSE <<Scoped(scope)>>

AskInv ==
    /\ explicit # {} => topic_ids = explicit
    /\ _documents_in_topics(topic_ids) \subseteq seen
    /\ Ladder
    /\ step = "idle" => candidates = <<>>
    /\ step = "rag_unscoped" => explicit = {}
    /\ ScopeIsHonest
    /\ GuessesFindSomething

\* What a statement reads under a scope is in it, unless it reads a view under
\* the name of a CTE.
LEMMA DrawnInScope ==
    ASSUME TypeOK, NEW scope, scope # {}, Runs(statement), ~Shadows(statement)
    PROVE  Drawn(statement, scope) \subseteq scope
<1>1. statement.reached \subseteq statement.free
  BY ReachedIsRead DEF TypeOK
<1>2. statement.reached \subseteq inject_scope(statement)
  BY <1>1 DEF Runs, Shadows, inject_scope
<1>3. \A v \in statement.reached : FromView(statement, v, scope) \subseteq scope
  BY <1>2 DEF FromView
<1> QED
  BY <1>3 DEF Drawn

LEMMA TwoRungs ==
    ASSUME NEW first \in Candidate, NEW second \in Candidate
    PROVE  <<first>> \o <<second>> = <<first, second>>
<1>1. /\ <<first>> \in Seq(Candidate) /\ <<second>> \in Seq(Candidate)
      /\ <<first, second>> \in Seq(Candidate)
  OBVIOUS
<1>2. /\ Len(<<first>>) = 1 /\ <<first>>[1] = first
      /\ Len(<<second>>) = 1 /\ <<second>>[1] = second
      /\ Len(<<first, second>>) = 2
      /\ <<first, second>>[1] = first /\ <<first, second>>[2] = second
  OBVIOUS
<1> DEFINE joined == <<first>> \o <<second>>
<1>3. /\ joined \in Seq(Candidate) /\ Len(joined) = 2
      /\ joined[1] = first /\ joined[2] = second
  BY <1>1, <1>2, ConcatProperties
<1>4. \A i \in 1..Len(joined) : joined[i] = <<first, second>>[i]
  BY <1>2, <1>3
<1> HIDE DEF joined
<1>5. joined = <<first, second>>
  BY <1>1, <1>2, <1>3, <1>4, SeqEqual
<1> QED
  BY <1>5 DEF joined

LEMMA AskStep == TypeOK /\ AskInv /\ [Next]_vars => AskInv'
<1> SUFFICES ASSUME TypeOK, AskInv, [Next]_vars PROVE AskInv'
  OBVIOUS
<1>1. ASSUME NEW chosen \in SUBSET Topics, resolve_topic_ids(chosen) PROVE AskInv'
  <2>1. /\ candidates' = <<>> /\ step' = "resolved" /\ explicit' = chosen
        /\ chosen # {} => topic_ids' = chosen
        /\ seen' = {d \in Documents : links'[d] \cap topic_ids' # {}}
    BY <1>1 DEF resolve_topic_ids, AskInv, data, _documents_in_topics
  <2> QED
    BY <2>1 DEF AskInv, Ladder, ScopeIsHonest, GuessesFindSomething, _documents_in_topics
<1>2. ASSUME NEW d \in Documents, Relink(d) PROVE AskInv'
  <2>1. /\ UNCHANGED <<step, explicit, topic_ids, candidates>>
        /\ step \notin {"idle", "answered"}
        /\ seen \subseteq seen'
    BY <1>2 DEF Relink
  <2>2. _documents_in_topics(topic_ids)' \subseteq seen'
    BY <1>2 DEF Relink, _documents_in_topics, AskInv, TypeOK
  <2>3. Ladder'
    BY <2>1 DEF AskInv, Ladder, Scoped, Unscoped
  <2> QED
    BY <2>1, <2>2, <2>3 DEF AskInv, ScopeIsHonest, GuessesFindSomething
<1>3. CASE decide_routing
  <2>1. /\ UNCHANGED <<links, explicit, topic_ids, seen>>
        /\ step' \in {"rag", "sql"}
        /\ candidates' = candidates
             \/ candidates' = scope_candidates(_documents_in_topics(topic_ids))
    BY <1>3 DEF decide_routing, data
  <2>2. Ladder'
    <3>1. CASE candidates' = candidates
      BY <2>1, <3>1 DEF AskInv, Ladder, Scoped, Unscoped
    <3>2. CASE candidates' = scope_candidates(_documents_in_topics(topic_ids))
      <4> DEFINE scope == _documents_in_topics(topic_ids)
      <4>1. scope \subseteq seen /\ (explicit # {} => topic_ids = explicit)
        BY DEF AskInv
      <4>2. CASE topic_ids = {} \/ scope = {}
        <5>1. candidates' = IF topic_ids = {} \/ explicit = {} THEN <<Unscoped>> ELSE <<>>
          BY <3>2, <4>2 DEF scope_candidates, auto_detected, Unscoped
        <5>2. CASE explicit = {}
          BY <2>1, <5>1, <5>2 DEF Ladder, Unscoped
        <5>3. CASE explicit # {}
          BY <2>1, <4>1, <5>1, <5>3 DEF Ladder
        <5> QED
          BY <5>2, <5>3
      <4>3. CASE topic_ids # {} /\ scope # {}
        <5>1. candidates' = IF explicit = {} THEN <<Scoped(scope), Unscoped>>
                            ELSE <<Scoped(scope)>>
          <6>1. candidates' = <<Scoped(scope)>> \o (IF explicit = {} THEN <<Unscoped>> ELSE <<>>)
            BY <3>2, <4>3 DEF scope_candidates, auto_detected, Unscoped, Scoped
          <6>2. CASE explicit = {}
            <7>1. candidates' = <<Scoped(scope)>> \o <<Unscoped>>
              BY <6>1, <6>2
            <7> QED
              BY <6>2, <7>1, TwoRungs, InTopics, CandidatesTyped
          <6>3. CASE explicit # {}
            BY <6>1, <6>3
          <6> QED
            BY <6>2, <6>3
        <5> HIDE DEF scope
        <5> QED
          BY <2>1, <4>1, <4>3, <5>1 DEF Ladder, Unscoped, Scoped
      <4> QED
        BY <4>2, <4>3
    <3> QED
      BY <2>1, <3>1, <3>2
  <2> QED
    BY <2>1, <2>2 DEF AskInv, ScopeIsHonest, GuessesFindSomething, _documents_in_topics
<1>4. CASE HandToRag \/ FailToRun
  BY <1>4 DEF HandToRag, FailToRun, data, AskInv, ScopeIsHonest, GuessesFindSomething,
     Ladder, Scoped, Unscoped, _documents_in_topics
<1>5. CASE run_safe_select
  <2> DEFINE used == Head(candidates)
             drawn == Drawn(statement, used.scope)
  <2>1. /\ UNCHANGED <<links, explicit, topic_ids, statement, seen>>
        /\ candidates # <<>> /\ step = "sql" /\ statement.pure /\ Runs(statement)
    BY <1>5 DEF run_safe_select, data, normalize_sql, parse_and_guard
  <2>2. \/ explicit = {} /\ used = Unscoped /\ ~(Len(candidates) > 1)
        \/ \E scope \in (SUBSET seen) \ {{}} :
             /\ topic_ids # {} /\ used = Scoped(scope)
             /\ \/ explicit # {} /\ ~(Len(candidates) > 1)
                \/ explicit = {} /\ Len(candidates) > 1 /\ Tail(candidates) = <<Unscoped>>
    <3>1. CASE explicit = {} /\ candidates = <<Unscoped>>
      BY <3>1
    <3>2. ASSUME NEW scope \in (SUBSET seen) \ {{}}, topic_ids # {},
                 candidates = IF explicit = {} THEN <<Scoped(scope), Unscoped>>
                              ELSE <<Scoped(scope)>>
          PROVE  /\ used = Scoped(scope)
                 /\ \/ explicit # {} /\ ~(Len(candidates) > 1)
                    \/ explicit = {} /\ Len(candidates) > 1 /\ Tail(candidates) = <<Unscoped>>
      <4>1. CASE explicit = {}
        <5>1. candidates = <<Scoped(scope), Unscoped>>
          BY <3>2, <4>1
        <5> QED
          BY <4>1, <5>1
      <4>2. CASE explicit # {}
        <5>1. candidates = <<Scoped(scope)>>
          BY <3>2, <4>2
        <5> QED
          BY <4>2, <5>1
      <4> QED
        BY <4>1, <4>2
    <3> QED
      BY <2>1, <3>1, <3>2 DEF AskInv, Ladder
  <2>3. CASE /\ Len(candidates) > 1 /\ candidates' = Tail(candidates)
             /\ step' = step /\ answer' = answer
    <3>1. candidates' = <<Unscoped>> /\ explicit = {}
      BY <2>2, <2>3
    <3>2. Ladder'
      BY <2>1, <3>1 DEF Ladder, Unscoped
    <3> QED
      BY <2>1, <2>3, <3>2 DEF AskInv, ScopeIsHonest, GuessesFindSomething, _documents_in_topics
  <2>4. CASE /\ step' = "answered" /\ candidates' = candidates
             /\ answer'.routing = "sql" /\ answer'.drawn = drawn
             /\ answer'.topic_ids_used = used.topics
             /\ Len(candidates) > 1 => drawn # {} \/ statement.aggregate
    <3>1. used.topics # {} => used.scope # {} /\ used.scope \subseteq seen
      BY <2>2 DEF Scoped, Unscoped
    <3>2. explicit # {} => used.topics = explicit
      BY <2>2 DEF AskInv, Scoped
    <3>3. explicit = {} /\ used.topics # {} => Len(candidates) > 1
      BY <2>2 DEF Unscoped
    <3>4. used.topics # {} /\ ~Shadows(statement) => drawn \subseteq seen
      BY <2>1, <3>1, DrawnInScope
    <3>5. Shadows(statement)' = Shadows(statement)
      BY <2>1 DEF Shadows
    <3> HIDE DEF used, drawn
    <3>6. ScopeIsHonest'
      BY <2>1, <2>4, <3>2, <3>4, <3>5 DEF ScopeIsHonest
    <3>7. GuessesFindSomething'
      BY <2>1, <2>4, <3>3 DEF GuessesFindSomething, auto_detected
    <3>8. Ladder'
      BY <2>1, <2>4 DEF AskInv, Ladder, Scoped, Unscoped
    <3> QED
      BY <2>1, <2>4, <3>6, <3>7, <3>8 DEF AskInv, _documents_in_topics
  <2> QED
    BY <1>5, <2>3, <2>4, Rung
<1>6. CASE _answer_with_rag
  <2>1. PICK chunks \in hybrid_search(topic_ids) :
          IF chunks = {} /\ topic_ids # {} /\ auto_detected
          THEN step' = "rag_unscoped" /\ UNCHANGED answer
          ELSE Reply("rag", chunks # {}, chunks, topic_ids)
    BY <1>6 DEF _answer_with_rag
  <2>2. /\ UNCHANGED <<links, explicit, topic_ids, candidates, statement, seen>>
        /\ topic_ids \in SUBSET Topics /\ chunks \subseteq Documents
    BY <1>6, Searched DEF _answer_with_rag, data, TypeOK
  <2>3. topic_ids # {} => chunks \subseteq seen
    BY Searched DEF AskInv
  <2>4. Ladder'
    BY <2>2 DEF AskInv, Ladder, Scoped, Unscoped
  <2>5. CASE chunks = {} /\ topic_ids # {} /\ auto_detected
    BY <2>1, <2>2, <2>4, <2>5
       DEF AskInv, ScopeIsHonest, GuessesFindSomething, auto_detected, _documents_in_topics
  <2>6. CASE ~(chunks = {} /\ topic_ids # {} /\ auto_detected)
    <3>1. /\ step' = "answered" /\ answer'.routing = "rag" /\ answer'.drawn = chunks
          /\ answer'.topic_ids_used = topic_ids
      <4>1. Reply("rag", chunks # {}, chunks, topic_ids)
        BY <2>1, <2>6
      <4> QED
        BY <4>1 DEF Reply
    <3> QED
      BY <2>2, <2>3, <2>4, <2>6, <3>1
         DEF AskInv, ScopeIsHonest, GuessesFindSomething, auto_detected, _documents_in_topics
  <2> QED
    BY <2>5, <2>6
<1>7. CASE SearchUnscoped
  <2>1. PICK chunks \in hybrid_search({}) : Reply("rag", chunks # {}, chunks, {})
    BY <1>7 DEF SearchUnscoped
  <2>2. /\ UNCHANGED <<links, explicit, topic_ids, candidates, statement, seen>>
        /\ explicit = {}
        /\ step' = "answered" /\ answer'.topic_ids_used = {}
    <3>1. chunks \in SUBSET Documents /\ {} \in SUBSET Topics
      BY Searched
    <3> QED
      BY <1>7, <2>1, <3>1, Replied DEF SearchUnscoped, data, AskInv, Routes
  <2> QED
    BY <2>2 DEF AskInv, ScopeIsHonest, GuessesFindSomething, Ladder, Scoped, Unscoped,
       _documents_in_topics
<1>8. CASE UNCHANGED vars
  BY <1>8 DEF vars, data, AskInv, ScopeIsHonest, GuessesFindSomething, Ladder, Scoped,
     Unscoped, Shadows, auto_detected, _documents_in_topics
<1> QED
  BY <1>1, <1>2, <1>3, <1>4, <1>5, <1>6, <1>7, <1>8 DEF Next

LEMMA AskInit == Init => AskInv
  BY DEF Init, AskInv, Ladder, ScopeIsHonest, GuessesFindSomething, _documents_in_topics

\* An answer drew on what it says it searched, and says the user's topics.
THEOREM HonestScope == Spec => []ScopeIsHonest
<1>1. AskInv => ScopeIsHonest
  BY DEF AskInv
<1> QED
  BY <1>1, TypeInit, TypeStep, AskInit, AskStep, PTL DEF Spec

\* Guessed topics are reported only when something was found in them.
THEOREM GuessesHideNothing == Spec => []GuessesFindSomething
<1>1. AskInv => GuessesFindSomething
  BY DEF AskInv
<1> QED
  BY <1>1, TypeInit, TypeStep, AskInit, AskStep, PTL DEF Spec
=============================================================================
