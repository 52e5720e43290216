---------------------------- MODULE ChatsProofs ----------------------------
(***************************************************************************)
(* Chats for any tabs, conversations and questions: its types, that a      *)
(* conversation holds whole turns and nothing else, that they keep their   *)
(* places, and that a tab shows the conversation it has open.              *)
(***************************************************************************)
EXTENDS Chats, FiniteSetTheorems, TLAPS

-----------------------------------------------------------------------------
(* Types *)

\* An answered question has a conversation.
Placed == \A q \in Questions : stage[q] = "answered" => chat[q] \in Chats

\* A conversation with messages has a last one.
Topped(c) ==
    messages[c] # {} =>
        \E last \in Positions(c) : \A other \in Positions(c) : other <= last

Typed == TypeOK /\ Placed /\ \A c \in Chats : Topped(c)

ServerTyped ==
    /\ chats \in [Chats -> {"unused", "live", "deleted"}]
    /\ messages \in [Chats -> SUBSET ChatMessage]
    /\ stage \in [Questions -> {"unasked", "sent", "answering", "numbered",
                                "answered", "failed"}]
    /\ chat \in [Questions -> Chats \cup {None}]
    /\ position \in [Questions -> Int]
    /\ overlapped \subseteq Chats
    /\ \A q \in Questions : stage[q] = "answered" => chat[q] \in Chats
    /\ \A c \in Chats : Topped(c)

PageTyped ==
    /\ active \in [Tabs -> Chats \cup {None}]
    /\ loading \in [Tabs -> BOOLEAN]
    /\ shown \in [Tabs -> SUBSET Shown]
    /\ pending \in [Tabs -> Questions \cup {None}]
    /\ askedIn \in [Tabs -> Chats \cup {None}]
    /\ fetch \in [Tabs -> [Chats -> Fetch]]
    /\ cache \in [Tabs -> [Chats -> SUBSET Turn]]
    /\ opened \in [Tabs -> SUBSET Turn]
    /\ strayed \subseteq Tabs

LEMMA Halves == Typed <=> ServerTyped /\ PageTyped
  BY DEF Typed, TypeOK, Placed, ServerTyped, PageTyped

LEMMA TurnsTyped ==
    ASSUME ServerTyped, NEW c \in Chats
    PROVE  TurnsOf(c) \subseteq Turn /\ Positions(c) \subseteq Int
  BY DEF ServerTyped, TurnsOf, Turn, Positions, ChatMessage

LEMMA TurnsShown == Turn \subseteq Shown
  BY DEF Turn, Shown, CHAT_ROLES

\* The position read for a question follows every position there is.
LEMMA NextFollows ==
    ASSUME ServerTyped, NEW c \in Chats \cup {None}
    PROVE  /\ next_position(c) \in Int
           /\ c = None \/ Positions(c) = {} => next_position(c) = 0
           /\ c # None /\ Positions(c) # {} =>
                /\ next_position(c) - 1 \in Positions(c)
                /\ \A p \in Positions(c) : p < next_position(c)
<1>1. CASE c = None \/ Positions(c) = {}
  BY <1>1 DEF next_position
<1>2. CASE c # None /\ Positions(c) # {}
  <2> DEFINE top == CHOOSE p \in Positions(c) : \A other \in Positions(c) : other <= p
  <2>1. c \in Chats /\ Positions(c) \subseteq Int
    BY <1>2, TurnsTyped
  <2>2. messages[c] # {}
    BY <1>2 DEF Positions
  <2>3. \E p \in Positions(c) : \A other \in Positions(c) : other <= p
    BY <2>1, <2>2 DEF ServerTyped, Topped
  <2>4. top \in Positions(c) /\ \A other \in Positions(c) : other <= top
    BY <2>3
  <2>5. next_position(c) = 1 + top
    BY <1>2 DEF next_position
  <2> HIDE DEF top
  <2>6. top \in Int
    BY <2>1, <2>4
  <2> QED
    BY <1>2, <2>1, <2>4, <2>5, <2>6
<1> QED
  BY <1>1, <1>2

\* What a question's turns are once they are written.
LEMMA Written2 ==
    ASSUME ServerTyped, NEW q \in Questions
    PROVE  /\ Written(q) \subseteq ChatMessage
           /\ {m.position : m \in Written(q)} = {position[q], position[q] + 1}
           /\ \A m \in Written(q) : m.question = q
           /\ \E up, down \in Written(q) :
                /\ up.question = q /\ up.role = "user"
                /\ down.question = q /\ down.role = "assistant"
                /\ down.position = up.position + 1
<1> DEFINE up == [position |-> position[q], role |-> "user", question |-> q]
           down == [position |-> position[q] + 1, role |-> "assistant", question |-> q]
<1>1. Written(q) = {up, down}
  BY DEF Written, BothTurns
<1>2. up \in ChatMessage /\ down \in ChatMessage
  BY DEF ServerTyped, ChatMessage, CHAT_ROLES
<1>3. /\ up.position = position[q] /\ up.role = "user" /\ up.question = q
      /\ down.position = position[q] + 1 /\ down.role = "assistant" /\ down.question = q
  OBVIOUS
<1> HIDE DEF up, down
<1> QED
  BY <1>1, <1>2, <1>3

\* A commit, in full: the conversation it writes to and what it leaves there.
Commits(q, c) ==
    /\ stage[q] = "numbered"
    /\ IF chat[q] = None THEN chats[c] = "unused" ELSE chat[q] = c /\ Live(c)
    /\ \A d \in Chats : /\ chats'[d] = IF d = c THEN "live" ELSE chats[d]
                        /\ messages'[d] = IF d = c THEN messages[c] \cup Written(q)
                                          ELSE messages[d]
    /\ \A p \in Questions : /\ chat'[p] = IF p = q THEN c ELSE chat[p]
                            /\ stage'[p] = IF p = q THEN "answered" ELSE stage[p]
    /\ position' = position
    /\ overlapped \subseteq overlapped'
    /\ c \notin overlapped' =>
         \A p \in Questions \ {q} : ~(stage[p] = "numbered" /\ chat[p] = c)

LEMMA Committed ==
    ASSUME ServerTyped, NEW q \in Questions, CommitTurns(q)
    PROVE  \E c \in Chats : Commits(q, c)
  BY DEF ServerTyped, CommitTurns, Commits, To

\* What a step does to the tables and the questions under way.
LEMMA ServerMoves ==
    ASSUME [Next]_vars
    PROVE  \/ \E q \in Questions : \/ run_query(q) \/ Number(q) \/ CommitTurns(q)
                                  \/ FailQuestion(q) \/ AskElsewhere(q)
           \/ \E c \in Chats : delete_chat(c)
           \/ \E t \in Tabs, q \in Questions : handleAsk(t, q)
           \/ UNCHANGED server
<1>1. CASE \E c \in Chats : DeleteElsewhere(c)
  BY <1>1 DEF DeleteElsewhere
<1>2. ASSUME NEW t \in Tabs, NEW c \in Chats, handleDelete(t, c) PROVE delete_chat(c)
  BY <1>2 DEF handleDelete
<1>3. ASSUME NEW t \in Tabs, NEW c \in Chats,
             selectChat(t, c) \/ FetchReads(t, c) \/ FetchSettles(t, c) \/ FetchFails(t, c)
      PROVE  UNCHANGED server
  BY <1>3 DEF selectChat, FetchReads, FetchSettles, FetchFails
<1>4. ASSUME NEW t \in Tabs,
             reselectChat(t) \/ startNewChat(t) \/ Leave(t) \/ onSuccess(t) \/ onError(t)
      PROVE  UNCHANGED server
  BY <1>4 DEF reselectChat, startNewChat, Leave, onSuccess, onError
<1>5. CASE UNCHANGED vars
  BY <1>5 DEF vars
<1> QED
  BY <1>1, <1>2, <1>3, <1>4, <1>5 DEF Next

LEMMA ServerTypedStep ==
    ServerTyped /\ PageTyped /\ [Next]_vars => ServerTyped'
<1> SUFFICES ASSUME ServerTyped, PageTyped, [Next]_vars PROVE ServerTyped'
  OBVIOUS
<1>1. ASSUME NEW q \in Questions, run_query(q) PROVE ServerTyped'
  BY <1>1 DEF run_query, To, ServerTyped, Topped, Positions
<1>2. ASSUME NEW q \in Questions, Number(q) PROVE ServerTyped'
  <2>1. chat[q] \in Chats \cup {None}
    BY DEF ServerTyped
  <2>2. next_position(chat[q]) \in Int
    BY <2>1, NextFollows
  <2> QED
    BY <1>2, <2>2 DEF Number, To, ServerTyped, Topped, Positions
<1>3. ASSUME NEW q \in Questions, CommitTurns(q) PROVE ServerTyped'
  <2>1. PICK c \in Chats : Commits(q, c)
    BY <1>3, Committed
  <2>2. Written(q) \subseteq ChatMessage
    BY Written2
  <2>3. /\ chats' \in [Chats -> {"unused", "live", "deleted"}]
        /\ messages' \in [Chats -> SUBSET ChatMessage]
        /\ stage' \in [Questions -> {"unasked", "sent", "answering", "numbered",
                                     "answered", "failed"}]
        /\ chat' \in [Questions -> Chats \cup {None}]
        /\ overlapped' \subseteq Chats
    BY <1>3, <2>2 DEF CommitTurns, To, ServerTyped
  <2>4. \A d \in Chats \ {c} : Topped(d)'
    BY <2>1 DEF Commits, ServerTyped, Topped, Positions
  <2>5. Topped(c)'
    <3>1. Positions(c)' = Positions(c) \cup {position[q], position[q] + 1}
      <4>1. messages'[c] = messages[c] \cup Written(q)
        BY <2>1 DEF Commits
      <4> QED
        BY <4>1, Written2 DEF Positions
    <3>2. position[q] \in Int /\ Positions(c) \subseteq Int
      BY TurnsTyped DEF ServerTyped
    <3>3. CASE messages[c] = {}
      <4>1. Positions(c)' = {position[q], position[q] + 1}
        BY <3>1, <3>3 DEF Positions
      <4>2. \A other \in Positions(c)' : other <= position[q] + 1
        BY <3>2, <4>1
      <4> QED
        BY <4>1, <4>2 DEF Topped
    <3>4. CASE messages[c] # {}
      <4>1. PICK last \in Positions(c) : \A other \in Positions(c) : other <= last
        BY <3>4 DEF ServerTyped, Topped
      <4>2. CASE last <= position[q] + 1
        <5>1. \A other \in Positions(c)' : other <= position[q] + 1
          BY <3>1, <3>2, <4>1, <4>2
        <5> QED
          BY <3>1, <5>1 DEF Topped
      <4>3. CASE ~(last <= position[q] + 1)
        <5>1. \A other \in Positions(c)' : other <= last
          BY <3>1, <3>2, <4>1, <4>3
        <5> QED
          BY <3>1, <5>1 DEF Topped
      <4> QED
        BY <4>2, <4>3
    <3> QED
      BY <3>3, <3>4
  <2> QED
    BY <2>1, <2>3, <2>4, <2>5 DEF Commits, ServerTyped
<1>4. ASSUME NEW q \in Questions, FailQuestion(q) PROVE ServerTyped'
  BY <1>4 DEF FailQuestion, To, ServerTyped, Topped, Positions
<1>5. ASSUME NEW q \in Questions, AskElsewhere(q) PROVE ServerTyped'
  BY <1>5 DEF AskElsewhere, To, ServerTyped, Topped, Positions
<1>6. ASSUME NEW c \in Chats, delete_chat(c) PROVE ServerTyped'
  BY <1>6 DEF delete_chat, ServerTyped, Topped, Positions
<1>7. ASSUME NEW t \in Tabs, NEW q \in Questions, handleAsk(t, q) PROVE ServerTyped'
  <2>1. active[t] \in Chats \cup {None}
    BY DEF PageTyped
  <2> QED
    BY <1>7, <2>1 DEF handleAsk, To, ServerTyped, Topped, Positions
<1>8. CASE UNCHANGED server
  BY <1>8 DEF server, ServerTyped, Topped, Positions
<1> QED
  BY <1>1, <1>2, <1>3, <1>4, <1>5, <1>6, <1>7, <1>8, ServerMoves

LEMMA PageTypedStep ==
    ServerTyped /\ PageTyped /\ [Next]_vars => PageTyped'
<1> SUFFICES ASSUME ServerTyped, PageTyped, [Next]_vars PROVE PageTyped'
  OBVIOUS
<1> USE TurnsShown
<1>0. /\ Sent \in Fetch /\ NoFetch \in Fetch /\ NoFetch.at = "none"
      /\ \A turns \in SUBSET Turn : [at |-> "read", turns |-> turns] \in Fetch
  BY DEF Sent, NoFetch, Fetch
<1>a. \A role \in CHAT_ROLES \cup {"error"}, q \in Questions : Line(role, q) \in Shown
  BY DEF Line, Shown
<1>b. \A t \in Tabs, c \in Chats : /\ fetch[t][c].turns \subseteq Turn
                                 /\ Joined(t, c) \in Fetch /\ Invalidated(t, c) \in Fetch
  BY <1>0 DEF PageTyped, Fetch, Joined, Invalidated
<1>c. ASSUME NEW t \in Tabs, Draft(t)
      PROVE  /\ active' \in [Tabs -> Chats \cup {None}]
             /\ loading' \in [Tabs -> BOOLEAN]
             /\ shown' \in [Tabs -> SUBSET Shown]
             /\ opened' \in [Tabs -> SUBSET Turn]
  BY <1>c DEF Draft, PageTyped
<1>1. ASSUME NEW t \in Tabs, NEW q \in Questions, handleAsk(t, q) PROVE PageTyped'
  BY <1>1, <1>a DEF handleAsk, PageTyped, CHAT_ROLES
<1>2. ASSUME NEW t \in Tabs, NEW c \in Chats, selectChat(t, c) PROVE PageTyped'
  <2>1. TurnsOf(c) \subseteq Turn
    BY TurnsTyped
  <2> QED
    BY <1>b, <1>2, <2>1 DEF selectChat, Load, StrayIf, PageTyped
<1>3. ASSUME NEW t \in Tabs, reselectChat(t) PROVE PageTyped'
  <2>1. active[t] \in Chats
    BY <1>3 DEF reselectChat, PageTyped
  <2>2. cache[t][active[t]] \subseteq Turn /\ TurnsOf(active[t]) \subseteq Turn
    BY <2>1, TurnsTyped DEF PageTyped
  <2> QED
    BY <1>3, <2>1, <2>2 DEF reselectChat, Load, StrayIf, PageTyped
<1>4. ASSUME NEW t \in Tabs, startNewChat(t) \/ Leave(t) PROVE PageTyped'
  BY <1>4, <1>c DEF startNewChat, Leave, StrayIf, PageTyped
<1>5. ASSUME NEW t \in Tabs, NEW c \in Chats, FetchReads(t, c) PROVE PageTyped'
  BY <1>0, <1>5, TurnsTyped DEF FetchReads, PageTyped
<1>6. ASSUME NEW t \in Tabs, NEW c \in Chats, FetchSettles(t, c) PROVE PageTyped'
  BY <1>0, <1>b, <1>6 DEF FetchSettles, PageTyped
<1>7. ASSUME NEW t \in Tabs, NEW c \in Chats, FetchFails(t, c) PROVE PageTyped'
  <2>1. /\ UNCHANGED <<active, pending, askedIn, cache, opened>>
        /\ fetch' \in [Tabs -> [Chats -> Fetch]]
        /\ loading' \in [Tabs -> BOOLEAN]
        /\ strayed' \subseteq Tabs
    BY <1>0, <1>7 DEF FetchFails, PageTyped
  <2>2. cache[t][c] \subseteq Shown
    BY DEF PageTyped
  <2>3. shown' \in [Tabs -> SUBSET Shown]
    BY <1>7, <2>2 DEF FetchFails, PageTyped
  <2> QED
    BY <2>1, <2>2, <2>3 DEF PageTyped
<1>8. ASSUME NEW t \in Tabs, onSuccess(t) PROVE PageTyped'
  <2>1. pending[t] \in Questions /\ chat[pending[t]] \in Chats
    BY <1>8 DEF onSuccess, PageTyped, ServerTyped
  <2> QED
    BY <1>a, <1>b, <1>8, <2>1 DEF onSuccess, PageTyped, CHAT_ROLES
<1>9. ASSUME NEW t \in Tabs, onError(t) PROVE PageTyped'
  <2>1. pending[t] \in Questions
    BY <1>9 DEF onError, PageTyped
  <2> QED
    <3>1. Line("error", pending[t]) \in Shown
      BY <1>a, <2>1
    <3>2. shown' \in [Tabs -> SUBSET Shown]
      BY <1>9, <3>1 DEF onError, PageTyped
    <3> QED
      BY <1>9, <3>2 DEF onError, PageTyped
<1>10. ASSUME NEW t \in Tabs, NEW c \in Chats, handleDelete(t, c) PROVE PageTyped'
  <2>1. cache' \in [Tabs -> [Chats -> SUBSET Turn]] /\ fetch' \in [Tabs -> [Chats -> Fetch]]
    BY <1>0, <1>10 DEF handleDelete, PageTyped
  <2> QED
    BY <1>10, <1>c, <2>1 DEF handleDelete, StrayIf, PageTyped
<1>11. CASE UNCHANGED page
  BY <1>11 DEF page, PageTyped
<1> QED
  BY <1>1, <1>2, <1>3, <1>4, <1>5, <1>6, <1>7, <1>8, <1>9, <1>10, <1>11
     DEF Next, vars, DeleteElsewhere, run_query, Number, CommitTurns, FailQuestion, AskElsewhere

LEMMA TypedInit == Init => ServerTyped /\ PageTyped
  BY DEF Init, ServerTyped, PageTyped, NoFetch, Fetch, Topped

\* Every reachable state is typed.
THEOREM TypeCorrect == Spec => []TypeOK
<1>1. ServerTyped /\ PageTyped => TypeOK
  BY Halves DEF Typed
<1> QED
  BY <1>1, TypedInit, ServerTypedStep, PageTypedStep, PTL DEF Spec

-----------------------------------------------------------------------------
(* Whole turns *)

Both(q, set) ==
    \E up, down \in set :
        /\ up.question = q /\ up.role = "user"
        /\ down.question = q /\ down.role = "assistant"
        /\ down.position = up.position + 1

LEMMA Whole ==
    ChatsHoldWholeTurns <=>
      /\ \A c \in Chats : chats[c] = "live" <=> messages[c] # {}
      /\ \A c \in Chats : \A m \in messages[c] :
           /\ stage[m.question] = "answered" /\ chat[m.question] = c
           /\ Both(m.question, messages[c])
  BY DEF ChatsHoldWholeTurns, Live, Both

LEMMA WholePrimed ==
    ASSUME \A c \in Chats : chats'[c] = "live" <=> messages'[c] # {},
           \A c \in Chats : \A m \in messages'[c] :
             /\ stage'[m.question] = "answered" /\ chat'[m.question] = c
             /\ Both(m.question, messages'[c])
    PROVE  ChatsHoldWholeTurns'
  BY DEF ChatsHoldWholeTurns, Live, Both

\* No answered question changes its state or its conversation.
LEMMA WholeKept ==
    ASSUME ChatsHoldWholeTurns, ServerTyped, UNCHANGED <<chats, messages>>,
           \A q \in Questions : stage[q] = "answered" =>
             stage'[q] = "answered" /\ chat'[q] = chat[q]
    PROVE  ChatsHoldWholeTurns'
<1>1. \A c \in Chats : \A m \in messages[c] : m.question \in Questions
  BY DEF ServerTyped, ChatMessage
<1> QED
  BY <1>1, Whole, WholePrimed

LEMMA WholeStep ==
    ServerTyped /\ ChatsHoldWholeTurns /\ [Next]_vars => ChatsHoldWholeTurns'
<1> SUFFICES ASSUME ServerTyped, ChatsHoldWholeTurns, [Next]_vars
             PROVE  ChatsHoldWholeTurns'
  OBVIOUS
<1>1. ASSUME NEW q \in Questions, run_query(q) \/ Number(q) \/ FailQuestion(q) \/ AskElsewhere(q)
      PROVE  ChatsHoldWholeTurns'
  <2>1. /\ UNCHANGED <<chats, messages>>
        /\ stage[q] # "answered"
        /\ \A p \in Questions \ {q} : stage'[p] = stage[p] /\ chat'[p] = chat[p]
    BY <1>1 DEF run_query, Number, FailQuestion, AskElsewhere, To, ServerTyped
  <2> QED
    BY <2>1, WholeKept
<1>2. ASSUME NEW q \in Questions, CommitTurns(q) PROVE ChatsHoldWholeTurns'
  <2>1. PICK c \in Chats : Commits(q, c)
    BY <1>2, Committed
  <2>2. stage[q] # "answered"
    BY <2>1 DEF Commits
  <2>3. \A d \in Chats : \A m \in messages[d] : m.question \in Questions /\ m.question # q
    <3>1. \A d \in Chats : \A m \in messages[d] : m.question \in Questions
      BY DEF ServerTyped, ChatMessage
    <3> QED
      BY <2>2, <3>1, Whole
  <2>4. \A m \in Written(q) : m.question = q
    BY Written2
  <2>5. Both(q, Written(q))
    BY Written2 DEF Both
  <2>6. \A d \in Chats : chats'[d] = "live" <=> messages'[d] # {}
    <3>1. Written(q) # {}
      BY <2>5 DEF Both
    <3> QED
      BY <2>1, <3>1, Whole DEF Commits
  <2>7. ASSUME NEW d \in Chats, NEW m \in messages'[d]
        PROVE  /\ stage'[m.question] = "answered" /\ chat'[m.question] = d
               /\ Both(m.question, messages'[d])
    <3>1. messages[d] \subseteq messages'[d]
      BY <2>1 DEF Commits
    <3>2. CASE m \in messages[d]
      <4>1. /\ stage[m.question] = "answered" /\ chat[m.question] = d
            /\ Both(m.question, messages[d])
        BY <3>2, Whole
      <4>2. Both(m.question, messages'[d])
        BY <3>1, <4>1 DEF Both
      <4> QED
        BY <2>1, <2>3, <3>2, <4>1, <4>2 DEF Commits
    <3>3. CASE m \notin messages[d]
      <4>1. d = c /\ m \in Written(q) /\ Written(q) \subseteq messages'[d]
        BY <2>1, <2>7, <3>3 DEF Commits
      <4>2. m.question = q
        BY <2>4, <4>1
      <4>3. Both(m.question, messages'[d])
        BY <2>5, <4>1, <4>2 DEF Both
      <4> QED
        BY <2>1, <4>1, <4>2, <4>3 DEF Commits
    <3> QED
      BY <3>2, <3>3
  <2> QED
    BY <2>6, <2>7, WholePrimed
<1>3. ASSUME NEW c \in Chats, delete_chat(c) PROVE ChatsHoldWholeTurns'
  <2>1. /\ \A d \in Chats : /\ chats'[d] = IF d = c THEN "deleted" ELSE chats[d]
                            /\ messages'[d] = IF d = c THEN {} ELSE messages[d]
        /\ UNCHANGED <<stage, chat>>
    BY <1>3 DEF delete_chat, ServerTyped
  <2> QED
    BY <2>1, Whole, WholePrimed
<1>4. ASSUME NEW t \in Tabs, NEW q \in Questions, handleAsk(t, q)
      PROVE  ChatsHoldWholeTurns'
  <2>1. /\ UNCHANGED <<chats, messages>>
        /\ stage[q] # "answered"
        /\ \A p \in Questions \ {q} : stage'[p] = stage[p] /\ chat'[p] = chat[p]
    BY <1>4 DEF handleAsk, To, ServerTyped
  <2> QED
    BY <2>1, WholeKept
<1>5. CASE UNCHANGED server
  BY <1>5, WholeKept DEF server
<1> QED
  BY <1>1, <1>2, <1>3, <1>4, <1>5, ServerMoves

\* A conversation holds whole turns of answered questions and nothing else, and
\* is in the list exactly then.
THEOREM WholeTurns == Spec => []ChatsHoldWholeTurns
<1>1. Init => ChatsHoldWholeTurns
  BY DEF Init, ChatsHoldWholeTurns, Live
<1> QED
  BY <1>1, TypedInit, ServerTypedStep, PageTypedStep, WholeStep, PTL DEF Spec

-----------------------------------------------------------------------------
(* Places *)

\* A question is numbered from where its conversation ends, if it still is.
NumberedFrom(q) ==
    stage[q] = "numbered" =>
        /\ chat[q] = None => position[q] = 0
        /\ Live(chat[q]) /\ chat[q] \notin overlapped =>
             position[q] = Cardinality(messages[chat[q]])

PlacesInv ==
    /\ \A c \in Chats : IsFiniteSet(messages[c])
    /\ TurnsKeepTheirPlaces
    /\ \A q \in Questions : NumberedFrom(q)

LEMMA PlacesKept ==
    ASSUME PlacesInv, UNCHANGED <<chats, messages, overlapped>>,
           \A q \in Questions : stage'[q] = "numbered" =>
             stage[q] = "numbered" /\ chat'[q] = chat[q] /\ position'[q] = position[q]
    PROVE  PlacesInv'
  BY DEF PlacesInv, TurnsKeepTheirPlaces, NumberedFrom, Positions, Live

\* Two turns after the n there are.
LEMMA TwoMore ==
    ASSUME NEW set, IsFiniteSet(set), NEW a, NEW b, a \notin set, b \notin set, a # b
    PROVE  /\ IsFiniteSet(set \cup {a, b})
           /\ Cardinality(set \cup {a, b}) = Cardinality(set) + 2
<1>1. IsFiniteSet(set \cup {a}) /\ Cardinality(set \cup {a}) = Cardinality(set) + 1
  BY FS_AddElement
<1>2. /\ IsFiniteSet((set \cup {a}) \cup {b})
      /\ Cardinality((set \cup {a}) \cup {b}) = Cardinality(set \cup {a}) + 1
  BY <1>1, FS_AddElement
<1>3. (set \cup {a}) \cup {b} = set \cup {a, b}
  OBVIOUS
<1>4. Cardinality(set) \in Nat
  BY FS_CardinalityType
<1> QED
  BY <1>1, <1>2, <1>3, <1>4

LEMMA PlacesStep ==
    ServerTyped /\ ChatsHoldWholeTurns /\ PlacesInv /\ [Next]_vars => PlacesInv'
<1> SUFFICES ASSUME ServerTyped, ChatsHoldWholeTurns, PlacesInv, [Next]_vars
             PROVE  PlacesInv'
  OBVIOUS
<1> USE ChatsAssumption
<1>0. \A c \in Chats : Cardinality(messages[c]) \in Nat
  BY FS_CardinalityType DEF PlacesInv
<1>1. ASSUME NEW q \in Questions, run_query(q) \/ FailQuestion(q) \/ AskElsewhere(q)
      PROVE  PlacesInv'
  <2>1. /\ UNCHANGED <<chats, messages, overlapped, position>>
        /\ stage'[q] # "numbered"
        /\ \A p \in Questions \ {q} : stage'[p] = stage[p] /\ chat'[p] = chat[p]
    BY <1>1 DEF run_query, FailQuestion, AskElsewhere, To, ServerTyped
  <2> QED
    BY <2>1, PlacesKept
<1>2. ASSUME NEW q \in Questions, Number(q) PROVE PlacesInv'
  <2>1. /\ UNCHANGED <<chats, messages, overlapped, chat>>
        /\ position'[q] = next_position(chat[q])
        /\ \A p \in Questions \ {q} : stage'[p] = stage[p] /\ position'[p] = position[p]
        /\ chat[q] \in Chats \cup {None}
    BY <1>2 DEF Number, To, ServerTyped
  <2>2. chat[q] = None => position'[q] = 0
    BY <2>1, NextFollows
  <2>3. ASSUME Live(chat[q]), chat[q] \notin overlapped
        PROVE  position'[q] = Cardinality(messages[chat[q]])
    <3> DEFINE c == chat[q]
               n == Cardinality(messages[c])
    <3>1. c \in Chats /\ c # None /\ messages[c] # {}
      BY <2>3, Whole DEF Live
    <3>2. n \in Nat /\ Positions(c) = 0..(n - 1)
      BY <1>0, <2>3, <3>1 DEF PlacesInv, TurnsKeepTheirPlaces
    <3>3. Positions(c) # {}
      BY <3>1 DEF Positions
    <3>4. /\ next_position(c) \in Int /\ next_position(c) - 1 \in Positions(c)
          /\ \A p \in Positions(c) : p < next_position(c)
      BY <3>1, <3>3, NextFollows
    <3> HIDE DEF c, n
    <3>5. n - 1 \in Positions(c)
      BY <3>2, <3>3
    <3>6. next_position(c) = n
      BY <3>2, <3>4, <3>5
    <3> QED
      BY <2>1, <3>6 DEF c, n
  <2>4. \A p \in Questions : NumberedFrom(p)'
    BY <2>1, <2>2, <2>3 DEF PlacesInv, NumberedFrom, Live
  <2> QED
    BY <2>1, <2>4 DEF PlacesInv, TurnsKeepTheirPlaces, Positions
<1>3. ASSUME NEW q \in Questions, CommitTurns(q) PROVE PlacesInv'
  <2>1. PICK c \in Chats : Commits(q, c)
    BY <1>3, Committed
  <2> DEFINE n == Cardinality(messages[c])
             up == [position |-> position[q], role |-> "user", question |-> q]
             down == [position |-> position[q] + 1, role |-> "assistant", question |-> q]
  <2>2. messages'[c] = messages[c] \cup {up, down} /\ up # down
    BY <2>1 DEF Commits, Written, BothTurns
  <2>3. stage[q] = "numbered" /\ n \in Nat /\ position[q] \in Int
    BY <1>0, <2>1 DEF Commits, ServerTyped
  <2>4. up.question = q /\ down.question = q
    OBVIOUS
  <2>5. up \notin messages[c] /\ down \notin messages[c]
    BY <2>3, <2>4, Whole
  <2>6. IsFiniteSet(messages[c] \cup {up, down})
        /\ Cardinality(messages[c] \cup {up, down}) = n + 2
    <3> HIDE DEF up, down
    <3>1. IsFiniteSet(messages[c])
      BY DEF PlacesInv
    <3> QED
      BY <2>2, <2>5, <3>1, TwoMore
  <2>7. ASSUME c \notin overlapped' PROVE Positions(c)' = 0..(n + 1)
    <3>1. c \notin overlapped
      BY <2>1, <2>7 DEF Commits
    <3>2. Positions(c) = 0..(n - 1)
      BY <3>1 DEF PlacesInv, TurnsKeepTheirPlaces
    <3>3. position[q] = n
      <4>1. CASE chat[q] = None
        <5>1. messages[c] = {}
          BY <2>1, <4>1, Whole DEF Commits
        <5>2. n = 0
          BY <5>1, FS_EmptySet
        <5> QED
          BY <2>3, <4>1, <5>2 DEF PlacesInv, NumberedFrom
      <4>2. CASE chat[q] # None
        BY <2>1, <2>3, <3>1, <4>2 DEF Commits, PlacesInv, NumberedFrom
      <4> QED
        BY <4>1, <4>2
    <3>4. Positions(c)' = Positions(c) \cup {n, n + 1}
      <4>1. messages'[c] = messages[c] \cup Written(q)
        BY <2>1 DEF Commits
      <4> QED
        BY <3>3, <4>1, Written2 DEF Positions
    <3> HIDE DEF n
    <3> QED
      BY <2>3, <3>2, <3>4
  <2>8. \A d \in Chats : IsFiniteSet(messages'[d])
    BY <2>1, <2>2, <2>6 DEF Commits, PlacesInv
  <2>9. TurnsKeepTheirPlaces'
    <3>1. c \notin overlapped' => Positions(c)' = 0..(Cardinality(messages'[c]) - 1)
      <4>1. Cardinality(messages'[c]) - 1 = n + 1
        BY <2>2, <2>3, <2>6
      <4> QED
        BY <2>7, <4>1
    <3>2. \A d \in Chats \ overlapped' : d # c =>
            Positions(d)' = 0..(Cardinality(messages'[d]) - 1)
      BY <2>1 DEF Commits, PlacesInv, TurnsKeepTheirPlaces, Positions
    <3> QED
      BY <3>1, <3>2 DEF TurnsKeepTheirPlaces
  <2>10. \A p \in Questions : NumberedFrom(p)'
    BY <2>1 DEF Commits, PlacesInv, NumberedFrom, Live
  <2> QED
    BY <2>8, <2>9, <2>10 DEF PlacesInv
<1>4. ASSUME NEW c \in Chats, delete_chat(c) PROVE PlacesInv'
  <2>1. /\ \A d \in Chats : /\ chats'[d] = IF d = c THEN "deleted" ELSE chats[d]
                            /\ messages'[d] = IF d = c THEN {} ELSE messages[d]
        /\ UNCHANGED <<stage, chat, position, overlapped>>
    BY <1>4 DEF delete_chat, ServerTyped
  <2>2. IsFiniteSet({}) /\ Cardinality({}) = 0
    BY FS_EmptySet
  <2>3. Positions(c)' = 0..(Cardinality(messages'[c]) - 1)
    <3>1. messages'[c] = {}
      BY <2>1
    <3>2. Positions(c)' = {}
      BY <3>1 DEF Positions
    <3>3. 0..(0 - 1) = {}
      OBVIOUS
    <3> QED
      BY <2>2, <3>1, <3>2, <3>3
  <2>4. TurnsKeepTheirPlaces'
    BY <2>1, <2>3 DEF PlacesInv, TurnsKeepTheirPlaces, Positions
  <2>5. \A d \in Chats : IsFiniteSet(messages'[d])
    BY <2>1, <2>2 DEF PlacesInv
  <2>6. \A q \in Questions : NumberedFrom(q)'
    BY <2>1 DEF PlacesInv, NumberedFrom, Live
  <2> QED
    BY <2>4, <2>5, <2>6 DEF PlacesInv
<1>5. ASSUME NEW t \in Tabs, NEW q \in Questions, handleAsk(t, q) PROVE PlacesInv'
  <2>1. /\ UNCHANGED <<chats, messages, overlapped, position>>
        /\ stage'[q] # "numbered"
        /\ \A p \in Questions \ {q} : stage'[p] = stage[p] /\ chat'[p] = chat[p]
    BY <1>5 DEF handleAsk, To, ServerTyped
  <2> QED
    BY <2>1, PlacesKept
<1>6. CASE UNCHANGED server
  BY <1>6, PlacesKept DEF server
<1> QED
  BY <1>1, <1>2, <1>3, <1>4, <1>5, <1>6, ServerMoves

\* Every turn has a position of its own, without a gap, unless two questions
\* were numbered in one conversation at once.
THEOREM TurnsInPlace == Spec => []TurnsKeepTheirPlaces
<1>1. Init => ChatsHoldWholeTurns
  BY DEF Init, ChatsHoldWholeTurns, Live
<1>2. Init => PlacesInv
  <2> SUFFICES ASSUME Init PROVE PlacesInv
    OBVIOUS
  <2>1. \A c \in Chats : messages[c] = {} /\ Positions(c) = {}
    BY DEF Init, Positions
  <2>2. IsFiniteSet({}) /\ Cardinality({}) = 0 /\ 0..(0 - 1) = {}
    BY FS_EmptySet
  <2> QED
    BY <2>1, <2>2 DEF Init, PlacesInv, TurnsKeepTheirPlaces, NumberedFrom
<1>3. PlacesInv => TurnsKeepTheirPlaces
  BY DEF PlacesInv
<1> QED
  BY <1>1, <1>2, <1>3, TypedInit, ServerTypedStep, PageTypedStep, WholeStep, PlacesStep,
     PTL DEF Spec

-----------------------------------------------------------------------------
(* The transcript *)

\* An answered question is in its conversation, while that is there.
AnswersKept ==
    \A q \in Questions : stage[q] = "answered" =>
        /\ chats[chat[q]] # "unused"
        /\ Live(chat[q]) =>
             Line("user", q) \in TurnsOf(chat[q]) /\ Line("assistant", q) \in TurnsOf(chat[q])

\* What a tab has read of a conversation, it still holds.
ReadsHold(t) ==
    /\ active[t] \in Chats => chats[active[t]] # "unused"
    /\ \A c \in Chats : /\ Live(c) => cache[t][c] \subseteq TurnsOf(c)
                        /\ chats[c] = "unused" => cache[t][c] = {}
    /\ \A c \in Chats :
         fetch[t][c].at = "read" => /\ chats[c] # "unused"
                                    /\ Live(c) => /\ cache[t][c] \subseteq fetch[t][c].turns
                                                  /\ fetch[t][c].turns \subseteq TurnsOf(c)

\* The question under way belongs where the tab asked it.
AskedThere(t) ==
    pending[t] # None =>
        /\ stage[pending[t]] # "unasked"
        /\ chat[pending[t]] = askedIn[t] \/ (askedIn[t] = None /\ stage[pending[t]] = "answered")

\* A tab that has not strayed shows the conversation it has open.
Follows(t) ==
    t \notin strayed =>
        /\ pending[t] # None => askedIn[t] = active[t] /\ ~loading[t]
        /\ loading[t] => active[t] # None /\ shown[t] = {}
        /\ Live(active[t]) =>
             /\ opened[t] \subseteq TurnsOf(active[t])
             /\ loading[t] /\ fetch[t][active[t]].at = "read" =>
                  opened[t] \subseteq fetch[t][active[t]].turns
             /\ ~loading[t] => opened[t] \subseteq shown[t]
        /\ active[t] = None => \A m \in shown[t] : m.question \in Unsettled(t)
        /\ Live(active[t]) /\ ~loading[t] =>
             \A m \in shown[t] : m.question \in Unsettled(t) \/ m \in TurnsOf(active[t])

TabInv(t) == ReadsHold(t) /\ AskedThere(t) /\ Follows(t)

TranscriptInv == AnswersKept /\ \A t \in Tabs : TabInv(t)

\* What the server does meanwhile: conversations grow until they are deleted,
\* and a question stays where it was asked.
Grows ==
    /\ \A c \in Chats : /\ chats[c] # "unused" => chats'[c] # "unused"
                        /\ chats'[c] = "live" =>
                             \/ chats[c] = "unused"
                             \/ chats[c] = "live" /\ messages[c] \subseteq messages'[c]
    /\ \A q \in Questions : stage[q] # "unasked" =>
         /\ stage'[q] # "unasked"
         /\ chat'[q] = chat[q] \/ (chat[q] = None /\ stage'[q] = "answered")
         /\ stage[q] = "answered" => stage'[q] = "answered" /\ chat'[q] = chat[q]

SameTab(t) ==
    /\ active'[t] = active[t] /\ loading'[t] = loading[t] /\ shown'[t] = shown[t]
    /\ pending'[t] = pending[t] /\ askedIn'[t] = askedIn[t] /\ opened'[t] = opened[t]
    /\ \A c \in Chats : /\ fetch'[t][c] \in {fetch[t][c], NoFetch}
                        /\ cache'[t][c] \in {cache[t][c], {}}
    /\ t \in strayed' <=> t \in strayed

LEMMA TurnsGrow ==
    ASSUME Grows, NEW c \in Chats, chats[c] # "unused", Live(c)'
    PROVE  Live(c) /\ TurnsOf(c) \subseteq TurnsOf(c)'
  BY DEF Grows, Live, TurnsOf

LEMMA TabKept ==
    ASSUME ServerTyped, PageTyped, Grows, NEW t \in Tabs, TabInv(t), SameTab(t)
    PROVE  TabInv(t)'
<1>1. ReadsHold(t)'
  <2>1. active[t] \in Chats => chats'[active[t]] # "unused"
    BY DEF TabInv, ReadsHold, Grows
  <2>2. ASSUME NEW c \in Chats
        PROVE  /\ Live(c)' => cache'[t][c] \subseteq TurnsOf(c)'
               /\ chats'[c] = "unused" => cache'[t][c] = {}
    <3>1. CASE chats[c] = "unused"
      BY <3>1 DEF TabInv, ReadsHold, SameTab
    <3>2. CASE chats[c] # "unused"
      BY <3>2, TurnsGrow DEF TabInv, ReadsHold, Grows, SameTab
    <3> QED
      BY <3>1, <3>2
  <2>3. ASSUME NEW c \in Chats, fetch'[t][c].at = "read"
        PROVE  /\ chats'[c] # "unused"
               /\ Live(c)' => /\ cache'[t][c] \subseteq fetch'[t][c].turns
                              /\ fetch'[t][c].turns \subseteq TurnsOf(c)'
    <3>1. fetch'[t][c] = fetch[t][c]
      BY <2>3 DEF SameTab, NoFetch
    <3>2. chats[c] # "unused" /\ chats'[c] # "unused"
      BY <2>3, <3>1 DEF TabInv, ReadsHold, Grows
    <3>3. Live(c)' => Live(c) /\ TurnsOf(c) \subseteq TurnsOf(c)'
      BY <3>2, TurnsGrow
    <3> QED
      BY <2>3, <3>1, <3>2, <3>3 DEF TabInv, ReadsHold, SameTab
  <2> QED
    BY <2>1, <2>2, <2>3 DEF SameTab, ReadsHold
<1>2. AskedThere(t)'
  <2>1. pending[t] # None => pending[t] \in Questions
    BY DEF PageTyped
  <2> QED
    BY <2>1 DEF TabInv, AskedThere, Grows, SameTab
<1>3. Follows(t)'
  <2>1. Live(active[t])' =>
          /\ Live(active[t])
          /\ \A m : m \in TurnsOf(active[t]) => m \in TurnsOf(active[t])'
    <3>1. ASSUME Live(active[t])'
          PROVE  Live(active[t]) /\ \A m : m \in TurnsOf(active[t]) => m \in TurnsOf(active[t])'
      <4>1. PICK c \in Chats : c = active[t]
        BY <3>1 DEF SameTab, Live
      <4>2. active'[t] = c
        BY <4>1 DEF SameTab
      <4>3. Live(c)' /\ chats[c] # "unused"
        BY <3>1, <4>1, <4>2 DEF TabInv, ReadsHold, Live
      <4>4. Live(c) /\ TurnsOf(c) \subseteq TurnsOf(c)'
        BY <4>3, TurnsGrow
      <4> QED
        BY <4>1, <4>2, <4>4 DEF TurnsOf
    <3> QED
      BY <3>1
  <2>2. Unsettled(t)' = Unsettled(t)
    BY DEF SameTab, Unsettled, Line
  <2>3. ASSUME Live(active[t])', fetch'[t][active[t]].at = "read"
        PROVE  fetch'[t][active[t]] = fetch[t][active[t]]
    BY <2>3 DEF SameTab, NoFetch, Live
  <2> QED
    BY <2>1, <2>2, <2>3 DEF TabInv, Follows, SameTab
<1> QED
  BY <1>1, <1>2, <1>3 DEF TabInv

LEMMA GrowsStep == ServerTyped /\ [Next]_vars => Grows
<1> SUFFICES ASSUME ServerTyped, [Next]_vars PROVE Grows
  OBVIOUS
<1>1. ASSUME NEW q \in Questions, run_query(q) \/ Number(q) \/ FailQuestion(q) \/ AskElsewhere(q)
      PROVE  Grows
  <2>1. /\ UNCHANGED <<chats, messages>>
        /\ \A p \in Questions \ {q} : stage'[p] = stage[p] /\ chat'[p] = chat[p]
        /\ \/ stage[q] = "unasked"
           \/ stage[q] # "answered" /\ chat'[q] = chat[q] /\ stage'[q] # "unasked"
    BY <1>1 DEF run_query, Number, FailQuestion, AskElsewhere, To, ServerTyped
  <2> QED
    BY <2>1 DEF Grows, ServerTyped
<1>2. ASSUME NEW q \in Questions, CommitTurns(q) PROVE Grows
  <2>1. PICK c \in Chats : Commits(q, c)
    BY <1>2, Committed
  <2> QED
    BY <2>1 DEF Commits, Grows, Live
<1>3. ASSUME NEW c \in Chats, delete_chat(c) PROVE Grows
  BY <1>3 DEF delete_chat, ServerTyped, Grows
<1>4. ASSUME NEW t \in Tabs, NEW q \in Questions, handleAsk(t, q) PROVE Grows
  <2>1. /\ UNCHANGED <<chats, messages>> /\ stage[q] = "unasked"
        /\ \A p \in Questions \ {q} : stage'[p] = stage[p] /\ chat'[p] = chat[p]
    BY <1>4 DEF handleAsk, To, ServerTyped
  <2> QED
    BY <2>1 DEF Grows, ServerTyped
<1>5. CASE UNCHANGED server
  BY <1>5 DEF server, Grows, ServerTyped
<1> QED
  BY <1>1, <1>2, <1>3, <1>4, <1>5, ServerMoves

\* Nobody's question is answered but by a commit, which writes both its turns.
LEMMA AnswersGrow ==
    ASSUME ServerTyped, AnswersKept, Grows,
           \A q \in Questions : stage'[q] = "answered" => stage[q] = "answered"
    PROVE  AnswersKept'
<1> SUFFICES ASSUME NEW q \in Questions, stage'[q] = "answered"
             PROVE  /\ chats'[chat'[q]] # "unused"
                    /\ Live(chat[q])' => /\ Line("user", q) \in TurnsOf(chat[q])'
                                         /\ Line("assistant", q) \in TurnsOf(chat[q])'
  BY DEF AnswersKept, Line
<1>1. stage[q] = "answered" /\ chat'[q] = chat[q]
  BY DEF Grows
<1>2. PICK c \in Chats : c = chat[q]
  BY <1>1 DEF ServerTyped
<1>3. chats[c] # "unused" /\ chats'[c] # "unused"
  BY <1>1, <1>2 DEF AnswersKept, Grows
<1>4. Live(c)' => Live(c) /\ TurnsOf(c) \subseteq TurnsOf(c)'
  BY <1>3, TurnsGrow
<1>5. Live(c)' => Line("user", q) \in TurnsOf(c)' /\ Line("assistant", q) \in TurnsOf(c)'
  BY <1>1, <1>2, <1>4 DEF AnswersKept
<1> QED
  BY <1>1, <1>2, <1>3, <1>5 DEF TurnsOf, Live

LEMMA AnswersStep == ServerTyped /\ AnswersKept /\ Grows /\ [Next]_vars => AnswersKept'
<1> SUFFICES ASSUME ServerTyped, AnswersKept, Grows, [Next]_vars PROVE AnswersKept'
  OBVIOUS
<1>1. ASSUME NEW q \in Questions, run_query(q) \/ Number(q) \/ FailQuestion(q) \/ AskElsewhere(q)
      PROVE  AnswersKept'
  BY <1>1, AnswersGrow DEF run_query, Number, FailQuestion, AskElsewhere, To, ServerTyped
<1>2. ASSUME NEW q \in Questions, CommitTurns(q) PROVE AnswersKept'
  <2>1. PICK c \in Chats : Commits(q, c)
    BY <1>2, Committed
  <2>2. \A p \in Questions \ {q} : stage'[p] = stage[p] /\ chat'[p] = chat[p]
    BY <2>1 DEF Commits
  <2>3. /\ chat'[q] = c /\ chats'[c] = "live"
        /\ Line("user", q) \in TurnsOf(c)' /\ Line("assistant", q) \in TurnsOf(c)'
    <3>1. PICK up, down \in messages'[c] :
            up.question = q /\ up.role = "user" /\ down.question = q /\ down.role = "assistant"
      BY <2>1, Written2 DEF Commits
    <3>2. /\ [role |-> "user", question |-> q] \in TurnsOf(c)'
          /\ [role |-> "assistant", question |-> q] \in TurnsOf(c)'
      BY <3>1 DEF TurnsOf
    <3> QED
      BY <2>1, <3>2 DEF Commits, Line
  <2>4. ASSUME NEW p \in Questions \ {q}, stage'[p] = "answered"
        PROVE  /\ chats'[chat'[p]] # "unused"
               /\ Live(chat[p])' => /\ Line("user", p) \in TurnsOf(chat[p])'
                                    /\ Line("assistant", p) \in TurnsOf(chat[p])'
    <3>1. stage[p] = "answered" /\ chat'[p] = chat[p]
      BY <2>2, <2>4
    <3>2. PICK d \in Chats : d = chat[p]
      BY <3>1 DEF ServerTyped
    <3>3. chats[d] # "unused" /\ chats'[d] # "unused"
      BY <3>1, <3>2 DEF AnswersKept, Grows
    <3>4. Live(d)' => Live(d) /\ TurnsOf(d) \subseteq TurnsOf(d)'
      BY <3>3, TurnsGrow
    <3>5. Live(d)' => Line("user", p) \in TurnsOf(d)' /\ Line("assistant", p) \in TurnsOf(d)'
      BY <3>1, <3>2, <3>4 DEF AnswersKept
    <3> QED
      BY <3>1, <3>2, <3>3, <3>5 DEF TurnsOf, Live
  <2> QED
    BY <2>3, <2>4 DEF AnswersKept, Line, TurnsOf, Live
<1>3. ASSUME NEW c \in Chats, delete_chat(c) PROVE AnswersKept'
  BY <1>3, AnswersGrow DEF delete_chat
<1>4. ASSUME NEW t \in Tabs, NEW q \in Questions, handleAsk(t, q) PROVE AnswersKept'
  BY <1>4, AnswersGrow DEF handleAsk, To, ServerTyped
<1>5. CASE UNCHANGED server
  BY <1>5, AnswersGrow DEF server
<1> QED
  BY <1>1, <1>2, <1>3, <1>4, <1>5, ServerMoves

\* The conversation a tab has open, after a step that leaves the tables alone.
LEMMA StillOpen ==
    ASSUME UNCHANGED <<chats, messages>>, NEW t \in Tabs, active'[t] = active[t]
    PROVE  /\ Live(active[t])' <=> Live(active[t])
           /\ TurnsOf(active[t])' = TurnsOf(active[t])
  BY DEF Live, TurnsOf

LEMMA NowOpen ==
    ASSUME UNCHANGED <<chats, messages>>, NEW t \in Tabs, NEW c, active'[t] = c
    PROVE  /\ Live(active[t])' <=> Live(c)
           /\ TurnsOf(active[t])' = TurnsOf(c)
  BY DEF Live, TurnsOf

LEMMA OneTab ==
    ASSUME ServerTyped, PageTyped, Grows, \A u \in Tabs : TabInv(u),
           NEW t \in Tabs, \A u \in Tabs \ {t} : SameTab(u), TabInv(t)'
    PROVE  \A u \in Tabs : TabInv(u)'
  BY TabKept

LEMMA AskStep ==
    ASSUME ServerTyped, PageTyped, NEW t \in Tabs, TabInv(t), NEW q \in Questions,
           handleAsk(t, q)
    PROVE  TabInv(t)' /\ \A u \in Tabs \ {t} : SameTab(u)
<1> USE ChatsAssumption
<1>1. /\ UNCHANGED <<chats, messages>>
      /\ active'[t] = active[t] /\ loading'[t] = loading[t] /\ fetch'[t] = fetch[t]
      /\ cache'[t] = cache[t] /\ opened'[t] = opened[t]
      /\ shown'[t] = shown[t] \cup {Line("user", q)}
      /\ pending'[t] = q /\ askedIn'[t] = active[t] /\ chat'[q] = active[t]
      /\ stage'[q] = "sent" /\ pending[t] = None
      /\ t \in strayed' <=> t \in strayed \/ loading[t]
      /\ q # None
  BY DEF handleAsk, To, ServerTyped, PageTyped
<1>2. \A u \in Tabs \ {t} : SameTab(u)
  BY DEF handleAsk, PageTyped, SameTab
<1>3. /\ Live(active[t])' <=> Live(active[t])
      /\ TurnsOf(active[t])' = TurnsOf(active[t])
  BY <1>1, StillOpen
<1>4. ReadsHold(t)'
  BY <1>1, <1>3 DEF TabInv, ReadsHold, Live, TurnsOf
<1>5. AskedThere(t)'
  BY <1>1 DEF AskedThere
<1>6. Unsettled(t) \subseteq Unsettled(t)' /\ q \in Unsettled(t)' /\ Line("user", q).question = q
  BY <1>1 DEF Unsettled, Line
<1>7. Follows(t)'
  BY <1>1, <1>3, <1>6 DEF TabInv, Follows
<1> QED
  BY <1>2, <1>4, <1>5, <1>7 DEF TabInv

LEMMA SelectStep ==
    ASSUME ServerTyped, PageTyped, NEW t \in Tabs, TabInv(t), NEW c \in Chats,
           selectChat(t, c)
    PROVE  TabInv(t)' /\ \A u \in Tabs \ {t} : SameTab(u)
<1> USE ChatsAssumption
<1>1. /\ UNCHANGED <<chats, messages, stage, chat>>
      /\ chats[c] # "unused"
      /\ active'[t] = c /\ loading'[t] /\ shown'[t] = {}
      /\ \A d \in Chats \ {c} : fetch'[t][d] = fetch[t][d]
      /\ fetch'[t][c] = Joined(t, c) /\ cache' = cache /\ opened'[t] = TurnsOf(c)
      /\ pending' = pending /\ askedIn' = askedIn
      /\ t \notin strayed' => pending[t] = None /\ ~Behind(t, c, Joined(t, c))
      /\ c # None
  <2>1. Joined(t, c).at # "none"
    BY DEF Joined, Sent
  <2> QED
    BY <2>1 DEF selectChat, Load, Seeds, StrayIf, PageTyped, server
<1>2. \A u \in Tabs \ {t} : SameTab(u)
  BY DEF selectChat, Load, StrayIf, PageTyped, SameTab
<1>3. /\ Live(active[t])' <=> Live(c)
      /\ TurnsOf(active[t])' = TurnsOf(c)
  BY <1>1, NowOpen
<1>a. fetch'[t][c].at = "read" => fetch'[t][c] = fetch[t][c]
  BY <1>1 DEF Joined, Sent
<1>4. ReadsHold(t)'
  <2>1. \A d \in Chats : fetch'[t][d].at = "read" => fetch'[t][d] = fetch[t][d]
    BY <1>1, <1>a
  <2> QED
    BY <1>1, <2>1 DEF TabInv, ReadsHold, Live, TurnsOf
<1>5. AskedThere(t)'
  BY <1>1 DEF TabInv, AskedThere
<1>b. t \notin strayed' /\ fetch'[t][c].at = "read" => opened'[t] = fetch'[t][c].turns
  BY <1>1 DEF Behind
<1>6. Follows(t)'
  BY <1>1, <1>3, <1>b DEF Follows
<1> QED
  BY <1>2, <1>4, <1>5, <1>6 DEF TabInv

LEMMA ReselectStep ==
    ASSUME ServerTyped, PageTyped, NEW t \in Tabs, TabInv(t), reselectChat(t)
    PROVE  TabInv(t)' /\ \A u \in Tabs \ {t} : SameTab(u)
<1> DEFINE c == active[t]
           known == cache[t][c]
<1>1. /\ UNCHANGED <<chats, messages, stage, chat, active, pending, askedIn, cache>>
      /\ c # None /\ c \in Chats
      /\ \A d \in Chats : fetch'[t][d] = fetch[t][d]
      /\ opened'[t] = TurnsOf(c)
      /\ \/ ~loading'[t] /\ shown'[t] = known /\ fetch[t][c].at = "none"
         \/ loading'[t] /\ shown'[t] = {}
      /\ t \notin strayed' => pending[t] = None /\ ~Behind(t, c, fetch[t][c])
  BY DEF reselectChat, Load, Seeds, StrayIf, PageTyped, server
<1>2. \A u \in Tabs \ {t} : SameTab(u)
  BY DEF reselectChat, Load, StrayIf, PageTyped, SameTab
<1>3. /\ Live(active[t])' <=> Live(c)
      /\ TurnsOf(active[t])' = TurnsOf(c)
  BY <1>1, StillOpen
<1>4. ReadsHold(t)'
  BY <1>1 DEF TabInv, ReadsHold, Live, TurnsOf
<1>5. AskedThere(t)'
  BY <1>1 DEF TabInv, AskedThere
<1>6. t \notin strayed' => /\ ~loading'[t] => known = TurnsOf(c)
                           /\ fetch[t][c].at = "read" => fetch[t][c].turns = TurnsOf(c)
  <2> HIDE DEF known
  <2> QED
    BY <1>1 DEF Behind, known
<1>7. Follows(t)'
  <2> HIDE DEF known
  <2> QED
    BY <1>1, <1>3, <1>6 DEF Follows
<1> QED
  BY <1>2, <1>4, <1>5, <1>7 DEF TabInv

\* Everything a tab showed is put away.
LEMMA DraftStep ==
    ASSUME ServerTyped, PageTyped, NEW t \in Tabs, TabInv(t), Grows, Draft(t),
           \A c \in Chats :
             \/ cache'[t][c] = cache[t][c] /\ fetch'[t][c] = fetch[t][c]
             \/ cache'[t][c] = {} /\ fetch'[t][c] = NoFetch,
           pending'[t] \in {pending[t], None}, askedIn'[t] = askedIn[t] \/ pending'[t] = None,
           t \notin strayed' => pending'[t] = None
    PROVE  TabInv(t)'
<1> USE ChatsAssumption
<1>1. /\ active'[t] = None /\ ~loading'[t] /\ shown'[t] = {}
      /\ opened'[t] = {} /\ None \notin Chats
  BY DEF Draft, PageTyped
<1>2. ~Live(active[t])'
  BY <1>1 DEF Live
<1>3. \A c \in Chats : /\ Live(c)' => cache'[t][c] \subseteq TurnsOf(c)'
                       /\ chats'[c] = "unused" => cache'[t][c] = {}
  <2> SUFFICES ASSUME NEW c \in Chats
               PROVE  /\ Live(c)' => cache'[t][c] \subseteq TurnsOf(c)'
                      /\ chats'[c] = "unused" => cache'[t][c] = {}
    OBVIOUS
  <2>1. CASE chats[c] = "unused"
    BY <2>1 DEF TabInv, ReadsHold
  <2>2. CASE chats[c] # "unused"
    BY <2>2, TurnsGrow DEF TabInv, ReadsHold, Grows
  <2> QED
    BY <2>1, <2>2
<1>a. ASSUME NEW c \in Chats, fetch'[t][c].at = "read"
      PROVE  /\ chats'[c] # "unused"
             /\ Live(c)' => /\ cache'[t][c] \subseteq fetch'[t][c].turns
                            /\ fetch'[t][c].turns \subseteq TurnsOf(c)'
  <2>1. fetch'[t][c] = fetch[t][c] /\ cache'[t][c] = cache[t][c]
    BY <1>a DEF NoFetch
  <2>2. chats[c] # "unused" /\ chats'[c] # "unused"
    BY <1>a, <2>1 DEF TabInv, ReadsHold, Grows
  <2>3. Live(c)' => Live(c) /\ TurnsOf(c) \subseteq TurnsOf(c)'
    BY <2>2, TurnsGrow
  <2> QED
    BY <1>a, <2>1, <2>2, <2>3 DEF TabInv, ReadsHold
<1>4. ReadsHold(t)'
  BY <1>1, <1>3, <1>a DEF ReadsHold
<1>5. AskedThere(t)'
  <2>1. pending[t] # None => pending[t] \in Questions
    BY DEF PageTyped
  <2> QED
    BY <2>1 DEF TabInv, AskedThere, Grows
<1>6. Follows(t)'
  BY <1>1, <1>2 DEF Follows
<1> QED
  BY <1>4, <1>5, <1>6 DEF TabInv

LEMMA FetchReadsStep ==
    ASSUME ServerTyped, PageTyped, NEW t \in Tabs, TabInv(t), NEW c \in Chats,
           FetchReads(t, c)
    PROVE  TabInv(t)' /\ \A u \in Tabs \ {t} : SameTab(u)
<1>1. /\ UNCHANGED <<chats, messages, stage, chat, active, loading, shown, pending,
                     askedIn, cache, opened, strayed>>
      /\ \A d \in Chats : fetch'[t][d] = IF d = c THEN [at |-> "read", turns |-> TurnsOf(c)]
                                       ELSE fetch[t][d]
      /\ Live(c)
  BY DEF FetchReads, Live, PageTyped, server
<1>2. \A u \in Tabs \ {t} : SameTab(u)
  BY DEF FetchReads, PageTyped, SameTab
<1>3. /\ Live(active[t])' <=> Live(active[t])
      /\ TurnsOf(active[t])' = TurnsOf(active[t])
  BY <1>1, StillOpen
<1>4. cache[t][c] \subseteq TurnsOf(c) /\ chats[c] # "unused"
  BY <1>1 DEF TabInv, ReadsHold, Live
<1>5. /\ fetch'[t][c].at = "read" /\ fetch'[t][c].turns = TurnsOf(c)
      /\ \A d \in Chats \ {c} : fetch'[t][d] = fetch[t][d]
  BY <1>1
<1>6. ReadsHold(t)'
  <2>1. \A d \in Chats : TurnsOf(d)' = TurnsOf(d) /\ (Live(d)' <=> Live(d))
    BY <1>1 DEF TurnsOf, Live
  <2>2. \A d \in Chats : /\ Live(d) => cache[t][d] \subseteq TurnsOf(d)
                         /\ chats[d] = "unused" => cache[t][d] = {}
    BY DEF TabInv, ReadsHold
  <2>3. ASSUME NEW d \in Chats, fetch'[t][d].at = "read"
        PROVE  /\ chats[d] # "unused"
               /\ Live(d) => /\ cache[t][d] \subseteq fetch'[t][d].turns
                             /\ fetch'[t][d].turns \subseteq TurnsOf(d)
    <3>1. CASE d = c
      BY <1>4, <1>5, <3>1
    <3>2. CASE d # c
      BY <1>5, <2>3, <3>2 DEF TabInv, ReadsHold
    <3> QED
      BY <3>1, <3>2
  <2>4. active[t] \in Chats => chats[active[t]] # "unused"
    BY DEF TabInv, ReadsHold
  <2> QED
    BY <1>1, <2>1, <2>2, <2>3, <2>4 DEF ReadsHold
<1>7. AskedThere(t)'
  BY <1>1 DEF TabInv, AskedThere
<1>8. Unsettled(t)' = Unsettled(t)
  BY <1>1 DEF Unsettled, Line
<1>9. Follows(t)'
  <2>1. active[t] # c /\ active[t] \in Chats => fetch'[t][active[t]] = fetch[t][active[t]]
    BY <1>5
  <2>2. Live(active[t]) => active[t] \in Chats
    BY DEF Live
  <2> QED
    BY <1>1, <1>3, <1>5, <1>8, <2>1, <2>2 DEF TabInv, Follows
<1> QED
  BY <1>2, <1>6, <1>7, <1>9 DEF TabInv

LEMMA FetchSettlesStep ==
    ASSUME ServerTyped, PageTyped, NEW t \in Tabs, TabInv(t), NEW c \in Chats,
           FetchSettles(t, c)
    PROVE  TabInv(t)' /\ \A u \in Tabs \ {t} : SameTab(u)
<1> DEFINE turns == fetch[t][c].turns
<1>1. /\ UNCHANGED <<chats, messages, stage, chat, active, pending, askedIn, opened, strayed>>
      /\ fetch[t][c].at = "read" /\ fetch'[t][c] = NoFetch
      /\ \A d \in Chats \ {c} : fetch'[t][d] = fetch[t][d]
      /\ \A d \in Chats : cache'[t][d] = IF d = c THEN turns ELSE cache[t][d]
      /\ \/ loading[t] /\ active[t] = c /\ ~loading'[t] /\ shown'[t] = turns
         \/ loading'[t] = loading[t] /\ shown'[t] = shown[t]
  BY DEF FetchSettles, PageTyped, server, Seeds, Awaits
<1>2. \A u \in Tabs \ {t} : SameTab(u)
  BY DEF FetchSettles, PageTyped, SameTab
<1>3. /\ Live(active[t])' <=> Live(active[t])
      /\ TurnsOf(active[t])' = TurnsOf(active[t])
  BY <1>1, StillOpen
<1> HIDE DEF turns
<1>4. chats[c] # "unused" /\ (Live(c) => turns \subseteq TurnsOf(c))
  BY <1>1 DEF TabInv, ReadsHold, turns
<1>5. \A d \in Chats : /\ Live(d)' => cache'[t][d] \subseteq TurnsOf(d)'
                       /\ chats'[d] = "unused" => cache'[t][d] = {}
  BY <1>1, <1>4 DEF TabInv, ReadsHold, Live, TurnsOf
<1>a. \A d \in Chats : fetch'[t][d].at = "read" => d # c /\ fetch'[t][d] = fetch[t][d]
  BY <1>1 DEF NoFetch
<1>6. ReadsHold(t)'
  BY <1>1, <1>5, <1>a DEF TabInv, ReadsHold, Live, TurnsOf
<1>7. AskedThere(t)'
  BY <1>1 DEF TabInv, AskedThere
<1>8. Follows(t)'
  <2>1. CASE loading'[t] = loading[t] /\ shown'[t] = shown[t]
    <3>1. Unsettled(t)' = Unsettled(t)
      BY <1>1, <2>1 DEF Unsettled, Line
    <3>2. Live(active[t]) => active[t] \in Chats
      BY DEF Live
    <3> QED
      BY <1>1, <1>3, <1>a, <2>1, <3>1, <3>2 DEF TabInv, Follows
  <2>2. CASE loading[t] /\ active[t] = c /\ ~loading'[t] /\ shown'[t] = turns
    <3>1. t \notin strayed /\ Live(c) => opened[t] \subseteq turns
      BY <1>1, <2>2 DEF TabInv, Follows, turns
    <3> QED
      BY <1>1, <1>3, <1>4, <2>2, <3>1 DEF TabInv, Follows
  <2> QED
    BY <1>1, <2>1, <2>2
<1> QED
  BY <1>2, <1>6, <1>7, <1>8 DEF TabInv

LEMMA FetchFailsStep ==
    ASSUME ServerTyped, PageTyped, NEW t \in Tabs, TabInv(t), NEW c \in Chats,
           FetchFails(t, c)
    PROVE  TabInv(t)' /\ \A u \in Tabs \ {t} : SameTab(u)
<1>1. /\ UNCHANGED <<chats, messages, stage, chat, active, pending, askedIn, cache, opened>>
      /\ \A d \in Chats : fetch'[t][d] = IF d = c THEN NoFetch ELSE fetch[t][d]
      /\ t \notin strayed' =>
           t \notin strayed /\ loading'[t] = loading[t] /\ shown'[t] = shown[t]
  BY DEF FetchFails, PageTyped, server
<1>2. \A u \in Tabs \ {t} : SameTab(u)
  BY DEF FetchFails, PageTyped, SameTab
<1>3. /\ Live(active[t])' <=> Live(active[t])
      /\ TurnsOf(active[t])' = TurnsOf(active[t])
  BY <1>1, StillOpen
<1>a. \A d \in Chats : fetch'[t][d].at = "read" => fetch'[t][d] = fetch[t][d]
  BY <1>1 DEF NoFetch
<1>4. ReadsHold(t)'
  BY <1>1, <1>a DEF TabInv, ReadsHold, Live, TurnsOf
<1>5. AskedThere(t)'
  BY <1>1 DEF TabInv, AskedThere
<1>6. t \notin strayed' => Unsettled(t)' = Unsettled(t)
  BY <1>1 DEF Unsettled, Line
<1>7. Follows(t)'
  <2>1. Live(active[t]) => active[t] \in Chats
    BY DEF Live
  <2> QED
    BY <1>1, <1>3, <1>6, <1>a, <2>1 DEF TabInv, Follows
<1> QED
  BY <1>2, <1>4, <1>5, <1>7 DEF TabInv

LEMMA ErrorStep ==
    ASSUME ServerTyped, PageTyped, NEW t \in Tabs, TabInv(t), onError(t)
    PROVE  TabInv(t)' /\ \A u \in Tabs \ {t} : SameTab(u)
<1> DEFINE q == pending[t]
<1>0. q # None /\ q \in Questions
  BY DEF onError, PageTyped
<1>1. /\ UNCHANGED <<chats, messages, stage, chat, active, loading, fetch, cache, opened, strayed>>
      /\ shown'[t] = shown[t] \cup {Line("error", q)}
      /\ pending'[t] = None
  BY DEF onError, PageTyped, server
<1>2. \A u \in Tabs \ {t} : SameTab(u)
  BY DEF onError, PageTyped, SameTab
<1>3. /\ Live(active[t])' <=> Live(active[t])
      /\ TurnsOf(active[t])' = TurnsOf(active[t])
  BY <1>1, StillOpen
<1>4. ReadsHold(t)'
  BY <1>1 DEF TabInv, ReadsHold, Live, TurnsOf
<1>5. AskedThere(t)'
  BY <1>1 DEF AskedThere
<1>6. Unsettled(t) \subseteq Unsettled(t)' /\ q \in Unsettled(t)'
      /\ Line("error", q).question = q
  BY <1>0, <1>1 DEF Unsettled, Line
<1>7. Follows(t)'
  <2> HIDE DEF q
  <2>1. q = pending[t]
    BY DEF q
  <2> QED
    BY <1>0, <1>1, <1>3, <1>6, <2>1 DEF TabInv, Follows
<1> QED
  BY <1>2, <1>4, <1>5, <1>7 DEF TabInv

LEMMA SuccessStep ==
    ASSUME ServerTyped, PageTyped, AnswersKept, NEW t \in Tabs, TabInv(t), onSuccess(t)
    PROVE  TabInv(t)' /\ \A u \in Tabs \ {t} : SameTab(u)
<1> USE ChatsAssumption
<1>0. PICK q \in Questions : q = pending[t] /\ q # None /\ stage[q] = "answered"
  BY DEF onSuccess, PageTyped
<1>a. PICK c \in Chats : c = chat[q]
  BY <1>0 DEF ServerTyped
<1>1. /\ UNCHANGED <<chats, messages, stage, chat, cache, strayed>>
      /\ shown'[t] = shown[t] \cup {Line("assistant", q)}
      /\ pending'[t] = None
      /\ \/ c # askedIn[t] /\ active'[t] = c /\ ~loading'[t] /\ opened'[t] = {}
         \/ c = askedIn[t] /\ active'[t] = active[t] /\ loading'[t] = loading[t]
            /\ opened'[t] = opened[t]
      /\ \A d \in Chats : fetch'[t][d] = fetch[t][d] \/ fetch'[t][d] = Sent
  BY <1>0, <1>a DEF onSuccess, PageTyped, server, Invalidated, Joined
<1>2. \A u \in Tabs \ {t} : SameTab(u)
  BY DEF onSuccess, PageTyped, SameTab
<1>3. /\ chats[c] # "unused" /\ c # None
      /\ Live(c) => Line("user", q) \in TurnsOf(c) /\ Line("assistant", q) \in TurnsOf(c)
  BY <1>0, <1>a DEF AnswersKept
<1>4. AskedThere(t)'
  BY <1>1 DEF AskedThere
<1>5. \A x \in Questions \ {q} : x \in Unsettled(t) => x \in Unsettled(t)'
  BY <1>0, <1>1 DEF Unsettled
<1>6. \A d \in Chats : /\ Live(d)' => cache'[t][d] \subseteq TurnsOf(d)'
                       /\ chats'[d] = "unused" => cache'[t][d] = {}
  BY <1>1 DEF TabInv, ReadsHold, Live, TurnsOf
<1>b. \A d \in Chats : fetch'[t][d].at = "read" => fetch'[t][d] = fetch[t][d]
  BY <1>1 DEF Sent
<1>c. \A d \in Chats :
        fetch'[t][d].at = "read" =>
          /\ chats'[d] # "unused"
          /\ Live(d)' => /\ cache'[t][d] \subseteq fetch'[t][d].turns
                         /\ fetch'[t][d].turns \subseteq TurnsOf(d)'
  BY <1>1, <1>b DEF TabInv, ReadsHold, Live, TurnsOf
\* The lines of the question answered are in its conversation now.
<1>7. ASSUME NEW m \in shown'[t], m.question = q, Live(c)
      PROVE  q \in Unsettled(t)' \/ m \in TurnsOf(c)
  <2>1. m \in Shown
    <3>1. Line("assistant", q) \in Shown
      BY DEF Line, Shown, CHAT_ROLES
    <3>2. shown[t] \subseteq Shown
      BY DEF PageTyped
    <3> QED
      BY <1>1, <1>7, <3>1, <3>2
  <2>2. m = Line(m.role, q) /\ m.role \in {"user", "assistant", "error"}
    BY <1>7, <2>1 DEF Shown, Line, CHAT_ROLES
  <2>3. m = Line("error", q) => q \in Unsettled(t)'
    BY <1>7 DEF Unsettled
  <2> QED
    BY <1>3, <1>7, <2>2, <2>3
<1>8. \A m \in shown'[t] : m.question \in Questions
  <2>1. shown[t] \subseteq Shown /\ Line("assistant", q) \in Shown
    BY DEF PageTyped, Line, Shown, CHAT_ROLES
  <2> QED
    BY <1>1, <2>1 DEF Shown
<1>9. CASE c # askedIn[t]
  <2>1. /\ active'[t] = c /\ ~loading'[t] /\ opened'[t] = {}
        /\ askedIn[t] = None
    BY <1>0, <1>1, <1>9, <1>a DEF TabInv, AskedThere
  <2>2. /\ Live(active[t])' <=> Live(c)
        /\ TurnsOf(active[t])' = TurnsOf(c)
    BY <1>1, <2>1, NowOpen
  <2>3. ReadsHold(t)'
    BY <1>1, <1>3, <1>6, <1>c, <2>1 DEF ReadsHold
  <2>4. t \notin strayed => \A m \in shown[t] : m.question \in Unsettled(t)
    BY <1>0, <2>1 DEF TabInv, Follows
  <2>5. Line("assistant", q).question = q
    BY DEF Line
  <2>6. t \notin strayed /\ Live(c) =>
          \A m \in shown'[t] : m.question \in Unsettled(t)' \/ m \in TurnsOf(c)
    BY <1>1, <1>5, <1>7, <1>8, <2>4, <2>5
  <2>7. Follows(t)'
    BY <1>1, <1>3, <2>1, <2>2, <2>6 DEF Follows
  <2> QED
    BY <1>2, <1>4, <2>3, <2>7 DEF TabInv
<1>10. CASE c = askedIn[t]
  <2>1. /\ active'[t] = active[t] /\ loading'[t] = loading[t] /\ opened'[t] = opened[t]
    BY <1>1, <1>10
  <2>2. /\ Live(active[t])' <=> Live(active[t])
        /\ TurnsOf(active[t])' = TurnsOf(active[t])
    BY <1>1, <2>1, StillOpen
  <2>3. ReadsHold(t)'
    BY <1>1, <1>6, <1>c, <2>1, <2>2 DEF TabInv, ReadsHold
  <2>4. t \notin strayed => active[t] = c /\ ~loading[t]
    BY <1>0, <1>10 DEF TabInv, Follows
  <2>5. Line("assistant", q).question = q
    BY DEF Line
  <2>6. t \notin strayed /\ Live(c) =>
          \A m \in shown'[t] : m.question \in Unsettled(t)' \/ m \in TurnsOf(c)
    <3>1. t \notin strayed /\ Live(c) =>
            \A m \in shown[t] : m.question \in Unsettled(t) \/ m \in TurnsOf(c)
      BY <2>4 DEF TabInv, Follows
    <3> QED
      BY <1>1, <1>5, <1>7, <1>8, <2>5, <3>1
  <2>7. Follows(t)'
    BY <1>1, <1>3, <2>1, <2>2, <2>4, <2>6 DEF TabInv, Follows
  <2> QED
    BY <1>2, <1>4, <2>3, <2>7 DEF TabInv
<1> QED
  BY <1>9, <1>10

LEMMA TranscriptStep ==
    ServerTyped /\ PageTyped /\ TranscriptInv /\ [Next]_vars => TranscriptInv'
<1> SUFFICES ASSUME ServerTyped, PageTyped, TranscriptInv, [Next]_vars
             PROVE  TranscriptInv'
  OBVIOUS
<1>0. AnswersKept /\ Grows /\ \A u \in Tabs : TabInv(u)
  BY GrowsStep DEF TranscriptInv
<1>a. AnswersKept'
  BY <1>0, AnswersStep
<1>b. UNCHANGED page => \A u \in Tabs : SameTab(u)
  BY DEF page, SameTab
<1>1. CASE UNCHANGED page
  BY <1>0, <1>1, <1>a, <1>b, TabKept DEF TranscriptInv
<1>2. ASSUME NEW t \in Tabs, NEW q \in Questions, handleAsk(t, q) PROVE TranscriptInv'
  BY <1>0, <1>2, <1>a, AskStep, OneTab DEF TranscriptInv
<1>3. ASSUME NEW t \in Tabs, NEW c \in Chats, selectChat(t, c) PROVE TranscriptInv'
  BY <1>0, <1>3, <1>a, SelectStep, OneTab DEF TranscriptInv
<1>4. ASSUME NEW t \in Tabs, NEW c \in Chats, handleDelete(t, c) PROVE TranscriptInv'
  <2>1. /\ \A d \in Chats :
             \/ cache'[t][d] = cache[t][d] /\ fetch'[t][d] = fetch[t][d]
             \/ cache'[t][d] = {} /\ fetch'[t][d] = NoFetch
        /\ UNCHANGED <<pending, askedIn>>
        /\ \A u \in Tabs \ {t} : \A d \in Chats : /\ cache'[u][d] = cache[u][d]
                                                  /\ fetch'[u][d] = fetch[u][d]
    BY <1>4 DEF handleDelete, PageTyped
  <2>2. CASE active[t] = c
    <3>1. Draft(t) /\ (t \notin strayed' => pending[t] = None)
      BY <1>4, <2>2 DEF handleDelete, StrayIf
    <3>2. TabInv(t)'
      BY <1>0, <2>1, <3>1, DraftStep
    <3>3. \A u \in Tabs \ {t} : SameTab(u)
      BY <1>4, <2>1, <2>2 DEF handleDelete, Draft, StrayIf, PageTyped, SameTab
    <3> QED
      BY <1>0, <1>a, <3>2, <3>3, OneTab DEF TranscriptInv
  <2>3. CASE active[t] # c
    <3>1. \A u \in Tabs : SameTab(u)
      BY <1>4, <2>1, <2>3 DEF handleDelete, SameTab
    <3> QED
      BY <1>0, <1>a, <3>1, TabKept DEF TranscriptInv
  <2> QED
    BY <2>2, <2>3
<1>5. ASSUME NEW t \in Tabs, reselectChat(t) PROVE TranscriptInv'
  BY <1>0, <1>5, <1>a, ReselectStep, OneTab DEF TranscriptInv
<1>6. ASSUME NEW t \in Tabs, startNewChat(t) \/ Leave(t) PROVE TranscriptInv'
  <2>1. /\ Draft(t) /\ UNCHANGED <<fetch, cache>>
        /\ pending'[t] \in {pending[t], None}
        /\ askedIn'[t] = askedIn[t] \/ pending'[t] = None
        /\ t \notin strayed' => pending'[t] = None
    BY <1>6 DEF startNewChat, Leave, StrayIf, PageTyped
  <2>2. TabInv(t)'
    BY <1>0, <2>1, DraftStep
  <2>3. \A u \in Tabs \ {t} : SameTab(u)
    BY <1>6 DEF startNewChat, Leave, Draft, StrayIf, PageTyped, SameTab
  <2> QED
    BY <1>0, <1>a, <2>2, <2>3, OneTab DEF TranscriptInv
<1>7. ASSUME NEW t \in Tabs, NEW c \in Chats, FetchReads(t, c) PROVE TranscriptInv'
  BY <1>0, <1>7, <1>a, FetchReadsStep, OneTab DEF TranscriptInv
<1>8. ASSUME NEW t \in Tabs, NEW c \in Chats, FetchSettles(t, c) PROVE TranscriptInv'
  BY <1>0, <1>8, <1>a, FetchSettlesStep, OneTab DEF TranscriptInv
<1>9. ASSUME NEW t \in Tabs, NEW c \in Chats, FetchFails(t, c) PROVE TranscriptInv'
  BY <1>0, <1>9, <1>a, FetchFailsStep, OneTab DEF TranscriptInv
<1>10. ASSUME NEW t \in Tabs, onSuccess(t) PROVE TranscriptInv'
  BY <1>0, <1>10, <1>a, SuccessStep, OneTab DEF TranscriptInv
<1>11. ASSUME NEW t \in Tabs, onError(t) PROVE TranscriptInv'
  BY <1>0, <1>11, <1>a, ErrorStep, OneTab DEF TranscriptInv
<1> QED
  BY <1>1, <1>2, <1>3, <1>4, <1>5, <1>6, <1>7, <1>8, <1>9, <1>10, <1>11
     DEF Next, vars, DeleteElsewhere, run_query, Number, CommitTurns, FailQuestion, AskElsewhere

\* A tab shows the conversation it has open, whatever other tabs ask and
\* delete and whichever reads are under way, unless it has strayed.
THEOREM TabsFollowTheirConversation == Spec => []TranscriptIsTheConversation
<1>1. Init => TranscriptInv
  BY ChatsAssumption DEF Init, TranscriptInv, AnswersKept, TabInv, ReadsHold, AskedThere,
     Follows, Live, NoFetch
<1>2. TranscriptInv => TranscriptIsTheConversation
  BY DEF TranscriptInv, TabInv, Follows, TranscriptIsTheConversation
<1> QED
  BY <1>1, <1>2, TypedInit, ServerTypedStep, PageTypedStep, TranscriptStep, PTL DEF Spec
=============================================================================
