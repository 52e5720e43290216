------------------------------- MODULE Chats -------------------------------
(***************************************************************************)
(* The conversations of the Ask page: the chat_sessions and chat_messages  *)
(* rows POST /query writes (app/routers/query.py, chats.py), and the       *)
(* transcript each browser tab keeps beside them                           *)
(* (frontend/src/hooks/useChatSession.js, pages/query/QueryPage.jsx).      *)
(*                                                                         *)
(* A question takes as long as the model takes to answer it, and in the    *)
(* meantime other questions, other tabs and other clicks go on.  What is   *)
(* answered is the module Ask's matter; here an answer comes or fails.     *)
(* Titles and the order of the sidebar are left out.                       *)
(***************************************************************************)
EXTENDS Integers, FiniteSets

CONSTANTS
    Tabs,       \* the browser tabs followed, with the Ask page open
    Chats,      \* chat_sessions ids, each used at most once
    Questions,  \* questions, each asked at most once
    None        \* no chat (an unsaved draft), no question

ASSUME ChatsAssumption == None \notin Chats \cup Questions

VARIABLES
    \* the database and the API process
    chats,      \* each id: not inserted yet, live or deleted
    messages,   \* chat_messages of each chat
    stage,      \* how far each question is
    chat,       \* body.chat_id of each question; once answered, its chat
    position,   \* next_position as read for each question
    \* the tabs
    active,     \* activeChatId
    loading,    \* pendingChatId is set (to activeChatId)
    shown,      \* messages: the transcript on the screen
    pending,    \* the question whose mutation is under way
    askedIn,    \* activeChatId as that question's callbacks captured it
    fetch,      \* the read of each chat under way: none, sent, or what it read
    cache,      \* the query cache's last read of each chat
    \* history
    opened,     \* what the open conversation held when it was opened
    strayed,    \* tabs whose transcript may be another's, or behind
    overlapped  \* chats two questions have been numbered in at once

server == <<chats, messages, stage, chat, position, overlapped>>
page == <<active, loading, shown, pending, askedIn, fetch, cache, opened, strayed>>
vars == <<server, page>>

-----------------------------------------------------------------------------
(* Types *)

CHAT_ROLES == {"user", "assistant"}

\* What a message says is the question it belongs to.
Turn == [role : CHAT_ROLES, question : Questions]

\* On the screen, "error" is the note a failed question leaves.
Shown == [role : CHAT_ROLES \cup {"error"}, question : Questions]

ChatMessage == [position : Int, role : CHAT_ROLES, question : Questions]

NoFetch == [at |-> "none", turns |-> {}]
Fetch == [at : {"none", "sent", "read"}, turns : SUBSET Turn]

TypeOK ==
    /\ chats \in [Chats -> {"unused", "live", "deleted"}]
    /\ messages \in [Chats -> SUBSET ChatMessage]
    /\ stage \in [Questions -> {"unasked", "sent", "answering", "numbered",
                                "answered", "failed"}]
    /\ chat \in [Questions -> Chats \cup {None}]
    /\ position \in [Questions -> Int]
    /\ active \in [Tabs -> Chats \cup {None}]
    /\ loading \in [Tabs -> BOOLEAN]
    /\ shown \in [Tabs -> SUBSET Shown]
    /\ pending \in [Tabs -> Questions \cup {None}]
    /\ askedIn \in [Tabs -> Chats \cup {None}]
    /\ fetch \in [Tabs -> [Chats -> Fetch]]
    /\ cache \in [Tabs -> [Chats -> SUBSET Turn]]
    /\ opened \in [Tabs -> SUBSET Turn]
    /\ strayed \subseteq Tabs
    /\ overlapped \subseteq Chats

-----------------------------------------------------------------------------
Init ==
    /\ chats = [c \in Chats |-> "unused"]
    /\ messages = [c \in Chats |-> {}]
    /\ stage = [q \in Questions |-> "unasked"]
    /\ chat = [q \in Questions |-> None]
    /\ position = [q \in Questions |-> 0]
    /\ active = [t \in Tabs |-> None]
    /\ loading = [t \in Tabs |-> FALSE]
    /\ shown = [t \in Tabs |-> {}]
    /\ pending = [t \in Tabs |-> None]
    /\ askedIn = [t \in Tabs |-> None]
    /\ fetch = [t \in Tabs |-> [c \in Chats |-> NoFetch]]
    /\ cache = [t \in Tabs |-> [c \in Chats |-> {}]]
    /\ opened = [t \in Tabs |-> {}]
    /\ strayed = {}
    /\ overlapped = {}

Live(c) == c \in Chats /\ chats[c] = "live"

TurnsOf(c) == {[role |-> m.role, question |-> m.question] : m \in messages[c]}

-----------------------------------------------------------------------------
(* POST /query on the server *)

To(q, next) == stage' = [stage EXCEPT ![q] = next]

\* The chat is looked up before the question is answered: 404 if it is gone.
run_query(q) ==
    /\ stage[q] = "sent"
    /\ To(q, IF chat[q] = None \/ Live(chat[q]) THEN "answering" ELSE "failed")
    /\ UNCHANGED <<chats, messages, chat, position, overlapped, page>>

Positions(c) == {m.position : m \in messages[c]}

\* Mutant: the turns start at the highest position instead of after it.
next_position_reusing(c) ==
    IF c = None \/ Positions(c) = {} THEN 0
    ELSE CHOOSE p \in Positions(c) : \A other \in Positions(c) : other <= p

\* func.max(position) of the chat as committed now; a new chat has none.
next_position(c) ==
    IF c = None \/ Positions(c) = {} THEN 0
    ELSE 1 + CHOOSE p \in Positions(c) : \A other \in Positions(c) : other <= p

\* The answer is there, and the position is read for it.
Number(q) ==
    /\ stage[q] = "answering"
    /\ To(q, "numbered")
    /\ position' = [position EXCEPT ![q] = next_position(chat[q])]
    /\ UNCHANGED <<chats, messages, chat, overlapped, page>>

BothTurns(q) ==
    {[position |-> position[q], role |-> "user", question |-> q],
     [position |-> position[q] + 1, role |-> "assistant", question |-> q]}

\* Mutant: the session row and the question are committed before the answer.
QuestionTurn(q) ==
    {[position |-> position[q], role |-> "user", question |-> q]}

\* One commit for the session, if it is new, and both turns.  The database
\* refuses it if the chat was deleted meanwhile.
Written(q) == BothTurns(q)

CommitTurns(q) ==
    /\ stage[q] = "numbered"
    /\ \E c \in Chats :
         /\ IF chat[q] = None THEN chats[c] = "unused" ELSE chat[q] = c /\ Live(c)
         /\ chats' = [chats EXCEPT ![c] = "live"]
         /\ messages' = [messages EXCEPT ![c] = @ \cup Written(q)]
         /\ chat' = [chat EXCEPT ![q] = c]
         /\ overlapped' = IF \E p \in Questions \ {q} : stage[p] = "numbered" /\ chat[p] = c
                          THEN overlapped \cup {c} ELSE overlapped
    /\ To(q, "answered")
    /\ UNCHANGED <<position, page>>

\* A provider error or rate limit, a chat deleted meanwhile, or a restart:
\* nothing has been committed.
FailQuestion(q) ==
    /\ stage[q] \in {"answering", "numbered"}
    /\ To(q, "failed")
    /\ UNCHANGED <<chats, messages, chat, position, overlapped, page>>

-----------------------------------------------------------------------------
(* The transcript of a tab *)

\* Mutant: any payload for the chat will do, the cached one included.
SeedsFromCache(fetching, turns) == turns # {}

\* setMessages(chat.messages) waits for a settled read of the chat.
Seeds(fetching, turns) == ~fetching /\ turns # {}

\* The tab has conversation c to show: from the read under way, if there is
\* one, or else from its cached copy.
Load(t, c, request) ==
    /\ fetch' = [fetch EXCEPT ![t][c] = request]
    /\ LET seeds == Seeds(request.at # "none", cache[t][c]) IN
         /\ loading' = [loading EXCEPT ![t] = ~seeds]
         /\ shown' = [shown EXCEPT ![t] = IF seeds THEN cache[t][c] ELSE {}]

Sent == [at |-> "sent", turns |-> {}]

\* A query that is already fetching is joined, whoever had it sent.
Joined(t, c) == IF fetch[t][c].at = "none" THEN Sent ELSE fetch[t][c]

\* What will be shown was read before the chat came to hold what it does now.
Behind(t, c, request) ==
    \/ request.at = "none" /\ cache[t][c] # TurnsOf(c)
    \/ request.at = "read" /\ request.turns # TurnsOf(c)

\* A click that leaves a question's callbacks behind mixes transcripts.
StrayIf(t, behind) ==
    strayed' = IF pending[t] # None \/ behind THEN strayed \cup {t} ELSE strayed \ {t}

\* Opening another conversation from the sidebar, which may list a chat
\* another tab has deleted.  Reads of the ones left go on: nothing takes the
\* query's abort signal.
selectChat(t, c) ==
    /\ chats[c] # "unused"
    /\ active[t] # c
    /\ active' = [active EXCEPT ![t] = c]
    /\ Load(t, c, Joined(t, c))
    /\ opened' = [opened EXCEPT ![t] = TurnsOf(c)]
    /\ StrayIf(t, Behind(t, c, Joined(t, c)))
    /\ UNCHANGED <<server, pending, askedIn, cache>>

\* Clicking the open one reads nothing again.
reselectChat(t) ==
    LET c == active[t] IN
    /\ c # None
    /\ Load(t, c, fetch[t][c])
    /\ opened' = [opened EXCEPT ![t] = TurnsOf(c)]
    /\ StrayIf(t, Behind(t, c, fetch[t][c]))
    /\ UNCHANGED <<server, active, pending, askedIn, cache>>

Draft(t) ==
    /\ active' = [active EXCEPT ![t] = None]
    /\ loading' = [loading EXCEPT ![t] = FALSE]
    /\ shown' = [shown EXCEPT ![t] = {}]
    /\ opened' = [opened EXCEPT ![t] = {}]

startNewChat(t) ==
    /\ active[t] # None
    /\ Draft(t)
    /\ StrayIf(t, FALSE)
    /\ UNCHANGED <<server, pending, askedIn, fetch, cache>>

\* Another page and back: the callbacks of a question under way never run.
Leave(t) ==
    /\ Draft(t)
    /\ pending' = [pending EXCEPT ![t] = None]
    /\ askedIn' = [askedIn EXCEPT ![t] = None]
    /\ strayed' = strayed \ {t}
    /\ UNCHANGED <<server, fetch, cache>>

\* The read reaches the server, and then its answer the tab, whatever the tab
\* has open by then.
FetchReads(t, c) ==
    /\ fetch[t][c].at = "sent"
    /\ Live(c)
    /\ fetch' = [fetch EXCEPT ![t][c] = [at |-> "read", turns |-> TurnsOf(c)]]
    /\ UNCHANGED <<server, active, loading, shown, pending, askedIn, cache,
                   opened, strayed>>

Awaits(t, c) == loading[t] /\ active[t] = c

FetchSettles(t, c) ==
    /\ fetch[t][c].at = "read"
    /\ fetch' = [fetch EXCEPT ![t][c] = NoFetch]
    /\ cache' = [cache EXCEPT ![t][c] = fetch[t][c].turns]
    /\ LET seeds == Awaits(t, c) /\ Seeds(FALSE, fetch[t][c].turns) IN
         /\ loading' = [loading EXCEPT ![t] = @ /\ ~seeds]
         /\ shown' = [shown EXCEPT ![t] = IF seeds THEN fetch[t][c].turns ELSE @]
    /\ UNCHANGED <<server, active, pending, askedIn, opened, strayed>>

\* Lost, or a 404: a read that failed has settled too.
FetchFails(t, c) ==
    /\ fetch[t][c].at # "none"
    /\ fetch' = [fetch EXCEPT ![t][c] = NoFetch]
    /\ LET seeds == Awaits(t, c) /\ Seeds(FALSE, cache[t][c]) IN
         /\ loading' = [loading EXCEPT ![t] = @ /\ ~seeds]
         /\ shown' = [shown EXCEPT ![t] = IF seeds THEN cache[t][c] ELSE @]
         /\ strayed' = IF seeds THEN strayed \cup {t} ELSE strayed
    /\ UNCHANGED <<server, active, pending, askedIn, cache, opened>>

-----------------------------------------------------------------------------
(* Asking *)

Line(role, q) == [role |-> role, question |-> q]

\* The input is disabled while a question is under way, not while loading.
handleAsk(t, q) ==
    /\ pending[t] = None
    /\ stage[q] = "unasked"
    /\ shown' = [shown EXCEPT ![t] = @ \cup {Line("user", q)}]
    /\ pending' = [pending EXCEPT ![t] = q]
    /\ askedIn' = [askedIn EXCEPT ![t] = active[t]]
    /\ chat' = [chat EXCEPT ![q] = active[t]]
    /\ To(q, "sent")
    /\ strayed' = IF loading[t] THEN strayed \cup {t} ELSE strayed
    /\ UNCHANGED <<chats, messages, position, overlapped, active, loading, fetch,
                   cache, opened>>

\* invalidateQueries has a chat that is open read again; it stops the read
\* under way only where an earlier one left a copy.
Invalidated(t, c) ==
    IF active[t] = c /\ cache[t][c] # {} THEN Sent ELSE Joined(t, c)

\* onSuccess, on the page as it is now.  It adopts the chat when that is not
\* the one it was asked in, and has it read again if it is open then.
onSuccess(t) ==
    LET q == pending[t]
        c == chat[q]
        adopts == c # askedIn[t]
        open == IF adopts THEN c ELSE active[t]
    IN  /\ q # None
        /\ stage[q] = "answered"
        /\ shown' = [shown EXCEPT ![t] = @ \cup {Line("assistant", q)}]
        /\ active' = [active EXCEPT ![t] = open]
        /\ loading' = [loading EXCEPT ![t] = @ /\ ~adopts]
        /\ fetch' = [fetch EXCEPT ![t][c] = IF open = c THEN Invalidated(t, c) ELSE @]
        /\ opened' = [opened EXCEPT ![t] = IF adopts THEN {} ELSE @]
        /\ pending' = [pending EXCEPT ![t] = None]
        /\ askedIn' = [askedIn EXCEPT ![t] = None]
        /\ UNCHANGED <<server, cache, strayed>>

\* onError: the question failed, or its answer was lost on the way.
onError(t) ==
    LET q == pending[t] IN
    /\ q # None
    /\ shown' = [shown EXCEPT ![t] = @ \cup {Line("error", q)}]
    /\ pending' = [pending EXCEPT ![t] = None]
    /\ askedIn' = [askedIn EXCEPT ![t] = None]
    /\ UNCHANGED <<server, active, loading, fetch, cache, opened, strayed>>

\* A tab or device that is not followed asks: in a draft or a live chat.
AskElsewhere(q) ==
    /\ stage[q] = "unasked"
    /\ \E c \in Chats \cup {None} :
         /\ c = None \/ Live(c)
         /\ chat' = [chat EXCEPT ![q] = c]
    /\ To(q, "sent")
    /\ UNCHANGED <<chats, messages, position, overlapped, page>>

\* The messages go with the chat.
delete_chat(c) ==
    /\ Live(c)
    /\ chats' = [chats EXCEPT ![c] = "deleted"]
    /\ messages' = [messages EXCEPT ![c] = {}]
    /\ UNCHANGED <<stage, chat, position, overlapped>>

\* The tab that deletes a chat forgets it, and opens a draft if it was open.
handleDelete(t, c) ==
    /\ delete_chat(c)
    /\ fetch' = [fetch EXCEPT ![t][c] = NoFetch]
    /\ cache' = [cache EXCEPT ![t][c] = {}]
    /\ IF active[t] = c THEN Draft(t) /\ StrayIf(t, FALSE)
       ELSE UNCHANGED <<active, loading, shown, opened, strayed>>
    /\ UNCHANGED <<pending, askedIn>>

DeleteElsewhere(c) == delete_chat(c) /\ UNCHANGED page

-----------------------------------------------------------------------------
Next ==
    \/ \E q \in Questions :
         run_query(q) \/ Number(q) \/ CommitTurns(q) \/ FailQuestion(q)
                      \/ AskElsewhere(q)
    \/ \E c \in Chats : DeleteElsewhere(c)
    \/ \E t \in Tabs :
         \/ \E q \in Questions : handleAsk(t, q)
         \/ \E c \in Chats : \/ selectChat(t, c) \/ handleDelete(t, c)
                            \/ FetchReads(t, c) \/ FetchSettles(t, c) \/ FetchFails(t, c)
         \/ reselectChat(t)
         \/ startNewChat(t)
         \/ Leave(t)
         \/ onSuccess(t)
         \/ onError(t)

Spec == Init /\ [][Next]_vars

-----------------------------------------------------------------------------
(* Properties *)

\* A conversation is in the list only with whole turns in it: each question
\* has its answer right below, is in one conversation, and has been answered.
\* A question that failed leaves neither a turn nor an empty conversation.
ChatsHoldWholeTurns ==
    /\ \A c \in Chats : Live(c) <=> messages[c] # {}
    /\ \A c \in Chats : \A m \in messages[c] :
         LET q == m.question IN
         /\ stage[q] = "answered" /\ chat[q] = c
         /\ \E up, down \in messages[c] :
              /\ up.question = q /\ up.role = "user"
              /\ down.question = q /\ down.role = "assistant"
              /\ down.position = up.position + 1

\* Each turn has a position of its own and they leave no gap, so a reopened
\* conversation reads in the order it was held - unless two of its questions
\* were numbered at once.
TurnsKeepTheirPlaces ==
    \A c \in Chats \ overlapped :
        Positions(c) = 0..(Cardinality(messages[c]) - 1)

\* Questions the tab has no verdict on, or only an error note.
Unsettled(t) ==
    {q \in Questions : q = pending[t] \/ Line("error", q) \in shown[t]}

\* The transcript is the open conversation: it shows what that held when it
\* was opened and no turn of another, whatever other tabs ask and delete and
\* whichever reads are still under way.  Not so once a conversation was opened
\* with a question still under way, a question asked while one was loading,
\* or a read of it failed; nor where opening it joined a read the server had
\* answered before its latest turn, or clicking the open one replayed a copy
\* from before that.
TranscriptIsTheConversation ==
    \A t \in Tabs \ strayed :
        Live(active[t]) /\ ~loading[t] =>
            /\ opened[t] \subseteq shown[t]
            /\ {m \in shown[t] : m.question \notin Unsettled(t)} \subseteq TurnsOf(active[t])

\* "The local array *is* the live conversation": no tab shows an answer under
\* a conversation it was not given in.
AnswersInTheirConversation ==
    \A t \in Tabs : \A m \in shown[t] :
        m.role = "assistant" /\ active[t] # None => chat[m.question] = active[t]
=============================================================================
