----------------------------- MODULE JobEvents -----------------------------
(***************************************************************************)
(* One browser tab that follows one job: the hook useJobEvents and, at the *)
(* other end of its event stream, the generator of GET /jobs/{id}/events.  *)
(* The row moves by itself, in any way JobStatus allows.                   *)
(*                                                                         *)
(* The tab listens to the stream and polls GET /jobs/{id} beside it.  What *)
(* the stream carries arrives in order or is lost with the connection; the *)
(* answers to polls overtake each other and the stream at will.            *)
(***************************************************************************)
EXTENDS Naturals, Sequences

CONSTANTS
    Requests,   \* bound: polls that may be outstanding at once
    MaxWire     \* bound: messages under way on the stream

ASSUME ConstantsAssumption == Requests # {} /\ MaxWire \in Nat \ {0}

VARIABLES
    status, running, landed,    \* the row
    server,     \* the generator that serves the current connection
    last,       \* its last_payload
    wire,       \* what it sent and the tab has not received
    source,     \* the EventSource
    polling,    \* the interval is armed
    answer,     \* each GET: "idle", "asked", the status it read, or "error"
    shown,      \* state.status
    missing,    \* the tab says "job not found"
    cancelled,  \* the component was unmounted
    over        \* history: the row has been terminal or deleted meanwhile

row == <<status, running, landed>>
stream == <<server, last, wire>>
tab == <<source, polling, shown, missing, cancelled>>
vars == <<row, stream, answer, tab, over>>

Job == INSTANCE JobStatus

-----------------------------------------------------------------------------
TERMINAL_STATUSES == {"awaiting_review", "confirmed", "rejected", "failed"}

\* The copy of the set in the hook.
TabTerminal == {"awaiting_review", "confirmed", "rejected", "failed"}

TypeOK ==
    /\ status \in Job!Status \cup {"deleted"}
    /\ running \in BOOLEAN /\ landed \in BOOLEAN
    /\ server \in {"none", "looping", "done"}
    /\ last \in Job!Status \cup {"none"}
    /\ wire \in Seq(Job!Status \cup {"not found"})
    /\ Len(wire) <= MaxWire
    /\ source \in {"connecting", "open", "refused", "closed"}
    /\ polling \in BOOLEAN
    /\ answer \in [Requests -> Job!Status \cup {"idle", "asked", "error"}]
    /\ shown \in Job!Status \cup {"none"}
    /\ missing \in BOOLEAN /\ cancelled \in BOOLEAN /\ over \in BOOLEAN

\* The tab opens on a job in any state: the hook seeds itself with a GET,
\* connects and arms the interval.
Init ==
    /\ status \in Job!Status
    /\ running = (status = "extracting")
    /\ landed = (status = "confirmed")
    /\ server = "none" /\ last = "none" /\ wire = <<>>
    /\ source = "connecting"
    /\ polling = TRUE
    /\ \E seed \in Requests :
         answer = [r \in Requests |-> IF r = seed THEN "asked" ELSE "idle"]
    /\ shown = "none"
    /\ missing = FALSE
    /\ cancelled = FALSE
    /\ over = (status \in TERMINAL_STATUSES)

RowMoves ==
    /\ Job!Next
    /\ over' = (over \/ status' \in TERMINAL_STATUSES \cup {"deleted"})
    /\ UNCHANGED <<stream, answer, tab>>

-----------------------------------------------------------------------------
(* The stream *)

Connect ==
    /\ source = "connecting"
    /\ source' = "open"
    /\ server' = "looping" /\ last' = "none" /\ wire' = <<>>
    /\ UNCHANGED <<row, answer, polling, shown, missing, cancelled, over>>

\* A reply that is no stream (the proxy answers for a server that is down):
\* the browser gives the EventSource up for good.
Refuse ==
    /\ source = "connecting"
    /\ source' = "refused"
    /\ UNCHANGED <<row, stream, answer, polling, shown, missing, cancelled, over>>

\* Mutant: a deleted job just ends the stream.
EndQuietly ==
    /\ status = "deleted"
    /\ server' = "done"
    /\ UNCHANGED <<last, wire>>

SayNotFound ==
    /\ status = "deleted"
    /\ wire' = Append(wire, "not found")
    /\ server' = "done"
    /\ UNCHANGED last

\* A message when the payload differs from the last one: when the status does,
\* and perhaps when it does not, for the payload has the progress too.  The
\* stream ends after a terminal status.
SendDelta ==
    /\ status # "deleted"
    /\ \/ wire' = Append(wire, status)
       \/ status = last /\ wire' = wire
    /\ last' = status
    /\ server' = IF status \in TERMINAL_STATUSES THEN "done" ELSE "looping"

\* One turn of the generator's loop, on a session of its own.
ServerTurn ==
    /\ source = "open"
    /\ server = "looping"
    /\ Len(wire) < MaxWire
    /\ SayNotFound \/ SendDelta
    /\ UNCHANGED <<row, answer, tab, over>>

Teardown ==
    /\ source' = "closed"
    /\ polling' = FALSE

\* setState with a status, and teardown when it is a terminal one.
Show(s) ==
    /\ shown' = s
    /\ missing' = FALSE
    /\ IF s \in TabTerminal THEN Teardown ELSE UNCHANGED <<source, polling>>
    /\ UNCHANGED cancelled

Receive ==
    /\ source = "open"
    /\ wire # <<>>
    /\ wire' = Tail(wire)
    /\ IF Head(wire) = "not found"
       THEN Teardown /\ missing' = TRUE /\ UNCHANGED <<shown, cancelled>>
       ELSE Show(Head(wire))
    /\ UNCHANGED <<row, server, last, answer, over>>

\* Mutant: every error event is taken for "job not found".
ConnectionLostForGood ==
    /\ source = "open"
    /\ Teardown
    /\ missing' = TRUE
    /\ server' = "none" /\ wire' = <<>>
    /\ UNCHANGED <<row, last, answer, shown, cancelled, over>>

\* The connection drops, or ends: the browser connects again by itself.
ConnectionLost ==
    /\ source = "open"
    /\ source' = "connecting"
    /\ server' = "none" /\ wire' = <<>>
    /\ UNCHANGED <<row, last, answer, polling, shown, missing, cancelled, over>>

-----------------------------------------------------------------------------
(* Polling *)

\* Mutant: the poll asks only while the browser is connecting again.
PollWhileConnecting(r) ==
    /\ polling
    /\ source = "connecting"
    /\ answer[r] = "idle"
    /\ answer' = [answer EXCEPT ![r] = "asked"]
    /\ UNCHANGED <<row, stream, tab, over>>

Poll(r) ==
    /\ polling
    /\ answer[r] = "idle"
    /\ answer' = [answer EXCEPT ![r] = "asked"]
    /\ UNCHANGED <<row, stream, tab, over>>

\* The server reads the row; a deleted one is a 404.
ReadRow(r) ==
    /\ answer[r] = "asked"
    /\ answer' = [answer EXCEPT ![r] = IF status = "deleted" THEN "error"
                                                             ELSE status]
    /\ UNCHANGED <<row, stream, tab, over>>

RequestFails(r) ==
    /\ answer[r] = "asked"
    /\ answer' = [answer EXCEPT ![r] = "error"]
    /\ UNCHANGED <<row, stream, tab, over>>

applyJob(s) == IF cancelled THEN UNCHANGED tab ELSE Show(s)

\* A failed request is ignored.
Answered(r) ==
    /\ answer[r] \notin {"idle", "asked"}
    /\ IF answer[r] = "error" THEN UNCHANGED tab ELSE applyJob(answer[r])
    /\ answer' = [answer EXCEPT ![r] = "idle"]
    /\ UNCHANGED <<row, stream, over>>

Unmount ==
    /\ ~cancelled
    /\ cancelled' = TRUE
    /\ Teardown
    /\ UNCHANGED <<row, stream, answer, shown, missing, over>>

-----------------------------------------------------------------------------
Next ==
    \/ RowMoves
    \/ Connect \/ Refuse \/ ServerTurn \/ Receive \/ ConnectionLost
    \/ \E r \in Requests : Poll(r) \/ ReadRow(r) \/ RequestFails(r) \/ Answered(r)
    \/ Unmount

Spec == Init /\ [][Next]_vars

\* The interval fires and answers arrive.  A request fails, and a connection
\* drops, any number of times but not every time.
Fairness ==
    /\ \A r \in Requests :
         WF_vars(Poll(r)) /\ SF_vars(ReadRow(r)) /\ WF_vars(Answered(r))
    /\ SF_vars(Connect) /\ SF_vars(ServerTurn) /\ SF_vars(Receive)

FairSpec == Spec /\ Fairness

-----------------------------------------------------------------------------
(* Properties *)

Watching == polling /\ ~cancelled

\* "A dropped connection never loses a completed extraction": the tab stops
\* watching only after the row was terminal or deleted, whatever connections
\* and requests failed meanwhile.
StopsAfterTheRow == ~polling => cancelled \/ over

\* Once the row is settled the tab finds out, with or without the stream.
TabSettles ==
    <>[](status \in TERMINAL_STATUSES) => <>~Watching

\* Once the row is deleted the tab finds out, unless its stream was refused:
\* the poll never tells.
TabLearnsOfDeletion ==
    <>[](status = "deleted") => <>(~Watching \/ source = "refused")
=============================================================================
