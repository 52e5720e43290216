-------------------------- MODULE JobEventsProofs --------------------------
(***************************************************************************)
(* Proofs about JobEvents, for any number of outstanding polls and any     *)
(* length of the stream.                                                   *)
(*                                                                         *)
(* That a tab which stopped watching was told so by the row is not         *)
(* inductive: a stop follows a message or an answer that was read from the *)
(* row long before.  HeardFromTheRow says it of everything that is still   *)
(* under way: no message and no answer says more than the row has already  *)
(* been.                                                                   *)
(***************************************************************************)
EXTENDS JobEvents, SequenceTheorems, TLAPS

Messages == Job!Status \cup {"not found"}

\* What makes the tab stop once it arrives.
Final == TERMINAL_STATUSES \cup {"not found"}

HeardFromTheRow ==
    /\ status \in TERMINAL_STATUSES \cup {"deleted"} => over
    /\ \A i \in 1..Len(wire) : wire[i] \in Final => over
    /\ \A r \in Requests : answer[r] \in TERMINAL_STATUSES => over

EventsInv ==
    /\ TypeOK
    /\ HeardFromTheRow
    /\ StopsAfterTheRow

-----------------------------------------------------------------------------
(* The row *)

\* However the row moves, it keeps a status of its own or is deleted: the
\* steps of JobStatus name no other.
LEMMA RowStep ==
    ASSUME TypeOK, Job!Next
    PROVE  /\ status' \in Job!Status \cup {"deleted"}
           /\ running' \in BOOLEAN
           /\ landed' \in BOOLEAN
  BY DEF TypeOK, Job!Next, Job!Insert, Job!Claim, Job!FinishRun,
         Job!AbandonRun, Job!Confirm, Job!Requeue, Job!Reject, Job!Delete,
         Job!Status

-----------------------------------------------------------------------------
(* What a message does to the tab *)

\* Showing a status leaves the tab well typed, and stops it only for a
\* terminal one: the two copies of the terminal set agree.
LEMMA ShowStep ==
    ASSUME TypeOK, NEW s \in Job!Status, Show(s)
    PROVE  /\ source' \in {"connecting", "open", "refused", "closed"}
           /\ polling' \in BOOLEAN
           /\ shown' \in Job!Status \cup {"none"}
           /\ missing' \in BOOLEAN
           /\ cancelled' \in BOOLEAN
           /\ cancelled' = cancelled
           /\ s \in TERMINAL_STATUSES \/ polling' = polling
  BY DEF TypeOK, Show, Teardown, TabTerminal, TERMINAL_STATUSES

-----------------------------------------------------------------------------
(* The invariant *)

LEMMA InitEvents == Init => EventsInv
<1> SUFFICES ASSUME Init PROVE EventsInv
  OBVIOUS
<1>1. PICK seed \in Requests :
        answer = [r \in Requests |-> IF r = seed THEN "asked" ELSE "idle"]
  BY DEF Init
<1>2. /\ wire = <<>>
      /\ Len(wire) = 0
      /\ wire \in Seq(Messages)
  BY DEF Init, Messages
<1>3. TypeOK
  <2>1. Len(wire) <= MaxWire
    BY <1>2, ConstantsAssumption
  <2>2. answer \in [Requests -> Job!Status \cup {"idle", "asked", "error"}]
    BY <1>1
  <2>3. running \in BOOLEAN /\ landed \in BOOLEAN /\ over \in BOOLEAN
    BY DEF Init
  <2> QED
    BY <1>2, <2>1, <2>2, <2>3 DEF Init, TypeOK, Messages
<1>4. HeardFromTheRow
  <2>1. \A r \in Requests : answer[r] \notin TERMINAL_STATUSES
    BY <1>1 DEF TERMINAL_STATUSES
  <2>2. status # "deleted"
    BY DEF Init, Job!Status
  <2>3. status \in TERMINAL_STATUSES => over
    BY DEF Init
  <2> QED
    BY <1>2, <2>1, <2>2, <2>3 DEF HeardFromTheRow
<1>5. StopsAfterTheRow
  BY DEF Init, StopsAfterTheRow
<1> QED
  BY <1>3, <1>4, <1>5 DEF EventsInv

\* The row never takes back what it was: over only grows.
LEMMA RowKeepsInv ==
    ASSUME EventsInv, RowMoves
    PROVE  EventsInv'
<1>1. TypeOK'
  BY RowStep DEF EventsInv, RowMoves, TypeOK, stream, tab
<1>2. HeardFromTheRow'
  BY DEF EventsInv, HeardFromTheRow, RowMoves, stream
<1>3. StopsAfterTheRow'
  BY DEF EventsInv, StopsAfterTheRow, RowMoves, tab
<1> QED
  BY <1>1, <1>2, <1>3 DEF EventsInv

\* A new connection starts from nothing, a lost one loses what was under way.
LEMMA ConnectionKeepsInv ==
    ASSUME EventsInv, Connect \/ Refuse \/ ConnectionLost
    PROVE  EventsInv'
<1>1. /\ wire' = <<>> \/ wire' = wire
      /\ wire' \in Seq(Messages)
      /\ Len(wire') <= MaxWire
      /\ \A i \in 1..Len(wire') : wire'[i] \in Final => over
  <2>1. CASE wire' = <<>>
    BY <2>1, ConstantsAssumption, Len(<<>>) = 0, <<>> \in Seq(Messages)
  <2>2. CASE wire' = wire
    BY <2>2 DEF EventsInv, TypeOK, HeardFromTheRow, Messages
  <2> QED
    BY <2>1, <2>2 DEF Connect, Refuse, ConnectionLost, stream
<1>2. /\ UNCHANGED <<row, answer, polling, shown, missing, cancelled, over>>
      /\ source' \in {"open", "refused", "connecting"}
      /\ server' \in {"looping", "none", server}
      /\ last' \in {"none", last}
  BY DEF Connect, Refuse, ConnectionLost, stream
<1>3. TypeOK'
  <2>1. /\ source' \in {"connecting", "open", "refused", "closed"}
        /\ server' \in {"none", "looping", "done"}
        /\ last' \in Job!Status \cup {"none"}
    BY <1>2 DEF EventsInv, TypeOK
  <2>2. /\ wire' \in Seq(Job!Status \cup {"not found"})
        /\ Len(wire') <= MaxWire
    BY <1>1 DEF Messages
  <2>3. /\ UNCHANGED <<status, running, landed>>
        /\ UNCHANGED <<answer, polling, shown, missing, cancelled, over>>
    BY <1>2 DEF row
  <2> QED
    BY <2>1, <2>2, <2>3 DEF EventsInv, TypeOK
<1>4. HeardFromTheRow'
  BY <1>1, <1>2 DEF EventsInv, HeardFromTheRow, row
<1>5. StopsAfterTheRow'
  BY <1>2 DEF EventsInv, StopsAfterTheRow
<1> QED
  BY <1>3, <1>4, <1>5 DEF EventsInv

\* The generator sends what the row is at that moment.
LEMMA ServerKeepsInv ==
    ASSUME EventsInv, ServerTurn
    PROVE  EventsInv'
<1>1. wire \in Seq(Messages) /\ Len(wire) \in Nat /\ Len(wire) < MaxWire
  <2>1. wire \in Seq(Messages) /\ Len(wire) < MaxWire
    BY DEF EventsInv, TypeOK, ServerTurn, Messages
  <2> QED
    BY <2>1, LenProperties
<1>2. /\ UNCHANGED <<row, answer, source, polling, shown, missing, cancelled, over>>
      /\ server' \in {"looping", "done"}
      /\ last' \in Job!Status \cup {"none"}
  BY DEF EventsInv, TypeOK, ServerTurn, SayNotFound, SendDelta, tab
<1>3. \/ wire' = wire
      \/ \E m \in Messages : wire' = Append(wire, m) /\ (m \in Final => over)
  <2>1. CASE SayNotFound
    BY <2>1 DEF SayNotFound, EventsInv, HeardFromTheRow, Messages
  <2>2. CASE SendDelta
    <3>1. status \in Job!Status /\ status \in Messages
      BY <2>2 DEF SendDelta, EventsInv, TypeOK, Messages
    <3>2. status \in Final => over
      BY <3>1 DEF Final, EventsInv, HeardFromTheRow, Job!Status
    <3> QED
      BY <2>2, <3>1, <3>2 DEF SendDelta
  <2> QED
    BY <2>1, <2>2 DEF ServerTurn
<1>4. /\ wire' \in Seq(Messages)
      /\ Len(wire') <= MaxWire
      /\ \A i \in 1..Len(wire') : wire'[i] \in Final => over
  <2>1. CASE wire' = wire
    BY <2>1, <1>1, ConstantsAssumption DEF EventsInv, HeardFromTheRow
  <2>2. ASSUME NEW m \in Messages, wire' = Append(wire, m), m \in Final => over
        PROVE  <1>4
    <3>1. /\ wire' \in Seq(Messages)
          /\ Len(wire') = Len(wire) + 1
          /\ \A i \in 1..Len(wire) : wire'[i] = wire[i]
          /\ wire'[Len(wire) + 1] = m
      BY <1>1, <2>2, AppendProperties
    <3>2. Len(wire') <= MaxWire
      BY <1>1, <3>1, ConstantsAssumption
    <3>3. ASSUME NEW i \in 1..Len(wire'), wire'[i] \in Final PROVE over
      <4>1. CASE i = Len(wire) + 1
        BY <3>1, <3>3, <4>1, <2>2
      <4>2. CASE i # Len(wire) + 1
        <5>1. i \in 1..Len(wire)
          BY <1>1, <3>1, <4>2
        <5> QED
          BY <5>1, <3>1, <3>3 DEF EventsInv, HeardFromTheRow
      <4> QED
        BY <4>1, <4>2
    <3> QED
      BY <3>1, <3>2, <3>3
  <2> QED
    BY <1>3, <2>1, <2>2
<1>5. TypeOK'
  BY <1>2, <1>4 DEF EventsInv, TypeOK, Messages, row
<1>6. HeardFromTheRow'
  BY <1>2, <1>4 DEF EventsInv, HeardFromTheRow, row
<1>7. StopsAfterTheRow'
  BY <1>2 DEF EventsInv, StopsAfterTheRow
<1> QED
  BY <1>5, <1>6, <1>7 DEF EventsInv

\* A message that stops the tab was under way, so the row had been final.
LEMMA ReceiveKeepsInv ==
    ASSUME EventsInv, Receive
    PROVE  EventsInv'
<1>1. wire \in Seq(Messages) /\ wire # <<>> /\ Len(wire) \in Nat /\ Len(wire) <= MaxWire
  <2>1. wire \in Seq(Messages) /\ wire # <<>> /\ Len(wire) <= MaxWire
    BY DEF EventsInv, TypeOK, Receive, Messages
  <2> QED
    BY <2>1, LenProperties
<1>2. /\ wire' = Tail(wire)
      /\ UNCHANGED <<row, server, last, answer, over>>
  BY DEF Receive
<1>3. /\ Len(wire) # 0
      /\ Head(wire) = wire[1]
      /\ Head(wire) \in Messages
      /\ wire' \in Seq(Messages)
      /\ Len(wire') = Len(wire) - 1
      /\ \A i \in 1..Len(wire') : wire'[i] = wire[i + 1]
  BY <1>1, <1>2, HeadTailProperties, EmptySeq
<1>4. Head(wire) \in Final => over
  BY <1>1, <1>3, 1 \in 1..Len(wire) DEF EventsInv, HeardFromTheRow
<1>5. Len(wire') <= MaxWire
  BY <1>1, <1>3, ConstantsAssumption
<1>6. ASSUME NEW i \in 1..Len(wire'), wire'[i] \in Final PROVE over
  <2>1. i + 1 \in 1..Len(wire)
    BY <1>1, <1>3
  <2> QED
    BY <1>3, <1>6, <2>1 DEF EventsInv, HeardFromTheRow
<1>7. /\ source' \in {"connecting", "open", "refused", "closed"}
      /\ polling' \in BOOLEAN
      /\ shown' \in Job!Status \cup {"none"}
      /\ missing' \in BOOLEAN
      /\ cancelled' \in BOOLEAN
      /\ cancelled' = cancelled
      /\ Head(wire) \in Final \/ polling' = polling
  <2>1. CASE Head(wire) = "not found"
    BY <2>1 DEF Receive, Teardown, EventsInv, TypeOK, Final
  <2>2. CASE Head(wire) # "not found"
    <3>1. Head(wire) \in Job!Status /\ Show(Head(wire))
      BY <1>3, <2>2 DEF Receive, Messages
    <3> QED
      BY <3>1, ShowStep DEF EventsInv, Final
  <2> QED
    BY <2>1, <2>2
<1>8. TypeOK'
  BY <1>2, <1>3, <1>5, <1>7 DEF EventsInv, TypeOK, Messages, row
<1>9. HeardFromTheRow'
  BY <1>2, <1>6 DEF EventsInv, HeardFromTheRow, row
<1>10. StopsAfterTheRow'
  BY <1>2, <1>4, <1>7 DEF EventsInv, StopsAfterTheRow
<1> QED
  BY <1>8, <1>9, <1>10 DEF EventsInv

\* A request that is sent, read or lost changes its own answer only.
LEMMA AskingKeepsInv ==
    ASSUME EventsInv, NEW r \in Requests, Poll(r) \/ ReadRow(r) \/ RequestFails(r)
    PROVE  EventsInv'
<1>1. UNCHANGED <<row, stream, tab, over>>
  BY DEF Poll, ReadRow, RequestFails
<1>2. PICK a : /\ a \in {"asked", "error"} \/ (a = status /\ status # "deleted")
               /\ answer' = [answer EXCEPT ![r] = a]
  BY DEF Poll, ReadRow, RequestFails
<1>3. /\ a \in Job!Status \cup {"asked", "error"}
      /\ a \in TERMINAL_STATUSES => over
  BY <1>2 DEF EventsInv, TypeOK, HeardFromTheRow, TERMINAL_STATUSES
<1>4. TypeOK'
  <2>1. answer' \in [Requests -> Job!Status \cup {"idle", "asked", "error"}]
    BY <1>2, <1>3 DEF EventsInv, TypeOK
  <2>2. /\ UNCHANGED <<status, running, landed, server, last, wire>>
        /\ UNCHANGED <<source, polling, shown, missing, cancelled, over>>
    BY <1>1 DEF row, stream, tab
  <2>3. /\ status' \in Job!Status \cup {"deleted"}
        /\ last' \in Job!Status \cup {"none"}
        /\ shown' \in Job!Status \cup {"none"}
        /\ wire' \in Seq(Job!Status \cup {"not found"})
        /\ Len(wire') <= MaxWire
    BY <2>2 DEF EventsInv, TypeOK
  <2>4. /\ server' \in {"none", "looping", "done"}
        /\ source' \in {"connecting", "open", "refused", "closed"}
        /\ running' \in BOOLEAN /\ landed' \in BOOLEAN
        /\ polling' \in BOOLEAN /\ over' \in BOOLEAN
        /\ missing' \in BOOLEAN /\ cancelled' \in BOOLEAN
    BY <2>2 DEF EventsInv, TypeOK
  <2> QED
    BY <2>1, <2>3, <2>4 DEF TypeOK
<1>5. HeardFromTheRow'
  BY <1>1, <1>2, <1>3 DEF EventsInv, TypeOK, HeardFromTheRow, row, stream
<1>6. StopsAfterTheRow'
  BY <1>1 DEF EventsInv, StopsAfterTheRow, tab
<1> QED
  BY <1>4, <1>5, <1>6 DEF EventsInv

\* An answer that stops the tab was read from the row, however long ago.
LEMMA AnsweredKeepsInv ==
    ASSUME EventsInv, NEW r \in Requests, Answered(r)
    PROVE  EventsInv'
<1>1. /\ UNCHANGED <<row, stream, over>>
      /\ answer' = [answer EXCEPT ![r] = "idle"]
  BY DEF Answered
<1>2. /\ source' \in {"connecting", "open", "refused", "closed"}
      /\ polling' \in BOOLEAN
      /\ shown' \in Job!Status \cup {"none"}
      /\ missing' \in BOOLEAN
      /\ cancelled' \in BOOLEAN
      /\ cancelled' = cancelled
      /\ answer[r] \in TERMINAL_STATUSES \/ polling' = polling
  <2>1. CASE UNCHANGED tab
    BY <2>1 DEF EventsInv, TypeOK, tab
  <2>2. CASE answer[r] # "error" /\ Show(answer[r])
    <3>1. answer[r] \in Job!Status
      BY <2>2 DEF EventsInv, TypeOK, Answered
    <3> QED
      BY <2>2, <3>1, ShowStep DEF EventsInv
  <2> QED
    BY <2>1, <2>2 DEF Answered, applyJob
<1>3. TypeOK'
  BY <1>1, <1>2 DEF EventsInv, TypeOK, row, stream
<1>4. HeardFromTheRow'
  BY <1>1 DEF EventsInv, TypeOK, HeardFromTheRow, TERMINAL_STATUSES, row, stream
<1>5. StopsAfterTheRow'
  BY <1>1, <1>2 DEF EventsInv, HeardFromTheRow, StopsAfterTheRow
<1> QED
  BY <1>3, <1>4, <1>5 DEF EventsInv

LEMMA UnmountKeepsInv ==
    ASSUME EventsInv, Unmount
    PROVE  EventsInv'
  BY DEF EventsInv, TypeOK, HeardFromTheRow, StopsAfterTheRow, Unmount,
         Teardown, row, stream

\* EventsInv holds in every state of the specification.
LEMMA Inductive == Spec => []EventsInv
<1>1. EventsInv /\ [Next]_vars => EventsInv'
  <2> SUFFICES ASSUME EventsInv, [Next]_vars PROVE EventsInv'
    OBVIOUS
  <2>1. CASE UNCHANGED vars
    <3>1. /\ UNCHANGED <<status, running, landed, server, last, wire, answer>>
          /\ UNCHANGED <<source, polling, shown, missing, cancelled, over>>
      BY <2>1 DEF vars, row, stream, tab
    <3>2. TypeOK'
      <4>1. /\ wire' \in Seq(Job!Status \cup {"not found"})
            /\ Len(wire') <= MaxWire
        BY <3>1 DEF EventsInv, TypeOK
      <4>2. answer' \in [Requests -> Job!Status \cup {"idle", "asked", "error"}]
        BY <3>1 DEF EventsInv, TypeOK
      <4>3. /\ status' \in Job!Status \cup {"deleted"}
            /\ last' \in Job!Status \cup {"none"}
            /\ shown' \in Job!Status \cup {"none"}
        BY <3>1 DEF EventsInv, TypeOK
      <4>4. /\ server' \in {"none", "looping", "done"}
            /\ source' \in {"connecting", "open", "refused", "closed"}
        BY <3>1 DEF EventsInv, TypeOK
      <4>5. /\ running' \in BOOLEAN /\ landed' \in BOOLEAN
            /\ polling' \in BOOLEAN /\ over' \in BOOLEAN
            /\ missing' \in BOOLEAN /\ cancelled' \in BOOLEAN
        BY <3>1 DEF EventsInv, TypeOK
      <4> QED
        BY <4>1, <4>2, <4>3, <4>4, <4>5 DEF TypeOK
    <3>3. HeardFromTheRow' /\ StopsAfterTheRow'
      BY <3>1 DEF EventsInv, HeardFromTheRow, StopsAfterTheRow
    <3> QED
      BY <3>2, <3>3 DEF EventsInv
  <2>2. CASE RowMoves
    BY <2>2, RowKeepsInv
  <2>3. CASE Connect \/ Refuse \/ ConnectionLost
    BY <2>3, ConnectionKeepsInv
  <2>4. CASE ServerTurn
    BY <2>4, ServerKeepsInv
  <2>5. CASE Receive
    BY <2>5, ReceiveKeepsInv
  <2>6. CASE \E r \in Requests : Poll(r) \/ ReadRow(r) \/ RequestFails(r)
    BY <2>6, AskingKeepsInv
  <2>7. CASE \E r \in Requests : Answered(r)
    BY <2>7, AnsweredKeepsInv
  <2>8. CASE Unmount
    BY <2>8, UnmountKeepsInv
  <2> QED
    BY <2>1, <2>2, <2>3, <2>4, <2>5, <2>6, <2>7, <2>8 DEF Next
<1> QED
  BY <1>1, InitEvents, PTL DEF Spec

-----------------------------------------------------------------------------
(* The theorems *)

\* The variables keep their types.
THEOREM TypeCorrect == Spec => []TypeOK
<1>1. EventsInv => TypeOK
  BY DEF EventsInv
<1> QED
  BY <1>1, Inductive, PTL

\* A tab that has stopped watching was closed, or its job has been settled or
\* deleted: no lost connection, refused stream, failed request or late answer
\* makes it stop early.
THEOREM NoEarlyStop == Spec => []StopsAfterTheRow
<1>1. EventsInv => StopsAfterTheRow
  BY DEF EventsInv
<1> QED
  BY <1>1, Inductive, PTL
=============================================================================
