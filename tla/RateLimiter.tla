---------------------------- MODULE RateLimiter ----------------------------
(***************************************************************************)
(* The request pacer of app/pipeline/ratelimit.py, shared by the threads   *)
(* of one process, and its one caller, _call_llm_json of                   *)
(* app/pipeline/llm.py.                                                    *)
(*                                                                         *)
(* Time passes in Ticks.  Instead of stamps and a clock the model keeps    *)
(* ages: how long ago a stamp was taken.  A stamp that reaches the age of  *)
(* the window is dropped at once, where the code drops it the next time it *)
(* takes the lock; every reader prunes first, so nobody can tell.          *)
(***************************************************************************)
EXTENDS Integers, Sequences

CONSTANTS
    Callers,                 \* threads that call the provider
    Quotas,                  \* limits configured, or reported by a 429
    ConfiguredLimit,         \* settings.llm_requests_per_minute
    MarginPercent,           \* settings.llm_rate_limit_margin, in percent
    WINDOW_SECONDS,
    WINDOW_OVERHANG_SECONDS,
    MAX_WAIT_SECONDS,
    MAX_TOTAL_WAIT_SECONDS

ASSUME ConstantsAssumption ==
    /\ Quotas \subseteq Nat \ {0}
    /\ ConfiguredLimit \in Quotas
    /\ MarginPercent \in Nat
    /\ WINDOW_SECONDS \in Nat \ {0}
    /\ WINDOW_OVERHANG_SECONDS \in Nat \ {0}
    /\ MAX_WAIT_SECONDS \in Nat \ {0}
    /\ MAX_TOTAL_WAIT_SECONDS \in Nat

VARIABLES
    limit,    \* _limit
    sent,     \* _sent: the ages of the stamps, oldest first
    caller,   \* what each thread is doing
    granted,  \* history: ages of the slots given out in the last window
    quiet     \* history: time since the provider last refused (up to a window)

vars == <<limit, sent, caller, granted, quiet>>

Ages == 0 .. WINDOW_SECONDS - 1

\* `waited` is now - started, kept up to the most anything compares it with.
Caller == [pc : {"idle", "trying", "asleep", "calling"},
           waited : 0..MAX_TOTAL_WAIT_SECONDS, sleep : 0..MAX_WAIT_SECONDS]
IdleCaller == [pc |-> "idle", waited |-> 0, sleep |-> 0]

TypeOK ==
    /\ limit \in Quotas
    /\ sent \in Seq(Ages)
    /\ caller \in [Callers -> Caller]
    /\ granted \in Seq(Ages)
    /\ quiet \in 0..WINDOW_SECONDS

-----------------------------------------------------------------------------
Lesser(a, b) == IF a <= b THEN a ELSE b

\* max(1, int(limit * margin))
Capacity(l) ==
    LET slots == (l * MarginPercent) \div 100 IN IF slots > 1 THEN slots ELSE 1

capacity == Capacity(limit)

Init ==
    /\ limit = ConfiguredLimit
    /\ sent = <<>>
    /\ caller = [c \in Callers |-> IdleCaller]
    /\ granted = <<>>
    /\ quiet = WINDOW_SECONDS

\* _call_llm_json is entered: acquire starts its clock.
Call(c) ==
    /\ caller[c].pc = "idle"
    /\ caller' = [caller EXCEPT ![c] = [IdleCaller EXCEPT !.pc = "trying"]]
    /\ UNCHANGED <<limit, sent, granted, quiet>>

\* Mutant: off by one.
HasSlotOffByOne == Len(sent) <= capacity

HasSlot == Len(sent) < capacity

TakeSlot(c) ==
    /\ caller[c].pc = "trying"
    /\ HasSlot
    /\ sent' = Append(sent, 0)
    /\ granted' = Append(granted, 0)
    /\ caller' = [caller EXCEPT ![c] = [IdleCaller EXCEPT !.pc = "calling"]]
    /\ UNCHANGED <<limit, quiet>>

\* Mutant: wait for the newest stamp.
WaitForNewest ==
    Lesser(MAX_WAIT_SECONDS,
           WINDOW_SECONDS + WINDOW_OVERHANG_SECONDS - sent[Len(sent)])

\* Until the oldest stamp has left the window.
Wait ==
    Lesser(MAX_WAIT_SECONDS,
           WINDOW_SECONDS + WINDOW_OVERHANG_SECONDS - Head(sent))

\* Mutant: nobody gives up.
NeverTooLong(c) == FALSE

TooLong(c) == caller[c].waited + Wait > MAX_TOTAL_WAIT_SECONDS

SleepForSlot(c) ==
    /\ caller[c].pc = "trying"
    /\ ~HasSlot
    /\ ~TooLong(c)
    /\ caller' = [caller EXCEPT ![c].pc = "asleep", ![c].sleep = Wait]
    /\ UNCHANGED <<limit, sent, granted, quiet>>

\* RateLimitTimeout, raised out of the call.
GiveUp(c) ==
    /\ caller[c].pc = "trying"
    /\ ~HasSlot
    /\ TooLong(c)
    /\ caller' = [caller EXCEPT ![c] = IdleCaller]
    /\ UNCHANGED <<limit, sent, granted, quiet>>

\* time.sleep returns, on time or late.
Wake(c) ==
    /\ caller[c].pc = "asleep"
    /\ caller[c].sleep = 0
    /\ caller' = [caller EXCEPT ![c].pc = "trying"]
    /\ UNCHANGED <<limit, sent, granted, quiet>>

\* A reply, a truncated one, or any error but a 429.
Reply(c) ==
    /\ caller[c].pc = "calling"
    /\ caller' = [caller EXCEPT ![c] = IdleCaller]
    /\ UNCHANGED <<limit, sent, granted, quiet>>

\* Mutant: only the free slots are filled.
TopUp(size) ==
    [i \in 1..size |-> IF i \in DOMAIN sent THEN sent[i] ELSE 0]

Fill(size) == [i \in 1..size |-> 0]

\* A 429: adopt the quota it reports, if any, and fill the window as of now.
note_rate_limited(c) ==
    /\ caller[c].pc = "calling"
    /\ limit' \in Quotas \cup {limit}
    /\ sent' = Fill(Capacity(limit'))
    /\ quiet' = 0
    /\ caller' = [caller EXCEPT ![c] = IdleCaller]
    /\ UNCHANGED granted

\* _prune: everything is a tick older, and what left the window is dropped
\* from the front.
Aged(old, new) ==
    \E n \in 0..Len(old) :
      /\ \A i \in 1..n : old[i] + 1 >= WINDOW_SECONDS
      /\ \A i \in (n + 1)..Len(old) : old[i] + 1 < WINDOW_SECONDS
      /\ new = [i \in 1..(Len(old) - n) |-> old[i + n] + 1]

\* A thread under way has waited, and slept, a tick longer.
Waiting(c) ==
    IF caller[c].pc \in {"trying", "asleep"}
    THEN [caller[c] EXCEPT
            !.waited = Lesser(MAX_TOTAL_WAIT_SECONDS, @ + 1),
            !.sleep = IF @ > 0 THEN @ - 1 ELSE 0]
    ELSE caller[c]

Tick ==
    /\ Aged(sent, sent')
    /\ Aged(granted, granted')
    /\ caller' = [c \in Callers |-> Waiting(c)]
    /\ quiet' = Lesser(WINDOW_SECONDS, quiet + 1)
    /\ UNCHANGED limit

-----------------------------------------------------------------------------
Acquire(c) == TakeSlot(c) \/ SleepForSlot(c) \/ GiveUp(c) \/ Wake(c)

Next ==
    \/ Tick
    \/ \E c \in Callers : Call(c) \/ Acquire(c) \/ Reply(c) \/ note_rate_limited(c)

Spec == Init /\ [][Next]_vars

\* Time passes and a thread that can run is run; nobody has to call, and the
\* provider need not answer.
FairSpec == Spec /\ WF_vars(Tick) /\ \A c \in Callers : WF_vars(Acquire(c))

-----------------------------------------------------------------------------
(* Properties *)

\* Pacing: a slot given out is among at most `capacity` given out in the
\* window that ends now, through quota changes and refilled windows.
PacedGrants ==
    [][Len(granted') > Len(granted) => Len(granted') <= capacity]_vars

\* After a refusal no slot is given out for a whole window, however many calls
\* were under way and whatever quota was adopted.
QuietAfterRefusal ==
    [][(\E c \in Callers : TakeSlot(c)) => quiet = WINDOW_SECONDS]_vars

\* "The oldest request leaving the window is the soonest moment the answer
\* changes": nobody sleeps past a free slot by more than the overhang.
NoSleepPastASlot ==
    \A c \in Callers : caller[c].pc = "asleep" /\ HasSlot
        => caller[c].sleep <= WINDOW_OVERHANG_SECONDS

\* Every acquire returns or raises, even if others take each slot first or
\* each refusal fills the window again: no worker is held for ever.
AcquireEnds ==
    \A c \in Callers :
        caller[c].pc \in {"trying", "asleep"} ~> caller[c].pc \in {"calling", "idle"}
=============================================================================
