------------------------- MODULE RateLimiterProofs -------------------------
(***************************************************************************)
(* The pacer never gives out more than its capacity in a window, is quiet  *)
(* for a window after a refusal, and lets nobody sleep past a free slot:   *)
(* for any number of threads, any quotas and any margin.                   *)
(***************************************************************************)
EXTENDS RateLimiter, TLAPS

LEMMA CapacityType ==
    ASSUME NEW l \in Quotas
    PROVE  Capacity(l) \in Nat /\ Capacity(l) >= 1
<1> DEFINE slots == (l * MarginPercent) \div 100
<1>1. l * MarginPercent \in Int
  BY ConstantsAssumption
<1>2. slots \in Int
  BY <1>1
<1> HIDE DEF slots
<1>3. IF slots > 1 THEN slots \in Nat /\ slots >= 1 ELSE 1 \in Nat /\ 1 >= 1
  BY <1>2
<1> QED
  BY <1>3 DEF Capacity, slots

LEMMA AgeType ==
    ASSUME NEW s \in Seq(Ages), NEW k \in 1..Len(s)
    PROVE  s[k] \in Nat
  BY ConstantsAssumption DEF Ages

\* What a tick does to a sequence of ages.
LEMMA AgedType ==
    ASSUME NEW old \in Seq(Ages), NEW new, Aged(old, new)
    PROVE  new \in Seq(Ages) /\ Len(new) <= Len(old)
<1>1. PICK n \in 0..Len(old) :
        /\ \A i \in (n + 1)..Len(old) : old[i] + 1 < WINDOW_SECONDS
        /\ new = [i \in 1..(Len(old) - n) |-> old[i + n] + 1]
  BY DEF Aged
<1>2. \A i \in 1..(Len(old) - n) : old[i + n] + 1 \in Ages
  BY <1>1, ConstantsAssumption DEF Ages
<1> QED
  BY <1>1, <1>2, ConstantsAssumption DEF Ages

LEMMA WaitType ==
    ASSUME TypeOK, Len(sent) >= 1
    PROVE  /\ Wait \in 0..MAX_WAIT_SECONDS
           /\ Head(sent) \in Ages
           /\ Wait <= WINDOW_SECONDS + WINDOW_OVERHANG_SECONDS - Head(sent)
<1>1. Head(sent) \in Ages
  BY DEF TypeOK
<1> QED
  BY <1>1, ConstantsAssumption DEF Wait, Lesser, Ages

LEMMA WaitingType ==
    ASSUME TypeOK, NEW c \in Callers
    PROVE  Waiting(c) \in Caller
<1> DEFINE waited == Lesser(MAX_TOTAL_WAIT_SECONDS, caller[c].waited + 1)
           sleep == IF caller[c].sleep > 0 THEN caller[c].sleep - 1 ELSE 0
<1>1. caller[c] \in Caller
  BY DEF TypeOK
<1>2. waited \in 0..MAX_TOTAL_WAIT_SECONDS /\ sleep \in 0..MAX_WAIT_SECONDS
  BY <1>1, ConstantsAssumption DEF Caller, Lesser
<1>3. Waiting(c) = IF caller[c].pc \in {"trying", "asleep"}
                   THEN [caller[c] EXCEPT !.waited = waited, !.sleep = sleep]
                   ELSE caller[c]
  BY DEF Waiting
<1> HIDE DEF waited, sleep
<1> QED
  BY <1>1, <1>2, <1>3 DEF Caller

LEMMA TypeStep ==
    ASSUME TypeOK, [Next]_vars
    PROVE  TypeOK'
<1> USE ConstantsAssumption
<1>0. IdleCaller \in Caller
      /\ [IdleCaller EXCEPT !.pc = "trying"] \in Caller
      /\ [IdleCaller EXCEPT !.pc = "calling"] \in Caller
      /\ 0 \in Ages
  BY DEF IdleCaller, Caller, Ages
<1>1. CASE Tick
  <2>1. sent' \in Seq(Ages) /\ granted' \in Seq(Ages)
    BY <1>1, AgedType DEF Tick, TypeOK
  <2>2. caller' \in [Callers -> Caller]
    BY <1>1, WaitingType DEF Tick
  <2>3. quiet' \in 0..WINDOW_SECONDS
    BY <1>1 DEF Tick, TypeOK, Lesser
  <2> QED
    BY <1>1, <2>1, <2>2, <2>3 DEF Tick, TypeOK
<1>2. ASSUME NEW c \in Callers, Call(c) \/ Reply(c) \/ GiveUp(c)
      PROVE  TypeOK'
  BY <1>0, <1>2 DEF Call, Reply, GiveUp, TypeOK
<1>3. ASSUME NEW c \in Callers, TakeSlot(c)
      PROVE  TypeOK'
  BY <1>0, <1>3 DEF TakeSlot, TypeOK
<1>4. ASSUME NEW c \in Callers, SleepForSlot(c)
      PROVE  TypeOK'
  <2>1. Len(sent) >= 1
    BY <1>4, CapacityType DEF SleepForSlot, HasSlot, capacity, TypeOK
  <2>2. caller' \in [Callers -> Caller]
    BY <1>4, <2>1, WaitType DEF SleepForSlot, TypeOK, Caller
  <2> QED
    BY <1>4, <2>2 DEF SleepForSlot, TypeOK
<1>5. ASSUME NEW c \in Callers, Wake(c)
      PROVE  TypeOK'
  BY <1>5 DEF Wake, TypeOK, Caller
<1>6. ASSUME NEW c \in Callers, note_rate_limited(c)
      PROVE  TypeOK'
  <2>1. limit' \in Quotas
    BY <1>6 DEF note_rate_limited, TypeOK
  <2>2. Capacity(limit') \in Nat
    BY <2>1, CapacityType
  <2>3. sent' \in Seq(Ages)
    BY <1>0, <1>6, <2>2 DEF note_rate_limited, Fill
  <2> QED
    BY <1>0, <1>6, <2>1, <2>3 DEF note_rate_limited, TypeOK
<1>7. CASE UNCHANGED vars
  BY <1>7 DEF vars, TypeOK
<1> QED
  BY <1>1, <1>2, <1>3, <1>4, <1>5, <1>6, <1>7 DEF Next, Acquire

\* Ages stay within the window and waits within their limits.
THEOREM TypeCorrect == Spec => []TypeOK
<1>1. Init => TypeOK
  BY ConstantsAssumption DEF Init, TypeOK, IdleCaller, Caller
<1>2. TypeOK /\ [Next]_vars => TypeOK'
  BY TypeStep
<1> QED
  BY <1>1, <1>2, PTL DEF Spec

-----------------------------------------------------------------------------
(* The window counts what was given out *)

\* The youngest stamps are those of the slots given out.
Counted ==
    /\ Len(granted) <= Len(sent)
    /\ \A i \in 1..Len(granted) :
         granted[i] = sent[i + (Len(sent) - Len(granted))]

\* Since a refusal the window is full of stamps as old as the refusal, and
\* what was given out before is at least as old.
Refilled ==
    /\ Len(sent) = capacity
    /\ \A i \in 1..Len(sent) : sent[i] = quiet
    /\ \A i \in 1..Len(granted) : granted[i] >= quiet

WindowInv ==
    /\ Len(sent) <= capacity
    /\ quiet = WINDOW_SECONDS => Counted
    /\ quiet < WINDOW_SECONDS => Refilled

LEMMA TickCounted ==
    ASSUME TypeOK, Counted, Tick
    PROVE  Counted'
<1> USE ConstantsAssumption DEF TypeOK
<1>1. PICK n \in 0..Len(sent) :
        /\ \A i \in 1..n : sent[i] + 1 >= WINDOW_SECONDS
        /\ \A i \in (n + 1)..Len(sent) : sent[i] + 1 < WINDOW_SECONDS
        /\ sent' = [i \in 1..(Len(sent) - n) |-> sent[i + n] + 1]
  BY DEF Tick, Aged
<1>2. PICK m \in 0..Len(granted) :
        /\ \A i \in 1..m : granted[i] + 1 >= WINDOW_SECONDS
        /\ \A i \in (m + 1)..Len(granted) : granted[i] + 1 < WINDOW_SECONDS
        /\ granted' = [i \in 1..(Len(granted) - m) |-> granted[i + m] + 1]
  BY DEF Tick, Aged
<1>3. Len(sent') = Len(sent) - n /\ Len(granted') = Len(granted) - m
  BY <1>1, <1>2
<1> DEFINE shift == Len(sent) - Len(granted)
<1>4. shift \in Nat /\ \A i \in 1..Len(granted) : granted[i] = sent[i + shift]
  BY DEF Counted
<1>5. n <= m + shift
  <2>1. SUFFICES ASSUME n > m + shift PROVE FALSE
    BY <1>4
  <2>2. m + 1 \in (m + 1)..Len(granted) /\ m + 1 + shift \in 1..n
    BY <1>4, <2>1
  <2>3. granted[m + 1] = sent[m + 1 + shift]
    BY <1>4, <2>2
  <2>4. granted[m + 1] + 1 < WINDOW_SECONDS /\ sent[m + 1 + shift] + 1 >= WINDOW_SECONDS
    BY <1>1, <1>2, <2>2
  <2>5. granted[m + 1] \in Ages
    BY <2>2
  <2> QED
    BY <2>3, <2>4, <2>5 DEF Ages
<1>6. Len(granted') <= Len(sent')
  BY <1>3, <1>4, <1>5
<1>7. ASSUME NEW i \in 1..Len(granted')
      PROVE  granted'[i] = sent'[i + (Len(sent') - Len(granted'))]
  <2>1. i + m \in 1..Len(granted)
    BY <1>3
  <2>2. i + (Len(sent') - Len(granted')) \in 1..(Len(sent) - n)
        /\ i + (Len(sent') - Len(granted')) + n = i + m + shift
    BY <1>3, <1>4, <1>5, <1>6
  <2>3. granted'[i] = granted[i + m] + 1
    BY <1>2, <1>3
  <2>4. sent'[i + (Len(sent') - Len(granted'))] = sent[i + m + shift] + 1
    BY <1>1, <2>2
  <2> QED
    BY <1>4, <2>1, <2>3, <2>4
<1> QED
  BY <1>6, <1>7 DEF Counted

LEMMA TickRefilled ==
    ASSUME TypeOK, Refilled, quiet < WINDOW_SECONDS, Tick
    PROVE  /\ quiet' = quiet + 1
           /\ quiet' < WINDOW_SECONDS => Refilled'
           /\ quiet' = WINDOW_SECONDS => Counted' /\ Len(sent') = 0
<1> USE ConstantsAssumption DEF TypeOK
<1>1. PICK n \in 0..Len(sent) :
        /\ \A i \in 1..n : sent[i] + 1 >= WINDOW_SECONDS
        /\ \A i \in (n + 1)..Len(sent) : sent[i] + 1 < WINDOW_SECONDS
        /\ sent' = [i \in 1..(Len(sent) - n) |-> sent[i + n] + 1]
  BY DEF Tick, Aged
<1>2. PICK m \in 0..Len(granted) :
        /\ \A i \in 1..m : granted[i] + 1 >= WINDOW_SECONDS
        /\ \A i \in (m + 1)..Len(granted) : granted[i] + 1 < WINDOW_SECONDS
        /\ granted' = [i \in 1..(Len(granted) - m) |-> granted[i + m] + 1]
  BY DEF Tick, Aged
<1>3. Len(sent') = Len(sent) - n /\ Len(granted') = Len(granted) - m
  BY <1>1, <1>2
<1>4. quiet' = quiet + 1
  BY DEF Tick, Lesser
<1>5. CASE quiet + 1 < WINDOW_SECONDS
  <2>1. n = 0
    <3>1. SUFFICES ASSUME 1 \in 1..n PROVE FALSE
      OBVIOUS
    <3> QED
      BY <1>1, <1>5, <3>1 DEF Refilled
  <2>2. Len(sent') = capacity'
    BY <1>3, <2>1 DEF Refilled, Tick, capacity
  <2>3. \A i \in 1..Len(sent') : sent'[i] = quiet'
    BY <1>1, <1>3, <1>4, <2>1 DEF Refilled
  <2>4. \A i \in 1..Len(granted') : granted'[i] >= quiet'
    <3>1. SUFFICES ASSUME NEW i \in 1..Len(granted')
                   PROVE  granted'[i] >= quiet'
      OBVIOUS
    <3>2. i + m \in 1..Len(granted) /\ granted'[i] = granted[i + m] + 1
      BY <1>2, <1>3
    <3>3. granted[i + m] \in Nat /\ granted[i + m] >= quiet
      <4> DEFINE k == i + m
      <4>1. k \in 1..Len(granted)
        BY <3>2
      <4> HIDE DEF k
      <4>2. granted[k] \in Nat
        BY <4>1, AgeType
      <4>3. granted[k] >= quiet
        BY <4>1 DEF Refilled
      <4> QED
        BY <4>2, <4>3 DEF k
    <3>4. quiet \in Nat
      OBVIOUS
    <3> HIDE DEF TypeOK
    <3> QED
      BY <1>4, <3>2, <3>3, <3>4
  <2> QED
    BY <1>4, <1>5, <2>2, <2>3, <2>4 DEF Refilled
<1>6. CASE quiet + 1 >= WINDOW_SECONDS
  <2>1. n = Len(sent)
    <3>1. SUFFICES ASSUME n + 1 \in (n + 1)..Len(sent) PROVE FALSE
      OBVIOUS
    <3> QED
      BY <1>1, <1>6, <3>1 DEF Refilled
  <2>2. m = Len(granted)
    <3>1. SUFFICES ASSUME m + 1 \in (m + 1)..Len(granted) PROVE FALSE
      OBVIOUS
    <3>2. granted[m + 1] \in Ages /\ granted[m + 1] >= quiet
      BY <3>1 DEF Refilled
    <3> QED
      BY <1>2, <1>6, <3>1, <3>2 DEF Ages
  <2> QED
    BY <1>3, <1>4, <1>6, <2>1, <2>2 DEF Counted
<1> QED
  BY <1>4, <1>5, <1>6

\* A thread may take a slot only when no refusal is left in the window.
LEMMA SlotMeansQuiet ==
    ASSUME TypeOK, WindowInv, HasSlot
    PROVE  quiet = WINDOW_SECONDS
  BY ConstantsAssumption, CapacityType
     DEF TypeOK, WindowInv, Refilled, HasSlot, capacity

LEMMA WindowStep ==
    ASSUME TypeOK, TypeOK', WindowInv, [Next]_vars
    PROVE  WindowInv'
<1> USE ConstantsAssumption
<1>0. capacity \in Nat /\ capacity >= 1
  BY CapacityType DEF capacity, TypeOK
<1>1. CASE Tick
  <2>1. capacity' = capacity
    BY <1>1 DEF Tick, capacity
  <2>2. Len(sent') <= Len(sent) /\ Len(sent') \in Nat
    BY <1>1, AgedType DEF Tick, TypeOK
  <2>3. Len(sent') <= capacity'
    BY <1>0, <2>1, <2>2 DEF WindowInv, TypeOK
  <2>4. CASE quiet = WINDOW_SECONDS
    <3>1. quiet' = WINDOW_SECONDS
      BY <1>1, <2>4 DEF Tick, Lesser
    <3> QED
      BY <1>1, <2>3, <2>4, <3>1, TickCounted DEF WindowInv
  <2>5. CASE quiet < WINDOW_SECONDS
    BY <1>1, <2>3, <2>5, TickRefilled DEF WindowInv
  <2> QED
    BY <2>4, <2>5 DEF TypeOK
<1>2. ASSUME NEW c \in Callers, TakeSlot(c)
      PROVE  WindowInv'
  <2>1. quiet = WINDOW_SECONDS /\ quiet' = quiet /\ capacity' = capacity
    BY <1>2, SlotMeansQuiet DEF TakeSlot, capacity
  <2>2. Len(sent') = Len(sent) + 1 /\ Len(granted') = Len(granted) + 1
    BY <1>2 DEF TakeSlot, TypeOK
  <2>3. Len(sent') <= capacity'
    BY <1>0, <1>2, <2>1, <2>2 DEF TakeSlot, HasSlot, TypeOK
  <2>4. Counted
    BY <2>1 DEF WindowInv
  <2>5. Len(granted') <= Len(sent')
    BY <2>2, <2>4 DEF Counted, TypeOK
  <2>6. ASSUME NEW i \in 1..Len(granted')
        PROVE  granted'[i] = sent'[i + (Len(sent') - Len(granted'))]
    <3> DEFINE shift == Len(sent) - Len(granted)
    <3>1. Len(sent) \in Nat /\ Len(granted) \in Nat /\ shift \in Nat
          /\ Len(sent') - Len(granted') = shift
      BY <2>2, <2>4 DEF Counted, TypeOK
    <3>2. CASE i \in 1..Len(granted)
      <4>1. i + shift \in 1..Len(sent)
        BY <3>1, <3>2
      <4>2. granted'[i] = granted[i] /\ sent'[i + shift] = sent[i + shift]
        BY <1>2, <3>2, <4>1 DEF TakeSlot, TypeOK
      <4>3. granted[i] = sent[i + shift]
        BY <2>4, <3>2 DEF Counted
      <4> QED
        BY <3>1, <4>2, <4>3
    <3>3. CASE i = Len(granted) + 1
      <4>1. i + shift = Len(sent) + 1
        BY <3>1, <3>3
      <4>2. granted'[i] = 0 /\ sent'[Len(sent) + 1] = 0
        BY <1>2, <3>3 DEF TakeSlot, TypeOK
      <4> QED
        BY <3>1, <4>1, <4>2
    <3> QED
      BY <2>2, <3>1, <3>2, <3>3
  <2> QED
    BY <2>1, <2>3, <2>5, <2>6 DEF WindowInv, Counted
<1>3. ASSUME NEW c \in Callers, note_rate_limited(c)
      PROVE  WindowInv'
  <2>1. limit' \in Quotas /\ quiet' = 0 /\ granted' = granted
        /\ sent' = Fill(Capacity(limit'))
    BY <1>3 DEF note_rate_limited, TypeOK
  <2>2. capacity' \in Nat /\ capacity' = Capacity(limit')
    BY <2>1, CapacityType DEF capacity
  <2>3. Len(sent') = capacity' /\ \A i \in 1..Len(sent') : sent'[i] = 0
    BY <2>1, <2>2 DEF Fill
  <2>4. \A i \in 1..Len(granted') : granted'[i] >= 0
    BY <2>1 DEF TypeOK, Ages
  <2> QED
    BY <2>1, <2>2, <2>3, <2>4 DEF WindowInv, Refilled
<1>4. CASE UNCHANGED <<limit, sent, granted, quiet>>
  BY <1>4 DEF WindowInv, Counted, Refilled, capacity
<1>5. ASSUME NEW c \in Callers,
             Call(c) \/ SleepForSlot(c) \/ GiveUp(c) \/ Wake(c) \/ Reply(c)
      PROVE  UNCHANGED <<limit, sent, granted, quiet>>
  BY <1>5 DEF Call, SleepForSlot, GiveUp, Wake, Reply
<1>6. CASE UNCHANGED vars
  BY <1>4, <1>6 DEF vars
<1> QED
  BY <1>1, <1>2, <1>3, <1>4, <1>5, <1>6 DEF Next, Acquire

LEMMA WindowInit == Init => WindowInv
<1> SUFFICES ASSUME Init PROVE WindowInv
  OBVIOUS
<1>1. capacity \in Nat /\ capacity >= 1
  BY CapacityType, ConstantsAssumption DEF Init, capacity
<1> QED
  BY <1>1, ConstantsAssumption DEF Init, WindowInv, Counted

THEOREM WindowInvariant == Spec => []WindowInv
<1>1. TypeOK /\ TypeOK' /\ WindowInv /\ [Next]_vars => WindowInv'
  BY WindowStep
<1> QED
  BY <1>1, WindowInit, TypeCorrect, PTL DEF Spec

\* However many threads share the pacer and whatever quotas the provider
\* reports, a slot given out is among at most `capacity` of the last window.
THEOREM RequestsArePaced == Spec => PacedGrants
<1>1. TypeOK /\ WindowInv /\ [Next]_vars =>
        [Len(granted') > Len(granted) => Len(granted') <= capacity]_vars
  <2> SUFFICES ASSUME TypeOK, WindowInv, [Next]_vars,
                      Len(granted') > Len(granted)
               PROVE  Len(granted') <= capacity
    OBVIOUS
  <2>1. Len(granted) \in Nat
    BY DEF TypeOK
  <2>2. ~Tick
    BY <2>1, AgedType DEF Tick, TypeOK
  <2>3. granted' # granted
    BY <2>1
  <2>4. PICK c \in Callers : TakeSlot(c)
    BY <2>2, <2>3 DEF Next, Acquire, vars, Call, SleepForSlot, GiveUp, Wake,
                      Reply, note_rate_limited
  <2>5. Counted
    BY <2>4, SlotMeansQuiet DEF TakeSlot, WindowInv
  <2>6. Len(granted') = Len(granted) + 1 /\ Len(sent) < capacity
    BY <2>4 DEF TakeSlot, HasSlot, TypeOK
  <2>7. capacity \in Nat
    BY CapacityType DEF capacity, TypeOK
  <2> QED
    BY <2>1, <2>5, <2>6, <2>7 DEF Counted, TypeOK
<1> QED
  BY <1>1, WindowInvariant, TypeCorrect, PTL DEF Spec, PacedGrants

\* After a refusal the pacer gives nothing out for a whole window.
THEOREM RefusalsAreHeeded == Spec => QuietAfterRefusal
<1>1. TypeOK /\ WindowInv =>
        [(\E c \in Callers : TakeSlot(c)) => quiet = WINDOW_SECONDS]_vars
  BY SlotMeansQuiet DEF TakeSlot
<1> QED
  BY <1>1, WindowInvariant, TypeCorrect, PTL DEF Spec, QuietAfterRefusal
-----------------------------------------------------------------------------
(* Nobody sleeps past a free slot *)

\* How long a thread may still sleep: till the oldest stamp leaves and the
\* overhang after it is over.
SleepBound ==
    IF HasSlot THEN WINDOW_OVERHANG_SECONDS
    ELSE WINDOW_SECONDS + WINDOW_OVERHANG_SECONDS - Head(sent)

SleepInv == \A c \in Callers : caller[c].pc = "asleep" => caller[c].sleep <= SleepBound

LEMMA SleepBoundType ==
    ASSUME TypeOK
    PROVE  /\ SleepBound \in Int
           /\ SleepBound >= WINDOW_OVERHANG_SECONDS
           /\ ~HasSlot => Len(sent) >= 1 /\ Head(sent) \in Ages
<1>1. capacity \in Nat /\ capacity >= 1
  BY CapacityType DEF capacity, TypeOK
<1>2. ~HasSlot => Len(sent) >= 1 /\ Head(sent) \in Ages
  BY <1>1 DEF HasSlot, TypeOK
<1> QED
  BY <1>2, ConstantsAssumption DEF SleepBound, Ages

LEMMA SleepBoundTypeNext ==
    ASSUME TypeOK'
    PROVE  SleepBound' \in Int /\ SleepBound' >= WINDOW_OVERHANG_SECONDS
<1>1. capacity' \in Nat /\ capacity' >= 1
  BY CapacityType DEF capacity, TypeOK
<1>2. ~HasSlot' => Len(sent') >= 1 /\ Head(sent') \in Ages
  BY <1>1 DEF HasSlot, TypeOK
<1> QED
  BY <1>2, ConstantsAssumption DEF SleepBound, Ages

\* A tick takes one off the bound at most, and one off every sleep.
LEMMA TickBound ==
    ASSUME TypeOK, WindowInv, Tick
    PROVE  SleepBound' >= SleepBound - 1 /\ SleepBound' >= WINDOW_OVERHANG_SECONDS
<1> USE ConstantsAssumption
<1>1. PICK n \in 0..Len(sent) :
        /\ \A i \in 1..n : sent[i] + 1 >= WINDOW_SECONDS
        /\ sent' = [i \in 1..(Len(sent) - n) |-> sent[i + n] + 1]
  BY DEF Tick, Aged
<1>2. capacity' = capacity /\ capacity \in Nat /\ capacity >= 1
  BY CapacityType DEF Tick, capacity, TypeOK
<1>3. Len(sent) \in Nat /\ Len(sent) <= capacity /\ Len(sent') = Len(sent) - n
  BY <1>1 DEF TypeOK, WindowInv
<1>4. HasSlot <=> Len(sent) < capacity
  BY DEF HasSlot
<1>5. HasSlot' <=> Len(sent') < capacity
  BY <1>2 DEF HasSlot
<1>6. CASE HasSlot
  BY <1>2, <1>3, <1>4, <1>5, <1>6 DEF SleepBound
<1>7. CASE ~HasSlot /\ n = 0
  <2>1. Len(sent) >= 1 /\ ~HasSlot'
    BY <1>2, <1>3, <1>4, <1>5, <1>7
  <2>2. Head(sent) = sent[1] /\ sent[1] \in Ages
    BY <2>1 DEF TypeOK
  <2>3. sent' \in Seq(Ages) /\ sent'[1] = sent[1] + 1
    BY <1>1, <1>7, <2>1, AgedType DEF Tick, TypeOK
  <2>4. Head(sent') = sent[1] + 1 /\ sent[1] + 1 \in Ages
    BY <1>3, <1>7, <2>1, <2>3
  <2> QED
    BY <1>7, <2>1, <2>2, <2>4 DEF SleepBound, Ages
<1>8. CASE ~HasSlot /\ n # 0
  <2>1. HasSlot'
    BY <1>2, <1>3, <1>5, <1>8
  <2>2. 1 \in 1..n /\ Head(sent) = sent[1] /\ sent[1] \in Ages
    BY <1>3, <1>8 DEF TypeOK
  <2>3. sent[1] + 1 >= WINDOW_SECONDS
    BY <1>1, <2>2
  <2> QED
    BY <1>8, <2>1, <2>2, <2>3 DEF SleepBound, Ages
<1> QED
  BY <1>6, <1>7, <1>8

LEMMA SleepStep ==
    ASSUME TypeOK, TypeOK', WindowInv, SleepInv, [Next]_vars
    PROVE  SleepInv'
<1> USE ConstantsAssumption
<1>0. capacity \in Nat /\ capacity >= 1
  BY CapacityType DEF capacity, TypeOK
<1> SUFFICES ASSUME NEW s \in Callers, caller'[s].pc = "asleep"
             PROVE  caller'[s].sleep <= SleepBound'
  BY DEF SleepInv
<1>1. CASE Tick
  <2>1. caller[s] \in Caller /\ caller'[s] = Waiting(s)
    BY <1>1 DEF Tick, TypeOK
  <2>2. caller[s].pc = "asleep"
        /\ caller'[s].sleep = IF caller[s].sleep > 0 THEN caller[s].sleep - 1 ELSE 0
    BY <2>1 DEF Waiting, Caller
  <2>3. caller[s].sleep \in Nat /\ caller[s].sleep <= SleepBound
    BY <2>1, <2>2 DEF SleepInv, Caller
  <2>4. SleepBound \in Int /\ SleepBound' \in Int
    BY SleepBoundType, SleepBoundTypeNext
  <2> QED
    BY <1>1, <2>2, <2>3, <2>4, TickBound
<1>2. ASSUME NEW c \in Callers, TakeSlot(c)
      PROVE  caller'[s].sleep <= SleepBound'
  <2>1. caller'[s] = caller[s]
    BY <1>2 DEF TakeSlot, TypeOK, IdleCaller
  <2>2. caller[s].sleep <= WINDOW_OVERHANG_SECONDS /\ caller[s].sleep \in Nat
    BY <1>2, <2>1 DEF TakeSlot, SleepInv, SleepBound, TypeOK, Caller
  <2>3. SleepBound' \in Int /\ SleepBound' >= WINDOW_OVERHANG_SECONDS
    BY SleepBoundTypeNext
  <2> QED
    BY <2>1, <2>2, <2>3
<1>3. ASSUME NEW c \in Callers, note_rate_limited(c)
      PROVE  caller'[s].sleep <= SleepBound'
  <2>1. caller'[s] = caller[s] /\ caller[s].sleep \in Nat
    BY <1>3 DEF note_rate_limited, TypeOK, IdleCaller, Caller
  <2>2. caller[s].sleep <= WINDOW_SECONDS + WINDOW_OVERHANG_SECONDS
    BY <2>1, SleepBoundType DEF SleepInv, SleepBound, Ages
  <2>3. limit' \in Quotas /\ sent' = Fill(Capacity(limit'))
    BY <1>3 DEF note_rate_limited, TypeOK
  <2>4. capacity' \in Nat /\ capacity' >= 1 /\ capacity' = Capacity(limit')
    BY <2>3, CapacityType DEF capacity
  <2>5. Len(sent') = capacity' /\ Head(sent') = 0
    BY <2>3, <2>4 DEF Fill
  <2>6. ~HasSlot'
    BY <2>4, <2>5 DEF HasSlot
  <2> QED
    BY <2>1, <2>2, <2>5, <2>6 DEF SleepBound
<1>4. ASSUME NEW c \in Callers, SleepForSlot(c)
      PROVE  caller'[s].sleep <= SleepBound'
  <2>1. SleepBound' = SleepBound
    BY <1>4 DEF SleepForSlot, SleepBound, HasSlot, capacity
  <2>2. CASE s = c
    <3>1. caller'[s].sleep = Wait
      BY <1>4, <2>2 DEF SleepForSlot, TypeOK, Caller
    <3>2. SleepBound = WINDOW_SECONDS + WINDOW_OVERHANG_SECONDS - Head(sent)
      BY <1>4 DEF SleepForSlot, SleepBound
    <3>3. Len(sent) >= 1
      BY <1>4, SleepBoundType DEF SleepForSlot
    <3> QED
      BY <2>1, <3>1, <3>2, <3>3, WaitType
  <2>3. CASE s # c
    BY <1>4, <2>1, <2>3 DEF SleepForSlot, SleepInv, TypeOK
  <2> QED
    BY <2>2, <2>3
<1>5. ASSUME NEW c \in Callers, Call(c) \/ GiveUp(c) \/ Wake(c) \/ Reply(c)
      PROVE  caller'[s].sleep <= SleepBound'
  <2>1. SleepBound' = SleepBound
    BY <1>5 DEF Call, GiveUp, Wake, Reply, SleepBound, HasSlot, capacity
  <2>2. s # c
    <3>1. SUFFICES ASSUME s = c PROVE caller'[s].pc # "asleep"
      OBVIOUS
    <3>2. CASE Wake(c)
      BY <3>1, <3>2 DEF Wake, TypeOK, Caller
    <3> QED
      BY <1>5, <3>1, <3>2 DEF Call, GiveUp, Reply, TypeOK, IdleCaller
  <2>3. caller'[s] = caller[s]
    BY <1>5, <2>2 DEF Call, GiveUp, Wake, Reply, TypeOK
  <2> QED
    BY <2>1, <2>3 DEF SleepInv
<1>6. CASE UNCHANGED vars
  BY <1>6 DEF vars, SleepInv, SleepBound, HasSlot, capacity
<1> QED
  BY <1>1, <1>2, <1>3, <1>4, <1>5, <1>6 DEF Next, Acquire

\* A sleeping thread wakes within the overhang of a slot becoming free.
THEOREM NobodySleepsPastASlot == Spec => []NoSleepPastASlot
<1>1. Init => SleepInv
  BY DEF Init, SleepInv, IdleCaller
<1>2. TypeOK /\ TypeOK' /\ WindowInv /\ SleepInv /\ [Next]_vars => SleepInv'
  BY SleepStep
<1>3. SleepInv => NoSleepPastASlot
  BY DEF SleepInv, SleepBound, NoSleepPastASlot
<1> QED
  BY <1>1, <1>2, <1>3, WindowInvariant, TypeCorrect, PTL DEF Spec
=============================================================================
