--------------------------- MODULE RateTheorems ---------------------------
(***************************************************************************)
(* Proofs about RateLimiter.  What is let through and what the bucket      *)
(* could give out now balance: a grant moves a token from one to the       *)
(* other, a tick adds at most the rate, and opening a window starts from a *)
(* bucket that is at most full.                                            *)
(***************************************************************************)
EXTENDS RateProperties, Integers, TLAPS

Balance == Enabled => granted * Minute + Available <= Full + span * rate

RateInv == TypeOK /\ Balance /\ NoOversleep

-----------------------------------------------------------------------------
(* Arithmetic. *)

\* Products of naturals, one factor growing by one.
LEMMA Products ==
  \A x, y \in Nat : x * y \in Nat /\ (x + 1) * y = x * y + y
  OBVIOUS

\* The smaller of two naturals.
LEMMA AtMostType ==
  \A m, n \in Nat : AtMost(m, n) \in 0 .. m /\ (n <= m => AtMost(m, n) = n)
  BY DEF AtMost

\* A larger factor gives a larger product.
LEMMA ProductsMonotone ==
  ASSUME NEW a \in Int, NEW b \in Int, NEW r \in Nat, a <= b
  PROVE  a * r <= b * r
  OBVIOUS

\* A bucket has room for at least one call.
LEMMA FullType ==
  ASSUME rate \in Nat
  PROVE  Full \in Nat /\ Full >= Minute
  <1>1. Capacity \in Nat /\ Capacity >= 1
    BY RateAssumption DEF Capacity, AtLeast
  <1>2. PICK n \in Nat : Capacity = n + 1
    <2>1. Capacity - 1 \in Nat /\ Capacity = (Capacity - 1) + 1
      BY <1>1
    <2> QED
      BY <2>1
  <1>3. Full = n * Minute + Minute
    BY <1>2, Products, RateAssumption DEF Full
  <1> QED
    BY <1>3, Products, RateAssumption

\* What the bucket could give out lies between nothing and all of it.
LEMMA AvailableType ==
  ASSUME TypeOK
  PROVE  /\ rate \in Nat /\ Full \in Nat /\ Available \in 0 .. Full
         /\ Refilled = Available
  <1>1. rate \in Nat /\ Full \in Nat
    BY FullType, RateAssumption DEF TypeOK
  <1>2. elapsed * rate \in Nat
    BY <1>1, Products DEF TypeOK
  <1> QED
    BY <1>1, <1>2 DEF TypeOK, Available, Refilled, AtMost

\* Sleeping for Wait(n) ticks is not sleeping a tick too long.
LEMMA WaitIsTight ==
  ASSUME NEW n \in Nat, n < Minute, rate \in Nat, rate > 0
  PROVE  Wait(n) \in Nat /\ (Wait(n) - 1) * rate + n < Minute
  <1>1. Minute - n + rate - 1 \in Nat
    BY RateAssumption
  <1>2. Wait(n) \in Nat /\ Wait(n) * rate <= Minute - n + rate - 1
    BY <1>1 DEF Wait
  <1>3. (Wait(n) - 1) * rate = Wait(n) * rate - rate
    BY <1>2
  <1>4. Wait(n) * rate \in Nat
    BY <1>2, Products
  <1> QED
    BY <1>2, <1>3, <1>4, RateAssumption

-----------------------------------------------------------------------------
(* The steps. *)

\* A tick gives the bucket at most the rate, and takes nothing from it.
LEMMA TickAvailable ==
  ASSUME TypeOK, NEW opens \in BOOLEAN, Tick(opens), Enabled
  PROVE  Available <= Available' /\ Available' <= Available + rate
  <1>1. rate \in Nat /\ Full \in Nat /\ tokens \in Nat /\ elapsed \in Nat
    BY FullType, RateAssumption DEF TypeOK
  <1>2. rate' = rate /\ tokens' = tokens /\ Full' = Full
    BY DEF Tick, Full, Capacity
  <1>3. elapsed' = elapsed + 1 \/ elapsed' = elapsed
    BY <1>1 DEF Tick, AtMost, TypeOK
  <1>4. elapsed * rate \in Nat /\ (elapsed + 1) * rate = elapsed * rate + rate
    BY <1>1, Products
  <1>5. elapsed' * rate = elapsed * rate \/ elapsed' * rate = elapsed * rate + rate
    BY <1>3, <1>4
  <1> QED
    BY <1>1, <1>2, <1>4, <1>5 DEF Available, AtMost

\* The initial states satisfy the invariant.
LEMMA RateInit == Init => RateInv
  <1> SUFFICES ASSUME Init PROVE RateInv
    OBVIOUS
  <1>1. rate \in Nat /\ Full \in Nat
    BY FullType, RateAssumption DEF Init
  <1>2. TypeOK
    BY <1>1, RateAssumption DEF Init, TypeOK, PC
  <1>3. Balance
    BY <1>1, <1>2, AvailableType, RateAssumption DEF Init, Balance
  <1>4. NoOversleep
    BY DEF Init, NoOversleep
  <1> QED
    BY <1>2, <1>3, <1>4 DEF RateInv

\* Every step preserves the types.
LEMMA RateTypeStep ==
  ASSUME TypeOK, [Next]_vars
  PROVE  TypeOK'
  <1> USE RateAssumption
  <1>1. rate \in Nat /\ Full \in Nat /\ Full >= Minute
    BY FullType DEF TypeOK
  <1>2. CASE UNCHANGED vars
    BY <1>2 DEF vars, TypeOK, Full, Capacity
  <1>3. ASSUME NEW r \in Rates, UpdateSettings(r) PROVE TypeOK'
    BY <1>3 DEF UpdateSettings, history, TypeOK, Full, Capacity
  <1>4. ASSUME NEW opens \in BOOLEAN, Tick(opens) PROVE TypeOK'
    <2>1. elapsed' \in 0 .. Full /\ left' \in [Call -> Nat]
      BY <1>1, <1>4 DEF Tick, TypeOK, AtMost
    <2>2. granted' \in Nat /\ span' \in 0 .. MaxSpan
      BY <1>4 DEF Tick, TypeOK
    <2> QED
      BY <1>4, <2>1, <2>2 DEF Tick, TypeOK, Full, Capacity
  <1>5. ASSUME NEW c \in Call, Begin(c) \/ CallReturns(c) \/ CallRaises(c) PROVE TypeOK'
    BY <1>5 DEF Begin, CallReturns, CallRaises, history, TypeOK, PC, Full, Capacity
  <1>6. ASSUME NEW c \in Call, Acquire(c) PROVE TypeOK'
    <2>1. Refilled \in 0 .. Full
      BY AvailableType
    <2>2. CASE ~Enabled
      BY <1>6, <2>2 DEF Acquire, TypeOK, PC, Full, Capacity
    <2>3. CASE Enabled /\ Refilled >= Minute
      <3>1. tokens' \in 0 .. Full /\ elapsed' \in 0 .. Full
        BY <1>1, <1>6, <2>1, <2>3 DEF Acquire
      <3> QED
        BY <1>6, <2>3, <3>1 DEF Acquire, TypeOK, PC, Full, Capacity
    <2>4. CASE Enabled /\ ~(Refilled >= Minute)
      <3>1. tokens' \in 0 .. Full /\ elapsed' \in 0 .. Full
        BY <1>1, <1>6, <2>1, <2>4 DEF Acquire
      <3>2. AtMost(MaxWait, Wait(Refilled)) \in Nat
        BY <1>1, <2>1, <2>4, WaitIsTight DEF AtMost, Enabled
      <3> QED
        BY <1>6, <2>4, <3>1, <3>2 DEF Acquire, TypeOK, PC, Full, Capacity
    <2> QED
      BY <2>2, <2>3, <2>4
  <1>7. ASSUME NEW c \in Call, NEW after \in RetryAfters, CallFails(c, after) PROVE TypeOK'
    <2>1. BaseBackoff * 2 ^ retries[c] \in Int
      BY DEF TypeOK
    <2>2. AtLeast(BaseBackoff * 2 ^ retries[c], after) \in Nat
      BY <2>1 DEF AtLeast
    <2>3. retries' \in [Call -> 0 .. MaxRetries]
      BY <1>7 DEF CallFails, TypeOK
    <2> QED
      BY <1>7, <2>2, <2>3 DEF CallFails, history, TypeOK, PC, Full, Capacity
  <1> QED
    BY <1>2, <1>3, <1>4, <1>5, <1>6, <1>7 DEF Next, Proceed

\* What the bucket could give out after a step.
LEMMA AvailableStep ==
  ASSUME TypeOK, [Next]_vars
  PROVE  /\ rate' = rate /\ Full' = Full
         /\ Available' \in 0 .. Full
         /\ elapsed' = 0 => Available' = tokens'
  <1> USE RateAssumption
  <1>1. rate \in Nat /\ Full \in Nat
    BY FullType DEF TypeOK
  <1>2. rate' = rate /\ Full' = Full
    BY DEF Next, Proceed, vars, UpdateSettings, Tick, Begin, Acquire, CallReturns,
           CallRaises, CallFails, Full, Capacity
  <1>3. tokens' \in 0 .. Full /\ elapsed' \in Nat
    BY <1>1, <1>2, RateTypeStep DEF TypeOK
  <1>4. elapsed' * rate \in Nat
    BY <1>1, <1>3, Products
  <1>5. elapsed' = 0 => elapsed' * rate = 0
    BY <1>1
  <1>6. Available' = AtMost(Full, tokens' + elapsed' * rate)
    BY <1>2 DEF Available, AtMost
  <1>7. Available' \in 0 .. Full
    BY <1>1, <1>3, <1>4, <1>6, AtMostType
  <1>8. elapsed' = 0 => Available' = tokens'
    BY <1>1, <1>3, <1>5, <1>6, AtMostType
  <1> QED
    BY <1>2, <1>7, <1>8

\* Every step keeps the balance.
LEMMA BalanceStep ==
  ASSUME RateInv, [Next]_vars
  PROVE  Balance'
  <1> USE RateAssumption DEF RateInv
  <1>1. /\ rate \in Nat /\ Full \in Nat /\ Available \in 0 .. Full
        /\ granted * Minute \in Nat /\ span * rate \in Nat
        /\ (granted + 1) * Minute = granted * Minute + Minute
        /\ (span + 1) * rate = span * rate + rate
    BY AvailableType, Products DEF TypeOK
  <1>2. CASE UNCHANGED <<rate, tokens, elapsed, history>>
    BY <1>2 DEF history, Balance, Enabled, Available, Full, Capacity
  <1>3. ASSUME NEW opens \in BOOLEAN, Tick(opens) PROVE Balance'
    <2> SUFFICES ASSUME Enabled PROVE (granted * Minute + Available <= Full + span * rate)'
      BY <1>3 DEF Tick, Balance, Enabled
    <2>1. Available' \in 0 .. Full /\ Full' = Full /\ rate' = rate
      BY <1>3, AvailableStep DEF Next
    <2>2. CASE opens
      <3>1. granted' = 0 /\ span' = 0
        BY <1>3, <2>2 DEF Tick
      <3>2. granted' * Minute = 0 /\ span' * rate = 0
        BY <1>1, <3>1
      <3> QED
        BY <1>1, <2>1, <3>2
    <2>3. CASE ~opens
      BY <1>1, <1>3, <2>1, <2>3, TickAvailable DEF Tick, Balance
    <2> QED
      BY <2>2, <2>3
  <1>4. ASSUME NEW c \in Call, Acquire(c), Enabled PROVE Balance'
    <2>1. /\ Full' = Full /\ rate' = rate /\ span' = span
          /\ tokens' \in 0 .. Full /\ elapsed' = 0
          /\ \/ tokens' = Available - Minute /\ granted' = granted + 1
             \/ tokens' = Available /\ granted' = granted
      BY <1>1, <1>4, AvailableType DEF Acquire, Full, Capacity
    <2>2. Available' = tokens'
      BY <1>4, <2>1, AvailableStep DEF Next, Proceed
    <2> QED
      BY <1>1, <1>4, <2>1, <2>2 DEF Balance
  <1>5. ASSUME NEW c \in Call, Acquire(c), ~Enabled PROVE Balance'
    BY <1>5 DEF Acquire, Balance, Enabled
  <1>6. ASSUME NEW c \in Call, Begin(c) \/ CallReturns(c) \/ CallRaises(c)
                               \/ \E after \in RetryAfters : CallFails(c, after)
        PROVE  Balance'
    BY <1>2, <1>6 DEF Begin, CallReturns, CallRaises, CallFails
  <1>7. (\E r \in Rates : UpdateSettings(r)) \/ UNCHANGED vars => Balance'
    BY <1>2 DEF UpdateSettings, vars, history
  <1> QED
    BY <1>3, <1>4, <1>5, <1>6, <1>7 DEF Next, Proceed

\* Nobody's sleep becomes too long.
LEMMA OversleepStep ==
  ASSUME RateInv, [Next]_vars
  PROVE  NoOversleep'
  <1> USE RateAssumption DEF RateInv
  <1>1. rate \in Nat /\ Full \in Nat /\ Available \in 0 .. Full /\ left \in [Call -> Nat]
    BY AvailableType DEF TypeOK
  <1>2. CASE UNCHANGED <<rate, tokens, elapsed>> /\ UNCHANGED <<pc, left>>
    BY <1>2 DEF NoOversleep, Enabled, Available, Full, Capacity
  <1>3. ASSUME NEW opens \in BOOLEAN, Tick(opens) PROVE NoOversleep'
    <2> SUFFICES ASSUME NEW d \in Call, Enabled, pc[d] = "slot", left'[d] > 0
                 PROVE  Available' + (left'[d] - 1) * rate < Minute
      BY <1>3 DEF Tick, NoOversleep, Enabled
    <2>1. left[d] > 0 /\ left'[d] = left[d] - 1
      BY <1>1, <1>3 DEF Tick
    <2>2. (left[d] - 1) * rate = (left'[d] - 1) * rate + rate
      BY <1>1, <2>1
    <2>3. Available + (left[d] - 1) * rate < Minute
      BY <2>1 DEF NoOversleep
    <2>4. Available' \in Int /\ (left'[d] - 1) * rate \in Int
      BY <1>1, <1>3, <2>1, AvailableStep DEF Next
    <2> QED
      BY <1>1, <1>3, <2>2, <2>3, <2>4, TickAvailable
  <1>4. ASSUME NEW c \in Call, Acquire(c) PROVE NoOversleep'
    <2> SUFFICES ASSUME NEW d \in Call, Enabled, pc'[d] = "slot", left'[d] > 0
                 PROVE  Available' + (left'[d] - 1) * rate < Minute
      BY <1>4 DEF Acquire, NoOversleep, Enabled
    <2>1. tokens' \in 0 .. Full /\ tokens' <= Available /\ elapsed' = 0
      BY <1>1, <1>4, AvailableType DEF Acquire
    <2>2. Available' = tokens'
      BY <1>4, <2>1, AvailableStep DEF Next, Proceed
    <2>3. CASE d # c
      <3>1. left'[d] = left[d] /\ pc[d] = "slot"
        BY <1>4, <2>3 DEF Acquire, TypeOK
      <3>2. Available + (left[d] - 1) * rate < Minute
        BY <3>1 DEF NoOversleep
      <3>3. (left[d] - 1) * rate \in Int
        BY <1>1
      <3> QED
        BY <1>1, <2>1, <2>2, <3>1, <3>2, <3>3
    <2>4. CASE d = c
      <3>1. Available < Minute /\ left'[c] = AtMost(MaxWait, Wait(Available))
        BY <1>1, <1>4, <2>4, AvailableType DEF Acquire, TypeOK
      <3>2. /\ Wait(Available) \in Nat
            /\ (Wait(Available) - 1) * rate + Available < Minute
        BY <1>1, <3>1, WaitIsTight DEF Enabled
      <3>3. left'[c] \in Nat /\ left'[c] <= Wait(Available)
        BY <3>1, <3>2 DEF AtMost
      <3>4. (left'[c] - 1) * rate <= (Wait(Available) - 1) * rate
        BY <1>1, <3>2, <3>3, ProductsMonotone
      <3>5. (left'[c] - 1) * rate \in Int /\ (Wait(Available) - 1) * rate \in Int
        BY <1>1, <3>2, <3>3
      <3> QED
        BY <1>1, <2>1, <2>2, <2>4, <3>2, <3>4, <3>5
    <2> QED
      BY <2>3, <2>4
  <1>5. ASSUME NEW c \in Call, \/ Begin(c) \/ CallReturns(c) \/ CallRaises(c)
                               \/ \E after \in RetryAfters : CallFails(c, after)
        PROVE  NoOversleep'
    <2>1. /\ UNCHANGED <<rate, tokens, elapsed>> /\ pc'[c] # "slot"
          /\ \A d \in Call \ {c} : pc'[d] = pc[d] /\ left'[d] = left[d]
      BY <1>5 DEF Begin, CallReturns, CallRaises, CallFails, TypeOK
    <2> QED
      BY <2>1 DEF NoOversleep, Enabled, Available, Full, Capacity
  <1> QED
    BY <1>2, <1>3, <1>4, <1>5 DEF Next, Proceed, vars, UpdateSettings

\* The invariant holds throughout.
LEMMA RateInvariant == Spec => []RateInv
  <1>1. RateInv /\ [Next]_vars => RateInv'
    BY RateTypeStep, BalanceStep, OversleepStep DEF RateInv
  <1> QED
    BY <1>1, RateInit, PTL DEF Spec

-----------------------------------------------------------------------------
(* The theorems. *)

\* The limiter's state has its types: in particular the bucket is never
\* overdrawn and never more than full.
THEOREM RateTypeCorrect == Spec => []TypeOK
  <1>1. RateInv => TypeOK
    BY DEF RateInv
  <1> QED
    BY <1>1, RateInvariant, PTL

\* Whatever the rate, the burst and the number of callers, no window of time
\* sees more calls than a full bucket and what the window adds to it.
THEOREM WindowCorrect == Spec => []WindowBound
  <1>1. RateInv => WindowBound
    <2> SUFFICES ASSUME RateInv, Enabled PROVE granted * Minute <= Full + span * rate
      BY DEF WindowBound
    <2>1. /\ rate \in Nat /\ Full \in Nat /\ Available \in 0 .. Full
          /\ granted * Minute \in Nat /\ span * rate \in Nat
      BY AvailableType, Products, RateAssumption DEF RateInv, TypeOK
    <2> QED
      BY <2>1 DEF RateInv, Balance
  <1> QED
    BY <1>1, RateInvariant, PTL

\* However many callers sleep for a token and whatever the others take
\* meanwhile, nobody sleeps past the tick at which there is one.
THEOREM OversleepCorrect == Spec => []NoOversleep
  <1>1. RateInv => NoOversleep
    BY DEF RateInv
  <1> QED
    BY <1>1, RateInvariant, PTL
-----------------------------------------------------------------------------
(* A call comes to its end: what of EveryCallEnds needs no fairness. *)

\* Stages left before a call's next retry or its end.
StagesLeft(label) ==
  CASE label \in {"done", "raised"} -> 0
    [] label = "call" -> 1
    [] label = "slot" -> 2
    [] label \in {"acquire", "backoff"} -> 3
    [] label = "idle" -> 4

\* How far a call is from its end at most, sleeps in acquire() apart.
Distance(c) == 3 * (MaxRetries - retries[c]) + StagesLeft(pc[c])

\* Nothing sets a call back, neither the clock, nor the other calls, nor a retry
\* of its own.  Its own steps bring it nearer to its end, but for one: it woke
\* and others had taken the token.
OnlyNearer ==
  \A c \in Call :
    /\ Distance(c)' <= Distance(c)
    /\ Proceed(c) => \/ Distance(c)' < Distance(c)
                     \/ pc[c] = "slot" /\ pc'[c] = "slot" /\ Enabled /\ Refilled < Minute

\* A retry costs a call more than the way back to the bucket gives it.
LEMMA ProceedNearer ==
  ASSUME TypeOK, NEW c \in Call, Proceed(c)
  PROVE  \/ Distance(c)' < Distance(c)
         \/ pc[c] = "slot" /\ pc'[c] = "slot" /\ Enabled /\ Refilled < Minute
  <1>t. /\ pc \in [Call -> PC] /\ left \in [Call -> Nat] /\ retries \in [Call -> 0 .. MaxRetries]
        /\ MaxRetries \in Nat /\ rate \in Nat /\ Refilled \in Nat /\ Minute \in Nat
    BY RateAssumption, AvailableType DEF TypeOK
  <1>d. ASSUME retries'[c] = retries[c], StagesLeft(pc'[c]) < StagesLeft(pc[c]),
               StagesLeft(pc'[c]) \in Nat, StagesLeft(pc[c]) \in Nat
        PROVE  Distance(c)' < Distance(c)
    BY <1>t, <1>d DEF Distance
  <1>1. CASE Acquire(c)
    <2>1. CASE pc'[c] = "call"
      <3>1. /\ retries'[c] = retries[c] /\ StagesLeft(pc'[c]) = 1
            /\ StagesLeft(pc[c]) \in {2, 3}
        BY <1>1, <2>1 DEF Acquire, StagesLeft
      <3> QED
        BY <1>d, <3>1
    <2>2. CASE pc'[c] # "call"
      <3>1. /\ retries'[c] = retries[c] /\ pc'[c] = "slot" /\ Enabled /\ Refilled < Minute
            /\ pc[c] \in {"acquire", "slot", "backoff"}
        BY <1>1, <1>t, <2>2 DEF Acquire
      <3>2. pc[c] # "slot" => StagesLeft(pc'[c]) = 2 /\ StagesLeft(pc[c]) = 3
        BY <3>1 DEF StagesLeft
      <3> QED
        BY <1>d, <3>1, <3>2
    <2> QED
      BY <2>1, <2>2
  <1>2. CASE CallReturns(c) \/ CallRaises(c)
    <2>1. retries'[c] = retries[c] /\ StagesLeft(pc'[c]) = 0 /\ StagesLeft(pc[c]) = 1
      BY <1>2, <1>t DEF CallReturns, CallRaises, StagesLeft
    <2> QED
      BY <1>d, <2>1
  <1>3. ASSUME NEW after \in RetryAfters, CallFails(c, after)
        PROVE  Distance(c)' < Distance(c)
    <2>1. retries'[c] = retries[c] + 1 /\ pc[c] = "call" /\ pc'[c] = "backoff"
      BY <1>3, <1>t DEF CallFails
    <2>2. StagesLeft(pc'[c]) = 3 /\ StagesLeft(pc[c]) = 1
      BY <2>1 DEF StagesLeft
    <2> QED
      BY <1>t, <2>1, <2>2 DEF Distance
  <1> QED
    BY <1>1, <1>2, <1>3 DEF Proceed

\* invoke_with_llm_rate_limit ends after as many retries as it is allowed, and
\* between them acquire() makes a call wait only while there is no token: with
\* time passing and the loop running, that is EveryCallEnds.
THEOREM CallsRunOut == Spec => [][OnlyNearer]_vars
  <1>1. RateInv /\ [Next]_vars => OnlyNearer \/ UNCHANGED vars
    <2> SUFFICES ASSUME RateInv, Next PROVE OnlyNearer
      OBVIOUS
    <2>t. /\ TypeOK /\ pc \in [Call -> PC] /\ retries \in [Call -> 0 .. MaxRetries]
          /\ MaxRetries \in Nat
      BY RateAssumption DEF RateInv, TypeOK
    <2>n. \A c \in Call : Distance(c) \in Nat
      <3>1. \A label \in PC : StagesLeft(label) \in Nat
        BY DEF PC, StagesLeft
      <3> QED
        BY <2>t, <3>1 DEF Distance
    <2>s. ASSUME NEW c \in Call, pc'[c] = pc[c], retries'[c] = retries[c]
          PROVE  Distance(c)' <= Distance(c)
      BY <2>n, <2>s DEF Distance
    <2>1. ASSUME NEW c \in Call, Proceed(c)
          PROVE  \/ Distance(c)' < Distance(c)
                 \/ pc[c] = "slot" /\ pc'[c] = "slot" /\ Enabled /\ Refilled < Minute
      BY <2>t, <2>1, ProceedNearer
    <2>2. ASSUME NEW c \in Call
          PROVE  Distance(c)' <= Distance(c)
      <3>1. ASSUME NEW r \in Rates, UpdateSettings(r) PROVE Distance(c)' <= Distance(c)
        BY <2>s, <3>1 DEF UpdateSettings
      <3>2. ASSUME NEW opens \in BOOLEAN, Tick(opens) PROVE Distance(c)' <= Distance(c)
        BY <2>s, <3>2 DEF Tick
      <3>3. ASSUME NEW b \in Call, b # c, Begin(b) \/ Proceed(b) PROVE Distance(c)' <= Distance(c)
        <4>1. pc'[c] = pc[c] /\ retries'[c] = retries[c]
          BY <2>t, <3>3 DEF Begin, Proceed, Acquire, CallReturns, CallRaises, CallFails
        <4> QED
          BY <2>s, <4>1
      <3>4. CASE Begin(c)
        <4>1. pc[c] = "idle" /\ pc'[c] = "acquire" /\ retries'[c] = retries[c]
          BY <2>t, <3>4 DEF Begin
        <4>2. StagesLeft(pc[c]) = 4 /\ StagesLeft(pc'[c]) = 3
          BY <4>1 DEF StagesLeft
        <4> QED
          BY <2>t, <4>1, <4>2 DEF Distance
      <3>5. CASE Proceed(c)
        <4>1. CASE Distance(c)' < Distance(c)
          <5>1. Distance(c)' \in Int
            <6>1. pc'[c] \in PC /\ retries'[c] \in 0 .. MaxRetries
              BY <2>t, RateTypeStep DEF TypeOK
            <6>2. StagesLeft(pc'[c]) \in Nat
              BY <6>1 DEF PC, StagesLeft
            <6> QED
              BY <2>t, <6>1, <6>2 DEF Distance
          <5> QED
            BY <2>n, <4>1, <5>1
        <4>2. CASE pc[c] = "slot" /\ pc'[c] = "slot"
          <5>1. retries'[c] = retries[c]
            BY <3>5, <4>2 DEF Proceed, Acquire, CallReturns, CallRaises, CallFails
          <5> QED
            BY <2>s, <4>2, <5>1
        <4> QED
          BY <2>1, <3>5, <4>1, <4>2
      <3> QED
        BY <3>1, <3>2, <3>3, <3>4, <3>5 DEF Next
    <2> QED
      BY <2>1, <2>2 DEF OnlyNearer
  <1> QED
    BY <1>1, RateInvariant, PTL DEF Spec
=============================================================================
