---------------------------- MODULE RateLimiter ----------------------------
(***************************************************************************)
(* services/rate_limiter.py: the token bucket every call of the chat model *)
(* passes, shared by all agents of the process, and the retries around it. *)
(*                                                                         *)
(* Time is counted in ticks.  Tokens are counted in shares of 1/Minute, so *)
(* that a tick adds exactly `rate` shares and a call costs Minute of them. *)
(* The lock of acquire() is held over no await: an attempt is one step.    *)
(*                                                                         *)
(* granted and span are a history: the calls let through since some past   *)
(* moment, and the ticks since then.  The moment is chosen at any tick.    *)
(***************************************************************************)
EXTENDS Naturals

CONSTANTS
  Call,          \* calls of invoke_with_llm_rate_limit
  Rates,         \* values of settings.llm_rate_limit_per_minute; 0 is "off"
  Burst,         \* settings.llm_rate_limit_burst; 0 is "as the rate"
  Minute,        \* ticks per minute
  MaxWait,       \* settings.llm_rate_limit_max_wait_seconds
  MaxRetries,    \* settings.llm_max_retries
  BaseBackoff,   \* settings.llm_retry_backoff_seconds
  RetryAfters,   \* delays providers ask for, cut off at 120 s; 0 is "none"
  MaxSpan        \* bound: the windows of time looked at

ASSUME RateAssumption ==
  /\ Rates \subseteq Nat /\ RetryAfters \subseteq Nat
  /\ Burst \in Nat /\ MaxWait \in Nat /\ MaxRetries \in Nat /\ BaseBackoff \in Nat
  /\ Minute \in Nat \ {0} /\ MaxSpan \in Nat \ {0}

VARIABLES
  setting,   \* settings.llm_rate_limit_per_minute, which the UI may change
  rate,      \* rate_per_minute of the bucket
  tokens,    \* _tokens, as of the last refill
  elapsed,   \* ticks since _last_refill; no more than fill the bucket
  pc,        \* Call -> where it is
  left,      \* Call -> ticks it has still to sleep
  retries,   \* Call -> retries so far
  granted,   \* history: calls let through in the window
  span       \* history: ticks since the window opened

history == <<granted, span>>
vars == <<setting, rate, tokens, elapsed, pc, left, retries, granted, span>>

AtLeast(m, n) == IF m > n THEN m ELSE n
AtMost(m, n) == IF m < n THEN m ELSE n

Enabled == rate > 0
Capacity == IF Burst > 0 THEN Burst ELSE AtLeast(1, rate)
Full == Capacity * Minute

PC == {"idle", "acquire", "slot", "call", "backoff", "done", "raised"}

TypeOK ==
  /\ setting \in Rates /\ rate \in Rates
  /\ tokens \in 0 .. Full
  /\ elapsed \in 0 .. Full
  /\ pc \in [Call -> PC]
  /\ left \in [Call -> Nat]
  /\ retries \in [Call -> 0 .. MaxRetries]
  /\ granted \in Nat /\ span \in 0 .. MaxSpan

\* The moment the bucket is made, which is that of the first call.
Init ==
  /\ setting \in Rates
  /\ rate = setting
  /\ tokens = Full
  /\ elapsed = 0
  /\ pc = [c \in Call |-> "idle"]
  /\ left = [c \in Call |-> 0]
  /\ retries = [c \in Call |-> 0]
  /\ granted = 0 /\ span = 0

-----------------------------------------------------------------------------

\* The configuration page; the bucket keeps the rate it was made with.
UpdateSettings(r) ==
  /\ setting' = r
  /\ UNCHANGED <<rate, tokens, elapsed, pc, left, retries, history>>

Tick(opens) ==
  /\ elapsed' = IF Enabled THEN AtMost(elapsed + 1, Full) ELSE 0
  /\ left' = [c \in Call |-> IF left[c] > 0 THEN left[c] - 1 ELSE 0]
  /\ IF opens THEN granted' = 0 /\ span' = 0
              ELSE span < MaxSpan /\ span' = span + 1 /\ UNCHANGED granted
  /\ UNCHANGED <<setting, rate, tokens, pc, retries>>

Begin(c) ==
  /\ pc[c] = "idle"
  /\ pc' = [pc EXCEPT ![c] = "acquire"]
  /\ UNCHANGED <<setting, rate, tokens, elapsed, left, retries, history>>

\* A slip: the bucket has no bottom to overflow.
RefilledUncapped == tokens + elapsed * rate

\* _refill
Refilled == AtMost(Full, tokens + elapsed * rate)

\* A slip: waiting for a whole token, not for what is missing of one.
WaitForWhole(n) == Minute \div rate

\* Until the bucket that holds n shares holds a token; a sleep ends at a tick.
Wait(n) == (Minute - n + rate - 1) \div rate

\* One round of acquire(): the first, or one after a sleep.
Acquire(c) ==
  /\ pc[c] \in {"acquire", "slot", "backoff"} /\ left[c] = 0
  /\ IF Enabled
     THEN /\ elapsed' = 0
          /\ IF Refilled >= Minute
             THEN /\ tokens' = Refilled - Minute
                  /\ pc' = [pc EXCEPT ![c] = "call"]
                  /\ granted' = granted + 1
                  /\ UNCHANGED left
             ELSE /\ tokens' = Refilled
                  /\ pc' = [pc EXCEPT ![c] = "slot"]
                  /\ left' = [left EXCEPT ![c] = AtMost(MaxWait, Wait(Refilled))]
                  /\ UNCHANGED granted
     ELSE /\ pc' = [pc EXCEPT ![c] = "call"]
          /\ granted' = granted + 1
          /\ UNCHANGED <<tokens, elapsed, left>>
  /\ UNCHANGED <<setting, rate, retries, span>>

CallReturns(c) ==
  /\ pc[c] = "call"
  /\ pc' = [pc EXCEPT ![c] = "done"]
  /\ UNCHANGED <<setting, rate, tokens, elapsed, left, retries, history>>

\* An error that is not worth a retry, or one too many.
CallRaises(c) ==
  /\ pc[c] = "call"
  /\ pc' = [pc EXCEPT ![c] = "raised"]
  /\ UNCHANGED <<setting, rate, tokens, elapsed, left, retries, history>>

\* A slip: the retry is not counted.
CallFailsUncounted(c, after) ==
  /\ pc[c] = "call" /\ retries[c] < MaxRetries
  /\ left' = [left EXCEPT ![c] = AtLeast(BaseBackoff * 2 ^ retries[c], after)]
  /\ pc' = [pc EXCEPT ![c] = "backoff"]
  /\ UNCHANGED <<setting, rate, tokens, elapsed, retries, history>>

\* 429, 5xx, a timeout: back off, then queue for a token like everybody.
CallFails(c, after) ==
  /\ pc[c] = "call" /\ retries[c] < MaxRetries
  /\ retries' = [retries EXCEPT ![c] = @ + 1]
  /\ left' = [left EXCEPT ![c] = AtLeast(BaseBackoff * 2 ^ retries[c], after)]
  /\ pc' = [pc EXCEPT ![c] = "backoff"]
  /\ UNCHANGED <<setting, rate, tokens, elapsed, history>>

Proceed(c) ==
  \/ Acquire(c)
  \/ CallReturns(c)
  \/ CallRaises(c)
  \/ \E after \in RetryAfters : CallFails(c, after)

Next ==
  \/ \E r \in Rates : UpdateSettings(r)
  \/ \E opens \in BOOLEAN : Tick(opens)
  \/ \E c \in Call : Begin(c) \/ Proceed(c)

Spec == Init /\ [][Next]_vars

\* Time passes, the event loop runs what is ready, the model's client has a
\* timeout.
FairSpec ==
  /\ Spec
  /\ WF_vars(\E opens \in BOOLEAN : Tick(opens))
  /\ \A c \in Call : WF_vars(Proceed(c))
=============================================================================
