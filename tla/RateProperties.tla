-------------------------- MODULE RateProperties --------------------------
(* What the rate limiter promises.                                        *)
EXTENDS RateLimiter

\* What the bucket would hold if it were refilled now.
Available == AtMost(Full, tokens + elapsed * rate)

\* In no window of time, wherever it opens and however the calls interleave
\* with sleeps, retries and refills, are more calls let through than a full
\* bucket and what the window adds to it.
WindowBound == Enabled => granted * Minute <= Full + span * rate

\* Nobody sleeps in acquire() past the tick at which there is a token, though
\* others take tokens after the sleep was computed.
NoOversleep ==
  \A c \in Call :
    Enabled /\ pc[c] = "slot" /\ left[c] > 0 => Available + (left[c] - 1) * rate < Minute

\* Every call is let through in the end and comes to an end itself: the
\* sleepers who wake together for one token do not starve, and the retries
\* do not go on for ever.
EveryCallEnds == \A c \in Call : pc[c] = "acquire" ~> pc[c] \in {"done", "raised"}

-----------------------------------------------------------------------------
(* What comments say and the code does not do. *)

\* config.py: "so the agent never trips an upstream requests-per-minute limit".
\* So no window shorter than a minute sees more than rate_per_minute calls.
PerMinuteLimit == Enabled /\ span < Minute => granted <= rate

\* AsyncRateLimiter: "later config changes are picked up on the next acquire()".
\* So a call that is let through was counted at the configured rate.
SettingObeyed ==
  [][\A c \in Call : pc[c] # "call" /\ pc'[c] = "call" => rate = setting]_vars
=============================================================================
