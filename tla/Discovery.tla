----------------------------- MODULE Discovery -----------------------------
(***************************************************************************)
(* services/repo_discovery.py, discover_repos: which repositories the      *)
(* token can see, asked of the provider and kept for a while, one entry    *)
(* for each scope.  A request awaits the provider's answer, and meanwhile  *)
(* the settings change, the clock runs and other requests come and go.     *)
(*                                                                         *)
(* One platform is modelled: the key of an entry names the platform, and   *)
(* the two share nothing else.                                             *)
(***************************************************************************)
EXTENDS Naturals

CONSTANTS
  Scope,       \* what is searched: (mode, value) of resolve_scope
  Token,       \* the tokens that may be configured
  NoToken,     \* no token is
  Caller,      \* requests under way at one time
  TTL,         \* _DISCOVERY_CACHE_TTL_SECONDS
  MaxTime      \* bound: ticks of the clock

ASSUME TTLAssumption == TTL \in Nat \ {0} /\ MaxTime \in Nat
ASSUME TokenAssumption == NoToken \notin Token

VARIABLES
  config,     \* the scope and the token the settings give at present
  now,        \* time.monotonic()
  cache,      \* _discovery_cache: Scope -> entry or NoEntry
  call,       \* Caller -> the request it made, or Idle
  answer      \* Caller -> what its last request returned, or Idle

disc == <<config, now, cache, call, answer>>

Config == [scope : Scope, token : Token \cup {NoToken}]

\* What the provider said: of which scope, to which token and when; it may
\* have been an error.
Result == [scope : Scope, token : Token, read : Nat, ok : BOOLEAN]
CacheEntry == [stamp : Nat, result : Result]

NoEntry == [stamp |-> 0]
Idle == [step |-> "idle"]

Asking == [step : {"asking"}, scope : Scope, token : Token, since : Nat]
Told == [step : {"told"}, since : Nat, result : Result]
Answer == [step : {"cached", "fetched"}, scope : Scope, at : Nat, result : Result]

DiscoveryTypeOK ==
  /\ config \in Config
  /\ now \in Nat
  /\ cache \in [Scope -> CacheEntry \cup {NoEntry}]
  /\ call \in [Caller -> Asking \cup Told \cup {Idle}]
  /\ answer \in [Caller -> Answer \cup {Idle}]

DiscoveryInit ==
  /\ config \in Config
  /\ now = 0
  /\ cache = [s \in Scope |-> NoEntry]
  /\ call = [c \in Caller |-> Idle]
  /\ answer = [c \in Caller |-> Idle]

-----------------------------------------------------------------------------
Fresh(s) == cache[s] # NoEntry /\ now < cache[s].stamp + TTL

\* Served from the cache, unless the caller insists (force) or has no token.
ServeCached(c) ==
  LET s == config.scope
  IN  /\ call[c] = Idle
      /\ config.token # NoToken
      /\ Fresh(s)
      /\ answer' = [answer EXCEPT ![c] = [step |-> "cached", scope |-> s, at |-> now,
                                          result |-> cache[s].result]]
      /\ UNCHANGED <<config, now, cache, call>>

\* The time is taken, and the scope and the token are read, before the await.
AskProvider(c) ==
  /\ call[c] = Idle
  /\ config.token # NoToken
  /\ call' = [call EXCEPT ![c] = [step |-> "asking", scope |-> config.scope,
                                  token |-> config.token, since |-> now]]
  /\ answer' = [answer EXCEPT ![c] = Idle]
  /\ UNCHANGED <<config, now, cache>>

\* The provider looks at its repositories, or something goes wrong.
ProviderReads(c) ==
  /\ call[c].step = "asking"
  /\ \E ok \in BOOLEAN :
       call' = [call EXCEPT ![c] =
                  [step |-> "told", since |-> call[c].since,
                   result |-> [scope |-> call[c].scope, token |-> call[c].token,
                               read |-> now, ok |-> ok]]]
  /\ UNCHANGED <<config, now, cache, answer>>

\* Slips: the age of the entry is counted from when the answer arrived; the
\* entry is filed under the scope of that moment.
StampLate(c) == [stamp |-> now, result |-> call[c].result]
ScopeOfNow(c) == config.scope

Stamped(c) == [stamp |-> call[c].since, result |-> call[c].result]
ScopeOf(c) == call[c].result.scope

\* The result, an error like any other, becomes the entry of its scope.
ReturnResult(c) ==
  /\ call[c].step = "told"
  /\ cache' = [cache EXCEPT ![ScopeOf(c)] = Stamped(c)]
  /\ answer' = [answer EXCEPT ![c] = [step |-> "fetched", scope |-> ScopeOf(c), at |-> now,
                                      result |-> call[c].result]]
  /\ call' = [call EXCEPT ![c] = Idle]
  /\ UNCHANGED <<config, now>>

-----------------------------------------------------------------------------
\* Settings are saved, whatever requests are under way.
Configure(new) ==
  /\ config' = new
  /\ UNCHANGED <<now, cache, call, answer>>

Tick ==
  /\ now < MaxTime
  /\ now' = now + 1
  /\ UNCHANGED <<config, cache, call, answer>>

\* The server is restarted: the cache and the requests were in memory.
Forget(new) ==
  /\ config' = new
  /\ cache' = [s \in Scope |-> NoEntry]
  /\ call' = [c \in Caller |-> Idle]
  /\ answer' = [c \in Caller |-> Idle]
  /\ UNCHANGED now

Discover(c) == ServeCached(c) \/ AskProvider(c) \/ ProviderReads(c) \/ ReturnResult(c)

DiscoveryNext ==
  \/ \E c \in Caller : Discover(c)
  \/ \E new \in Config : Configure(new) \/ Forget(new)
  \/ Tick

DiscoverySpec == DiscoveryInit /\ [][DiscoveryNext]_disc

-----------------------------------------------------------------------------
(* What a caller may rely on *)

\* "TTL-cached": what is served from the cache was seen at the provider less
\* than TTL ago, however long the request that fetched it had to wait.
NotTooOld ==
  \A c \in Caller :
    answer[c] # Idle /\ answer[c].step = "cached" => answer[c].at < answer[c].result.read + TTL

\* A caller gets the repositories of the scope it asked for, although settings
\* were saved while some earlier request for it was under way.
ScopeIsHonest ==
  \A c \in Caller : answer[c] # Idle => answer[c].result.scope = answer[c].scope

-----------------------------------------------------------------------------
(* What a comment says and the code does not do. *)

\* "Discover repos accessible by the CI token": the token that is configured.
TokenIsHonest ==
  [][\A c \in Caller : ServeCached(c) => cache[config.scope].result.token = config.token]_disc
=============================================================================
