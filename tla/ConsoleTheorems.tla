--------------------------- MODULE ConsoleTheorems ---------------------------
(***************************************************************************)
(* Proofs about Discovery, for any scopes, tokens, callers and TTL, and    *)
(* about the console: what each operation does to the settings is taken    *)
(* from SettingsTheorems, what discovery promises whatever the settings    *)
(* become from the first part.                                             *)
(***************************************************************************)
EXTENDS Console, SettingsTheorems

-----------------------------------------------------------------------------
(* The types of Discovery *)

\* A call that asks, or was told, is a record of that kind.
LEMMA CallKinds ==
  ASSUME DiscoveryTypeOK, NEW c \in Caller
  PROVE  /\ call[c].step = "asking" => call[c] \in Asking
         /\ call[c].step = "told" => call[c] \in Told
BY DEF DiscoveryTypeOK, Asking, Told, Idle

\* The initial state has the right types.
LEMMA InitTypes == DiscoveryInit => DiscoveryTypeOK
BY DEF DiscoveryInit, DiscoveryTypeOK

\* A request served from the cache preserves the types.
LEMMA ServeCachedTypes ==
  ASSUME DiscoveryTypeOK, NEW c \in Caller, ServeCached(c)
  PROVE  DiscoveryTypeOK'
<1>1. config.scope \in Scope
  BY DEF DiscoveryTypeOK, Config
<1>2. cache[config.scope] \in CacheEntry
  BY <1>1 DEF DiscoveryTypeOK, ServeCached, Fresh
<1>3. [step |-> "cached", scope |-> config.scope, at |-> now,
       result |-> cache[config.scope].result] \in Answer
  BY <1>1, <1>2 DEF DiscoveryTypeOK, CacheEntry, Answer
<1>4. answer' \in [Caller -> Answer \cup {Idle}]
  BY <1>3 DEF DiscoveryTypeOK, ServeCached
<1> QED
  BY <1>4 DEF DiscoveryTypeOK, ServeCached

\* A request that is passed on preserves the types.
LEMMA AskProviderTypes ==
  ASSUME DiscoveryTypeOK, NEW c \in Caller, AskProvider(c)
  PROVE  DiscoveryTypeOK'
<1>1. [step |-> "asking", scope |-> config.scope, token |-> config.token, since |-> now] \in Asking
  BY DEF DiscoveryTypeOK, Config, AskProvider, Asking
<1> QED
  BY <1>1 DEF DiscoveryTypeOK, AskProvider

\* The provider's look at the repositories preserves the types.
LEMMA ProviderReadsTypes ==
  ASSUME DiscoveryTypeOK, NEW c \in Caller, ProviderReads(c)
  PROVE  DiscoveryTypeOK'
<1>1. call[c] \in Asking
  BY CallKinds DEF ProviderReads
<1>2. \A ok \in BOOLEAN :
        [step |-> "told", since |-> call[c].since,
         result |-> [scope |-> call[c].scope, token |-> call[c].token,
                     read |-> now, ok |-> ok]] \in Told
  BY <1>1 DEF DiscoveryTypeOK, Asking, Told, Result
<1> QED
  BY <1>2 DEF DiscoveryTypeOK, ProviderReads

\* The return of a result preserves the types.
LEMMA ReturnResultTypes ==
  ASSUME DiscoveryTypeOK, NEW c \in Caller, ReturnResult(c)
  PROVE  DiscoveryTypeOK'
<1>1. call[c] \in Told
  BY CallKinds DEF ReturnResult
<1>2. Stamped(c) \in CacheEntry /\ ScopeOf(c) \in Scope
  BY <1>1 DEF Told, Result, Stamped, ScopeOf, CacheEntry
<1>3. [step |-> "fetched", scope |-> ScopeOf(c), at |-> now, result |-> call[c].result] \in Answer
  BY <1>1, <1>2 DEF DiscoveryTypeOK, Told, Answer
<1>4. cache' \in [Scope -> CacheEntry \cup {NoEntry}]
  BY <1>2 DEF DiscoveryTypeOK, ReturnResult
<1>5. answer' \in [Caller -> Answer \cup {Idle}]
  BY <1>3 DEF DiscoveryTypeOK, ReturnResult
<1> QED
  BY <1>4, <1>5 DEF DiscoveryTypeOK, ReturnResult

\* Every step preserves the types.
LEMMA StepTypes == DiscoveryTypeOK /\ [DiscoveryNext]_disc => DiscoveryTypeOK'
<1> SUFFICES ASSUME DiscoveryTypeOK, [DiscoveryNext]_disc PROVE DiscoveryTypeOK'
  OBVIOUS
<1>1. CASE \E c \in Caller : Discover(c)
  BY <1>1, ServeCachedTypes, AskProviderTypes, ProviderReadsTypes, ReturnResultTypes DEF Discover
<1>2. CASE \E new \in Config : Configure(new)
  BY <1>2 DEF Configure, DiscoveryTypeOK
<1>3. CASE \E new \in Config : Forget(new)
  BY <1>3 DEF Forget, DiscoveryTypeOK
<1>4. CASE Tick
  BY <1>4, TTLAssumption DEF Tick, DiscoveryTypeOK
<1>5. CASE UNCHANGED disc
  BY <1>5 DEF disc, DiscoveryTypeOK
<1> QED
  BY <1>1, <1>2, <1>3, <1>4, <1>5 DEF DiscoveryNext

\* The settings, the cache, the requests and their answers keep their types.
THEOREM DiscoveryTypeCorrect == DiscoverySpec => []DiscoveryTypeOK
<1> QED
  BY InitTypes, StepTypes, PTL DEF DiscoverySpec

-----------------------------------------------------------------------------
(* Age and scope *)

\* An entry is filed under its own scope and counted from before the provider
\* looked.
CacheInv ==
  \A s \in Scope : cache[s] # NoEntry =>
    /\ cache[s].result.scope = s
    /\ cache[s].stamp <= cache[s].result.read

\* A request has taken the time before the provider looks.
CallInv ==
  \A c \in Caller :
    /\ call[c].step = "asking" => call[c].since <= now
    /\ call[c].step = "told" => call[c].since <= call[c].result.read

AnswersInv == NotTooOld /\ ScopeIsHonest

AgeInv == DiscoveryTypeOK /\ CacheInv /\ CallInv /\ AnswersInv

\* Nothing is cached, asked or answered at the start.
LEMMA InitAge == DiscoveryInit => AgeInv
BY InitTypes DEF DiscoveryInit, AgeInv, CacheInv, CallInv, AnswersInv, NotTooOld, ScopeIsHonest, Idle

\* What is served from the cache is young enough and of the scope asked for.
LEMMA ServeCachedAge ==
  ASSUME AgeInv, NEW c \in Caller, ServeCached(c)
  PROVE  AnswersInv'
<1> DEFINE s == config.scope
<1>1. s \in Scope /\ cache[s] \in CacheEntry /\ cache[s] # NoEntry
  BY DEF AgeInv, DiscoveryTypeOK, Config, ServeCached, Fresh
<1>2. cache[s].stamp \in Nat /\ cache[s].result.read \in Nat /\ now \in Nat /\ TTL \in Nat
  BY <1>1, TTLAssumption DEF AgeInv, DiscoveryTypeOK, CacheEntry, Result
<1>3. now < cache[s].stamp + TTL /\ cache[s].stamp <= cache[s].result.read
  BY <1>1 DEF AgeInv, CacheInv, ServeCached, Fresh
<1>4. now < cache[s].result.read + TTL
  BY <1>2, <1>3
<1>5. cache[s].result.scope = s
  BY <1>1 DEF AgeInv, CacheInv
<1>6. answer'[c].at < answer'[c].result.read + TTL /\ answer'[c].result.scope = answer'[c].scope
  BY <1>4, <1>5 DEF AgeInv, DiscoveryTypeOK, ServeCached
<1>7. \A d \in Caller \ {c} : answer'[d] = answer[d]
  BY DEF ServeCached, AgeInv, DiscoveryTypeOK
<1> QED
  BY <1>6, <1>7 DEF AgeInv, AnswersInv, NotTooOld, ScopeIsHonest

\* What is returned from the provider is of the scope asked for, and is cached
\* under it with the time taken first.
LEMMA ReturnResultAge ==
  ASSUME AgeInv, NEW c \in Caller, ReturnResult(c)
  PROVE  CacheInv' /\ CallInv' /\ AnswersInv'
<1> USE DEF AgeInv
<1>1. call[c] \in Told /\ call[c].result.scope \in Scope
  BY CallKinds DEF ReturnResult, Told, Result
<1>2. CacheInv'
  <2>1. cache'[ScopeOf(c)] = Stamped(c)
    BY <1>1 DEF ReturnResult, DiscoveryTypeOK, ScopeOf
  <2>2. \A s \in Scope \ {ScopeOf(c)} : cache'[s] = cache[s]
    BY DEF ReturnResult, DiscoveryTypeOK
  <2>3. Stamped(c).result.scope = ScopeOf(c) /\ Stamped(c).stamp <= Stamped(c).result.read
    BY DEF ReturnResult, CallInv, Stamped, ScopeOf
  <2> QED
    BY <2>1, <2>2, <2>3 DEF CacheInv
<1>3. CallInv'
  BY DEF ReturnResult, CallInv, DiscoveryTypeOK, Idle
<1>4. AnswersInv'
  <2>1. answer'[c].step = "fetched" /\ answer'[c].result.scope = answer'[c].scope
    BY DEF ReturnResult, DiscoveryTypeOK, ScopeOf
  <2>2. \A d \in Caller \ {c} : answer'[d] = answer[d]
    BY DEF ReturnResult, DiscoveryTypeOK
  <2> QED
    BY <2>1, <2>2 DEF AnswersInv, NotTooOld, ScopeIsHonest
<1> QED
  BY <1>2, <1>3, <1>4

\* Every step preserves the invariant.
LEMMA StepAge == AgeInv /\ [DiscoveryNext]_disc => AgeInv'
<1> SUFFICES ASSUME AgeInv, [DiscoveryNext]_disc PROVE AgeInv'
  OBVIOUS
<1> USE DEF AgeInv
<1>1. DiscoveryTypeOK'
  BY StepTypes
<1>2. ASSUME NEW c \in Caller, ServeCached(c) PROVE AgeInv'
  BY <1>1, <1>2, ServeCachedAge DEF ServeCached, CacheInv, CallInv
<1>3. ASSUME NEW c \in Caller, AskProvider(c) PROVE AgeInv'
  BY <1>1, <1>3 DEF AskProvider, DiscoveryTypeOK, CacheInv, CallInv, AnswersInv, NotTooOld,
     ScopeIsHonest, Idle
<1>4. ASSUME NEW c \in Caller, ProviderReads(c) PROVE AgeInv'
  BY <1>1, <1>4 DEF ProviderReads, DiscoveryTypeOK, CacheInv, CallInv, AnswersInv, NotTooOld,
     ScopeIsHonest
<1>5. ASSUME NEW c \in Caller, ReturnResult(c) PROVE AgeInv'
  BY <1>1, <1>5, ReturnResultAge
<1>6. ASSUME NEW new, Configure(new) PROVE AgeInv'
  BY <1>1, <1>6 DEF Configure, CacheInv, CallInv, AnswersInv, NotTooOld, ScopeIsHonest
<1>7. ASSUME NEW new, Forget(new) PROVE AgeInv'
  BY <1>1, <1>7 DEF Forget, CacheInv, CallInv, AnswersInv, NotTooOld, ScopeIsHonest, Idle
<1>8. CASE Tick
  <2>1. \A c \in Caller : call[c].step = "asking" => call[c].since \in Nat
    BY CallKinds DEF Asking
  <2>2. CallInv'
    BY <1>8, <2>1 DEF Tick, CallInv, DiscoveryTypeOK
  <2> QED
    BY <1>1, <1>8, <2>2 DEF Tick, CacheInv, AnswersInv, NotTooOld, ScopeIsHonest
<1>9. CASE UNCHANGED disc
  BY <1>1, <1>9 DEF disc, CacheInv, CallInv, AnswersInv, NotTooOld, ScopeIsHonest
<1> QED
  BY <1>2, <1>3, <1>4, <1>5, <1>6, <1>7, <1>8, <1>9 DEF DiscoveryNext, Discover

\* "TTL-cached": nothing older than TTL is served from the cache, however long
\* requests wait and however they overlap.
THEOREM NotTooOldCorrect == DiscoverySpec => []NotTooOld
<1>1. AgeInv => NotTooOld
  BY DEF AgeInv, AnswersInv
<1> QED
  BY <1>1, InitAge, StepAge, PTL DEF DiscoverySpec

\* A caller gets the repositories of the scope it asked for, whatever is saved
\* while it waits.
THEOREM ScopeCorrect == DiscoverySpec => []ScopeIsHonest
<1>1. AgeInv => ScopeIsHonest
  BY DEF AgeInv, AnswersInv
<1> QED
  BY <1>1, InitAge, StepAge, PTL DEF DiscoverySpec

-----------------------------------------------------------------------------
(* The console *)

\* Whatever the settings are, they give a scope and a token, or none.
LEMMA ConfigType == ASSUME NEW s \in [Key -> Text] PROVE ConfigOf(s) \in Config
<1>1. s["github_token"] \in Token \cup {NoToken}
  BY ConsoleAssumption DEF Keys
<1>2. s["github_org"] \in Text /\ s["github_username"] \in Text
  BY ConsoleAssumption DEF Keys
<1>3. ResolveScope(s) \in Scope
  BY <1>2, ConsoleAssumption DEF ResolveScope
<1> QED
  BY <1>1, <1>3 DEF ConfigOf, Config

\* The console begins with settings in order.
LEMMA ConsoleInitInv == ConsoleInit => SettingsInv
BY SettingsInitInv DEF ConsoleInit

\* Every step of the console keeps the settings in order.
LEMMA ConsoleKeeps == SettingsInv /\ [ConsoleNext]_<<env, disc>> => SettingsInv'
<1> SUFFICES ASSUME SettingsInv, [ConsoleNext]_<<env, disc>> PROVE SettingsInv'
  OBVIOUS
<1>1. CASE Start
  BY <1>1, StartKeeps
<1>2. CASE Stop
  BY <1>2, StopKeeps
<1>3. CASE \E answers \in Answers : Wizard(answers)
  BY <1>3, WizardKeeps
<1>4. CASE \E never \in BOOLEAN : Dismiss(never)
  BY <1>4, DismissKeeps
<1>5. CASE \E form \in Updates : Save(form)
  BY <1>5, SaveKeeps
<1>6. CASE UNCHANGED env
  BY <1>6, IdleKeeps
<1> QED
  BY <1>1, <1>2, <1>3, <1>4, <1>5, <1>6 DEF ConsoleNext

\* The settings are in order in every state.
LEMMA SettingsInvariant == ConsoleSpec => []SettingsInv
BY ConsoleInitInv, ConsoleKeeps, PTL DEF ConsoleSpec

\* A step of the console is one of discovery, or none that it notices.
LEMMA ConsoleStep == SettingsInv' /\ [ConsoleNext]_<<env, disc>> => [DiscoveryNext]_disc
<1> SUFFICES ASSUME SettingsInv', [ConsoleNext]_<<env, disc>> PROVE [DiscoveryNext]_disc
  OBVIOUS
<1>1. ConfigOf(settings') \in Config
  BY ConfigType DEF SettingsInv, SettingsTypeOK
<1>2. CASE Start /\ Forget(ConfigOf(settings'))
  BY <1>1, <1>2 DEF DiscoveryNext
<1>3. CASE Configure(ConfigOf(settings'))
  BY <1>1, <1>3 DEF DiscoveryNext
<1>4. CASE \E c \in Caller : Discover(c)
  BY <1>4 DEF DiscoveryNext
<1>5. CASE Tick
  BY <1>5 DEF DiscoveryNext
<1>6. CASE UNCHANGED disc
  BY <1>6
<1> QED
  BY <1>2, <1>3, <1>4, <1>5, <1>6 DEF ConsoleNext

-----------------------------------------------------------------------------
\* The console takes only steps of Discovery: whatever administrators, the
\* wizard and restarts do to the settings under its requests, resolve_scope
\* gives it a scope that discover_repos can search.
THEOREM ConsoleDiscovers == ConsoleSpec => DiscoverySpec
<1>1. ConsoleInit => DiscoveryInit
  BY DEF ConsoleInit
<1> QED
  BY <1>1, SettingsInvariant, ConsoleStep, PTL DEF ConsoleSpec, DiscoverySpec

\* File, memory, cache and requests keep their types.
THEOREM ConsoleTypeCorrect == ConsoleSpec => []ConsoleTypeOK
<1>1. SettingsInv /\ DiscoveryTypeOK => ConsoleTypeOK
  BY DEF SettingsInv, ConsoleTypeOK
<1> QED
  BY <1>1, SettingsInvariant, ConsoleDiscovers, DiscoveryTypeCorrect, PTL

\* What the console saved, the next start reads, whatever the wizard had written
\* before it and however often forms are saved over each other.
THEOREM SavedCorrect == ConsoleSpec => []SavedSurvivesRestart
<1>1. SettingsInv => SavedSurvivesRestart
  BY SavedIsRead DEF SettingsInv
<1> QED
  BY <1>1, SettingsInvariant, PTL

\* Memory and file agree while the server runs, but for texts that are not read
\* back as they are and for the settings of a dismissal that did not reach the file.
THEOREM RestartCorrect == ConsoleSpec => []RestartChangesNothing
<1>1. SettingsInv => RestartChangesNothing
  BY DEF SettingsInv
<1> QED
  BY <1>1, SettingsInvariant, PTL

\* The next start finds numbers where it needs them, unless somebody saved
\* another text there.
THEOREM StartsCorrect == ConsoleSpec => []StartsAgain
<1>1. SettingsInv => StartsAgain
  BY NumbersAreRead DEF SettingsInv
<1> QED
  BY <1>1, SettingsInvariant, PTL
=============================================================================
