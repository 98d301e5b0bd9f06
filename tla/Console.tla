------------------------------ MODULE Console ------------------------------
(***************************************************************************)
(* The server with its settings and its repository discovery: every start, *)
(* save and dismissal changes the scope and the token under the requests   *)
(* that discovery has under way.                                           *)
(***************************************************************************)
EXTENDS Settings, Discovery

Keys == {"github_token", "github_org", "github_username", "github_discovery_mode",
         "discovery_configured", "disable_auto_discovery_popup", "max_retry_attempts"}

In(mode, value) == [mode |-> mode, value |-> value]

\* A slip: searching an organisation that has no name.
ScopeAsSet(s) ==
  IF s["github_discovery_mode"] = "org" THEN In("org", s["github_org"])
  ELSE IF s["github_discovery_mode"] = "user" THEN In("user", s["github_username"])
  ELSE In("auto", "")

\* A mode without a name falls back to the token owner's repositories; until
\* discovery is configured an organisation is searched whatever the mode.
ResolveScope(s) ==
  LET mode == s["github_discovery_mode"]
      org == s["github_org"]
      username == s["github_username"]
      Named(kind, name) == IF name # "" THEN In(kind, name) ELSE In("auto", "")
  IN  IF mode = "org" THEN Named("org", org)
      ELSE IF mode = "user" THEN Named("user", username)
      ELSE IF s["discovery_configured"] # "true" THEN Named("org", org)
      ELSE In("auto", "")

ASSUME ConsoleAssumption ==
  /\ Key = Keys /\ Text \subseteq Token \cup {NoToken}
  /\ In("auto", "") \in Scope
  /\ \A v \in Text \ {""} : {In("org", v), In("user", v)} \subseteq Scope

ConfigOf(s) == [scope |-> ResolveScope(s), token |-> s["github_token"]]

ConsoleInit == SettingsInit /\ DiscoveryInit /\ config = ConfigOf(settings)

ConsoleNext ==
  \/ Start /\ Forget(ConfigOf(settings'))
  \/ Stop /\ UNCHANGED disc
  \/ \E answers \in Answers : Wizard(answers) /\ UNCHANGED disc
  \/ ((\E never \in BOOLEAN : Dismiss(never)) \/ (\E form \in Updates : Save(form)))
     /\ Configure(ConfigOf(settings'))
  \/ up /\ (\E c \in Caller : Discover(c)) /\ UNCHANGED env
  \/ Tick /\ UNCHANGED env

ConsoleSpec == ConsoleInit /\ [][ConsoleNext]_<<env, disc>>

-----------------------------------------------------------------------------
\* What both modules keep has its type.
ConsoleTypeOK == SettingsTypeOK /\ DiscoveryTypeOK
=============================================================================
