----------------------------- MODULE MCConsole -----------------------------
(* Texts, forms and scopes for checking Console with TLC.                  *)
EXTENDS Console, TLC

CONSTANT c1

OneCaller == {c1}

Texts == {"", "false", "true", "auto", "org", "user", "acme", "t1", "t2", "3", "5", "many", "a #b", "a"}
Numbers == {"3", "5"}
Numerics == {"max_retry_attempts"}
Defaults == [k \in Keys |-> CASE k = "github_discovery_mode" -> "auto"
                              [] k = "discovery_configured" -> "false"
                              [] k = "disable_auto_discovery_popup" -> "false"
                              [] k = "max_retry_attempts" -> "3"
                              [] OTHER -> ""]
WithSpace == {"a #b"}
Uncommented == [v \in Texts |-> IF v = "a #b" THEN "a" ELSE v]
Asked == {"github_token"}
NoSuggestions == <<>>
ExampleFile == [k \in {"github_token", "max_retry_attempts"} |->
                  IF k = "github_token" THEN "" ELSE "3"]
WizardAnswers == [Asked -> {"", "t1"}]

Form(k, v) == [j \in {k} |-> v]

\* The forms: one setting or a few at a time.
Forms == {Form("github_token", "t2"), Form("github_org", "a #b"),
          Form("max_retry_attempts", "5"), Form("max_retry_attempts", ""),
          Form("max_retry_attempts", "many"),
          Form("github_org", "acme") @@ Form("github_discovery_mode", "org"),
          Form("github_org", ""), Form("github_discovery_mode", "user")}

Tokens == Texts \ {""}
Scopes == {In("auto", "")} \cup {In(mode, v) : mode \in {"org", "user"}, v \in Texts \ {""}}
=============================================================================
