------------------------------ MODULE Settings ------------------------------
(***************************************************************************)
(* The settings, in the file .env and in memory:                           *)
(*   config.py                what a start reads                           *)
(*   services/env_writer.py   write_env, by which the console saves        *)
(*   setup_wizard.py          which replaces the file                      *)
(*   ui/app.py                update_settings, dismiss_discovery           *)
(*                                                                         *)
(* The wizard writes names in capitals, the console in small letters, and  *)
(* a start reads both for the same setting.  A text is a member of Text;   *)
(* of a text with " #" in it only the part before is read, unless quoted.  *)
(***************************************************************************)
EXTENDS Naturals, SequencesExt

CONSTANTS
  Key,          \* the settings
  Text,         \* what a setting may be given
  Number,       \* the texts that are numbers
  Numeric,      \* the settings that must be numbers
  Default,      \* Key -> what the program uses for a setting without a line
  Spaced,       \* the texts with a space or a quote in them
  Cut,          \* Text -> what is read of it when it is not quoted
  Prompted,     \* the settings the wizard asks for
  Suggested,    \* the wizard's own defaults, for some of them
  Example,      \* what .env.example says of some settings
  Answers,      \* what may be typed into the wizard
  Updates,      \* the forms an administrator may save
  MaxSaves,     \* bound: requests that save
  MaxStarts     \* bound: starts of the server and runs of the wizard

Nothing == "nothing"

ASSUME TextAssumption ==
  /\ {"", "false", "true"} \subseteq Text /\ Number \subseteq Text \ {""}
  /\ Spaced \subseteq Text /\ Nothing \notin Text
  /\ Cut \in [Text -> Text] /\ \A v \in Text \ Spaced : Cut[v] = v
  /\ \A v \in Number : Cut[v] \in Number
ASSUME KeyAssumption ==
  /\ IsFiniteSet(Key)
  /\ Numeric \subseteq Key /\ Prompted \subseteq Key \ Numeric
  /\ {"discovery_configured", "disable_auto_discovery_popup"} \subseteq Key \ Numeric
  /\ Default \in [Key -> Text] /\ \A k \in Numeric : Default[k] \in Number
  /\ DOMAIN Suggested \subseteq Prompted /\ \A k \in DOMAIN Suggested : Suggested[k] \in Text
  /\ DOMAIN Example \subseteq Key /\ \A k \in DOMAIN Example : Example[k] \in Text
  /\ \A k \in DOMAIN Example \cap Numeric : Example[k] \in Number
  /\ Answers \subseteq [Prompted -> Text]
  /\ \A u \in Updates : DOMAIN u \subseteq Key /\ \A k \in DOMAIN u : u[k] \in Text
ASSUME BoundsAssumption == MaxSaves \in Nat /\ MaxStarts \in Nat

VARIABLES
  file,       \* the lines of .env
  settings,   \* Key -> the value in memory
  up,         \* is the server running?
  asked,      \* Key -> what the console last saved in the file, or Nothing
  replaced,   \* did the wizard replace the file since the server started?
  unsaved,    \* the settings a dismissal set in memory and could not write
  saves, starts

env == <<file, settings, up, asked, replaced, unsaved, saves, starts>>

Line == [key : Key, capital : BOOLEAN, text : Text, quoted : BOOLEAN]

SettingsTypeOK ==
  /\ file \in Seq(Line)
  /\ settings \in [Key -> Text]
  /\ asked \in [Key -> Text \cup {Nothing}]
  /\ up \in BOOLEAN /\ replaced \in BOOLEAN /\ unsaved \subseteq Key
  /\ saves \in 0 .. MaxSaves /\ starts \in 0 .. MaxStarts

-----------------------------------------------------------------------------
(* What a start reads *)

Read(line) == IF line.quoted THEN line.text ELSE Cut[line.text]

LinesOf(k) == {i \in DOMAIN file : file[i].key = k}

\* The last line wins, in capitals or not.
Loaded(k) ==
  IF LinesOf(k) = {} THEN Default[k]
  ELSE Read(file[CHOOSE i \in LinesOf(k) : \A j \in LinesOf(k) : j <= i])

\* Settings() raises when a number is none.
Loads == \A k \in Numeric : Loaded(k) \in Number

SettingsInit ==
  /\ file = <<>>
  /\ settings = Default
  /\ up = FALSE
  /\ asked = [k \in Key |-> Nothing]
  /\ replaced = FALSE /\ unsaved = {}
  /\ saves = 0 /\ starts = 0

Start ==
  /\ ~up /\ Loads
  /\ starts < MaxStarts
  /\ starts' = starts + 1
  /\ up' = TRUE
  /\ settings' = [k \in Key |-> Loaded(k)]
  /\ replaced' = FALSE /\ unsaved' = {}
  /\ UNCHANGED <<file, asked, saves>>

\* The process ends, by itself or by a crash.
Stop ==
  /\ up
  /\ up' = FALSE
  /\ UNCHANGED <<file, settings, asked, replaced, unsaved, saves, starts>>

-----------------------------------------------------------------------------
(* run_wizard *)

\* _read_existing looks for the names in capitals only, and strips quotes.
Existing(k) ==
  LET own == {i \in LinesOf(k) : file[i].capital}
  IN  IF own # {} THEN file[CHOOSE i \in own : \A j \in own : j <= i].text
      ELSE IF k \in DOMAIN Suggested THEN Suggested[k] ELSE ""

Typed(answers, k) == IF answers[k] # "" THEN answers[k] ELSE Existing(k)

Capital(k, text) == [key |-> k, capital |-> TRUE, text |-> text, quoted |-> FALSE]

\* With an example file its lines are kept, and only theirs; without one a line
\* is written for each answer.
WizardFile(answers) ==
  LET given == {k \in Prompted : Typed(answers, k) # ""}
  IN  IF DOMAIN Example = {} THEN SetToSeq({Capital(k, Typed(answers, k)) : k \in given})
      ELSE SetToSeq({Capital(k, IF k \in given THEN Typed(answers, k) ELSE Example[k]) :
                       k \in DOMAIN Example})

Wizard(answers) ==
  /\ starts < MaxStarts
  /\ starts' = starts + 1
  /\ file' = WizardFile(answers)
  /\ asked' = [k \in Key |-> Nothing]
  /\ replaced' = TRUE
  /\ UNCHANGED <<settings, up, unsaved, saves>>

-----------------------------------------------------------------------------
(* write_env *)

Own(k) == {i \in LinesOf(k) : ~file[i].capital}

Small(k, text, quoted) == [key |-> k, capital |-> FALSE, text |-> text, quoted |-> quoted]

\* A line of the console's own is written anew, and quoted when need be.
Rewritten(u) ==
  [i \in DOMAIN file |->
     IF file[i].key \in DOMAIN u /\ ~file[i].capital
     THEN Small(file[i].key, u[file[i].key], u[file[i].key] \in Spaced)
     ELSE file[i]]

\* Other lines are appended as they are.
Appended(u) == SetToSeq({Small(k, u[k], FALSE) : k \in {j \in DOMAIN u : Own(j) = {}}})

\* A slip: new lines at the top of the file.
FileWithOnTop(u) == Appended(u) \o Rewritten(u)

FileWith(u) == Rewritten(u) \o Appended(u)

Ask(u) == asked' = [k \in Key |-> IF k \in DOMAIN u THEN u[k] ELSE asked[k]]

Request ==
  /\ up
  /\ saves < MaxSaves
  /\ saves' = saves + 1
  /\ UNCHANGED <<up, replaced, starts>>

\* A slip: an empty number is saved as it is.
AsIs(u) == u

\* Empty numbers become the defaults.
Filled(u) == [k \in DOMAIN u |-> IF k \in Numeric /\ u[k] = "" THEN Default[k] ELSE u[k]]

\* update_settings: first the file, then memory, where texts that are no
\* numbers are left out.
Save(form) ==
  LET u == Filled(form)
      Parses(k) == k \in Numeric => u[k] \in Number
  IN  /\ Request
      /\ file' = FileWith(u)
      /\ Ask(u)
      /\ settings' = [k \in Key |-> IF k \in DOMAIN u /\ Parses(k) THEN u[k] ELSE settings[k]]
      /\ unsaved' = unsaved \ DOMAIN u

\* What a dismissal sets, with the box "never again" ticked or not.
Dismissed(never) ==
  [k \in {"discovery_configured"} \cup {j \in {"disable_auto_discovery_popup"} : never} |-> "true"]

\* dismiss_discovery: first memory, then the file, which may fail.
Dismiss(never) ==
  LET u == Dismissed(never)
  IN  /\ Request
      /\ settings' = [k \in Key |-> IF k \in DOMAIN u THEN u[k] ELSE settings[k]]
      /\ \/ file' = FileWith(u) /\ Ask(u) /\ unsaved' = unsaved \ DOMAIN u
         \/ unsaved' = unsaved \cup DOMAIN u /\ UNCHANGED <<file, asked>>

-----------------------------------------------------------------------------
(* What the administrator may rely on *)

\* Read back as it was written, and a number where one is needed.
Sound(k, text) == Cut[text] = text /\ (k \in Numeric => text \in Number)

\* "Changes persist": what the console saved is what the next start reads,
\* although the wizard's line for the same setting stays in the file.
SavedSurvivesRestart ==
  \A k \in Key : asked[k] # Nothing /\ Cut[asked[k]] = asked[k] => Loaded(k) = asked[k]

\* A restart changes nothing for a server whose file was written by itself: each
\* setting in memory is what the file says of it, unless the file was given a
\* text that is not read back as it is, or a dismissal failed to write it.
RestartChangesNothing ==
  up /\ ~replaced =>
    \A k \in Key : \/ settings[k] = Loaded(k)
                   \/ asked[k] # Nothing /\ ~Sound(k, asked[k])
                   \/ k \in unsaved /\ settings[k] = "true"

\* The server starts again after any saves, but for a text in a number's place.
StartsAgain ==
  Loads \/ \E k \in Numeric : asked[k] \notin Number \cup {Nothing, ""}
-----------------------------------------------------------------------------
(* What the documents say and the code does not do. *)

\* "Live configuration changes made via UI persist safely into .env": whatever
\* was saved, and although a write may fail.
ChangesPersist == up /\ ~replaced => \A k \in Key : settings[k] = Loaded(k)
=============================================================================
