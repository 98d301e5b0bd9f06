--------------------------- MODULE AgentContract ---------------------------
(***************************************************************************)
(* What the webhook handler takes for granted about run_agent: it returns  *)
(* one status or raises, it puts at most one commit on the branch, never   *)
(* after it returned, and none when it raises.  The status says nothing    *)
(* about the commit: FIX_PUSHED may be reported without one (the push was  *)
(* rejected) and CANNOT_FIX with one (something failed after the push).    *)
(***************************************************************************)
CONSTANTS Agents, Commits

VARIABLES
  landed,   \* Agents -> the commits of theirs on the branch
  report    \* Agents -> "none", or what run_agent came to

contract == <<landed, report>>

Init ==
  /\ landed = [a \in Agents |-> {}]
  /\ report = [a \in Agents |-> "none"]

Land(a, c) ==
  /\ report[a] = "none"
  /\ landed[a] = {}
  /\ \A b \in Agents : c \notin landed[b]
  /\ landed' = [landed EXCEPT ![a] = {c}]
  /\ UNCHANGED report

Report(a, r) ==
  /\ report[a] = "none"
  /\ r = "error" => landed[a] = {}
  /\ report' = [report EXCEPT ![a] = r]
  /\ UNCHANGED landed

Next ==
  \E a \in Agents :
    \/ \E c \in Commits : Land(a, c)
    \/ \E r \in {"FIX_PUSHED", "CANNOT_FIX", "error"} : Report(a, r)

Spec == Init /\ [][Next]_contract
=============================================================================
