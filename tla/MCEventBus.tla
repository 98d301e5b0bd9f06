---------------------------- MODULE MCEventBus ----------------------------
(* A row and pages for checking EventBus with TLC.                       *)
EXTENDS EventBus

CONSTANTS r1, p1, p2, p3

Rows == {r1}
Pages == {p1, p2, p3}
=============================================================================
