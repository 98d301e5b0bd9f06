--------------------------- MODULE MCLiveUpdates ---------------------------
(* A row, a page and selections for checking LiveUpdates with TLC.       *)
EXTENDS LiveUpdates

CONSTANTS r1, p1

Rows == {r1}
Pages == {p1}

\* Everything, or a repository the row is not of.
AllOrNothing == {Rows, {}}
=============================================================================
