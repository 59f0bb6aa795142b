--------------------------- MODULE MCDashboardPush ---------------------------
(***************************************************************************)
(* Small instances of DashboardPush.  Sockets and slots are                *)
(* interchangeable; symmetry is used where no liveness is checked.         *)
(***************************************************************************)
EXTENDS DashboardPush, TLC

CONSTANTS c1, c2, s1, s2

Sockets == {c1, c2}
Slots == {s1, s2}

Symmetry == Permutations(Sockets) \cup Permutations(Slots)
=============================================================================
