---------------------------- MODULE MCPanelAccess ----------------------------
(* Two requests at a time on one panel with two addresses, one or two kept backups. *)
EXTENDS PanelAccess, TLC

CONSTANTS r1, r2, p1, p2

MCRuns == {r1, r2}
MCAddresses == {p1, p2}
MCSymmetry == Permutations(MCRuns) \cup Permutations(MCAddresses)
===============================================================================
