----------------------------- MODULE MCDashboard ----------------------------
(***************************************************************************)
(* DashboardPage for TLC: the page and other clients on two request        *)
(* threads.                                                                *)
(***************************************************************************)
EXTENDS DashboardPage

CONSTANTS thread1, thread2

=============================================================================
