--------------------------- MODULE MCExportRestore --------------------------
(***************************************************************************)
(* ExportRestore for TLC: two keys on two pages of a listing, two tables.  *)
(***************************************************************************)
EXTENDS ExportRestore

CONSTANTS state, alerts, pump, episode

MCTableOf == [r \in Row |-> IF r = pump THEN state ELSE alerts]

=============================================================================
