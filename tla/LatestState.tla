---------------------------- MODULE LatestState -----------------------------
(***************************************************************************)
(* What the latest-state table promises its readers (the dashboard, the    *)
(* replay tool, the restore drill): for every pump a register that only    *)
(* ever takes a valid reading of that pump, and only one whose event time  *)
(* is later than the reading it holds.  The first of two readings with the *)
(* same event time stays.                                                  *)
(***************************************************************************)
EXTENDS Naturals

CONSTANTS Pump, Record, None,
          EspOf,      \* the pump a record is about
          TimeOf,     \* its event time, normalised to UTC
          Valid       \* the records the schema contract accepts

VARIABLE latest

LatestInit == latest = [e \in Pump |-> None]

Newer(r, old) == old = None \/ TimeOf[old] < TimeOf[r]

Take(r) ==
    /\ Newer(r, latest[EspOf[r]])
    /\ latest' = [latest EXCEPT ![EspOf[r]] = r]

LatestNext == \E r \in Valid : Take(r)

LatestSpec == LatestInit /\ [][LatestNext]_latest

=============================================================================
