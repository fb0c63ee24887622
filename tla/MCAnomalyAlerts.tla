--------------------------- MODULE MCAnomalyAlerts --------------------------
(***************************************************************************)
(* Instances of AnomalyAlerts for TLC: one pump, anomalous and normal      *)
(* records at successive times, one that is not readable and one whose     *)
(* measurements raise.  Rows belong to one pump, so a second pump would    *)
(* only add interleavings of independent rows.                             *)
(***************************************************************************)
EXTENDS AnomalyAlerts

CONSTANTS p1,
          a1, a2, a4,   \* anomalies at times 1, 2 and 4,
          a6, a7,       \* 6 and 7
          n3, n5, n8,   \* normal records at times 3, 5 and 8
          junk,         \* not readable
          null          \* a null measurement

MCEspOf == [r \in Record |-> p1]

MCIdOf == [r \in Record |-> r]

MCTimeOf == [r \in Record |-> CASE r = a1 -> 1
                                [] r = a2 -> 2
                                [] r = n3 -> 3
                                [] r = a4 -> 4
                                [] r = a6 -> 6
                                [] r = a7 -> 7
                                [] r = n8 -> 8
                                [] OTHER -> 5]

MCTrigOf == [r \in Record |-> CASE r = a1 -> {1}
                                [] r = a2 -> Rule
                                [] r \in {a4, a6, a7} -> {Rules}
                                [] OTHER -> {}]

(* Longer shards, in event-time order and without duplicates. *)
OnceInOrder ==
    /\ InEventOrder
    /\ \A i, j \in Positions : i # j => stream[i] # stream[j]

MCReadable == Record \ {junk}
MCRaises == Record \cap {null}

=============================================================================
