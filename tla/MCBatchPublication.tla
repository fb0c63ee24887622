------------------------- MODULE MCBatchPublication -------------------------
(***************************************************************************)
(* Instances of BatchPublication for TLC: two runs that may overlap, and   *)
(* raw objects with a content the gate takes and one it refuses.           *)
(***************************************************************************)
EXTENDS BatchPublication

CONSTANTS m1, m2,   \* publication runs
          csv,      \* a raw object
          v1, dirty \* contents

=============================================================================
