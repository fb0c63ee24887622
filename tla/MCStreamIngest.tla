--------------------------- MODULE MCStreamIngest ---------------------------
(***************************************************************************)
(* Instances of StreamIngest for TLC: readings of one pump, two of them    *)
(* with the same event time, a record the contract rejects, one that makes *)
(* validate raise, and one that DynamoDB cannot store.                     *)
(***************************************************************************)
EXTENDS StreamIngest

CONSTANTS p1,
          r10,      \* time 1
          r20,      \* time 2
          r20b,     \* time 2 as well, another event
          bad,      \* rejected by the contract
          poison,   \* makes validate raise
          huge      \* accepted, but a number beyond DynamoDB's range

MCEspOf == [r \in Record |-> p1]

MCTimeOf == [r \in Record |-> IF r = r10 THEN 1 ELSE 2]

MCKeyOf == [r \in Record |-> r]

MCUnstorable == Record \cap {huge}
MCRejected == Record \cap {bad}
MCAccepted == Record \ {bad, poison}

=============================================================================
