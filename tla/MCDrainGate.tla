---------------------------- MODULE MCDrainGate -----------------------------
(***************************************************************************)
(* DrainGate for TLC: any two of an ordinary reading, one the contract     *)
(* rejects and one that is archived although the table cannot store it,    *)
(* each sent up to twice.                                                  *)
(***************************************************************************)
EXTENDS DrainGate

CONSTANTS p1, fine, bad, huge

MCEspOf == [r \in Record |-> p1]
MCTimeOf == [r \in Record |-> 1]
MCKeyOf == [r \in Record |-> r]
MCUnstorable == {huge}
MCRejected == {bad}
MCAccepted == {fine, huge}

=============================================================================
