------------------------------ MODULE DrainGate -----------------------------
(***************************************************************************)
(* scripts/drain-check.py beside the consumers of StreamIngest: once the   *)
(* producer has ended, the gate compares its acknowledged ledger with what *)
(* S3 holds, one head_object per event and one quarantine scan per look,   *)
(* and looks again until nothing is missing or its deadline has passed.    *)
(* The StreamProcessor goes on archiving while the gate looks.             *)
(***************************************************************************)
EXTENDS StreamIngest

CONSTANT MaxLooks    \* bound: looks before the deadline

ASSUME GateAssumption == MaxLooks \in Nat \ {0}

VARIABLES gate,       \* where drain_check is
          missing,    \* ledger events not accounted for so far
          todo,       \* of those, the events this look has not asked for
          looks,      \* looks begun
          before      \* what was archived when the look began

gateVars == <<gate, missing, todo, looks, before>>
drainVars == <<vars, gateVars>>

Archived == {r \in Record : raw[KeyOf[r]] # None \/ r \in quarantine}

Ledger == {r \in Record : verdict[r] = "acknowledged"}

GateInit ==
    /\ gate = "off" /\ looks = 0
    /\ missing = {} /\ todo = {} /\ before = {}

BeginLook(events) ==
    /\ gate' = "looking"
    /\ missing' = events
    /\ todo' = events
    /\ looks' = looks + 1
    /\ before' = Archived

(* realtime-start.ps1 calls the gate after the producer has returned: no   *)
(* event of its run is still to be sent.                                   *)
StartGate ==
    /\ gate = "off"
    /\ \A r \in Record : MaySend(r) => verdict[r] # "sending"
    /\ BeginLook(Ledger)
    /\ UNCHANGED vars

(* head_object on the event's raw key. *)
HeadObject(r) ==
    /\ gate = "looking"
    /\ r \in todo
    /\ todo' = todo \ {r}
    /\ missing' = IF raw[KeyOf[r]] # None THEN missing \ {r} ELSE missing
    /\ UNCHANGED <<vars, gate, looks, before>>

(* Mutation of HeadRaises: an error is taken for an answer. *)
HeadAnswers ==
    /\ Faults
    /\ gate = "looking"
    /\ \E r \in todo : todo' = todo \ {r} /\ missing' = missing \ {r}
    /\ UNCHANGED <<vars, gate, looks, before>>

(* Any error but "no such key" leaves the gate without a receipt.          *)
HeadRaises ==
    /\ Faults
    /\ gate = "looking"
    /\ todo # {}
    /\ gate' = "raised"
    /\ UNCHANGED <<vars, missing, todo, looks, before>>

(* Every event was asked for and some are missing. *)
AtScan == gate = "looking" /\ todo = {} /\ missing # {}

(* Mutation of Scan: what it finds is not taken off the missing events. *)
ScanInVain ==
    /\ AtScan
    /\ gate' = "looked"
    /\ UNCHANGED <<vars, missing, todo, looks, before>>

(* The quarantine objects are read and their event ids compared.           *)
Scan ==
    /\ AtScan
    /\ missing' = missing \ quarantine
    /\ gate' = "looked"
    /\ UNCHANGED <<vars, todo, looks, before>>

(* An error of a call, or raw.get on a quarantined payload that is JSON    *)
(* but not an object: another producer's, the simulator sends none.        *)
ScanRaises ==
    /\ Faults
    /\ AtScan
    /\ gate' = "raised"
    /\ UNCHANGED <<vars, missing, todo, looks, before>>

NothingToScan ==
    /\ gate = "looking" /\ missing = {}
    /\ gate' = "looked"
    /\ UNCHANGED <<vars, missing, todo, looks, before>>

(* Mutation of TimeIsUp: the gate waits for the last event. *)
TimeNeverUp == FALSE

(* The deadline may have passed after any look, and has after MaxLooks.    *)
TimeIsUp == looks <= MaxLooks

(* The receipt is written: complete when nothing is missing. *)
WriteReceipt ==
    /\ gate = "looked"
    /\ missing = {} \/ TimeIsUp
    /\ gate' = "written"
    /\ UNCHANGED <<vars, missing, todo, looks, before>>

LookAgain ==
    /\ gate = "looked"
    /\ missing # {}
    /\ looks < MaxLooks
    /\ BeginLook(missing)
    /\ UNCHANGED vars

-----------------------------------------------------------------------------
GateStep ==
    \/ \E r \in Record : HeadObject(r)
    \/ HeadRaises \/ Scan \/ ScanRaises \/ NothingToScan
    \/ WriteReceipt \/ LookAgain

(* The operator's replay is left out here: ingest_order has it.            *)
IngestStep ==
    \/ \E r \in Record : PutAcknowledged(r) \/ PutFailed(r)
    \/ Poll \/ Invoke \/ TooOld
    \/ Step("live") \/ Fault("live")

DrainInit == Init /\ GateInit

DrainNext ==
    \/ IngestStep /\ UNCHANGED gateVars
    \/ StartGate \/ GateStep

DrainSpec == DrainInit /\ [][DrainNext]_drainVars

(* The mapping delivers as in StreamIngest; a gate that was started runs,  *)
(* but nobody is obliged to start one.                                     *)
DrainFairSpec == DrainSpec /\ Fairness /\ WF_drainVars(GateStep)

-----------------------------------------------------------------------------
(* The gate's inductive invariant: what it took off its list is archived,  *)
(* and what was archived when the look began and is still listed has yet   *)
(* to be asked for, or to be found by the scan.                            *)
GateInv ==
    /\ gate \in {"off", "looking", "looked", "written", "raised"}
    /\ gate # "off" => \A r \in Record : MaySend(r) => verdict[r] # "sending"
    /\ gate # "off" => Ledger \ missing \subseteq Archived
    /\ before \subseteq Archived
    /\ gate = "looking" => missing \cap before \subseteq todo \cup quarantine
    /\ gate \in {"looked", "written"} => missing \cap before = {}

(* "an incomplete run is reported, never silently called clean": a receipt *)
(* that lists nothing missing means that every acknowledged event has its  *)
(* raw or quarantine object, whatever failed between the first look and    *)
(* the last and whatever the Lambda archived meanwhile.                    *)
CompleteIsTrue ==
    gate = "written" /\ missing = {} => Ledger \subseteq Archived

(* The receipt accuses nobody: an event that was archived when the last    *)
(* look began is not listed.                                               *)
MissingWasNotArchived == gate = "written" => missing \cap before = {}

(* A gate that was started ends, with a receipt or with an error, however  *)
(* many events never arrive.                                               *)
GateEnds == <>[](gate \in {"off", "written", "raised"})

=============================================================================
