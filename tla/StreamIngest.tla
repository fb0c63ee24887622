---------------------------- MODULE StreamIngest ----------------------------
(***************************************************************************)
(* From the producer's put_record to raw history, quarantine and the       *)
(* latest-state table: simulator/esp_simulator.py, the StreamProcessor     *)
(* Lambda and its event source mapping, and scripts/replay-failed.py.      *)
(*                                                                         *)
(* Two workers run process_record on records of the same shard: the live   *)
(* Lambda, one invocation at a time, and an operator's replay of a failed  *)
(* batch, which takes no lock against it.  Every external write is a step  *)
(* of its own, so the two interleave between the raw-history write and the *)
(* conditional state write, and a fault can stop a worker between them.    *)
(***************************************************************************)
EXTENDS KinesisMapping, FiniteSets

CONSTANTS Pump, None,
          EspOf,        \* the pump a record is about
          TimeOf,       \* its event time, after iso_z
          KeyOf,        \* its raw-history key: pump, hour and event id
          Accepted,     \* records src/contract.py accepts
          Rejected,     \* records it rejects, and undecodable ones
          Unstorable,   \* accepted records put_item cannot serialize
          MaxAttempts,  \* max_attempts of put_with_retry
          MaxEvents,    \* bound: events the producer sends
          Faults        \* TRUE: calls fail, invocations die, records age

(* A record in neither Accepted nor Rejected makes validate raise: an      *)
(* unhashable esp_id, an offset that leaves the calendar, an integer too   *)
(* large for a float.                                                      *)
ASSUME IngestAssumption ==
    /\ Accepted \cap Rejected = {}
    /\ Accepted \subseteq Record /\ Rejected \subseteq Record
    /\ Unstorable \subseteq Accepted
    /\ None \notin Record
    /\ EspOf \in [Record -> Pump]
    /\ TimeOf \in [Record -> Nat]
    /\ \A r \in Record : r \in DOMAIN KeyOf
    /\ MaxAttempts \in Nat \ {0}
    /\ MaxEvents \in Nat
    /\ Faults \in BOOLEAN

Key == {KeyOf[r] : r \in Record}

VARIABLES attempts,     \* per record, put_record calls made so far
          verdict,      \* per record, what put_with_retry returned
          raw,          \* raw/realtime/: the object under each key
          quarantine,   \* records that have a quarantine object
          latest,       \* the LatestState table
          job,          \* what each worker is doing
          receipted     \* positions a replay receipt lists an outcome for

producerVars == <<attempts, verdict>>
storeVars == <<raw, quarantine, latest>>
vars == <<stream, mappingVars, producerVars, storeVars, job, receipted>>

Worker == {"live", "replay"}

(* at: "next" before a record, "state" between its two writes.             *)
Job == [at : {"idle", "next", "state"}, from : Nat, pos : Nat, end : Nat]

Idle == [at |-> "idle", from |-> 0, pos |-> 0, end |-> 0]

Busy(w) == job[w].at # "idle"

Current(w) == stream[job[w].pos]

(* w has a record of its batch in hand and is at the given place in        *)
(* process_record.                                                         *)
Holds(w, place) == job[w].at = place /\ job[w].pos <= job[w].end

NextRecord(w) ==
    job' = [job EXCEPT ![w] = [at |-> "next", from |-> @.from,
                               pos |-> @.pos + 1, end |-> @.end]]

(* Mutation of Newer: a reading of the same event time replaces. *)
NewerOrEqual(r, old) == old = None \/ TimeOf[old] <= TimeOf[r]

Newer(r, old) == old = None \/ TimeOf[old] < TimeOf[r]

-----------------------------------------------------------------------------
Init ==
    /\ MappingInit
    /\ attempts = [r \in Record |-> 0]
    /\ verdict = [r \in Record |-> "sending"]
    /\ raw = [k \in Key |-> None]
    /\ quarantine = {}
    /\ latest = [e \in Pump |-> None]
    /\ job = [w \in Worker |-> Idle]
    /\ receipted = {}

(* One of the events the producer sends in this run, at any attempt.       *)
MaySend(r) == Cardinality({s \in Record \ {r} : attempts[s] > 0}) < MaxEvents

(* put_record succeeds and the caller learns it: the event goes into the   *)
(* acknowledged ledger.                                                    *)
PutAcknowledged(r) ==
    /\ verdict[r] = "sending"
    /\ MaySend(r)
    /\ stream' = Append(stream, r)
    /\ attempts' = [attempts EXCEPT ![r] = @ + 1]
    /\ verdict' = [verdict EXCEPT ![r] = "acknowledged"]
    /\ UNCHANGED <<mappingVars, storeVars, job, receipted>>

(* put_record raises in the caller, after the record landed or before: the *)
(* same event is put again, until the attempts are used up.                *)
PutFailed(r) ==
    /\ verdict[r] = "sending"
    /\ Faults
    /\ MaySend(r)
    /\ stream' \in {stream, Append(stream, r)}
    /\ attempts' = [attempts EXCEPT ![r] = @ + 1]
    /\ verdict' = IF attempts[r] + 1 = MaxAttempts
                  THEN [verdict EXCEPT ![r] = "failed"]
                  ELSE verdict
    /\ UNCHANGED <<mappingVars, storeVars, job, receipted>>

-----------------------------------------------------------------------------
(* The mapping's own steps. *)
Poll ==
    /\ ~Busy("live")
    /\ PollBatch
    /\ UNCHANGED <<stream, producerVars, storeVars, job, receipted>>

Invoke ==
    /\ ~Busy("live")
    /\ \E hi \in cuts :
          /\ NextBatch(hi)
          /\ job' = [job EXCEPT !["live"] =
                       [at |-> "next", from |-> ckpt + 1,
                        pos |-> ckpt + 1, end |-> hi]]
    /\ UNCHANGED <<stream, mappingVars, producerVars, storeVars, receipted>>

(* The batch outlived maximum_record_age_in_seconds. *)
TooOld ==
    /\ Faults
    /\ ~Busy("live")
    /\ \E hi \in cuts : GiveUp(hi)
    /\ UNCHANGED <<stream, producerVars, storeVars, job, receipted>>

(* replay-failed.py --execute on a failure pointer.  Its one get_records   *)
(* call may return fewer records than the batch had.                       *)
StartReplay ==
    /\ ~Busy("replay")
    /\ \E f \in discarded : \E n \in 0..f.size :
          job' = [job EXCEPT !["replay"] =
                    [at |-> "next", from |-> f.start,
                     pos |-> f.start, end |-> f.start + n - 1]]
    /\ UNCHANGED <<stream, mappingVars, producerVars, storeVars, receipted>>

-----------------------------------------------------------------------------
(* Mutation of Quarantine: a rejected record is only counted. *)
CountRejected(w) ==
    /\ Holds(w, "next")
    /\ Current(w) \in Rejected
    /\ NextRecord(w)
    /\ UNCHANGED <<stream, mappingVars, producerVars, storeVars, receipted>>

(* process_record, one external write at a time. *)
Quarantine(w) ==
    /\ Holds(w, "next")
    /\ Current(w) \in Rejected
    /\ quarantine' = quarantine \cup {Current(w)}
    /\ NextRecord(w)
    /\ UNCHANGED <<stream, mappingVars, producerVars, raw, latest, receipted>>

(* Mutation of PutRaw: an S3 error is swallowed. *)
PutRawMayBeLost(w) ==
    /\ Holds(w, "next")
    /\ Current(w) \in Accepted
    /\ raw' \in {raw, [raw EXCEPT ![KeyOf[Current(w)]] = Current(w)]}
    /\ job' = [job EXCEPT ![w] = [at |-> "state", from |-> @.from,
                                  pos |-> @.pos, end |-> @.end]]
    /\ UNCHANGED <<stream, mappingVars, producerVars, quarantine, latest,
                   receipted>>

PutRaw(w) ==
    /\ Holds(w, "next")
    /\ Current(w) \in Accepted
    /\ raw' = [raw EXCEPT ![KeyOf[Current(w)]] = Current(w)]
    /\ job' = [job EXCEPT ![w] = [at |-> "state", from |-> @.from,
                                  pos |-> @.pos, end |-> @.end]]
    /\ UNCHANGED <<stream, mappingVars, producerVars, quarantine, latest,
                   receipted>>

(* put_item with its condition: processed, or superseded and unchanged.    *)
WriteLatest(w) ==
    /\ Holds(w, "state")
    /\ Current(w) \notin Unstorable
    /\ latest' = IF Newer(Current(w), latest[EspOf[Current(w)]])
                 THEN [latest EXCEPT ![EspOf[Current(w)]] = Current(w)]
                 ELSE latest
    /\ NextRecord(w)
    /\ UNCHANGED <<stream, mappingVars, producerVars, raw, quarantine,
                   receipted>>

(* Mutations of Abort: the handler catches the exception and returns; the  *)
(* replay writes its receipt although its loop was left.                   *)
AbortAcknowledges(w) ==
    /\ job' = [job EXCEPT ![w] = Idle]
    /\ IF w = "live" THEN BatchSucceeded(job[w].end) ELSE UNCHANGED mappingVars
    /\ UNCHANGED <<stream, producerVars, storeVars, receipted>>

AbortWritesReceipt(w) ==
    /\ job' = [job EXCEPT ![w] = Idle]
    /\ IF w = "live"
       THEN BatchFailed(job[w].end) /\ UNCHANGED receipted
       ELSE /\ receipted' = receipted \cup job[w].from..job[w].end
            /\ UNCHANGED mappingVars
    /\ UNCHANGED <<stream, producerVars, storeVars>>

(* An exception leaves the handler: nothing already written is undone.     *)
Abort(w) ==
    /\ job' = [job EXCEPT ![w] = Idle]
    /\ IF w = "live" THEN BatchFailed(job[w].end) ELSE UNCHANGED mappingVars
    /\ UNCHANGED <<stream, producerVars, storeVars, receipted>>

RecordRaises(w) ==
    /\ \/ Holds(w, "next") /\ Current(w) \notin Accepted \cup Rejected
       \/ Holds(w, "state") /\ Current(w) \in Unstorable
    /\ Abort(w)

Fault(w) ==
    /\ Faults
    /\ Busy(w)
    /\ Abort(w)

(* The handler returns; the replay tool writes its receipt.                *)
Finish(w) ==
    /\ job[w].at = "next"
    /\ job[w].pos > job[w].end
    /\ job' = [job EXCEPT ![w] = Idle]
    /\ IF w = "live"
       THEN BatchSucceeded(job[w].end) /\ UNCHANGED receipted
       ELSE /\ receipted' = receipted \cup job[w].from..job[w].end
            /\ UNCHANGED mappingVars
    /\ UNCHANGED <<stream, producerVars, storeVars>>

-----------------------------------------------------------------------------
Step(w) ==
    Quarantine(w) \/ PutRaw(w) \/ WriteLatest(w) \/ RecordRaises(w) \/ Finish(w)

Next ==
    \/ \E r \in Record : PutAcknowledged(r) \/ PutFailed(r)
    \/ Poll \/ Invoke \/ TooOld \/ StartReplay
    \/ \E w \in Worker : Step(w) \/ Fault(w)

Spec == Init /\ [][Next]_vars

(* The mapping keeps polling and invoking, and an invocation runs until it *)
(* returns or raises.  Nothing obliges a producer to send, an operator to  *)
(* replay, or a fault to happen.                                           *)
Fairness ==
    /\ WF_vars(Poll)
    /\ WF_vars(Invoke)
    /\ WF_vars(Step("live"))

FairSpec == Spec /\ Fairness

-----------------------------------------------------------------------------
TypeOK ==
    /\ MappingTypeOK
    /\ attempts \in [Record -> 0..MaxAttempts]
    /\ verdict \in [Record -> {"sending", "acknowledged", "failed"}]
    /\ raw \in [Key -> Record \cup {None}]
    /\ quarantine \subseteq Record
    /\ latest \in [Pump -> Record \cup {None}]
    /\ job \in [Worker -> Job]
    /\ receipted \subseteq Nat

(* The record left the trace process_record owes it: a quarantine object,  *)
(* or a raw object and a table row that is not older than the record.      *)
Settled(r) ==
    \/ r \in Rejected /\ r \in quarantine
    \/ /\ r \in Accepted
       /\ raw[KeyOf[r]] # None
       /\ latest[EspOf[r]] # None
       /\ TimeOf[r] <= TimeOf[latest[EspOf[r]]]

(* "No event can disappear without accepted/quarantined/superseded          *)
(* accounting": whatever lies behind the mapping's checkpoint was settled  *)
(* by process_record or is covered by a pointer in the failure             *)
(* destination, under every split, retry, crash and concurrent replay.     *)
NothingDisappears ==
    \A i \in 1..ckpt : Settled(stream[i]) \/ Pointed(i)

(* A replay receipt lists no record the replay did not settle, whatever    *)
(* the live Lambda wrote between the replay's own two writes.              *)
ReceiptsAreTrue ==
    \A i \in receipted : i \in Positions /\ Settled(stream[i])

(* The raw object is written before the conditional state write: the table *)
(* never shows a reading whose raw-history key is empty.                   *)
LatestHasHistory ==
    \A e \in Pump : latest[e] # None => raw[KeyOf[latest[e]]] # None

(* What a worker in the middle of a batch has done so far.                 *)
JobInv(w) ==
    LET j == job[w]
    IN  /\ j.from >= 1
        /\ j.from <= j.pos
        /\ j.pos <= j.end + 1
        /\ j.end <= Len(stream)
        /\ \A i \in j.from..(j.pos - 1) : Settled(stream[i])
        /\ j.at = "state" => /\ j.pos <= j.end
                             /\ stream[j.pos] \in Accepted
                             /\ raw[KeyOf[stream[j.pos]]] # None
        /\ w = "live" => j.from = ckpt + 1 /\ NextBatch(j.end)

(* put_with_retry returns once its attempts are used up.                   *)
AttemptsLeft ==
    \A r \in Record : verdict[r] = "sending" => attempts[r] < MaxAttempts

(* The inductive invariant: a batch is known to be settled only because    *)
(* every record already passed in it is, in the current invocation.        *)
IngestInv ==
    /\ TypeOK
    /\ AttemptsLeft
    /\ PointersAreBehind
    /\ NothingDisappears
    /\ ReceiptsAreTrue
    /\ LatestHasHistory
    /\ \A w \in Worker : Busy(w) => JobInv(w)

(* The table of this system is the register LatestState promises.          *)
L == INSTANCE LatestState WITH Valid <- Accepted
LatestRegister == L!LatestSpec

(* Every record the producer has in its acknowledged ledger is eventually  *)
(* settled or covered by a failure pointer, and either stays as it is.     *)
AcknowledgedIsAccounted ==
    <>[]\A r \in Record :
          verdict[r] = "acknowledged" =>
              Settled(r) \/ \E i \in Positions : stream[i] = r /\ Pointed(i)

-----------------------------------------------------------------------------
(* What the docstrings say of bad records: "Rejected records are           *)
(* quarantined with their rule ID and reason, never silently dropped" and  *)
(* parse_iso_utc "never raises".                                           *)
BadRecordsAreQuarantined ==
    \A i \in 1..ckpt : stream[i] \in Accepted \cup quarantine

=============================================================================
