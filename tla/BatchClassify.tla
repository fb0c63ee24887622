---------------------------- MODULE BatchClassify ---------------------------
(***************************************************************************)
(* Which rows a batch run publishes.  The Glue job decides with data       *)
(* frames, here sets of row numbers; classify_events, the oracle of the    *)
(* tests, decides in a loop over the rows, here a state machine.  Both use *)
(* the telemetry contract.                                                 *)
(*                                                                         *)
(* A row is a delivery: the raw object it was read from, its event id, its *)
(* contract fields as Spark reads them, what it has beside them (other     *)
(* fields, 10 where another delivery has 10.0), the tests of the contract  *)
(* it fails, and those whose field is not of its type in EVENT_SCHEMA.     *)
(* Spark reads such a field as null, classify_events takes it as sent.     *)
(***************************************************************************)
EXTENDS Integers, Sequences, FiniteSets

CONSTANTS Source,      \* raw objects, ordered by URI
          Historical,  \* those that are historical CSV
          Event,       \* event ids, in their order
          Fields,      \* contract fields of an event
          Extra,       \* what an event has beside them
          InWindow,    \* Fields whose time is in the manifest's window
          WithPump,    \* Fields whose pump has metadata
          Delivery,    \* the rows there can be
          MaxRows      \* bound: rows of an input

ASSUME ClassifyAssumption ==
    /\ Source \subseteq Nat /\ Historical \subseteq Source
    /\ Event \subseteq Nat
    /\ InWindow \subseteq Fields /\ WithPump \subseteq Fields
    /\ MaxRows \in Nat

(* The tests of validate in their order, by the rule they report: required *)
(* numbers, then ranges, then optional numbers.                            *)
Rules == <<"MALFORMED_PAYLOAD", "SCHEMA_VERSION_UNSUPPORTED", "MISSING_FIELD",
           "UNKNOWN_ESP_ID", "INVALID_SOURCE", "INVALID_STATUS", "INVALID_TIMESTAMP",
           "NON_FINITE_NUMBER", "OUT_OF_RANGE", "NON_FINITE_NUMBER">>

SchemaVersion == 2     \* passed by 1.0 and by true, which are no IntegerType
OptionalNumber == 10   \* passed by null, which Spark makes of "high"

Row == [source : Source, event : Event, fields : Fields, extra : Extra,
        broken : SUBSET DOMAIN Rules, mistyped : SUBSET {SchemaVersion, OptionalNumber}]

ASSUME DeliveryAssumption == Delivery \subseteq Row

VARIABLES rows,       \* the input
          read,       \* rows the oracle has read
          valid,      \* per event id, its valid rows
          rejected,   \* rows it rejected, with the rule
          pending,    \* event ids it has still to decide
          accepted,   \* rows it accepted
          duplicates  \* duplicate_count

vars == <<rows, read, valid, rejected, pending, accepted, duplicates>>

-----------------------------------------------------------------------------
(* The tests of validate that the raw dict fails, and those that the row   *)
(* fails which Spark made of it under EVENT_SCHEMA.                        *)
FailedAsSent(row) == row.broken \cup (row.mistyped \cap {OptionalNumber})
FailedAsRead(row) == row.broken \cup (row.mistyped \cap {SchemaVersion})

(* contract.validate: the rule of the first test that fails, else "OK".    *)
Verdict(failed) ==
    IF failed = {} THEN "OK"
    ELSE Rules[CHOOSE i \in failed : \A j \in failed : i <= j]

Passed(i) == Verdict(FailedAsRead(rows[i])) = "OK"
PassedAsSent(i) == Verdict(FailedAsSent(rows[i])) = "OK"

(* payload_sha256 of the oracle: the whole event as it was sent.           *)
Everything(i) == <<rows[i].fields, rows[i].extra, rows[i].mistyped>>

-----------------------------------------------------------------------------
(* The job.  Spark reads the fields of EVENT_SCHEMA and drops the others;  *)
(* the hash is over EVENT_FIELDS.                                          *)

(* Mutation of Payload: the hash covers the provenance too.                *)
PayloadAndSource(i) == <<rows[i].fields, rows[i].source>>

Payload(i) == <<rows[i].fields>>

Input == DOMAIN rows
Invalid == {i \in Input : ~Passed(i)}
InScope == {i \in Input : Passed(i) /\ rows[i].fields \in InWindow}
OutOfScope == {i \in Input : Passed(i) /\ rows[i].fields \notin InWindow}

OfEvent(e) == {i \in InScope : rows[i].event = e}
IdentityCount(e) == Cardinality(OfEvent(e))
PayloadCount(e) == Cardinality({Payload(i) : i \in OfEvent(e)})

Conflicts == {i \in InScope : PayloadCount(rows[i].event) > 1}

(* row_number() over (partition by event_id order by source_uri) = 1.  Of  *)
(* rows of one object the engine takes any; they carry the same values.    *)
Canonical(e) ==
    LET i == CHOOSE i \in OfEvent(e) :
                \A j \in OfEvent(e) : rows[i].source <= rows[j].source
    IN  [event |-> e, source |-> rows[i].source, fields |-> rows[i].fields]

Silver == {Canonical(e) : e \in {rows[i].event : i \in InScope \ Conflicts}}

MissingMetadata == {s \in Silver : s.fields \notin WithPump}

Repeated(e) == PayloadCount(e) = 1 /\ IdentityCount(e) > 1
DuplicateIds == {e \in {rows[i].event : i \in InScope} : Repeated(e)}

(* Mutation of DuplicatesDropped: the rows that were kept are counted too. *)
DuplicatesWithKept == Cardinality({i \in InScope : Repeated(rows[i].event)})

DuplicatesDropped ==
    Cardinality({i \in InScope : Repeated(rows[i].event)}) - Cardinality(DuplicateIds)

AccountedRows ==
    Cardinality(Invalid) + Cardinality(OutOfScope) + Cardinality(Conflicts)
        + DuplicatesDropped + Cardinality(Silver)

(* Mutation of QualityPassed: conflicts are only counted.                  *)
PassedWithConflicts ==
    /\ MissingMetadata = {}
    /\ \E s \in Silver : s.source \in Historical
    /\ \E s \in Silver : s.source \notin Historical
    /\ Len(rows) - AccountedRows = 0

QualityPassed ==
    /\ Conflicts = {}
    /\ MissingMetadata = {}
    /\ \E s \in Silver : s.source \in Historical
    /\ \E s \in Silver : s.source \notin Historical
    /\ Len(rows) - AccountedRows = 0

-----------------------------------------------------------------------------
(* classify_events.                                                        *)
Init ==
    /\ rows \in UNION {[1 .. n -> Delivery] : n \in 0 .. MaxRows}
    /\ read = 0
    /\ valid = [e \in Event |-> {}]
    /\ rejected = {}
    /\ pending = {}
    /\ accepted = {}
    /\ duplicates = 0

(* One turn of the loop over the rows.                                     *)
ReadRow ==
    /\ read < Len(rows)
    /\ LET i == read + 1
           e == rows[i].event
       IN  /\ read' = i
           /\ IF PassedAsSent(i)
              THEN /\ valid' = [valid EXCEPT ![e] = @ \cup {i}]
                   /\ pending' = pending \cup {e}
                   /\ UNCHANGED rejected
              ELSE /\ rejected' = rejected \cup {<<i, Verdict(FailedAsSent(rows[i]))>>}
                   /\ UNCHANGED <<valid, pending>>
    /\ UNCHANGED <<rows, accepted, duplicates>>

(* Mutation of Leading: the entries are not sorted.                        *)
FirstRead(e) == CHOOSE i \in valid[e] : \A j \in valid[e] : i <= j

(* sorted(valid[event_id], key=source_uri)[0]; the sort is stable.         *)
Leading(e) ==
    CHOOSE i \in valid[e] : \A j \in valid[e] :
        \/ rows[i].source < rows[j].source
        \/ rows[i].source = rows[j].source /\ i <= j

(* Mutation of Undisputed: a conflict is resolved for the first row.       *)
AnyPayload(e) == valid[e] # {}

Undisputed(e) == Cardinality({Everything(i) : i \in valid[e]}) = 1

Reject(e) ==
    /\ rejected' = rejected \cup {<<i, "DUPLICATE_EVENT_ID_CONFLICT">> : i \in valid[e]}
    /\ UNCHANGED <<accepted, duplicates>>

Entry(e) == [event |-> e, source |-> rows[Leading(e)].source,
             fields |-> rows[Leading(e)].fields]

Accept(e) ==
    /\ accepted' = accepted \cup {Entry(e)}
    /\ duplicates' = duplicates + Cardinality(valid[e]) - 1
    /\ UNCHANGED rejected

(* One turn of the loop over the event ids, in their order.                *)
Decide ==
    /\ read = Len(rows)
    /\ \E e \in pending :
           /\ \A f \in pending : e <= f
           /\ pending' = pending \ {e}
           /\ IF Undisputed(e) THEN Accept(e) ELSE Reject(e)
    /\ UNCHANGED <<rows, read, valid>>

Next == ReadRow \/ Decide

Spec == Init /\ [][Next]_vars

-----------------------------------------------------------------------------
Returned == read = Len(rows) /\ pending = {}

(* Every input row is published, dropped as a duplicate, quarantined or    *)
(* out of the window, and counted once: unexplained_rows is 0, whatever    *)
(* conflicts and duplicates meet in the input.                             *)
EveryRowIsAccounted == AccountedRows = Len(rows)

(* What the gate passes has exactly one row for each valid event of the    *)
(* window, and no other payload of that event was in the window.           *)
PassedTableIsComplete ==
    QualityPassed => \A i \in InScope :
        /\ Cardinality({s \in Silver : s.event = rows[i].event}) = 1
        /\ \A s \in Silver : s.event = rows[i].event => s.fields = rows[i].fields

RowsOf(e) == {i \in Input : rows[i].event = e}
Rejections == {r[1] : r \in rejected}

(* Every delivery of e is in the window and typed as EVENT_SCHEMA wants    *)
(* it; and there is nothing in one delivery of e that is not in the others.*)
WellTyped(e) == \A i \in RowsOf(e) : rows[i].mistyped = {} /\ i \notin OutOfScope
SameExtra(e) == \A i, j \in RowsOf(e) : rows[i].extra = rows[j].extra

(* The oracle speaks for the job, event by event and whatever the other    *)
(* rows of the input are: of a well typed event that is sent with the same *)
(* other fields each time, both publish the same row and reject the same   *)
(* rows, in whatever order they are read; if all events are such, they     *)
(* drop as many duplicates.                                                *)
OracleAgreesWithJob ==
    Returned =>
        /\ \A e \in Event : WellTyped(e) /\ SameExtra(e) =>
               /\ {a \in accepted : a.event = e} = {s \in Silver : s.event = e}
               /\ Rejections \cap RowsOf(e) = (Invalid \cup Conflicts) \cap RowsOf(e)
        /\ (\A e \in Event : WellTyped(e) /\ SameExtra(e)) => duplicates = DuplicatesDropped

(* With other fields the oracle may see conflicts the job does not, never  *)
(* the other way round: what it accepts of a well typed event, the job     *)
(* publishes.  Of a mistyped one it may accept what the job rejects, and   *)
(* reject what the job publishes or takes for a conflict.                  *)
OracleIsStricter ==
    Returned => \A e \in Event : WellTyped(e) =>
        /\ Conflicts \cap RowsOf(e) \subseteq Rejections
        /\ {a \in accepted : a.event = e} \subseteq Silver

(* The content of what is published does not depend on how often, or in    *)
(* how many raw objects, the events were delivered: canonical_data_sha256  *)
(* of the input is that of the input without the repeated rows.            *)
Firsts == {i \in InScope : \A j \in 1 .. i - 1 :
                j \in InScope => <<rows[j].event, rows[j].fields>> # <<rows[i].event, rows[i].fields>>}
CanonicalData == {<<s.event, s.fields>> : s \in Silver}

RedeliveryChangesNothing ==
    CanonicalData = {<<rows[i].event, rows[i].fields>> : i \in
        {i \in Firsts : \A j \in Firsts : rows[j].event = rows[i].event => j = i}}

-----------------------------------------------------------------------------
(* The event ids the oracle has decided, and those it accepted.            *)
Decided == {e \in Event : valid[e] # {}} \ pending
Kept == {e \in Decided : Undisputed(e)}

(* The inductive invariant of the oracle: its rows are filed by event id,  *)
(* and what it has counted, kept and rejected is what it has decided.      *)
OracleInv ==
    /\ read \in 0 .. Len(rows)
    /\ valid = [e \in Event |-> {i \in 1 .. read : PassedAsSent(i) /\ rows[i].event = e}]
    /\ pending \subseteq {e \in Event : valid[e] # {}}
    /\ read < Len(rows) => Decided = {}
    /\ Rejections =
           {i \in 1 .. read : ~PassedAsSent(i)} \cup UNION {valid[e] : e \in Decided \ Kept}
    /\ accepted = {Entry(e) : e \in Kept}
    /\ duplicates = Cardinality(UNION {valid[e] : e \in Kept}) - Cardinality(Kept)

=============================================================================
