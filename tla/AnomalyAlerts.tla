---------------------------- MODULE AnomalyAlerts ---------------------------
(***************************************************************************)
(* The AnomalyDetector Lambda: a consumer of the same shard as the         *)
(* StreamProcessor, through an event source mapping of its own, that turns *)
(* anomalous records into alert episodes.  For every pump and rule it      *)
(* keeps a row in AlertState, publishes to SNS first and writes the row    *)
(* only afterwards, so a fault may fall between the two, and a batch that  *)
(* fails is delivered again to rows that its first delivery has changed.   *)
(* The row is read with get_item's default, eventual consistency: a read   *)
(* may return the row as an earlier put_item left it.                      *)
(***************************************************************************)
EXTENDS KinesisMapping, FiniteSets

CONSTANTS Pump,
          Rules,     \* how many rules RULES lists, tried in that order
          Id,        \* event ids
          EspOf,     \* the pump a record is about
          IdOf,      \* its event_id, "unknown" when it has none
          TimeOf,    \* its timestamp
          TrigOf,    \* the rules it triggers
          Readable,  \* records that decode to an object with an esp_id
          Raises,    \* readable records whose measurements float() refuses
          Cooldown,  \* ALERT_COOLDOWN_SECONDS
          MaxLen,    \* bound on the shard
          Faults,    \* TRUE: calls fail, invocations die, records age
          MaxMisreads,  \* bound on reads of an older row
          NoRow

Rule == 1..Rules

ASSUME AlertAssumption ==
    /\ Rules \in Nat \ {0}
    /\ EspOf \in [Record -> Pump]
    /\ IdOf \in [Record -> Id]
    /\ TimeOf \in [Record -> Nat]
    /\ TrigOf \in [Record -> SUBSET Rule]
    /\ Readable \subseteq Record /\ Raises \subseteq Readable
    /\ Cooldown \in Nat
    /\ Faults \in BOOLEAN
    /\ MaxLen \in Nat
    /\ MaxMisreads \in Nat

VARIABLES rows,       \* the AlertState table
          published,  \* messages SNS accepted
          repeated,   \* those it accepted more than once
          recorded,   \* alerts some row write has named as notified
          failed,     \* positions some failed invocation had in its batch
          misread,    \* position and rule of every read of an older row
          job         \* the invocation in progress

alertVars == <<rows, published, repeated, recorded, failed, misread>>
vars == <<stream, mappingVars, alertVars, job>>

(* alert_id is a hash of the episode, the event and the kind; the episode  *)
(* is named by the event that opened it, within a pump and a rule.         *)
Alert == [kind : {"trigger", "recovery"}, episode : Id, event : Id]

Message == [esp : Pump, rule : Rule, alert : Alert, time : Nat]

(* until is the cooldown's end; 0 stands for no cooldown, as after a       *)
(* recovery.                                                               *)
Row == [active : BOOLEAN, episode : Id, until : Nat, last : Alert]

ASSUME NoRowAssumption == NoRow \notin Row

(* at: "record" before a record, "rule" before a rule of it, "write"       *)
(* between publish and put_item.                                           *)
Job == [at : {"idle", "record", "rule", "write"}, from : Nat, pos : Nat,
        end : Nat, rule : Nat, row : Row \cup {NoRow}]

Idle == [at |-> "idle", from |-> 0, pos |-> 0, end |-> 0,
         rule |-> 0, row |-> NoRow]

Busy == job.at # "idle"

Current == stream[job.pos]

IsActive(row) == row # NoRow /\ row.active

-----------------------------------------------------------------------------
EpisodeOf(row, r) == IF IsActive(row) THEN row.episode ELSE IdOf[r]

(* Mutation of AlertOf: a recovery names an episode of its own. *)
AlertOfFreshEpisode(row, k, r) ==
    LET triggered == k \in TrigOf[r]
    IN  [kind |-> IF triggered THEN "trigger" ELSE "recovery",
         episode |-> IF triggered THEN EpisodeOf(row, r) ELSE IdOf[r],
         event |-> IdOf[r]]

AlertOf(row, k, r) ==
    [kind |-> IF k \in TrigOf[r] THEN "trigger" ELSE "recovery",
     episode |-> EpisodeOf(row, r), event |-> IdOf[r]]

(* Mutations of Quiet: there is no cooldown; it holds recoveries back too. *)
QuietWithoutCooldown(row, k, r) ==
    \/ k \notin TrigOf[r] /\ ~IsActive(row)
    \/ row # NoRow /\ row.last = AlertOf(row, k, r)

QuietHoldsRecovery(row, k, r) ==
    \/ k \notin TrigOf[r] /\ ~IsActive(row)
    \/ IsActive(row) /\ TimeOf[r] < row.until
    \/ row # NoRow /\ row.last = AlertOf(row, k, r)

(* decide returns nothing: the pump is normal and so is its row; it is     *)
(* anomalous within the cooldown; or this alert is the one last notified.  *)
Quiet(row, k, r) ==
    \/ k \notin TrigOf[r] /\ ~IsActive(row)
    \/ k \in TrigOf[r] /\ IsActive(row) /\ TimeOf[r] < row.until
    \/ row # NoRow /\ row.last = AlertOf(row, k, r)

(* The pure decision for one pump and rule: the row to write once its      *)
(* alert, row.last, is published, or NoRow when nothing is to be sent.     *)
Decide(row, k, r) ==
    IF Quiet(row, k, r)
    THEN NoRow
    ELSE [active |-> k \in TrigOf[r],
          episode |-> EpisodeOf(row, r),
          until |-> IF k \in TrigOf[r] THEN TimeOf[r] + Cooldown ELSE 0,
          last |-> AlertOf(row, k, r)]

CurrentRow == rows[<<EspOf[Current], job.rule>>]

Decision == Decide(CurrentRow, job.rule, Current)

(* The row that the put_item after message m stored.                       *)
RowOf(m) ==
    [active |-> m.alert.kind = "trigger",
     episode |-> m.alert.episode,
     until |-> IF m.alert.kind = "trigger" THEN m.time + Cooldown ELSE 0,
     last |-> m.alert]

(* What was ever stored for a pump and a rule.                             *)
Stored(e, k) == {NoRow} \cup {RowOf(m) : m \in {n \in recorded : n.esp = e /\ n.rule = k}}

-----------------------------------------------------------------------------
Init ==
    /\ MappingInit
    /\ rows = [x \in Pump \X Rule |-> NoRow]
    /\ published = {}
    /\ repeated = {}
    /\ recorded = {}
    /\ failed = {}
    /\ misread = {}
    /\ job = Idle

(* A record arrives, in event-time order or not, and possibly again: a     *)
(* send that was not acknowledged is repeated.                             *)
Arrives(r) ==
    /\ Len(stream) < MaxLen
    /\ stream' = Append(stream, r)
    /\ UNCHANGED <<mappingVars, alertVars, job>>

Poll ==
    /\ ~Busy
    /\ PollBatch
    /\ UNCHANGED <<stream, alertVars, job>>

Invoke ==
    /\ ~Busy
    /\ \E hi \in cuts :
          /\ NextBatch(hi)
          /\ job' = [at |-> "record", from |-> ckpt + 1, pos |-> ckpt + 1,
                     end |-> hi, rule |-> 0, row |-> NoRow]
    /\ UNCHANGED <<stream, mappingVars, alertVars>>

TooOld ==
    /\ Faults
    /\ ~Busy
    /\ \E hi \in cuts : GiveUp(hi)
    /\ UNCHANGED <<stream, alertVars, job>>

-----------------------------------------------------------------------------
AtRecord == job.at = "record" /\ job.pos <= job.end

(* The invocation at another place of its batch.                           *)
JobAt(where, pos, rule, row) ==
    [at |-> where, from |-> job.from, pos |-> pos, end |-> job.end,
     rule |-> rule, row |-> row]

NextRecord == job' = JobAt("record", job.pos + 1, 0, NoRow)

NextRule ==
    IF job.rule = Rules
    THEN NextRecord
    ELSE job' = JobAt("rule", job.pos, job.rule + 1, NoRow)

(* Not decodable, or no esp_id: counted and passed over. *)
Skip ==
    /\ AtRecord
    /\ Current \notin Readable
    /\ NextRecord
    /\ UNCHANGED <<stream, mappingVars, alertVars>>

(* triggered_rules runs on the record. *)
Examine ==
    /\ AtRecord
    /\ Current \in Readable \ Raises
    /\ job' = JobAt("rule", job.pos, 1, NoRow)
    /\ UNCHANGED <<stream, mappingVars, alertVars>>

(* get_item returns the row, or what a replica still has instead of it.    *)
Reads(row) ==
    /\ row \in Stored(EspOf[Current], job.rule)
    /\ \/ row = CurrentRow /\ UNCHANGED misread
       \/ /\ row # CurrentRow
          /\ misread' = misread \cup {<<job.pos, job.rule>>}
          /\ Cardinality(misread') <= MaxMisreads

(* decide returns nothing for the row that was read.                       *)
QuietOn(row) ==
    /\ job.at = "rule"
    /\ Decide(row, job.rule, Current) = NoRow
    /\ NextRule
    /\ UNCHANGED <<stream, mappingVars, rows, published, repeated, recorded, failed>>

StayQuiet ==
    job.at = "rule" /\ \E row \in Stored(EspOf[Current], job.rule) : Reads(row) /\ QuietOn(row)

(* Mutation of PublishOn: a publish that fails goes unnoticed. *)
PublishOnMayBeLost(row) ==
    LET d == Decide(row, job.rule, Current)
        m == [esp |-> EspOf[Current], rule |-> job.rule,
              alert |-> d.last, time |-> TimeOf[Current]]
    IN  /\ job.at = "rule"
        /\ d # NoRow
        /\ published' \in {published, published \cup {m}}
        /\ job' = JobAt("write", job.pos, job.rule, d)
        /\ UNCHANGED <<stream, mappingVars, rows, repeated, recorded, failed>>

(* decide returns an alert for it, and SNS accepts the message.            *)
PublishOn(row) ==
    LET d == Decide(row, job.rule, Current)
        m == [esp |-> EspOf[Current], rule |-> job.rule,
              alert |-> d.last, time |-> TimeOf[Current]]
    IN  /\ job.at = "rule"
        /\ d # NoRow
        /\ published' = published \cup {m}
        /\ repeated' = repeated \cup ({m} \cap published)
        /\ job' = JobAt("write", job.pos, job.rule, d)
        /\ UNCHANGED <<stream, mappingVars, rows, recorded, failed>>

Publish ==
    job.at = "rule" /\ \E row \in Stored(EspOf[Current], job.rule) : Reads(row) /\ PublishOn(row)

(* Mutation of WriteRow: the row is saved after a trigger only. *)
WriteRowOfTrigger ==
    /\ job.at = "write"
    /\ rows' = IF job.row.active
               THEN [rows EXCEPT ![<<EspOf[Current], job.rule>>] = job.row]
               ELSE rows
    /\ recorded' = recorded \cup
         {[esp |-> EspOf[Current], rule |-> job.rule,
           alert |-> job.row.last, time |-> TimeOf[Current]]}
    /\ NextRule
    /\ UNCHANGED <<stream, mappingVars, published, repeated, failed, misread>>

(* put_item, with the row computed before the publish. *)
WriteRow ==
    /\ job.at = "write"
    /\ rows' = [rows EXCEPT ![<<EspOf[Current], job.rule>>] = job.row]
    /\ recorded' = recorded \cup
         {[esp |-> EspOf[Current], rule |-> job.rule,
           alert |-> job.row.last, time |-> TimeOf[Current]]}
    /\ NextRule
    /\ UNCHANGED <<stream, mappingVars, published, repeated, failed, misread>>

(* Mutation of Abort: the handler catches the exception and returns. *)
AbortAcknowledges ==
    /\ job' = Idle
    /\ BatchSucceeded(job.end)
    /\ UNCHANGED <<stream, alertVars>>

Abort ==
    /\ job' = Idle
    /\ BatchFailed(job.end)
    /\ failed' = failed \cup job.from..job.end
    /\ UNCHANGED <<stream, rows, published, repeated, recorded, misread>>

(* float(None), float("n/a"): outside the try block, so the invocation     *)
(* fails.                                                                  *)
RecordRaises ==
    /\ AtRecord
    /\ Current \in Raises
    /\ Abort

Fault ==
    /\ Faults
    /\ Busy
    /\ Abort

Finish ==
    /\ job.at = "record"
    /\ job.pos > job.end
    /\ job' = Idle
    /\ BatchSucceeded(job.end)
    /\ UNCHANGED <<stream, alertVars>>

-----------------------------------------------------------------------------
Step ==
    Skip \/ Examine \/ StayQuiet \/ Publish \/ WriteRow \/ RecordRaises \/ Finish

Next ==
    \/ \E r \in Record : Arrives(r)
    \/ Poll \/ Invoke \/ TooOld
    \/ Step \/ Fault

Spec == Init /\ [][Next]_vars

(* The mapping keeps delivering and a started invocation comes to an end.  *)
FairSpec == Spec /\ WF_vars(Poll) /\ WF_vars(Invoke) /\ WF_vars(Step)

-----------------------------------------------------------------------------
TypeOK ==
    /\ MappingTypeOK
    /\ rows \in [Pump \X Rule -> Row \cup {NoRow}]
    /\ published \subseteq Message
    /\ repeated \subseteq published
    /\ recorded \subseteq published
    /\ failed \subseteq Nat
    /\ misread \subseteq Nat \X Rule
    /\ job \in Job

(* A published trigger of the pump and rule is of the record's own event,  *)
(* or the record is within the cooldown that begins with it.               *)
Announced(r, k) ==
    \E m \in published :
        /\ m.esp = EspOf[r] /\ m.rule = k /\ m.alert.kind = "trigger"
        /\ \/ m.time = TimeOf[r] /\ m.alert.event = IdOf[r]
           \/ m.time <= TimeOf[r] /\ TimeOf[r] < m.time + Cooldown

(* The record at position i is of the message's event. *)
Of(i, m) == EspOf[stream[i]] = m.esp /\ IdOf[stream[i]] = m.alert.event

(* The record is late: a trigger of the pump and rule is out for a later   *)
(* event, one that was put on the shard earlier.                           *)
Overtaken(i, k) ==
    \E m \in published :
        /\ m.esp = EspOf[stream[i]] /\ m.rule = k /\ m.alert.kind = "trigger"
        /\ TimeOf[stream[i]] < m.time
        /\ \E j \in 1..(i - 1) : Of(j, m) /\ TimeOf[stream[j]] = m.time

Accounted(i, k) == Announced(stream[i], k) \/ Overtaken(i, k)

(* Every rule the record at position i triggers is accounted for.          *)
Handled(i) ==
    stream[i] \in Readable => \A k \in TrigOf[stream[i]] : Accounted(i, k)

(* "An alert is never silently dropped; at worst it is sent twice": every  *)
(* rule a handled record triggers was announced for that record or within  *)
(* the cooldown of an earlier one, or the operator had been told of a      *)
(* later event before the record arrived, whatever faults, retries,        *)
(* duplicates and old rows.  The cooldown that holds a late record back    *)
(* begins after it: decide compares only with the cooldown's end.          *)
NoSilentAnomaly ==
    \A i \in 1..ckpt : stream[i] \in Readable => Pointed(i) \/ Handled(i)

(* Nobody is told of the end of an episode whose start was not announced:  *)
(* a recovery's episode has a published trigger.                           *)
RecoveryHasTrigger ==
    \A m \in published : m.alert.kind = "recovery" =>
        \E t \in published : /\ t.alert.kind = "trigger"
                             /\ t.esp = m.esp /\ t.rule = m.rule
                             /\ t.alert.episode = m.alert.episode

(* Position i holds the last readable record about pump e among from..to.  *)
LastAbout(e, i, from, to) ==
    /\ i \in from..to
    /\ stream[i] \in Readable /\ EspOf[stream[i]] = e
    /\ \A j \in (i + 1)..to : stream[j] \in Readable => EspOf[stream[j]] # e

(* The row of rule k is open or closed as the record at position i says.   *)
Follows(e, k, i) == IsActive(rows[<<e, k>>]) <=> k \in TrigOf[stream[i]]

(* When a batch is about to be acknowledged, every episode is open or      *)
(* closed as the batch's last record of the pump says, although the rows   *)
(* it started from may come from an earlier, failed delivery of the same   *)
(* batch, and whatever was read for the records before; unless for that    *)
(* very record and rule get_item returned an older row.                    *)
EpisodesFollowTelemetry ==
    job.at = "record" =>
        \A e \in Pump : \A i \in job.from..(job.pos - 1) :
            LastAbout(e, i, job.from, job.pos - 1) =>
                \A k \in Rule : Follows(e, k, i) \/ <<i, k>> \in misread

(* No two records of the shard carry the same event id.                    *)
UniqueIds == \A r, s \in Record : IdOf[r] = IdOf[s] => r = s

(* A row, stored or about to be: its last alert was published, and while   *)
(* the episode is open some published trigger of it set the cooldown.      *)
Backed(e, k, row) ==
    /\ row.active <=> row.last.kind = "trigger"
    /\ row.last.episode = row.episode
    /\ \E m \in published : m.esp = e /\ m.rule = k /\ m.alert = row.last
    /\ \E t \in published :
          /\ t.esp = e /\ t.rule = k
          /\ t.alert.kind = "trigger" /\ t.alert.episode = row.episode
          /\ row.active => t.time + Cooldown = row.until

(* Every message tells of a record.                                        *)
MessagesAreOfRecords ==
    \A m \in published :
        \E r \in Record : /\ m.esp = EspOf[r] /\ m.time = TimeOf[r]
                          /\ m.alert.event = IdOf[r]

(* A trigger is of a record all whose predecessors a delivery may still    *)
(* meet are accounted for.                                                 *)
ToldInOrder ==
    \A m \in published : m.alert.kind = "trigger" =>
        \E j \in Positions :
            /\ Of(j, m) /\ TimeOf[stream[j]] = m.time
            /\ UniqueIds => \A i \in (ckpt + 1)..(j - 1) : Handled(i)

(* The rows a delivery has decided on agree with its records: those of     *)
(* earlier records, and of the rules already tried of the current one.     *)
RowsAgree ==
    /\ \A e \in Pump : \A i \in job.from..(job.pos - 1) :
          /\ LastAbout(e, i, job.from, job.pos - 1)
          /\ job.at = "record" \/ e # EspOf[Current]
          => \A k \in Rule : Follows(e, k, i) \/ <<i, k>> \in misread
    /\ job.at # "record" =>
          \A k \in 1..(job.rule - 1) :
             Follows(EspOf[Current], k, job.pos) \/ <<job.pos, k>> \in misread

JobInv ==
    /\ job.from = ckpt + 1
    /\ job.from <= job.pos /\ job.pos <= job.end + 1
    /\ NextBatch(job.end)
    /\ UniqueIds => \A i \in job.from..(job.pos - 1) : Handled(i)
    /\ job.at # "record" =>
          /\ job.pos <= job.end
          /\ job.rule \in Rule
          /\ Current \in Readable
          /\ UniqueIds => \A k \in 1..(job.rule - 1) :
                k \in TrigOf[Current] => Accounted(job.pos, k)
    /\ job.at = "write" =>
          /\ job.row # NoRow
          /\ Backed(EspOf[Current], job.rule, job.row)
          /\ job.row = RowOf([esp |-> EspOf[Current], rule |-> job.rule,
                              alert |-> job.row.last, time |-> TimeOf[Current]])
          /\ job.row.active <=> job.rule \in TrigOf[Current]
          /\ job.rule \in TrigOf[Current] => Announced(Current, job.rule)
          /\ [esp |-> EspOf[Current], rule |-> job.rule,
              alert |-> job.row.last, time |-> TimeOf[Current]] \in published
    /\ RowsAgree

(* The inductive invariant.  What a row promises, an open episode's        *)
(* published trigger and its cooldown, is what makes silence safe, also    *)
(* when the row is an older one.                                           *)
AlertInv ==
    /\ TypeOK
    /\ PointersAreBehind
    /\ MessagesAreOfRecords
    /\ ToldInOrder
    /\ \A e \in Pump : \A k \in Rule :
          /\ rows[<<e, k>>] \in Stored(e, k)
          /\ \A row \in Stored(e, k) : row # NoRow => Backed(e, k, row)
    /\ RecoveryHasTrigger
    /\ UniqueIds => NoSilentAnomaly
    /\ Busy => JobInv

SameEpisode(m, n) ==
    /\ m.esp = n.esp /\ m.rule = n.rule
    /\ m.alert.episode = n.alert.episode

(* Every pump's records arrived in event-time order, only the latest       *)
(* possibly again.                                                         *)
InEventOrder ==
    \A j \in Positions : \A i \in 1..(j - 1) :
        EspOf[stream[i]] = EspOf[stream[j]] /\ stream[i] # stream[j]
        => TimeOf[stream[i]] < TimeOf[stream[j]]

(* The message's record was given up after it was sent: the next anomaly   *)
(* of the episode may find neither row nor record of it.                   *)
GivenUp(m) == \E i \in Positions : Of(i, m) /\ Pointed(i)

(* Up to m, a record that the episode had told of was given up. *)
ToldInVain(m) ==
    \E t \in published :
        /\ SameEpisode(t, m) /\ t.alert.kind = "trigger"
        /\ t.time <= m.time /\ GivenUp(t)

(* Two different trigger alerts of one episode are a cooldown apart, also  *)
(* when a batch is delivered again to rows its first delivery changed; or  *)
(* the episode lost one of its triggers' records to the failure            *)
(* destination.  It takes event-time order, as a late record can shorten   *)
(* the distance, and rows read as they are.                                *)
TriggersAreSpaced ==
    InEventOrder /\ misread = {} =>
        \A m, n \in published :
            /\ SameEpisode(m, n)
            /\ m.alert.kind = "trigger" /\ n.alert.kind = "trigger"
            /\ m.time < n.time
            => m.time + Cooldown <= n.time \/ ToldInVain(m)

(* Some failed invocation had a record of the message's event.             *)
WasInFailedBatch(m) == \E i \in failed : Of(i, m)

(* Only a failed delivery makes a message go out twice or gives an episode *)
(* a second recovery, and only for the records it had: never a record that *)
(* the producer put twice, nor a fault in another batch.  Rows are read as *)
(* they are: an older one can repeat a message, too.                       *)
EachMessageOnce ==
    InEventOrder /\ misread = {} =>
        /\ \A m \in repeated : WasInFailedBatch(m)
        /\ \A m, n \in published :
              /\ SameEpisode(m, n)
              /\ m.alert.kind = "recovery" /\ n.alert.kind = "recovery"
              => m = n \/ WasInFailedBatch(m) \/ WasInFailedBatch(n)

(* The delivery in progress, or an acknowledged one, is done with rule k   *)
(* of the record at position i.                                            *)
Past(i, k) ==
    \/ i <= ckpt
    \/ /\ Busy
       /\ \/ i < job.pos
          \/ i = job.pos /\ job.at # "record" /\ k < job.rule

Told(i, m) ==
    /\ Of(i, m)
    /\ stream[i] \in Readable
    /\ TimeOf[stream[i]] = m.time
    /\ m.alert.kind = "trigger" <=> m.rule \in TrigOf[stream[i]]

(* The message just sent, whose row is still to be written. *)
InHand(m) ==
    /\ job.at = "write"
    /\ m = [esp |-> EspOf[Current], rule |-> job.rule,
            alert |-> job.row.last, time |-> TimeOf[Current]]

(* Messages tell of records of the shard; the row in hand is the decision  *)
(* on the stored one; an open episode's cooldown is its last message's.    *)
MessageInv ==
    /\ failed \subseteq Positions
    /\ \A m \in published : \E i \in Positions : Told(i, m)
    /\ job.at = "write" => job.row = Decision
    /\ \A e \in Pump : \A k \in Rule :
          IsActive(rows[<<e, k>>]) =>
              \E m \in published :
                  /\ m.esp = e /\ m.rule = k /\ m.alert = rows[<<e, k>>].last
                  /\ m.time + Cooldown = rows[<<e, k>>].until

Triggers(e, k, episode) ==
    {m \in published : /\ m.esp = e /\ m.rule = k
                       /\ m.alert.kind = "trigger" /\ m.alert.episode = episode}

(* An episode with a trigger has told of the event that opened it. *)
OpenerIsTold(e, k, episode) ==
    \A m \in Triggers(e, k, episode) : \E o \in Triggers(e, k, episode) :
        o.alert.event = episode /\ o.time <= m.time

(* Between two triggers of an episode, every anomaly a delivery may still  *)
(* meet is in the cooldown of one of them.                                 *)
NoGap(e, k, episode) ==
    \A m, n \in Triggers(e, k, episode) : \A i \in (ckpt + 1)..Len(stream) :
        /\ stream[i] \in Readable /\ EspOf[stream[i]] = e /\ k \in TrigOf[stream[i]]
        /\ m.time <= TimeOf[stream[i]] /\ TimeOf[stream[i]] <= n.time
        => \E t \in Triggers(e, k, episode) :
               t.time <= TimeOf[stream[i]] /\ TimeOf[stream[i]] < t.time + Cooldown

(* What the delivery has met of the pump is within the open row's cooldown. *)
RowCovers(e, k) ==
    LET row == rows[<<e, k>>]
    IN  IsActive(row) => \A i \in (ckpt + 1)..Len(stream) :
            stream[i] \in Readable /\ EspOf[stream[i]] = e /\ Past(i, k)
            => TimeOf[stream[i]] < row.until

(* A trigger that the open row does not know of is of a record still to    *)
(* come, or one before it was told in vain.                                *)
RowKnows(e, k) ==
    LET row == rows[<<e, k>>]
    IN  IsActive(row) => \A m \in Triggers(e, k, row.episode) :
            row.until < m.time + Cooldown =>
                \/ \E i \in Positions : Told(i, m) /\ ~Past(i, k)
                \/ ToldInVain(m)

ScheduleInv ==
    \A e \in Pump : \A k \in Rule :
        /\ RowCovers(e, k)
        /\ RowKnows(e, k)
        /\ \A episode \in Id : OpenerIsTold(e, k, episode) /\ NoGap(e, k, episode)

(* A message that no failed delivery had is the last its row knows of, or  *)
(* nothing is to come of its record.                                       *)
Settled(m) ==
    LET row == rows[<<m.esp, m.rule>>]
    IN  \/ /\ row # NoRow /\ row.last = m.alert
           /\ \E i \in Positions : Told(i, m) /\ Past(i, m.rule)
        \/ /\ \A i \in Positions : Told(i, m) => Past(i, m.rule)
           /\ \E i \in Positions : EspOf[stream[i]] = m.esp /\ m.time < TimeOf[stream[i]]

(* And if it is a recovery, its episode opened earlier and stays closed.   *)
Closed(m) ==
    LET row == rows[<<m.esp, m.rule>>]
    IN  /\ \E i \in Positions : /\ EspOf[stream[i]] = m.esp
                                /\ IdOf[stream[i]] = m.alert.episode
                                /\ TimeOf[stream[i]] < m.time
        /\ InHand(m) \/ ~(IsActive(row) /\ row.episode = m.alert.episode)

(* An open episode's first record is behind the delivery, or it was        *)
(* opened by a failed one.                                                 *)
Opened(e, k, episode) ==
    \E i \in Positions :
        /\ EspOf[stream[i]] = e /\ IdOf[stream[i]] = episode
        /\ k \in TrigOf[stream[i]]
        /\ Past(i, k) \/ (ckpt + 1)..i \subseteq failed

OnceInv ==
    /\ \A m \in published :
          \/ WasInFailedBatch(m)
          \/ /\ InHand(m) \/ Settled(m)
             /\ m.alert.kind = "recovery" => Closed(m)
    /\ \A e \in Pump : \A k \in Rule :
          IsActive(rows[<<e, k>>]) => Opened(e, k, rows[<<e, k>>].episode)

(* The inductive invariant of rows and messages together.                  *)
EpisodeInv ==
    /\ AlertInv
    /\ misread = {} => MessageInv
    /\ misread = {} /\ UniqueIds =>
          /\ TriggersAreSpaced
          /\ EachMessageOnce
          /\ InEventOrder => OnceInv
          /\ InEventOrder /\ Cooldown > 0 => ScheduleInv

(* The consumer catches up with the shard: again and again every anomaly   *)
(* that has arrived is announced, overtaken or pointed to.                 *)
AnomalyEventuallyAnnounced ==
    []<>\A i \in Positions :
          stream[i] \in Readable =>
              Pointed(i) \/ Handled(i)

(* The last record about e is readable telemetry that does not trigger k.  *)
BackToNormal(e, k) ==
    \E i \in Positions :
        LastAbout(e, i, 1, Len(stream)) /\ k \notin TrigOf[stream[i]]

(* Every episode is eventually closed once the pump reports normal values, *)
(* unless a record of the pump ended in the failure destination, or an     *)
(* older row was read for the last one: a pump that then stays silent      *)
(* stays in alarm.                                                         *)
EpisodeEventuallyCloses ==
    []<>\A e \in Pump : \A k \in Rule :
          BackToNormal(e, k) =>
              \/ ~IsActive(rows[<<e, k>>])
              \/ \E i \in Positions : EspOf[stream[i]] = e /\ Pointed(i)
              \/ \E i \in Positions :
                     LastAbout(e, i, 1, Len(stream)) /\ <<i, k>> \in misread

-----------------------------------------------------------------------------
(* What the comment in the handler says of a bad record: "skip so one bad  *)
(* record cannot block the rest of a batch".                               *)
BadRecordIsSkipped ==
    [][AtRecord /\ job' = Idle => Current \notin Raises]_vars

(* What the test suite says of a retried batch: "A mechanical              *)
(* Lambda/Kinesis retry of the exact same record must not re-publish".     *)
RecordedAlertsAreNotRepeated ==
    [][recorded \cap (repeated' \ repeated) = {}]_vars

=============================================================================
