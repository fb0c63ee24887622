------------------------ MODULE AnomalyAlertsProofs -------------------------
(***************************************************************************)
(* Proofs about AnomalyAlerts for every set of pumps, rules and records,   *)
(* every cooldown, batch size and retry limit.  First AlertInv: what a row *)
(* promises and why silence is safe; then, on top of it, EpisodeInv: what  *)
(* has been sent about an episode, and how far apart and how often.        *)
(***************************************************************************)
EXTENDS AnomalyAlerts, KinesisMappingProofs, TLAPS

-----------------------------------------------------------------------------
(* The pure decision: what it is when there is something to send.          *)
LEMMA DecideLoud ==
    ASSUME NEW row \in Row \cup {NoRow}, NEW k \in Rule, NEW r \in Record,
           NEW d, d = Decide(row, k, r), d # NoRow
    PROVE  /\ d \in Row
           /\ d.active <=> k \in TrigOf[r]
           /\ d.active => d.until = TimeOf[r] + Cooldown
           /\ ~d.active => d.until = 0
           /\ d.last.event = IdOf[r]
           /\ d.last.episode = d.episode
           /\ d.last.kind = IF d.active THEN "trigger" ELSE "recovery"
           /\ ~d.active => IsActive(row) /\ d.episode = row.episode
<1> DEFINE on == IsActive(row)
           triggered == k \in TrigOf[r]
           episode == IF on THEN row.episode ELSE IdOf[r]
           alert == [kind |-> IF triggered THEN "trigger" ELSE "recovery",
                     episode |-> episode, event |-> IdOf[r]]
<1>1. /\ d = [active |-> triggered, episode |-> episode,
              until |-> IF triggered THEN TimeOf[r] + Cooldown ELSE 0,
              last |-> alert]
      /\ triggered \/ on
  BY DEF Decide, Quiet, AlertOf, EpisodeOf
<1>2. on => row \in Row
  BY DEF IsActive
<1>3. episode \in Id /\ IdOf[r] \in Id
  BY <1>2, AlertAssumption DEF Row
<1>4. TimeOf[r] + Cooldown \in Nat
  BY AlertAssumption
<1>5. alert \in Alert
  BY <1>3 DEF Alert
<1>6. d \in Row
  BY <1>1, <1>3, <1>4, <1>5 DEF Row
<1>7. /\ d.active = triggered /\ d.episode = episode /\ d.last = alert
      /\ d.until = IF triggered THEN TimeOf[r] + Cooldown ELSE 0
  BY <1>1
<1>8. CASE triggered
  <2>1. alert = [kind |-> "trigger", episode |-> episode, event |-> IdOf[r]]
    BY <1>8
  <2>2. d.active = TRUE
    BY <1>7, <1>8
  <2>3. d.until = TimeOf[r] + Cooldown
    BY <1>7, <1>8
  <2>4. d.last.event = IdOf[r] /\ d.last.episode = d.episode /\ d.last.kind = "trigger"
    BY <1>7, <2>1
  <2> QED
    BY <1>6, <1>8, <2>2, <2>3, <2>4
<1>9. CASE ~triggered
  <2>1. alert = [kind |-> "recovery", episode |-> episode, event |-> IdOf[r]]
    BY <1>9
  <2>2. on /\ episode = row.episode
    BY <1>1, <1>9
  <2>3. d.active = FALSE
    <3>1. triggered = FALSE
      BY <1>9
    <3> HIDE DEF triggered, alert, episode, on
    <3> QED
      BY <1>7, <3>1
  <2>4. d.last.event = IdOf[r] /\ d.last.episode = d.episode /\ d.last.kind = "recovery"
    BY <1>7, <2>1
  <2>5. IsActive(row) /\ d.episode = row.episode /\ d.until = 0
    BY <1>7, <1>9, <2>2
  <2> QED
    BY <1>6, <1>9, <2>3, <2>4, <2>5
<1> QED
  BY <1>8, <1>9

(* And when there is nothing to send: the row already says what the record *)
(* does, and the record, if it is anomalous, is within a cooldown or is    *)
(* the one last notified.                                                  *)
LEMMA DecideQuiet ==
    ASSUME NEW row \in Row \cup {NoRow}, NEW k \in Rule, NEW r \in Record,
           Decide(row, k, r) = NoRow,
           row # NoRow => (row.active <=> row.last.kind = "trigger")
    PROVE  /\ IsActive(row) <=> k \in TrigOf[r]
           /\ k \in TrigOf[r] =>
                \/ TimeOf[r] < row.until
                \/ row.last.kind = "trigger" /\ row.last.event = IdOf[r]
<1> DEFINE on == IsActive(row)
           triggered == k \in TrigOf[r]
           episode == IF on THEN row.episode ELSE IdOf[r]
           alert == [kind |-> IF triggered THEN "trigger" ELSE "recovery",
                     episode |-> episode, event |-> IdOf[r]]
           quiet == \/ ~triggered /\ ~on
                    \/ triggered /\ on /\ TimeOf[r] < row.until
                    \/ row # NoRow /\ row.last = alert
           loud == [active |-> triggered, episode |-> episode,
                    until |-> IF triggered THEN TimeOf[r] + Cooldown ELSE 0,
                    last |-> alert]
<1>1. quiet
  <2>1. on => row \in Row
    BY DEF IsActive
  <2>2. episode \in Id /\ IdOf[r] \in Id
    BY <2>1, AlertAssumption DEF Row
  <2>3. TimeOf[r] + Cooldown \in Nat
    BY AlertAssumption
  <2>4. alert \in Alert
    BY <2>2 DEF Alert
  <2>5. loud \in Row
    BY <2>2, <2>3, <2>4 DEF Row
  <2>6. loud # NoRow
    BY <2>5, NoRowAssumption
  <2> QED
    BY <2>6 DEF Decide, Quiet, AlertOf, EpisodeOf
<1>2. CASE ~triggered /\ ~on
  BY <1>2
<1>3. CASE triggered /\ on /\ TimeOf[r] < row.until
  BY <1>3
<1>4. CASE row # NoRow /\ row.last = alert
  <2>1. /\ alert.kind = "trigger" <=> triggered
        /\ alert.event = IdOf[r]
    OBVIOUS
  <2>2. IsActive(row) <=> triggered
    BY <1>4, <2>1 DEF IsActive
  <2> QED
    BY <1>4, <2>1, <2>2
<1> QED
  BY <1>1, <1>2, <1>3, <1>4

-----------------------------------------------------------------------------
LEMMA NumbersInJob ==
    ASSUME TypeOK
    PROVE  /\ job.from \in Nat /\ job.pos \in Nat /\ job.end \in Nat
           /\ job.rule \in Nat /\ job.row \in Row \cup {NoRow}
           /\ stream \in Seq(Record) /\ Len(stream) \in Nat
           /\ ckpt \in Nat /\ ckpt <= Len(stream)
  BY DEF TypeOK, Job, MappingTypeOK

(* Positions a running delivery speaks of are positions of the shard.      *)
LEMMA JobPositions ==
    ASSUME TypeOK, Busy, JobInv
    PROVE  /\ job.end \in Positions
           /\ \A i \in job.from..(job.pos - 1) : i \in Positions /\ stream[i] \in Record
           /\ job.pos <= job.end =>
                /\ job.pos \in Positions
                /\ Current \in Record
                /\ EspOf[Current] \in Pump
<1>1. job.end \in (ckpt + 1)..Len(stream)
  BY DEF JobInv, NextBatch, TypeOK, MappingTypeOK
<1>2. /\ job.from \in Nat /\ job.pos \in Nat /\ job.end \in Nat
      /\ stream \in Seq(Record) /\ Len(stream) \in Nat /\ ckpt \in Nat
  BY NumbersInJob
<1>3. job.from = ckpt + 1 /\ job.from <= job.pos /\ job.pos <= job.end + 1
  BY DEF JobInv
<1>4. job.end \in Positions
  BY <1>1, <1>2 DEF Positions
<1>5. \A i \in job.from..(job.pos - 1) : i \in Positions /\ stream[i] \in Record
  BY <1>1, <1>2, <1>3 DEF Positions
<1>6. job.pos <= job.end => job.pos \in Positions
  BY <1>1, <1>2, <1>3 DEF Positions
<1>7. job.pos <= job.end => Current \in Record
  BY <1>2, <1>6 DEF Current, Positions
<1> QED
  BY <1>4, <1>5, <1>6, <1>7, AlertAssumption

(* Every row that was ever stored is one.                                  *)
LEMMA StoredTyped ==
    ASSUME TypeOK, NEW e \in Pump, NEW k \in Rule, NEW row \in Stored(e, k)
    PROVE  row \in Row \cup {NoRow}
<1>1. CASE row = NoRow
  BY <1>1
<1>2. ASSUME NEW m \in recorded, row = RowOf(m)
      PROVE  row \in Row
  <2>1. m \in Message
    BY DEF TypeOK
  <2>2. m.alert \in Alert /\ m.time \in Nat
    BY <2>1 DEF Message
  <2>3. m.alert.episode \in Id
    BY <2>2 DEF Alert
  <2>4. m.time + Cooldown \in Nat
    BY <2>2, AlertAssumption
  <2> QED
    BY <1>2, <2>2, <2>3, <2>4 DEF RowOf, Row
<1> QED
  BY <1>1, <1>2 DEF Stored

(* The record and the row a delivery is deciding on: the stored row is one *)
(* of those that get_item may return, and each of them is backed.          *)
LEMMA RuleStepFacts ==
    ASSUME AlertInv, job.at \in {"rule", "write"}
    PROVE  /\ Busy /\ JobInv /\ TypeOK
           /\ job.pos \in Positions /\ Current \in Record
           /\ EspOf[Current] \in Pump /\ job.rule \in Rule
           /\ <<EspOf[Current], job.rule>> \in Pump \X Rule
           /\ rows[<<EspOf[Current], job.rule>>] \in Row \cup {NoRow}
           /\ CurrentRow \in Stored(EspOf[Current], job.rule)
           /\ \A row \in Stored(EspOf[Current], job.rule) :
                 /\ row \in Row \cup {NoRow}
                 /\ row # NoRow => Backed(EspOf[Current], job.rule, row)
<1>1. Busy /\ JobInv /\ TypeOK
  BY DEF AlertInv, Busy
<1>2. job.pos <= job.end /\ job.rule \in Rule
  BY <1>1 DEF JobInv
<1>3. job.pos \in Positions /\ Current \in Record /\ EspOf[Current] \in Pump
  BY <1>1, <1>2, JobPositions
<1>4. <<EspOf[Current], job.rule>> \in Pump \X Rule
  BY <1>2, <1>3
<1>5. rows[<<EspOf[Current], job.rule>>] \in Row \cup {NoRow}
  BY <1>1, <1>4 DEF TypeOK
<1>6. CurrentRow \in Stored(EspOf[Current], job.rule)
  BY <1>2, <1>3 DEF AlertInv, CurrentRow
<1>7. PICK e \in Pump : e = EspOf[Current]
  BY <1>3
<1>8. PICK k \in Rule : k = job.rule
  BY <1>2
<1>9. ASSUME NEW row \in Stored(e, k)
      PROVE  /\ row \in Row \cup {NoRow}
             /\ row # NoRow => Backed(e, k, row)
  BY <1>1, StoredTyped DEF AlertInv
<1> QED
  BY <1>1, <1>2, <1>3, <1>4, <1>5, <1>6, <1>7, <1>8, <1>9

(* What publish sends for the row it has read, and the row kept for the    *)
(* write that follows.                                                     *)
LEMMA PublishFacts ==
    ASSUME AlertInv, Publish
    PROVE  \E row \in Stored(EspOf[Current], job.rule) : \E d \in Row : \E m \in Message :
             /\ Reads(row)
             /\ d = Decide(row, job.rule, Current)
             /\ m = [esp |-> EspOf[Current], rule |-> job.rule,
                     alert |-> d.last, time |-> TimeOf[Current]]
             /\ published' = published \cup {m}
             /\ repeated' = repeated \cup ({m} \cap published)
             /\ job' = JobAt("write", job.pos, job.rule, d)
             /\ d = RowOf(m)
             /\ m.alert.event = IdOf[Current]
             /\ d.active <=> job.rule \in TrigOf[Current]
             /\ d.active <=> d.last.kind = "trigger"
             /\ d.last.episode = d.episode
             /\ d.active => d.until = m.time + Cooldown
             /\ ~d.active => IsActive(row) /\ d.episode = row.episode
<1>0. PICK row \in Stored(EspOf[Current], job.rule) : Reads(row) /\ PublishOn(row)
  BY DEF Publish
<1> DEFINE d == Decide(row, job.rule, Current)
           m == [esp |-> EspOf[Current], rule |-> job.rule,
                 alert |-> d.last, time |-> TimeOf[Current]]
<1>1. /\ job.rule \in Rule /\ Current \in Record /\ EspOf[Current] \in Pump
      /\ row \in Row \cup {NoRow}
  BY <1>0, RuleStepFacts DEF Publish
<1>2. d # NoRow
  BY <1>0 DEF PublishOn
<1>3. /\ d \in Row
      /\ d.active <=> job.rule \in TrigOf[Current]
      /\ d.active => d.until = TimeOf[Current] + Cooldown
      /\ ~d.active => d.until = 0
      /\ d.last.event = IdOf[Current]
      /\ d.last.episode = d.episode
      /\ d.last.kind = IF d.active THEN "trigger" ELSE "recovery"
      /\ ~d.active => IsActive(row) /\ d.episode = row.episode
  <2> HIDE DEF m
  <2>1. PICK w : w = d
    OBVIOUS
  <2> HIDE DEF d
  <2>2. w = Decide(row, job.rule, Current) /\ w # NoRow
    BY <1>2, <2>1 DEF d
  <2> QED
    BY <1>1, <2>1, <2>2, DecideLoud
<1>4. TimeOf[Current] \in Nat
  BY <1>1, AlertAssumption
<1>5. m \in Message
  <2>1. d.last \in Alert
    BY <1>3 DEF Row
  <2> HIDE DEF d
  <2> QED
    BY <1>1, <1>4, <2>1 DEF Message
<1>6. /\ published' = published \cup {m}
      /\ repeated' = repeated \cup ({m} \cap published)
      /\ job' = JobAt("write", job.pos, job.rule, d)
  BY <1>0 DEF PublishOn
<1>7. m.alert = d.last /\ m.time = TimeOf[Current]
  OBVIOUS
<1>8. d.active <=> d.last.kind = "trigger"
  BY <1>3
<1>9. d = RowOf(m)
  <2> HIDE DEF d, m
  <2>1. /\ d.active \in BOOLEAN /\ d.until \in Nat
        /\ d = [active |-> d.active, episode |-> d.episode,
                until |-> d.until, last |-> d.last]
    BY <1>3 DEF Row
  <2>2. d.active = (m.alert.kind = "trigger")
    BY <1>7, <1>8, <2>1
  <2>3. d.until = IF m.alert.kind = "trigger" THEN m.time + Cooldown ELSE 0
    BY <1>3, <1>7, <2>2
  <2> QED
    BY <1>3, <1>7, <2>1, <2>2, <2>3 DEF RowOf
<1> HIDE DEF d, m
<1>10. m = [esp |-> EspOf[Current], rule |-> job.rule,
            alert |-> d.last, time |-> TimeOf[Current]]
  BY DEF m
<1>11. d = Decide(row, job.rule, Current)
  BY DEF d
<1> QED
  BY <1>0, <1>3, <1>5, <1>6, <1>7, <1>8, <1>9, <1>10, <1>11

(* The shard, the messages sent and what is kept of them only grow.        *)
LEMMA StepGrows ==
    ASSUME AlertInv, [Next]_vars
    PROVE  /\ published \subseteq published'
           /\ recorded \subseteq recorded'
           /\ misread \subseteq misread'
           /\ stream' \in Seq(Record)
           /\ Len(stream) <= Len(stream')
           /\ \A i \in Positions : i \in Positions' /\ stream'[i] = stream[i]
<1>0. stream \in Seq(Record) /\ Len(stream) \in Nat
  BY NumbersInJob DEF AlertInv
<1>1. published \subseteq published' /\ recorded \subseteq recorded'
  BY DEF Next, Step, Arrives, Poll, Invoke, TooOld, Skip, Examine, StayQuiet, QuietOn,
         Publish, PublishOn, WriteRow, RecordRaises, Fault, Finish, Abort, alertVars, vars
<1>2. misread \subseteq misread'
  <2>1. ASSUME NEW row, Reads(row)
        PROVE  misread \subseteq misread'
    BY <2>1 DEF Reads
  <2>2. UNCHANGED misread \/ \E row : Reads(row)
    BY DEF Next, Step, Arrives, Poll, Invoke, TooOld, Skip, Examine, StayQuiet,
           Publish, WriteRow, RecordRaises, Fault, Finish, Abort, alertVars, vars
  <2> QED
    BY <2>1, <2>2
<1>3. stream' = stream \/ \E r \in Record : stream' = Append(stream, r)
  BY DEF Next, Step, Arrives, Poll, Invoke, TooOld, Skip, Examine, StayQuiet, QuietOn,
         Publish, PublishOn, WriteRow, RecordRaises, Fault, Finish, Abort, vars
<1>4. ASSUME NEW r \in Record, stream' = Append(stream, r)
      PROVE  /\ stream' \in Seq(Record)
             /\ Len(stream) <= Len(stream')
             /\ \A i \in Positions : i \in Positions' /\ stream'[i] = stream[i]
  BY <1>0, <1>4, AppendGrows DEF Positions
<1> QED
  BY <1>0, <1>1, <1>2, <1>3, <1>4 DEF Positions

(* What was announced stays announced, what was overtaken stays overtaken, *)
(* and a row stays backed.                                                 *)
LEMMA AnnouncedStays ==
    ASSUME published \subseteq published', NEW r, NEW k, Announced(r, k)
    PROVE  Announced(r, k)'
  BY DEF Announced

LEMMA AccountedStays ==
    ASSUME AlertInv, [Next]_vars, NEW i \in Positions, NEW k, Accounted(i, k)
    PROVE  Accounted(i, k)'
<1>1. /\ published \subseteq published'
      /\ \A j \in Positions : stream'[j] = stream[j]
  BY StepGrows
<1>2. CASE Announced(stream[i], k)
  <2>1. PICK r : r = stream[i]
    OBVIOUS
  <2>2. Announced(r, k)'
    BY <1>1, <1>2, <2>1, AnnouncedStays
  <2>3. stream'[i] = r
    BY <1>1, <2>1
  <2> QED
    BY <2>2, <2>3 DEF Accounted, Announced
<1>3. CASE Overtaken(i, k)
  <2>1. \A j \in 1..(i - 1) : j \in Positions
    BY NumbersInJob DEF AlertInv, Positions
  <2>2. PICK m \in published, j \in 1..(i - 1) :
          /\ m.esp = EspOf[stream[i]] /\ m.rule = k /\ m.alert.kind = "trigger"
          /\ TimeOf[stream[i]] < m.time
          /\ Of(j, m) /\ TimeOf[stream[j]] = m.time
    BY <1>3 DEF Overtaken
  <2>3. m \in published' /\ stream'[i] = stream[i] /\ stream'[j] = stream[j]
    BY <1>1, <2>1
  <2>4. Overtaken(i, k)'
    BY <2>2, <2>3 DEF Overtaken, Of
  <2> QED
    BY <2>4 DEF Accounted
<1> QED
  BY <1>2, <1>3 DEF Accounted

LEMMA HandledStays ==
    ASSUME AlertInv, [Next]_vars, NEW i \in Positions, Handled(i)
    PROVE  Handled(i)'
<1>1. stream'[i] = stream[i]
  BY StepGrows
<1> SUFFICES ASSUME stream[i] \in Readable, NEW k \in TrigOf[stream[i]]
             PROVE  Accounted(i, k)'
  BY <1>1 DEF Handled
<1>2. Accounted(i, k)
  BY DEF Handled
<1> QED
  BY <1>2, AccountedStays

LEMMA BackedStays ==
    ASSUME published \subseteq published',
           NEW e \in Pump, NEW k \in Rule, NEW row \in Row, Backed(e, k, row)
    PROVE  Backed(e, k, row)'
  BY DEF Backed

(* Every action keeps every variable in its type.                          *)
LEMMA TypeStep ==
    ASSUME AlertInv, [Next]_vars
    PROVE  TypeOK'
<1> USE DEF TypeOK
<1>t. TypeOK /\ MappingTypeOK
  BY DEF AlertInv
<1>n. /\ job.from \in Nat /\ job.pos \in Nat /\ job.end \in Nat
      /\ job.rule \in Nat /\ job.row \in Row \cup {NoRow}
      /\ stream \in Seq(Record) /\ Len(stream) \in Nat
      /\ ckpt \in Nat /\ ckpt <= Len(stream)
  BY <1>t, NumbersInJob
<1>m. UNCHANGED <<stream, mappingVars>> => MappingTypeOK'
  BY <1>t DEF mappingVars, MappingTypeOK
<1>a. UNCHANGED alertVars =>
        /\ rows' \in [Pump \X Rule -> Row \cup {NoRow}]
        /\ published' \subseteq Message
        /\ repeated' \subseteq published'
        /\ recorded' \subseteq published'
        /\ failed' \subseteq Nat
        /\ misread' \subseteq Nat \X Rule
  BY <1>t DEF alertVars
<1>i. Idle \in Job
  BY DEF Idle, Job
<1>k. ASSUME NEW where \in {"record", "rule", "write"},
             NEW pos \in Nat, NEW rule \in Nat, NEW row \in Row \cup {NoRow}
      PROVE  JobAt(where, pos, rule, row) \in Job
  BY <1>n DEF JobAt, Job
<1>j. (NextRecord \/ NextRule) => job' \in Job
  BY <1>n, <1>k DEF NextRecord, NextRule
<1>1. ASSUME NEW r \in Record, Arrives(r)
      PROVE  TypeOK'
  <2>1. UNCHANGED <<mappingVars, alertVars, job>>
    BY <1>1 DEF Arrives
  <2>2. stream' \in Seq(Record) /\ Len(stream') \in Nat /\ Len(stream) <= Len(stream')
    <3>1. stream' \in {stream, Append(stream, r)}
      BY <1>1 DEF Arrives
    <3> QED
      BY <1>n, <3>1, AppendGrows
  <2>3. ckpt' = ckpt /\ cuts' = cuts /\ ckpt \in 0..Len(stream')
    BY <1>n, <2>1, <2>2 DEF mappingVars
  <2>4. cuts' \subseteq (ckpt' + 1)..Len(stream')
    BY <1>t, <1>n, <2>2, <2>3 DEF MappingTypeOK
  <2>5. MappingTypeOK'
    BY <1>t, <2>1, <2>2, <2>3, <2>4 DEF mappingVars, MappingTypeOK
  <2> QED
    BY <1>t, <1>a, <2>1, <2>5
<1>2. CASE Poll \/ TooOld
  <2>1. /\ UNCHANGED <<stream, alertVars, job>>
        /\ PollBatch \/ \E hi \in cuts : GiveUp(hi)
    BY <1>2 DEF Poll, TooOld
  <2>2. MappingTypeOK'
    BY <1>t, <2>1, MappingStepTyped
  <2> QED
    BY <1>t, <1>a, <2>1, <2>2
<1>3. CASE Invoke
  <2>1. ASSUME NEW hi \in cuts
        PROVE  [at |-> "record", from |-> ckpt + 1, pos |-> ckpt + 1,
                end |-> hi, rule |-> 0, row |-> NoRow] \in Job
    BY <1>t, <1>n DEF MappingTypeOK, Job
  <2>2. job' \in Job
    BY <1>3, <2>1 DEF Invoke
  <2> QED
    BY <1>3, <1>a, <1>m, <2>2 DEF Invoke
<1>r. ASSUME NEW row, Reads(row), job.at = "rule"
      PROVE  misread' \subseteq Nat \X Rule
  <2>1. <<job.pos, job.rule>> \in Nat \X Rule
    BY <1>r, <1>n, RuleStepFacts
  <2> QED
    BY <1>r, <1>t, <2>1 DEF Reads
<1>4. CASE Skip \/ Examine
  <2>1. UNCHANGED <<stream, mappingVars, alertVars>>
    BY <1>4 DEF Skip, Examine
  <2>2. job' \in Job
    BY <1>4, <1>j, <1>k, <1>n DEF Skip, Examine
  <2> QED
    BY <1>a, <1>m, <2>1, <2>2
<1>9. CASE StayQuiet
  <2>1. PICK row : Reads(row) /\ QuietOn(row)
    BY <1>9 DEF StayQuiet
  <2>2. /\ UNCHANGED <<stream, mappingVars, rows, published, repeated, recorded, failed>>
        /\ job' \in Job /\ job.at = "rule"
    BY <2>1, <1>j DEF QuietOn
  <2>3. misread' \subseteq Nat \X Rule
    BY <1>r, <2>1, <2>2
  <2> QED
    BY <1>t, <1>m, <2>2, <2>3
<1>5. CASE Publish
  <2>1. PICK row \in Stored(EspOf[Current], job.rule), d \in Row : \E m \in Message :
          /\ Reads(row)
          /\ published' = published \cup {m}
          /\ repeated' = repeated \cup ({m} \cap published)
          /\ job' = JobAt("write", job.pos, job.rule, d)
    BY <1>5, PublishFacts
  <2>2. job' \in Job
    BY <1>n, <1>k, <2>1
  <2>3. /\ UNCHANGED <<stream, mappingVars, rows, recorded, failed>>
        /\ job.at = "rule"
    BY <1>5 DEF Publish, PublishOn
  <2>4. misread' \subseteq Nat \X Rule
    BY <1>r, <2>1, <2>3
  <2> QED
    BY <1>t, <1>m, <2>1, <2>2, <2>3, <2>4
<1>6. CASE WriteRow
  <2>1. /\ job.at = "write" /\ JobInv
        /\ <<EspOf[Current], job.rule>> \in Pump \X Rule
    BY <1>6, RuleStepFacts DEF WriteRow
  <2>2. job.row \in Row
    BY <2>1, <1>n DEF JobInv
  <2>3. [esp |-> EspOf[Current], rule |-> job.rule,
         alert |-> job.row.last, time |-> TimeOf[Current]] \in published
    BY <2>1 DEF JobInv
  <2>4. recorded' \subseteq published'
    BY <1>6, <1>t, <2>3 DEF WriteRow
  <2>5. rows' \in [Pump \X Rule -> Row \cup {NoRow}]
    BY <1>6, <1>t, <2>1, <2>2 DEF WriteRow
  <2>6. /\ job' \in Job
        /\ UNCHANGED <<stream, mappingVars, published, repeated, failed, misread>>
    BY <1>6, <1>j DEF WriteRow
  <2> QED
    BY <1>t, <1>m, <2>4, <2>5, <2>6
<1>7. CASE RecordRaises \/ Fault \/ Finish
  <2>1. /\ UNCHANGED <<stream, rows, published, repeated, recorded, misread>>
        /\ job' = Idle
        /\ failed' \in {failed, failed \cup job.from..job.end}
    BY <1>7 DEF RecordRaises, Fault, Finish, Abort, alertVars
  <2>2. Busy /\ JobInv
    BY <1>7 DEF RecordRaises, Fault, Finish, AtRecord, Busy, AlertInv
  <2>3. job.end \in cuts
    BY <2>2 DEF JobInv, NextBatch
  <2>4. MappingTypeOK'
    BY <1>7, <1>t, <2>1, <2>3, MappingStepTyped
    DEF RecordRaises, Fault, Finish, Abort
  <2>5. failed' \subseteq Nat
    BY <1>t, <1>n, <2>1
  <2> QED
    BY <1>t, <1>i, <2>1, <2>4, <2>5
<1>8. CASE UNCHANGED vars
  BY <1>8, <1>t, <1>a, <1>m DEF vars
<1> QED
  BY <1>1, <1>2, <1>3, <1>4, <1>5, <1>6, <1>7, <1>8, <1>9 DEF Next, Step

-----------------------------------------------------------------------------
(* A delivery that a step of somebody else leaves alone.                   *)
LEMMA UntouchedJobStays ==
    ASSUME AlertInv, [Next]_vars, Busy,
           UNCHANGED <<job, rows, ckpt, cuts>>
    PROVE  JobInv'
<1>1. TypeOK /\ JobInv /\ Busy
  BY DEF AlertInv
<1>2. /\ published \subseteq published' /\ misread \subseteq misread'
      /\ \A i \in Positions : stream'[i] = stream[i]
  BY StepGrows
<1>3. /\ \A i \in job.from..(job.pos - 1) : i \in Positions /\ stream[i] \in Record
      /\ job.pos <= job.end => job.pos \in Positions /\ Current \in Record
                               /\ EspOf[Current] \in Pump
  BY <1>1, JobPositions
<1>n. /\ job.from \in Nat /\ job.pos \in Nat /\ job.end \in Nat
      /\ job.row \in Row \cup {NoRow}
  BY <1>1, NumbersInJob
<1>4. \A i \in job.from..(job.pos - 1) : stream'[i] = stream[i]
  BY <1>2, <1>3
<1>5. job.pos <= job.end => Current' = Current
  BY <1>2, <1>3 DEF Current
<1>6. /\ job.from = ckpt' + 1
      /\ job.from <= job.pos /\ job.pos <= job.end + 1
      /\ NextBatch(job.end)'
  BY <1>1 DEF JobInv, NextBatch
<1>7. UniqueIds => \A i \in job.from..(job.pos - 1) : Handled(i)'
  <2> SUFFICES ASSUME UniqueIds, NEW i \in job.from..(job.pos - 1)
               PROVE  Handled(i)'
    OBVIOUS
  <2>1. Handled(i) /\ i \in Positions
    BY <1>1, <1>3 DEF JobInv
  <2> QED
    BY <2>1, HandledStays
<1>8. job.at # "record" =>
        /\ job.pos <= job.end
        /\ job.rule \in Rule
        /\ Current' \in Readable
        /\ UniqueIds => \A k \in 1..(job.rule - 1) :
              k \in TrigOf[Current'] => Accounted(job.pos, k)'
  <2> SUFFICES ASSUME job.at # "record"
               PROVE  /\ job.pos <= job.end
                      /\ job.rule \in Rule
                      /\ Current' \in Readable
                      /\ UniqueIds => \A k \in 1..(job.rule - 1) :
                            k \in TrigOf[Current'] => Accounted(job.pos, k)'
    OBVIOUS
  <2>1. /\ job.pos <= job.end /\ job.rule \in Rule /\ Current \in Readable
        /\ UniqueIds => \A k \in 1..(job.rule - 1) :
              k \in TrigOf[Current] => Accounted(job.pos, k)
    BY <1>1 DEF JobInv
  <2>2. Current' = Current
    BY <1>5, <2>1
  <2>3. PICK i \in Positions : i = job.pos
    BY <1>3, <2>1
  <2>4. \A k \in 1..(job.rule - 1) : Accounted(i, k) => Accounted(i, k)'
    BY AccountedStays
  <2>5. \A k \in 1..(job.rule - 1) : Accounted(job.pos, k) => Accounted(job.pos, k)'
    BY <2>3, <2>4 DEF Accounted, Overtaken, Announced
  <2> QED
    BY <2>1, <2>2, <2>5
<1>9. job.at = "write" =>
        /\ job.row # NoRow
        /\ Backed(EspOf[Current], job.rule, job.row)'
        /\ job.row = RowOf([esp |-> EspOf[Current'], rule |-> job.rule,
                            alert |-> job.row.last, time |-> TimeOf[Current']])
        /\ job.row.active <=> job.rule \in TrigOf[Current']
        /\ job.rule \in TrigOf[Current'] => Announced(Current, job.rule)'
        /\ [esp |-> EspOf[Current'], rule |-> job.rule,
            alert |-> job.row.last, time |-> TimeOf[Current']] \in published'
  <2> SUFFICES ASSUME job.at = "write"
               PROVE  /\ job.row # NoRow
                      /\ Backed(EspOf[Current], job.rule, job.row)'
                      /\ job.row = RowOf([esp |-> EspOf[Current'], rule |-> job.rule,
                                          alert |-> job.row.last, time |-> TimeOf[Current']])
                      /\ job.row.active <=> job.rule \in TrigOf[Current']
                      /\ job.rule \in TrigOf[Current'] => Announced(Current, job.rule)'
                      /\ [esp |-> EspOf[Current'], rule |-> job.rule,
                          alert |-> job.row.last, time |-> TimeOf[Current']] \in published'
    OBVIOUS
  <2>1. /\ job.row # NoRow
        /\ Backed(EspOf[Current], job.rule, job.row)
        /\ job.row = RowOf([esp |-> EspOf[Current], rule |-> job.rule,
                            alert |-> job.row.last, time |-> TimeOf[Current]])
        /\ job.row.active <=> job.rule \in TrigOf[Current]
        /\ job.rule \in TrigOf[Current] => Announced(Current, job.rule)
        /\ [esp |-> EspOf[Current], rule |-> job.rule,
            alert |-> job.row.last, time |-> TimeOf[Current]] \in published
    BY <1>1 DEF JobInv
  <2>2. Current' = Current
    BY <1>1, <1>5 DEF JobInv
  <2>3. Announced(Current, job.rule) => Announced(Current, job.rule)'
    BY <1>2, <2>2 DEF Announced
  <2>4. Backed(EspOf[Current], job.rule, job.row)'
    BY <1>2, <2>1, <2>2 DEF Backed
  <2> QED
    BY <1>2, <2>1, <2>2, <2>3, <2>4
<1>10. RowsAgree'
  <2>1. ASSUME NEW e \in Pump, NEW i \in job.from..(job.pos - 1),
               LastAbout(e, i, job.from, job.pos - 1)',
               job.at = "record" \/ e # EspOf[Current'],
               NEW k \in Rule
        PROVE  (IsActive(rows[<<e, k>>]) <=> k \in TrigOf[stream'[i]]) \/ <<i, k>> \in misread'
    <3>1. LastAbout(e, i, job.from, job.pos - 1)
      BY <1>4, <1>n, <2>1 DEF LastAbout
    <3>2. job.at = "record" \/ e # EspOf[Current]
      BY <1>1, <1>5, <2>1 DEF JobInv
    <3>3. Follows(e, k, i) \/ <<i, k>> \in misread
      BY <1>1, <3>1, <3>2 DEF JobInv, RowsAgree
    <3> QED
      BY <1>2, <1>4, <3>3 DEF Follows
  <2>2. ASSUME job.at # "record", NEW k \in 1..(job.rule - 1)
        PROVE  \/ IsActive(rows[<<EspOf[Current'], k>>]) <=> k \in TrigOf[Current']
               \/ <<job.pos, k>> \in misread'
    <3>1. Current' = Current
      BY <1>1, <1>5, <2>2 DEF JobInv
    <3>2. Follows(EspOf[Current], k, job.pos) \/ <<job.pos, k>> \in misread
      BY <1>1, <2>2 DEF JobInv, RowsAgree
    <3> QED
      BY <1>2, <3>1, <3>2 DEF Follows, Current
  <2>3. UNCHANGED <<job, rows>>
    OBVIOUS
  <2> QED
    BY <2>1, <2>2, <2>3 DEF RowsAgree, Follows, Current
<1>11. UNCHANGED job
  OBVIOUS
<1> QED
  BY <1>6, <1>7, <1>8, <1>9, <1>10, <1>11 DEF JobInv

(* The records already passed stay handled when the delivery moves.        *)
LEMMA PassedStayHandled ==
    ASSUME AlertInv, [Next]_vars, Busy, UniqueIds,
           NEW i \in job.from..(job.pos - 1)
    PROVE  Handled(i)'
<1>1. JobInv /\ TypeOK
  BY DEF AlertInv
<1>2. Handled(i) /\ i \in Positions
  BY <1>1, JobPositions DEF JobInv
<1> QED
  BY <1>2, HandledStays

(* A rule of the record in hand is done: its row agrees with the record    *)
(* and, if it triggers, it is announced.                                   *)
LEMMA NextRuleKeepsJob ==
    ASSUME AlertInv, [Next]_vars, job.at \in {"rule", "write"}, NextRule,
           UNCHANGED <<stream, ckpt, cuts>>,
           NEW r \in Record, r = Current, NEW p \in Positions, p = job.pos,
           \A e \in Pump : \A k \in Rule :
              e # EspOf[r] \/ k # job.rule => rows'[<<e, k>>] = rows[<<e, k>>],
           \/ IsActive(rows'[<<EspOf[r], job.rule>>]) <=> job.rule \in TrigOf[r]
           \/ <<p, job.rule>> \in misread',
           UniqueIds => \A k \in TrigOf[r] : k = job.rule => Accounted(p, k)'
    PROVE  JobInv'
<1>1. /\ TypeOK /\ JobInv /\ Busy
      /\ job.pos \in Positions /\ EspOf[r] \in Pump /\ job.rule \in Rule
  BY RuleStepFacts
<1>n. /\ job.from \in Nat /\ job.pos \in Nat /\ job.end \in Nat
      /\ job.rule \in Nat /\ Rules \in Nat
  BY <1>1, NumbersInJob, AlertAssumption
<1>2. misread \subseteq misread'
  BY StepGrows
<1>3. /\ job.pos <= job.end /\ r \in Readable /\ r = stream[p] /\ stream'[p] = r
      /\ job.from = ckpt + 1 /\ job.from <= job.pos
      /\ NextBatch(job.end)
  BY <1>1 DEF JobInv, Current
<1>4. \A k \in 1..job.rule :
         \/ IsActive(rows'[<<EspOf[r], k>>]) <=> k \in TrigOf[r]
         \/ <<p, k>> \in misread'
  <2>1. \A k \in 1..(job.rule - 1) :
           \/ IsActive(rows[<<EspOf[r], k>>]) <=> k \in TrigOf[r]
           \/ <<p, k>> \in misread
    BY <1>1, <1>3 DEF JobInv, RowsAgree, Follows
  <2>2. \A k \in 1..(job.rule - 1) : k \in Rule /\ k # job.rule
    BY <1>1, <1>n DEF Rule
  <2>3. \A k \in 1..(job.rule - 1) :
           \/ IsActive(rows'[<<EspOf[r], k>>]) <=> k \in TrigOf[r]
           \/ <<p, k>> \in misread'
    BY <1>1, <1>2, <2>1, <2>2
  <2>4. \A k \in 1..job.rule : k \in 1..(job.rule - 1) \/ k = job.rule
    BY <1>n
  <2> QED
    BY <2>3, <2>4
<1>5. UniqueIds => \A k \in 1..job.rule : k \in TrigOf[r] => Accounted(p, k)'
  <2> SUFFICES ASSUME UniqueIds, NEW k \in 1..job.rule, k \in TrigOf[r]
               PROVE  Accounted(p, k)'
    OBVIOUS
  <2>1. CASE k = job.rule
    BY <2>1
  <2>2. CASE k \in 1..(job.rule - 1)
    <3>1. Accounted(job.pos, k)
      BY <1>1, <2>2 DEF JobInv
    <3>2. Accounted(p, k)
      BY <3>1
    <3> QED
      BY <3>2, AccountedStays
  <2> QED
    BY <1>n, <2>1, <2>2
<1>6. UniqueIds => \A i \in job.from..(job.pos - 1) : Handled(i)'
  BY <1>1, PassedStayHandled
<1>7. ASSUME NEW e \in Pump, NEW i \in job.from..(job.pos - 1),
             LastAbout(e, i, job.from, job.pos - 1), e # EspOf[r],
             NEW k \in Rule
      PROVE  \/ IsActive(rows'[<<e, k>>]) <=> k \in TrigOf[stream[i]]
             \/ <<i, k>> \in misread'
  <2>1. Follows(e, k, i) \/ <<i, k>> \in misread
    BY <1>1, <1>7 DEF JobInv, RowsAgree
  <2> QED
    BY <1>2, <1>7, <2>1 DEF Follows
<1>8. CASE job.rule = Rules
  <2>1. job' = [at |-> "record", from |-> job.from, pos |-> job.pos + 1,
                end |-> job.end, rule |-> 0, row |-> NoRow]
    BY <1>8 DEF NextRule, NextRecord, JobAt
  <2>2. UniqueIds => \A i \in job.from..job.pos : Handled(i)'
    <3>1. ASSUME UniqueIds, NEW i, i = job.pos
          PROVE  Handled(i)'
      <4>1. stream'[i] = r /\ i = p
        BY <1>3, <3>1
      <4>2. TrigOf[r] \subseteq 1..job.rule
        BY <1>8, AlertAssumption DEF Rule
      <4>3. \A k \in TrigOf[r] : Accounted(i, k)'
        BY <1>5, <3>1, <4>1, <4>2
      <4> QED
        BY <4>1, <4>3 DEF Handled
    <3>2. \A i \in job.from..job.pos : i \in job.from..(job.pos - 1) \/ i = job.pos
      BY <1>n
    <3> QED
      BY <1>6, <3>1, <3>2
  <2>3. ASSUME NEW e \in Pump, NEW i \in job.from..job.pos,
               LastAbout(e, i, job.from, job.pos), NEW k \in Rule
        PROVE  \/ IsActive(rows'[<<e, k>>]) <=> k \in TrigOf[stream[i]]
               \/ <<i, k>> \in misread'
    <3>1. CASE i = job.pos
      <4>1. e = EspOf[r] /\ stream[i] = r /\ i = p
        BY <1>3, <2>3, <3>1 DEF LastAbout
      <4>2. k \in 1..job.rule
        BY <1>8 DEF Rule
      <4> QED
        BY <1>4, <4>1, <4>2
    <3>2. CASE i \in job.from..(job.pos - 1)
      <4>1. LastAbout(e, i, job.from, job.pos - 1)
        BY <1>n, <2>3, <3>2 DEF LastAbout
      <4>2. job.pos \in (i + 1)..job.pos
        BY <1>n, <3>2
      <4>3. e # EspOf[r]
        BY <1>3, <2>3, <4>2 DEF LastAbout
      <4> QED
        BY <1>7, <3>2, <4>1, <4>3
    <3> QED
      BY <1>n, <3>1, <3>2
  <2>4. RowsAgree'
    <3>1. (job.pos + 1) - 1 = job.pos
      BY <1>n
    <3>2. ASSUME NEW e \in Pump, NEW i \in job.from..((job.pos + 1) - 1),
                 LastAbout(e, i, job.from, (job.pos + 1) - 1), NEW k \in Rule
          PROVE  \/ IsActive(rows'[<<e, k>>]) <=> k \in TrigOf[stream[i]]
                 \/ <<i, k>> \in misread'
      <4>1. i \in job.from..job.pos /\ LastAbout(e, i, job.from, job.pos)
        BY <3>1, <3>2
      <4> QED
        BY <2>3, <4>1
    <3> QED
      BY <2>1, <3>2 DEF RowsAgree, LastAbout, Follows
  <2>5. \A i \in job.from..((job.pos + 1) - 1) : i \in job.from..job.pos
    BY <1>n
  <2> QED
    BY <1>n, <1>3, <2>1, <2>2, <2>4, <2>5 DEF JobInv, NextBatch
<1>9. CASE job.rule # Rules
  <2>1. job' = [at |-> "rule", from |-> job.from, pos |-> job.pos,
                end |-> job.end, rule |-> job.rule + 1, row |-> NoRow]
    BY <1>9 DEF NextRule, JobAt
  <2>2. Current' = r
    BY <1>3, <2>1 DEF Current
  <2>3. job.rule + 1 \in Rule /\ (job.rule + 1) - 1 = job.rule
    BY <1>1, <1>9, <1>n DEF Rule
  <2>4. RowsAgree'
    <3>1. stream' = stream /\ stream'[job'.pos] = r
      BY <1>3, <2>1
    <3> QED
      BY <1>4, <1>7, <2>1, <2>2, <2>3, <3>1 DEF RowsAgree, LastAbout, Follows
  <2>5. UniqueIds => \A k \in 1..((job.rule + 1) - 1) :
           k \in TrigOf[r] => Accounted(p, k)'
    BY <1>5, <2>3
  <2>6. UniqueIds => (\A k \in 1..(job.rule - 1) :
           k \in TrigOf[Current] => Accounted(job.pos, k))'
    BY <2>1, <2>2, <2>5 DEF Accounted, Announced, Overtaken
  <2> QED
    BY <1>n, <1>3, <1>6, <2>1, <2>2, <2>3, <2>4, <2>6 DEF JobInv, NextBatch
<1> QED
  BY <1>8, <1>9

(* What publish announces backs the row it keeps for the write: a trigger  *)
(* by itself, a recovery by the trigger that backs the row it has read.    *)
LEMMA PublishBacksRow ==
    ASSUME AlertInv, Publish, [Next]_vars,
           NEW r \in Record, r = Current, NEW k \in Rule, k = job.rule
    PROVE  \E d \in Row : \E m \in Message :
             /\ m = [esp |-> EspOf[r], rule |-> k,
                     alert |-> d.last, time |-> TimeOf[r]]
             /\ published' = published \cup {m}
             /\ job' = JobAt("write", job.pos, k, d)
             /\ d = RowOf(m)
             /\ d.active <=> k \in TrigOf[r]
             /\ d.active <=> m.alert.kind = "trigger"
             /\ m.alert.event = IdOf[r]
             /\ Backed(EspOf[r], k, d)'
             /\ k \in TrigOf[r] => Announced(r, k)'
<1>1. PICK row \in Stored(EspOf[r], k), d \in Row, m \in Message :
             /\ m = [esp |-> EspOf[r], rule |-> k,
                     alert |-> d.last, time |-> TimeOf[r]]
             /\ published' = published \cup {m}
             /\ job' = JobAt("write", job.pos, k, d)
             /\ d = RowOf(m)
             /\ m.alert.event = IdOf[r]
             /\ d.active <=> k \in TrigOf[r]
             /\ d.active <=> d.last.kind = "trigger"
             /\ d.last.episode = d.episode
             /\ d.active => d.until = m.time + Cooldown
             /\ ~d.active => IsActive(row) /\ d.episode = row.episode
  BY PublishFacts
<1>2. m.esp = EspOf[r] /\ m.rule = k /\ m.alert = d.last /\ m.time = TimeOf[r]
  BY <1>1
<1>3. m \in published' /\ published \subseteq published'
  BY <1>1
<1>4. \E t \in published' :
         /\ t.esp = EspOf[r] /\ t.rule = k
         /\ t.alert.kind = "trigger" /\ t.alert.episode = d.episode
         /\ d.active => t.time + Cooldown = d.until
  <2>1. CASE d.active
    BY <1>1, <1>2, <1>3, <2>1
  <2>2. CASE ~d.active
    <3>1. row # NoRow
      BY <1>1, <2>2 DEF IsActive
    <3>2. Backed(EspOf[r], k, row)
      BY <3>1, AlertAssumption DEF AlertInv
    <3>3. PICK t \in published :
             /\ t.esp = EspOf[r] /\ t.rule = k
             /\ t.alert.kind = "trigger"
             /\ t.alert.episode = row.episode
      BY <3>2 DEF Backed
    <3> QED
      BY <1>1, <1>3, <2>2, <3>3
  <2> QED
    BY <2>1, <2>2
<1>5. Backed(EspOf[r], k, d)'
  BY <1>1, <1>2, <1>3, <1>4 DEF Backed
<1>6. k \in TrigOf[r] => Announced(r, k)'
  BY <1>1, <1>2, <1>3 DEF Announced
<1>7. d.active <=> m.alert.kind = "trigger"
  BY <1>1, <1>2
<1> QED
  BY <1>1, <1>5, <1>6, <1>7

LEMMA PublishKeepsJob ==
    ASSUME AlertInv, Publish, [Next]_vars
    PROVE  JobInv'
<1>1. /\ TypeOK /\ JobInv /\ Busy /\ job.at = "rule"
      /\ job.pos \in Positions /\ Current \in Record /\ job.rule \in Rule
  BY RuleStepFacts DEF Publish
<1>2. PICK r \in Record : r = Current
  BY <1>1
<1>3. PICK k \in Rule : k = job.rule
  BY <1>1
<1>4. PICK d \in Row : \E m \in Message :
             /\ m = [esp |-> EspOf[r], rule |-> k,
                     alert |-> d.last, time |-> TimeOf[r]]
             /\ published' = published \cup {m}
             /\ job' = JobAt("write", job.pos, k, d)
             /\ d = RowOf(m)
             /\ d.active <=> k \in TrigOf[r]
             /\ m.alert.event = IdOf[r]
             /\ Backed(EspOf[r], k, d)'
             /\ k \in TrigOf[r] => Announced(r, k)'
  BY <1>2, <1>3, PublishBacksRow
<1>5. /\ job' = [at |-> "write", from |-> job.from, pos |-> job.pos,
                 end |-> job.end, rule |-> k, row |-> d]
      /\ [esp |-> EspOf[r], rule |-> k,
          alert |-> d.last, time |-> TimeOf[r]] \in published'
      /\ d = RowOf([esp |-> EspOf[r], rule |-> k,
                    alert |-> d.last, time |-> TimeOf[r]])
  BY <1>4 DEF JobAt
<1>6. UNCHANGED <<stream, rows, ckpt, cuts>>
  BY DEF Publish, PublishOn, mappingVars
<1>7. Current' = r
  BY <1>2, <1>5, <1>6 DEF Current
<1>8. d # NoRow
  BY NoRowAssumption
<1>9. UniqueIds => \A i \in job.from..(job.pos - 1) : Handled(i)'
  BY <1>1, PassedStayHandled
<1>10. /\ job.pos <= job.end /\ r \in Readable
       /\ job.from = ckpt + 1 /\ job.from <= job.pos /\ job.pos <= job.end + 1
       /\ NextBatch(job.end)
       /\ UniqueIds => \A n \in 1..(k - 1) : n \in TrigOf[r] => Accounted(job.pos, n)
  BY <1>1, <1>2, <1>3 DEF JobInv
<1>11. UniqueIds => \A n \in 1..(k - 1) : n \in TrigOf[r] => Accounted(job.pos, n)'
  <2>1. PICK p \in Positions : p = job.pos
    BY <1>1
  <2>2. \A n \in 1..(k - 1) : Accounted(p, n) => Accounted(p, n)'
    BY AccountedStays
  <2>3. job'.pos = p
    BY <1>5, <2>1
  <2> QED
    BY <1>10, <2>1, <2>2, <2>3 DEF Accounted, Announced, Overtaken
<1>12. RowsAgree'
  <2>1. ASSUME NEW e \in Pump, NEW i \in job.from..(job.pos - 1),
               LastAbout(e, i, job.from, job.pos - 1), e # EspOf[r],
               NEW n \in Rule
        PROVE  Follows(e, n, i) \/ <<i, n>> \in misread
    BY <1>1, <1>2, <2>1 DEF JobInv, RowsAgree
  <2>2. \A n \in 1..(k - 1) : Follows(EspOf[r], n, job.pos) \/ <<job.pos, n>> \in misread
    BY <1>1, <1>2, <1>3 DEF JobInv, RowsAgree
  <2>3. misread \subseteq misread' /\ stream'[job.pos] = r /\ stream[job.pos] = r
    BY <1>2, <1>6, StepGrows DEF Current
  <2> QED
    BY <1>5, <1>6, <1>7, <2>1, <2>2, <2>3 DEF RowsAgree, LastAbout, Follows
<1>13. NextBatch(job.end)' /\ job'.end = job.end
  BY <1>5, <1>6, <1>10 DEF NextBatch
<1>14. Backed(EspOf[Current], job.rule, job.row)'
  BY <1>4, <1>5, <1>7 DEF Backed
<1>15. (job.rule \in TrigOf[Current] => Announced(Current, job.rule))'
  BY <1>4, <1>5, <1>7 DEF Announced
<1>16. UniqueIds => (\A n \in 1..(job.rule - 1) :
                        n \in TrigOf[Current] => Accounted(job.pos, n))'
  BY <1>5, <1>7, <1>11
<1>17. UniqueIds => (\A i \in job.from..(job.pos - 1) : Handled(i))'
  BY <1>5, <1>9
<1> QED
  BY <1>4, <1>5, <1>6, <1>7, <1>8, <1>10, <1>12, <1>13, <1>14, <1>15, <1>16, <1>17
  DEF JobInv

(* Staying quiet is safe, whichever row was read: a cooldown or the alert  *)
(* last notified announces the record at position i, or a later event told *)
(* of before it has overtaken it.  Were that event's record behind i on    *)
(* the shard, i would have been handled when the event was told of.        *)
LEMMA QuietIsAccounted ==
    ASSUME AlertInv, UniqueIds, NEW i \in (ckpt + 1)..Len(stream),
           NEW r \in Record, r = stream[i], r \in Readable, NEW k \in TrigOf[r],
           NEW row \in Stored(EspOf[r], k), Decide(row, k, r) = NoRow
    PROVE  Accounted(i, k)
<1>1. k \in Rule /\ EspOf[r] \in Pump
  BY AlertAssumption
<1>2. TypeOK /\ row \in Row \cup {NoRow}
  BY <1>1, StoredTyped DEF AlertInv
<1>3. row # NoRow => Backed(EspOf[r], k, row)
  BY <1>1 DEF AlertInv
<1>4. /\ IsActive(row)
      /\ \/ TimeOf[r] < row.until
         \/ row.last.kind = "trigger" /\ row.last.event = IdOf[r]
  <2>1. row # NoRow => (row.active <=> row.last.kind = "trigger")
    BY <1>3 DEF Backed
  <2> QED
    BY <1>1, <1>2, <2>1, DecideQuiet
<1>5. row # NoRow /\ row.active
  BY <1>4 DEF IsActive
<1>6. Backed(EspOf[r], k, row)
  BY <1>3, <1>5
<1>n. /\ i \in Nat /\ i >= 1 /\ ckpt \in Nat /\ Len(stream) \in Nat
      /\ TimeOf[r] \in Nat /\ stream \in Seq(Record)
  BY <1>2, NumbersInJob, AlertAssumption
<1>7. CASE TimeOf[r] < row.until
  <2>1. PICK t \in published :
           /\ t.esp = EspOf[r] /\ t.rule = k /\ t.alert.kind = "trigger"
           /\ t.time + Cooldown = row.until
    BY <1>5, <1>6 DEF Backed
  <2>2. PICK j \in Positions :
           /\ Of(j, t) /\ TimeOf[stream[j]] = t.time
           /\ \A h \in (ckpt + 1)..(j - 1) : Handled(h)
    BY <2>1 DEF AlertInv, ToldInOrder
  <2>3. t.time \in Nat /\ j \in Nat
    BY <1>2, <1>n DEF TypeOK, Message, Positions
  <2>4. CASE t.time <= TimeOf[r]
    BY <1>7, <2>1, <2>4 DEF Accounted, Announced
  <2>5. CASE TimeOf[r] < t.time /\ j < i
    <3>1. j \in 1..(i - 1)
      BY <1>n, <2>3, <2>5 DEF Positions
    <3> QED
      BY <2>1, <2>2, <2>5, <3>1 DEF Accounted, Overtaken
  <2>6. CASE TimeOf[r] < t.time /\ i < j
    <3>1. i \in (ckpt + 1)..(j - 1)
      BY <1>n, <2>3, <2>6
    <3> QED
      BY <2>2, <3>1 DEF Handled
  <2>7. CASE TimeOf[r] < t.time /\ i = j
    BY <1>n, <2>2, <2>3, <2>7
  <2> QED
    BY <1>n, <2>3, <2>4, <2>5, <2>6, <2>7
<1>8. CASE row.last.kind = "trigger" /\ row.last.event = IdOf[r]
  <2>1. PICK m \in published :
           m.esp = EspOf[r] /\ m.rule = k /\ m.alert = row.last
    BY <1>6 DEF Backed
  <2>2. PICK q \in Record : m.time = TimeOf[q] /\ m.alert.event = IdOf[q]
    BY <2>1 DEF AlertInv, MessagesAreOfRecords
  <2>3. q = r
    BY <1>8, <2>1, <2>2 DEF UniqueIds
  <2> QED
    BY <1>8, <2>1, <2>2, <2>3 DEF Accounted, Announced
<1> QED
  BY <1>4, <1>7, <1>8

LEMMA StayQuietKeepsJob ==
    ASSUME AlertInv, StayQuiet, [Next]_vars
    PROVE  JobInv'
<1>1. /\ TypeOK /\ JobInv /\ job.at = "rule" /\ job.pos \in Positions
      /\ Current \in Record /\ job.rule \in Rule /\ EspOf[Current] \in Pump
  BY RuleStepFacts DEF StayQuiet
<1>2. PICK r \in Record : r = Current
  BY <1>1
<1>3. PICK k \in Rule : k = job.rule
  BY <1>1
<1>4. PICK p \in Positions : p = job.pos
  BY <1>1
<1>5. PICK row \in Stored(EspOf[r], k) : Reads(row) /\ QuietOn(row)
  BY <1>2, <1>3 DEF StayQuiet
<1>6. /\ Decide(row, k, r) = NoRow /\ r = stream[p]
      /\ row \in Row \cup {NoRow}
      /\ row # NoRow => Backed(EspOf[r], k, row)
  BY <1>1, <1>2, <1>3, <1>4, <1>5, RuleStepFacts DEF QuietOn, Current
<1>7. IsActive(row) <=> k \in TrigOf[r]
  <2>1. row # NoRow => (row.active <=> row.last.kind = "trigger")
    BY <1>6 DEF Backed
  <2> QED
    BY <1>6, <2>1, DecideQuiet
<1>8. /\ UNCHANGED <<stream, ckpt, cuts, rows>> /\ NextRule
  BY <1>5 DEF QuietOn, mappingVars
<1>9. \/ IsActive(rows'[<<EspOf[r], job.rule>>]) <=> job.rule \in TrigOf[r]
      \/ <<p, job.rule>> \in misread'
  <2>1. CASE row = CurrentRow
    BY <1>2, <1>3, <1>7, <1>8, <2>1 DEF CurrentRow
  <2>2. CASE row # CurrentRow
    BY <1>4, <1>5, <2>2 DEF Reads
  <2> QED
    BY <2>1, <2>2
<1>10. UniqueIds => \A n \in TrigOf[r] : n = job.rule => Accounted(p, n)'
  <2> SUFFICES ASSUME UniqueIds, k \in TrigOf[r]
               PROVE  Accounted(p, k)'
    BY <1>3
  <2>1. p \in (ckpt + 1)..Len(stream) /\ r \in Readable
    <3>1. /\ job.pos >= ckpt + 1 /\ job.pos <= Len(stream) /\ Current \in Readable
      BY <1>1, NumbersInJob DEF JobInv, Positions
    <3> QED
      BY <1>1, <1>2, <1>4, <3>1, NumbersInJob DEF Positions
  <2>2. Accounted(p, k)
    BY <1>5, <1>6, <2>1, QuietIsAccounted
  <2> QED
    BY <2>2, AccountedStays
<1> QED
  BY <1>1, <1>2, <1>4, <1>8, <1>9, <1>10, NextRuleKeepsJob

LEMMA WriteRowKeepsJob ==
    ASSUME AlertInv, WriteRow, [Next]_vars
    PROVE  JobInv'
<1>1. /\ TypeOK /\ JobInv /\ job.at = "write" /\ job.pos \in Positions
      /\ Current \in Record /\ job.rule \in Rule
      /\ <<EspOf[Current], job.rule>> \in Pump \X Rule
  BY RuleStepFacts DEF WriteRow
<1>2. PICK r \in Record : r = Current
  BY <1>1
<1>3. PICK k \in Rule : k = job.rule
  BY <1>1
<1>4. /\ job.row # NoRow /\ job.row.active <=> k \in TrigOf[r]
      /\ k \in TrigOf[r] => Announced(r, k)
  BY <1>1, <1>2, <1>3 DEF JobInv
<1>5. /\ rows \in [Pump \X Rule -> Row \cup {NoRow}]
      /\ rows' = [rows EXCEPT ![<<EspOf[r], k>>] = job.row]
  BY <1>1, <1>2, <1>3 DEF TypeOK, WriteRow
<1>6. \A e \in Pump : \A n \in Rule :
         e # EspOf[r] \/ n # job.rule => rows'[<<e, n>>] = rows[<<e, n>>]
  BY <1>3, <1>5
<1>7. rows'[<<EspOf[r], job.rule>>] = job.row
  BY <1>1, <1>2, <1>3, <1>5
<1>8. IsActive(rows'[<<EspOf[r], job.rule>>]) <=> job.rule \in TrigOf[r]
  BY <1>3, <1>4, <1>7 DEF IsActive
<1>9. UNCHANGED <<stream, ckpt, cuts, published>> /\ NextRule
  BY DEF WriteRow, mappingVars
<1>10. PICK p \in Positions : p = job.pos
  BY <1>1
<1>11. k \in TrigOf[r] => Accounted(p, k)'
  <2>1. r = stream[p]
    BY <1>2, <1>10 DEF Current
  <2> QED
    BY <1>4, <2>1, AccountedStays DEF Accounted
<1> QED
  BY <1>1, <1>2, <1>3, <1>6, <1>8, <1>9, <1>10, <1>11, NextRuleKeepsJob

(* The invariant of a delivery: every step keeps it while a delivery is    *)
(* in progress.                                                            *)
LEMMA JobStep ==
    ASSUME AlertInv, [Next]_vars
    PROVE  (Busy => JobInv)'
<1>t. TypeOK /\ (Busy => JobInv)
  BY DEF AlertInv
<1>n. /\ job.from \in Nat /\ job.pos \in Nat /\ job.end \in Nat /\ ckpt \in Nat
      /\ Len(stream) \in Nat
  BY <1>t, NumbersInJob
<1>1. CASE (\E r \in Record : Arrives(r)) \/ UNCHANGED vars
  <2>1. UNCHANGED <<job, rows, ckpt, cuts>>
    BY <1>1 DEF Arrives, mappingVars, alertVars, vars
  <2>2. Busy' <=> Busy
    BY <2>1 DEF Busy
  <2> QED
    BY <2>1, <2>2, UntouchedJobStays
<1>2. CASE Poll \/ TooOld
  <2>1. ~Busy'
    BY <1>2 DEF Poll, TooOld, Busy
  <2> QED
    BY <2>1
<1>3. CASE Invoke
  <2>1. PICK hi \in cuts :
          /\ NextBatch(hi)
          /\ job' = [at |-> "record", from |-> ckpt + 1, pos |-> ckpt + 1,
                     end |-> hi, rule |-> 0, row |-> NoRow]
    BY <1>3 DEF Invoke
  <2>2. UNCHANGED <<stream, ckpt, cuts, rows>>
    BY <1>3 DEF Invoke, mappingVars, alertVars
  <2>3. hi \in (ckpt + 1)..Len(stream)
    BY <1>t DEF TypeOK, MappingTypeOK
  <2>4. /\ job'.from = ckpt' + 1 /\ job'.pos = ckpt' + 1 /\ job'.end = hi
        /\ job'.at = "record" /\ NextBatch(hi)'
    BY <2>1, <2>2 DEF NextBatch
  <2>5. job'.from..(job'.pos - 1) = {}
    BY <1>n, <2>2, <2>4
  <2>6. RowsAgree'
    BY <2>4, <2>5 DEF RowsAgree
  <2>7. /\ job'.from <= job'.pos /\ job'.pos <= job'.end + 1
    BY <1>n, <2>2, <2>3, <2>4
  <2>8. (NextBatch(job.end))'
    BY <2>4 DEF NextBatch
  <2> QED
    BY <2>4, <2>5, <2>6, <2>7, <2>8 DEF JobInv
<1>4. CASE Skip
  <2>1. /\ Busy /\ JobInv /\ job.at = "record" /\ job.pos <= job.end
        /\ Current \notin Readable
        /\ UNCHANGED <<stream, ckpt, cuts, rows, misread>>
        /\ job' = [at |-> "record", from |-> job.from, pos |-> job.pos + 1,
                   end |-> job.end, rule |-> 0, row |-> NoRow]
    BY <1>4, <1>t DEF Skip, AtRecord, Busy, NextRecord, JobAt, mappingVars, alertVars
  <2>2. \A i \in job.from..job.pos : i \in job.from..(job.pos - 1) \/ i = job.pos
    BY <1>n
  <2>3. UniqueIds => \A i \in job.from..job.pos : Handled(i)'
    <3>1. UniqueIds => \A i \in job.from..(job.pos - 1) : Handled(i)'
      BY <2>1, PassedStayHandled
    <3>2. \A i : i = job.pos => Handled(i)'
      BY <2>1 DEF Handled, Current
    <3> QED
      BY <2>2, <3>1, <3>2
  <2>4. ASSUME NEW e \in Pump, NEW i \in job.from..job.pos,
               LastAbout(e, i, job.from, job.pos), NEW k \in Rule
        PROVE  Follows(e, k, i) \/ <<i, k>> \in misread
    <3>1. i \in job.from..(job.pos - 1)
      BY <2>1, <2>2, <2>4 DEF LastAbout, Current
    <3>2. LastAbout(e, i, job.from, job.pos - 1)
      BY <1>n, <2>4, <3>1 DEF LastAbout
    <3> QED
      BY <2>1, <3>1, <3>2 DEF JobInv, RowsAgree
  <2>5. (job.pos + 1) - 1 = job.pos
    BY <1>n
  <2>6. RowsAgree'
    BY <2>1, <2>4, <2>5 DEF RowsAgree, LastAbout, Follows
  <2>7. UniqueIds => (\A i \in job.from..(job.pos - 1) : Handled(i))'
    BY <2>1, <2>3, <2>5
  <2>8. /\ job'.from = ckpt' + 1 /\ job'.from <= job'.pos /\ job'.pos <= job'.end + 1
        /\ job'.at = "record" /\ (NextBatch(job.end))'
    BY <1>n, <2>1 DEF JobInv, NextBatch
  <2> QED
    BY <2>6, <2>7, <2>8 DEF JobInv
<1>5. CASE Examine
  <2>1. /\ Busy /\ JobInv /\ job.at = "record" /\ job.pos <= job.end
        /\ Current \in Readable
        /\ UNCHANGED <<stream, ckpt, cuts, rows, misread>>
        /\ job' = [at |-> "rule", from |-> job.from, pos |-> job.pos,
                   end |-> job.end, rule |-> 1, row |-> NoRow]
    BY <1>5, <1>t DEF Examine, AtRecord, Busy, JobAt, mappingVars, alertVars
  <2>2. UniqueIds => \A i \in job.from..(job.pos - 1) : Handled(i)'
    BY <2>1, PassedStayHandled
  <2>3. 1 \in Rule /\ 1..(1 - 1) = {}
    BY AlertAssumption DEF Rule
  <2>4. Current' = Current
    BY <2>1 DEF Current
  <2>5. RowsAgree'
    <3>1. ASSUME NEW e \in Pump, NEW i \in job.from..(job.pos - 1),
                 LastAbout(e, i, job.from, job.pos - 1), NEW k \in Rule
          PROVE  Follows(e, k, i) \/ <<i, k>> \in misread
      BY <2>1, <3>1 DEF JobInv, RowsAgree
    <3> QED
      BY <2>1, <2>3, <3>1 DEF RowsAgree, LastAbout, Follows
  <2>6. /\ job'.from = ckpt' + 1 /\ job'.from <= job'.pos /\ job'.pos <= job'.end + 1
        /\ job'.pos <= job'.end
        /\ job'.at = "rule" /\ job'.rule = 1 /\ (NextBatch(job.end))'
    BY <1>n, <2>1 DEF JobInv, NextBatch
  <2>7. UniqueIds => (\A i \in job.from..(job.pos - 1) : Handled(i))'
    BY <2>1, <2>2
  <2>8. Current' \in Readable
    BY <2>1, <2>4
  <2>9. (\A k \in 1..(job.rule - 1) : k \in TrigOf[Current] => Accounted(job.pos, k))'
    BY <2>3, <2>6
  <2> QED
    BY <2>3, <2>5, <2>6, <2>7, <2>8, <2>9 DEF JobInv
<1>6. CASE StayQuiet
  BY <1>6, StayQuietKeepsJob
<1>7. CASE Publish
  BY <1>7, PublishKeepsJob
<1>8. CASE WriteRow
  BY <1>8, WriteRowKeepsJob
<1>9. CASE RecordRaises \/ Fault \/ Finish
  <2>1. ~Busy'
    BY <1>9 DEF RecordRaises, Fault, Finish, Abort, Busy, Idle
  <2> QED
    BY <2>1
<1> QED
  BY <1>1, <1>2, <1>3, <1>4, <1>5, <1>6, <1>7, <1>8, <1>9 DEF Next, Step

-----------------------------------------------------------------------------
(* The message a step adds, if it adds one, is of the record in hand.      *)
LEMMA MessagesStep ==
    ASSUME AlertInv, [Next]_vars
    PROVE  MessagesAreOfRecords' /\ RecoveryHasTrigger'
<1>t. MessagesAreOfRecords /\ RecoveryHasTrigger
  BY DEF AlertInv
<1>1. CASE published' = published
  BY <1>t, <1>1 DEF MessagesAreOfRecords, RecoveryHasTrigger
<1>2. CASE Publish
  <2>1. Current \in Record /\ job.rule \in Rule
    BY <1>2, RuleStepFacts DEF Publish
  <2>2. PICK r \in Record : r = Current
    BY <2>1
  <2>3. PICK k \in Rule : k = job.rule
    BY <2>1
  <2>4. PICK d \in Row : \E m \in Message :
             /\ m = [esp |-> EspOf[r], rule |-> k,
                     alert |-> d.last, time |-> TimeOf[r]]
             /\ published' = published \cup {m}
             /\ job' = JobAt("write", job.pos, k, d)
             /\ d.active <=> k \in TrigOf[r]
             /\ m.alert.event = IdOf[r]
             /\ Backed(EspOf[r], k, d)'
    BY <1>2, <2>2, <2>3, PublishBacksRow
  <2>5. PICK m \in Message :
             /\ m.esp = EspOf[r] /\ m.rule = k /\ m.alert = d.last
             /\ m.time = TimeOf[r] /\ m.alert.event = IdOf[r]
             /\ published' = published \cup {m}
             /\ Backed(EspOf[r], k, d)'
    BY <2>4
  <2>6. MessagesAreOfRecords'
    BY <1>t, <2>5 DEF MessagesAreOfRecords
  <2>7. \E t \in published' : /\ t.alert.kind = "trigger"
                              /\ t.esp = m.esp /\ t.rule = m.rule
                              /\ t.alert.episode = m.alert.episode
    BY <2>5 DEF Backed
  <2>8. RecoveryHasTrigger'
    BY <1>t, <2>5, <2>7 DEF RecoveryHasTrigger
  <2> QED
    BY <2>6, <2>8
<1>3. published' = published \/ Publish
  BY DEF Next, Step, Arrives, Poll, Invoke, TooOld, Skip, Examine, StayQuiet, QuietOn,
         WriteRow, RecordRaises, Fault, Finish, Abort, alertVars, vars
<1> QED
  BY <1>1, <1>2, <1>3

(* How a step moves the checkpoint: not at all, past a batch it leaves a   *)
(* pointer to, or past the batch a delivery has finished.                  *)
LEMMA CheckpointMoves ==
    ASSUME AlertInv, [Next]_vars
    PROVE  \/ UNCHANGED <<ckpt, discarded>>
           \/ \E hi \in cuts : GiveUp(hi)
           \/ Finish
<1>1. CASE RecordRaises \/ Fault
  <2>1. BatchFailed(job.end)
    BY <1>1 DEF RecordRaises, Fault, Abort
  <2> QED
    BY <2>1 DEF BatchFailed, NextBatch
<1>2. CASE TooOld
  BY <1>2 DEF TooOld
<1> QED
  BY <1>1, <1>2
  DEF Next, Step, Arrives, Poll, PollBatch, Invoke, Skip, Examine, StayQuiet, QuietOn,
      Publish, PublishOn, WriteRow, mappingVars, vars

LEMMA LaterInterval ==
    ASSUME NEW a \in Nat, NEW b \in Nat, a <= b, NEW j \in Nat
    PROVE  (b + 1)..(j - 1) \subseteq (a + 1)..(j - 1)
  OBVIOUS

(* A step that publishes a trigger does so at the record in hand, whose    *)
(* predecessors in the delivery are handled; and a step never brings back  *)
(* what the mapping has moved past.                                        *)
LEMMA ToldInOrderStep ==
    ASSUME AlertInv, [Next]_vars
    PROVE  ToldInOrder'
<1>t. TypeOK /\ ToldInOrder /\ PointersAreBehind
  BY DEF AlertInv
<1>n. ckpt \in Nat /\ Len(stream) \in Nat
  BY <1>t, NumbersInJob
<1>g. \A i \in Positions : i \in Positions' /\ stream'[i] = stream[i]
  BY StepGrows
<1>c. ckpt' \in Nat /\ ckpt <= ckpt'
  <2>1. ckpt' \in Nat
    BY TypeStep DEF TypeOK, MappingTypeOK
  <2>2. ASSUME NEW hi \in cuts, ckpt' = hi
        PROVE  ckpt <= ckpt'
    BY <1>n, <1>t, <2>2 DEF TypeOK, MappingTypeOK
  <2>3. ckpt' = ckpt \/ ckpt' \in cuts
    BY CheckpointMoves DEF GiveUp, Finish, BatchSucceeded, Advance, NextBatch
  <2> QED
    BY <1>n, <2>1, <2>2, <2>3
<1>1. ASSUME NEW m, NEW j \in Positions,
             Of(j, m), TimeOf[stream[j]] = m.time,
             UniqueIds => \A i \in (ckpt + 1)..(j - 1) : Handled(i)
      PROVE  /\ j \in Positions' /\ Of(j, m)' /\ TimeOf[stream'[j]] = m.time
             /\ UniqueIds => \A i \in (ckpt' + 1)..(j - 1) : Handled(i)'
  <2>1. /\ j \in Positions' /\ Of(j, m)' /\ TimeOf[stream'[j]] = m.time
    BY <1>1, <1>g DEF Of
  <2>2. ASSUME UniqueIds, NEW i \in (ckpt' + 1)..(j - 1)
        PROVE  Handled(i)'
    <3>1. j \in Nat /\ j <= Len(stream) /\ i \in (ckpt' + 1)..(j - 1)
      BY <1>n, <2>2 DEF Positions
    <3>2. i \in (ckpt + 1)..(j - 1)
      BY <1>n, <1>c, <3>1, LaterInterval
    <3>3. i \in Positions
      BY <1>n, <3>1, <3>2 DEF Positions
    <3> QED
      BY <1>1, <2>2, <3>2, <3>3, HandledStays
  <2> QED
    BY <2>1, <2>2
<1>2. CASE published' = published
  <2>1. ASSUME NEW m \in published, m.alert.kind = "trigger"
        PROVE  \E j \in Positions' :
                  /\ Of(j, m)' /\ TimeOf[stream'[j]] = m.time
                  /\ UniqueIds => \A i \in (ckpt' + 1)..(j - 1) : Handled(i)'
    BY <1>t, <1>1, <2>1 DEF ToldInOrder
  <2> QED
    BY <1>2, <2>1 DEF ToldInOrder, UniqueIds
<1>3. CASE Publish
  <2>1. /\ TypeOK /\ JobInv /\ Busy /\ job.pos \in Positions
        /\ Current \in Record /\ job.rule \in Rule
    BY <1>3, RuleStepFacts DEF Publish
  <2>2. PICK r \in Record : r = Current
    BY <2>1
  <2>3. PICK k \in Rule : k = job.rule
    BY <2>1
  <2>4. PICK p \in Positions : p = job.pos
    BY <2>1
  <2>5. PICK d \in Row, m \in Message :
             /\ m = [esp |-> EspOf[r], rule |-> k,
                     alert |-> d.last, time |-> TimeOf[r]]
             /\ published' = published \cup {m}
             /\ m.alert.event = IdOf[r]
    BY <1>3, <2>2, <2>3, PublishBacksRow
  <2>6. /\ Of(p, m) /\ TimeOf[stream[p]] = m.time
    BY <2>2, <2>4, <2>5 DEF Of, Current
  <2>7. UniqueIds => \A i \in (ckpt + 1)..(p - 1) : Handled(i)
    BY <2>1, <2>4 DEF JobInv
  <2>8. ASSUME NEW n \in published', n.alert.kind = "trigger"
        PROVE  \E j \in Positions' :
                  /\ Of(j, n)' /\ TimeOf[stream'[j]] = n.time
                  /\ UniqueIds => \A i \in (ckpt' + 1)..(j - 1) : Handled(i)'
    <3>1. CASE n = m
      BY <1>1, <2>6, <2>7, <3>1
    <3>2. CASE n \in published
      BY <1>t, <1>1, <2>8, <3>2 DEF ToldInOrder
    <3> QED
      BY <2>5, <3>1, <3>2
  <2> QED
    BY <2>8 DEF ToldInOrder, UniqueIds
<1>4. published' = published \/ Publish
  BY DEF Next, Step, Arrives, Poll, Invoke, TooOld, Skip, Examine, StayQuiet, QuietOn,
         WriteRow, RecordRaises, Fault, Finish, Abort, alertVars, vars
<1> QED
  BY <1>2, <1>3, <1>4

(* Every row a step stores is one of those in Stored, and each of them     *)
(* stays backed by what was published.                                     *)
LEMMA RowsStep ==
    ASSUME AlertInv, [Next]_vars, NEW e \in Pump, NEW k \in Rule
    PROVE  /\ rows'[<<e, k>>] \in Stored(e, k)'
           /\ \A row \in Stored(e, k)' : row # NoRow => Backed(e, k, row)'
<1>t. /\ TypeOK
      /\ rows[<<e, k>>] \in Stored(e, k)
      /\ \A row \in Stored(e, k) : row # NoRow => Backed(e, k, row)
  BY DEF AlertInv
<1>g. published \subseteq published' /\ recorded \subseteq recorded'
  BY StepGrows
<1>s. Stored(e, k) \subseteq Stored(e, k)'
  BY <1>g DEF Stored
<1>b. \A row \in Stored(e, k) : row # NoRow => Backed(e, k, row)'
  <2>1. ASSUME NEW row \in Stored(e, k), row # NoRow
        PROVE  Backed(e, k, row)'
    <3>1. Backed(e, k, row)
      BY <1>t, <2>1
    <3> QED
      BY <1>g, <3>1 DEF Backed
  <2> QED
    BY <2>1
<1>1. CASE UNCHANGED <<rows, recorded>>
  <2>1. Stored(e, k)' = Stored(e, k)
    BY <1>1 DEF Stored
  <2> QED
    BY <1>t, <1>b, <1>1, <2>1
<1>2. CASE WriteRow
  <2>1. /\ JobInv /\ <<EspOf[Current], job.rule>> \in Pump \X Rule
        /\ job.at = "write" /\ Current \in Record
    BY <1>2, RuleStepFacts DEF WriteRow
  <2>2. PICK m : m = [esp |-> EspOf[Current], rule |-> job.rule,
                      alert |-> job.row.last, time |-> TimeOf[Current]]
    OBVIOUS
  <2>3. /\ m.esp = EspOf[Current] /\ m.rule = job.rule
        /\ job.row = RowOf(m)
        /\ Backed(EspOf[Current], job.rule, job.row)
    BY <2>1, <2>2 DEF JobInv
  <2>4. /\ rows \in [Pump \X Rule -> Row \cup {NoRow}]
        /\ rows' = [rows EXCEPT ![<<EspOf[Current], job.rule>>] = job.row]
        /\ recorded' = recorded \cup {m}
    BY <1>2, <1>t, <2>2 DEF TypeOK, WriteRow
  <2>5. CASE e = EspOf[Current] /\ k = job.rule
    <3>1. rows'[<<e, k>>] = job.row
      BY <2>1, <2>4, <2>5
    <3>2. Stored(e, k)' = Stored(e, k) \cup {job.row}
      BY <2>3, <2>4, <2>5 DEF Stored
    <3>3. PICK w : w = job.row
      OBVIOUS
    <3>4. Backed(e, k, w)
      BY <2>3, <2>5, <3>3
    <3>5. Backed(e, k, w)'
      BY <1>g, <3>4 DEF Backed
    <3> QED
      BY <1>b, <3>1, <3>2, <3>3, <3>5
  <2>6. CASE ~(e = EspOf[Current] /\ k = job.rule)
    <3>1. rows'[<<e, k>>] = rows[<<e, k>>]
      BY <2>1, <2>4, <2>6
    <3>2. Stored(e, k)' = Stored(e, k)
      BY <2>3, <2>4, <2>6 DEF Stored
    <3> QED
      BY <1>t, <1>b, <3>1, <3>2
  <2> QED
    BY <2>5, <2>6
<1>3. UNCHANGED <<rows, recorded>> \/ WriteRow
  BY DEF Next, Step, Arrives, Poll, Invoke, TooOld, Skip, Examine, StayQuiet, QuietOn,
         Publish, PublishOn, RecordRaises, Fault, Finish, Abort, alertVars, vars
<1> QED
  BY <1>1, <1>2, <1>3

LEMMA PointersStep ==
    ASSUME AlertInv, [Next]_vars
    PROVE  PointersAreBehind'
<1>t. TypeOK /\ MappingTypeOK /\ PointersAreBehind
  BY DEF AlertInv, TypeOK
<1>1. CASE UNCHANGED <<ckpt, discarded>>
  BY <1>t, <1>1 DEF PointersAreBehind, Covered
<1>2. CASE \E hi \in cuts : GiveUp(hi)
  BY <1>t, <1>2, GiveUpPoints
<1>3. CASE Finish
  <2>1. BatchSucceeded(job.end)
    BY <1>3 DEF Finish
  <2>2. /\ discarded' = discarded /\ ckpt' = job.end /\ job.end \in cuts
    BY <2>1 DEF BatchSucceeded, Advance, NextBatch
  <2>3. ckpt \in Nat /\ Len(stream) \in Nat /\ cuts \subseteq (ckpt + 1)..Len(stream)
    BY <1>t DEF MappingTypeOK
  <2>4. ckpt \in Nat /\ job.end \in Nat /\ ckpt < job.end
    <3>1. job.end \in (ckpt + 1)..Len(stream)
      BY <2>2, <2>3
    <3> QED
      BY <2>3, <3>1
  <2> QED
    BY <1>t, <2>2, <2>4 DEF PointersAreBehind, Covered
<1> QED
  BY <1>1, <1>2, <1>3, CheckpointMoves

(* Nothing the mapping has moved past is an anomaly nobody was told of.    *)
LEMMA SilenceStep ==
    ASSUME AlertInv, [Next]_vars, UniqueIds
    PROVE  NoSilentAnomaly'
<1>t. TypeOK /\ MappingTypeOK /\ PointersAreBehind /\ NoSilentAnomaly
  BY DEF AlertInv, TypeOK
<1>n. ckpt \in Nat /\ Len(stream) \in Nat /\ ckpt <= Len(stream)
  BY <1>t DEF MappingTypeOK
<1>g. \A i \in 1..ckpt : i \in Positions /\ stream'[i] = stream[i]
  BY <1>n, StepGrows DEF Positions
<1>d. discarded \subseteq discarded'
  BY CheckpointMoves DEF GiveUp, Finish, BatchSucceeded
<1>1. ASSUME NEW i \in 1..ckpt, stream'[i] \in Readable
      PROVE  Pointed(i)' \/ Handled(i)'
  <2>1. i \in Positions /\ stream'[i] = stream[i]
    BY <1>g
  <2>2. Pointed(i) \/ Handled(i)
    BY <1>t, <1>1, <2>1 DEF NoSilentAnomaly
  <2>3. Pointed(i) => Pointed(i)'
    BY <1>d DEF Pointed, Covered
  <2> QED
    BY <2>1, <2>2, <2>3, HandledStays
<1>2. CASE UNCHANGED <<ckpt, discarded>>
  BY <1>1, <1>2 DEF NoSilentAnomaly
<1>3. CASE \E hi \in cuts : GiveUp(hi)
  <2>1. PICK hi \in cuts : GiveUp(hi)
    BY <1>3
  <2>2. /\ hi \in Nat /\ ckpt < hi /\ ckpt' = hi
        /\ \A i \in (ckpt + 1)..hi : Pointed(i)'
    BY <1>t, <2>1, GiveUpPoints
  <2>3. \A i \in 1..hi : i \in 1..ckpt \/ i \in (ckpt + 1)..hi
    BY <1>n, <2>2
  <2> QED
    BY <1>1, <2>2, <2>3 DEF NoSilentAnomaly
<1>4. CASE Finish
  <2>1. /\ Busy /\ JobInv /\ job.pos > job.end
    BY <1>4 DEF Finish, Busy, AlertInv
  <2>2. /\ job.from \in Nat /\ job.pos \in Nat /\ job.end \in Nat
    BY <1>t, NumbersInJob
  <2>3. ckpt' = job.end /\ UNCHANGED stream
    BY <1>4 DEF Finish, BatchSucceeded, Advance
  <2>4. job.from = ckpt + 1 /\ job.pos <= job.end + 1
    BY <2>1 DEF JobInv
  <2>5. \A i \in 1..job.end : i \in 1..ckpt \/ i \in job.from..(job.pos - 1)
    BY <1>n, <2>1, <2>2, <2>4
  <2>6. \A i \in job.from..(job.pos - 1) : Handled(i)'
    BY <2>1, PassedStayHandled
  <2> QED
    BY <1>1, <2>3, <2>5, <2>6 DEF NoSilentAnomaly
<1> QED
  BY <1>2, <1>3, <1>4, CheckpointMoves

-----------------------------------------------------------------------------
LEMMA InitAlertInv == Init => AlertInv
<1> SUFFICES ASSUME Init PROVE AlertInv
  OBVIOUS
<1>1. /\ stream = <<>> /\ ckpt = 0 /\ cuts = {} /\ tries = 0 /\ discarded = {}
      /\ rows = [x \in Pump \X Rule |-> NoRow]
      /\ published = {} /\ repeated = {} /\ recorded = {} /\ failed = {}
      /\ misread = {}
      /\ job = Idle
  BY DEF Init, MappingInit
<1>2. Idle \in Job /\ Idle.at = "idle"
  BY DEF Idle, Job
<1>3. Len(stream) = 0 /\ stream \in Seq(Record)
  BY <1>1
<1>4. MappingTypeOK
  BY <1>1, <1>3, MappingAssumption DEF MappingTypeOK
<1>5. TypeOK
  BY <1>1, <1>2, <1>4 DEF TypeOK
<1>6. \A e \in Pump : \A k \in Rule : rows[<<e, k>>] = NoRow /\ Stored(e, k) = {NoRow}
  BY <1>1 DEF Stored
<1>7. ~Busy
  BY <1>1, <1>2 DEF Busy
<1>8. /\ MessagesAreOfRecords /\ ToldInOrder /\ RecoveryHasTrigger
      /\ PointersAreBehind /\ NoSilentAnomaly
  BY <1>1 DEF MessagesAreOfRecords, ToldInOrder, RecoveryHasTrigger,
              PointersAreBehind, NoSilentAnomaly
<1> QED
  BY <1>5, <1>6, <1>7, <1>8 DEF AlertInv

(* The inductive invariant of the detector holds in every reachable state, *)
(* for all constants and whatever faults, retries and duplicates.          *)
THEOREM AlertInvariant == Spec => []AlertInv
<1>1. ASSUME AlertInv, [Next]_vars
      PROVE  AlertInv'
  <2>1. (\A e \in Pump : \A k \in Rule :
           /\ rows[<<e, k>>] \in Stored(e, k)
           /\ \A row \in Stored(e, k) : row # NoRow => Backed(e, k, row))'
    BY <1>1, RowsStep
  <2>2. /\ TypeOK' /\ PointersAreBehind' /\ MessagesAreOfRecords' /\ RecoveryHasTrigger'
        /\ ToldInOrder'
    BY <1>1, TypeStep, PointersStep, MessagesStep, ToldInOrderStep
  <2>3. (UniqueIds => NoSilentAnomaly)'
    BY <1>1, SilenceStep DEF UniqueIds
  <2>4. (Busy => JobInv)'
    BY <1>1, JobStep
  <2> QED
    BY <2>1, <2>2, <2>3, <2>4 DEF AlertInv
<1> QED
  BY InitAlertInv, <1>1, PTL DEF Spec

(* Every variable keeps its type.                                          *)
THEOREM AlertTypeCorrect == Spec => []TypeOK
<1>1. AlertInv => TypeOK
  BY DEF AlertInv
<1> QED
  BY <1>1, AlertInvariant, PTL

(* Nobody is told of the end of an episode whose start was not announced.  *)
THEOREM RecoveriesAreAnswers == Spec => []RecoveryHasTrigger
<1>1. AlertInv => RecoveryHasTrigger
  BY DEF AlertInv
<1> QED
  BY <1>1, AlertInvariant, PTL

(* A batch about to be acknowledged leaves every episode as its telemetry  *)
(* says, also when it was delivered before to the rows it starts from, and *)
(* whatever was read before the pump's last record in it; only an older    *)
(* row read for that record leaves an episode otherwise.                   *)
THEOREM EpisodesAgree == Spec => []EpisodesFollowTelemetry
<1>1. AlertInv => EpisodesFollowTelemetry
  BY DEF AlertInv, Busy, JobInv, RowsAgree, EpisodesFollowTelemetry
<1> QED
  BY <1>1, AlertInvariant, PTL

(* When event ids tell records apart, every anomaly the mapping has moved  *)
(* past was announced, came within the cooldown that an earlier trigger    *)
(* began, was told of after a later event that had arrived before it, or   *)
(* is in a failure pointer: also when rows are read as they were.          *)
THEOREM NoAnomalyIsSilent ==
    ASSUME UniqueIds
    PROVE  Spec => []NoSilentAnomaly
<1>1. AlertInv => NoSilentAnomaly
  BY UniqueIds DEF AlertInv
<1> QED
  BY <1>1, AlertInvariant, PTL

-----------------------------------------------------------------------------
(* How the messages of an episode follow one another.                      *)

(* What a decision to send says: the message, the record and the row.      *)
LEMMA DecideSends ==
    ASSUME NEW row \in Row \cup {NoRow}, NEW k \in Rule, NEW r \in Record,
           NEW d, d = Decide(row, k, r), d # NoRow
    PROVE  /\ d.last = AlertOf(row, k, r)
           /\ d.last.kind = (IF k \in TrigOf[r] THEN "trigger" ELSE "recovery")
           /\ d.last.episode = EpisodeOf(row, r) /\ d.last.event = IdOf[r]
           /\ row # NoRow => row.last # d.last
           /\ k \in TrigOf[r] /\ IsActive(row) => row.until <= TimeOf[r]
           /\ k \notin TrigOf[r] => IsActive(row)
<1>1. ~Quiet(row, k, r) /\ d.last = AlertOf(row, k, r)
  BY DEF Decide
<1>2. /\ d.last.kind = (IF k \in TrigOf[r] THEN "trigger" ELSE "recovery")
      /\ d.last.episode = EpisodeOf(row, r) /\ d.last.event = IdOf[r]
  BY <1>1 DEF AlertOf
<1>3. row # NoRow => row.last # d.last
  BY <1>1 DEF Quiet
<1>4. k \notin TrigOf[r] => IsActive(row)
  BY <1>1 DEF Quiet
<1>5. ASSUME k \in TrigOf[r], IsActive(row)
      PROVE  row.until <= TimeOf[r]
  <2>1. ~(TimeOf[r] < row.until)
    BY <1>1, <1>5 DEF Quiet
  <2>2. row.until \in Nat /\ TimeOf[r] \in Nat
    BY <1>5, AlertAssumption DEF IsActive, Row
  <2> QED
    BY <2>1, <2>2
<1> QED
  BY <1>1, <1>2, <1>3, <1>4, <1>5

(* The message about the current record and rule, given the stored row.    *)
Decides(x, r, k) ==
    LET row == rows[<<EspOf[r], k>>]
    IN  /\ x \in Message
        /\ x.esp = EspOf[r] /\ x.rule = k /\ x.time = TimeOf[r]
        /\ x.alert.event = IdOf[r]
        /\ x.alert.episode = EpisodeOf(row, r)
        /\ x.alert.kind = (IF k \in TrigOf[r] THEN "trigger" ELSE "recovery")
        /\ row # NoRow => row.last # x.alert
        /\ k \in TrigOf[r] /\ IsActive(row) => row.until <= TimeOf[r]
        /\ k \notin TrigOf[r] => IsActive(row)

(* Where a delivery stands when it decides.                                *)
Deciding(r, k) ==
    /\ Busy /\ job.at # "record" /\ r = Current /\ k = job.rule
    /\ r \in Record /\ r \in Readable /\ k \in Rule /\ EspOf[r] \in Pump
    /\ job.pos \in Positions /\ ckpt < job.pos /\ job.pos <= job.end
    /\ ckpt \in Nat /\ job.pos \in Nat /\ job.from = ckpt + 1
    /\ rows[<<EspOf[r], k>>] \in Row \cup {NoRow}

LEMMA DecidingNow ==
    ASSUME AlertInv, job.at \in {"rule", "write"}
    PROVE  Deciding(Current, job.rule)
<1>1. /\ Busy /\ JobInv /\ TypeOK
      /\ job.pos \in Positions /\ Current \in Record
      /\ EspOf[Current] \in Pump /\ job.rule \in Rule
      /\ rows[<<EspOf[Current], job.rule>>] \in Row \cup {NoRow}
  BY RuleStepFacts
<1>2. job.from = ckpt + 1 /\ job.from <= job.pos /\ job.pos <= job.end /\ Current \in Readable
  BY <1>1 DEF JobInv
<1>3. ckpt \in Nat /\ job.pos \in Nat
  BY <1>1, NumbersInJob
<1> QED
  BY <1>1, <1>2, <1>3 DEF Deciding

(* As long as no older row was read, every decision is on the stored one.  *)
LEMMA FreshReads ==
    ASSUME misread' = {}
    PROVE  /\ \A row : Reads(row) => row = CurrentRow
           /\ StayQuiet => QuietOn(CurrentRow)
<1>1. ASSUME NEW row, Reads(row)
      PROVE  row = CurrentRow
  BY <1>1 DEF Reads
<1> QED
  BY <1>1 DEF StayQuiet

(* What publish does.                                                      *)
LEMMA Sent ==
    ASSUME AlertInv, Publish, misread' = {}
    PROVE  \E x : /\ Decides(x, Current, job.rule)
                  /\ published' = published \cup {x}
                  /\ repeated' = repeated \cup ({x} \cap published)
                  /\ InHand(x)'
                  /\ UNCHANGED <<stream, mappingVars, rows, failed>>
                  /\ job' = JobAt("write", job.pos, job.rule, Decision)
<1>1. Deciding(Current, job.rule) /\ job.at = "rule"
  BY DecidingNow DEF Publish
<1>2. PICK d \in Row : \E m \in Message :
        /\ d = Decision
        /\ m = [esp |-> EspOf[Current], rule |-> job.rule,
                alert |-> d.last, time |-> TimeOf[Current]]
        /\ published' = published \cup {m}
        /\ repeated' = repeated \cup ({m} \cap published)
        /\ job' = JobAt("write", job.pos, job.rule, d)
  BY PublishFacts, FreshReads DEF Decision
<1>3. PICK m \in Message :
        /\ m = [esp |-> EspOf[Current], rule |-> job.rule,
                alert |-> d.last, time |-> TimeOf[Current]]
        /\ published' = published \cup {m}
        /\ repeated' = repeated \cup ({m} \cap published)
        /\ job' = JobAt("write", job.pos, job.rule, d)
  BY <1>2
<1>4. UNCHANGED <<stream, mappingVars, rows, failed>>
  BY DEF Publish, PublishOn
<1>5. PICK r \in Record, k \in Rule : r = Current /\ k = job.rule
  BY <1>1 DEF Deciding
<1>6. d # NoRow /\ d = Decide(rows[<<EspOf[r], k>>], k, r)
      /\ rows[<<EspOf[r], k>>] \in Row \cup {NoRow}
  BY <1>1, <1>2, <1>5, NoRowAssumption DEF Decision, CurrentRow, Deciding
<1>7. Decides(m, r, k)
  <2> DEFINE row == rows[<<EspOf[r], k>>]
  <2>1. /\ d.last.kind = (IF k \in TrigOf[r] THEN "trigger" ELSE "recovery")
        /\ d.last.episode = EpisodeOf(row, r) /\ d.last.event = IdOf[r]
        /\ row # NoRow => row.last # d.last
        /\ k \in TrigOf[r] /\ IsActive(row) => row.until <= TimeOf[r]
        /\ k \notin TrigOf[r] => IsActive(row)
    <3> HIDE DEF row
    <3> QED
      BY <1>6, DecideSends DEF row
  <2>2. m.esp = EspOf[r] /\ m.rule = k /\ m.alert = d.last /\ m.time = TimeOf[r]
    BY <1>3, <1>5
  <2> HIDE DEF row
  <2> QED
    BY <1>3, <2>1, <2>2 DEF Decides, row
<1>8. InHand(m)'
  <2>1. job'.at = "write" /\ job'.pos = job.pos /\ job'.rule = job.rule /\ job'.row = d
    BY <1>3 DEF JobAt
  <2>2. Current' = Current
    BY <1>4, <2>1 DEF Current
  <2> QED
    BY <1>3, <2>1, <2>2 DEF InHand
<1> QED
  BY <1>2, <1>3, <1>4, <1>5, <1>7, <1>8

(* What put_item does.                                                     *)
LEMMA Written ==
    ASSUME AlertInv, MessageInv, WriteRow
    PROVE  \E x \in published :
                  /\ Decides(x, Current, job.rule) /\ InHand(x)
                  /\ job.row \in Row /\ job.row.last = x.alert
                  /\ job.row.episode = x.alert.episode
                  /\ job.row.active <=> job.rule \in TrigOf[Current]
                  /\ job.row.active => job.row.until = x.time + Cooldown
                  /\ rows' = [rows EXCEPT ![<<EspOf[Current], job.rule>>] = job.row]
                  /\ UNCHANGED <<stream, mappingVars, published, repeated, failed>>
<1>1. Deciding(Current, job.rule) /\ job.at = "write" /\ JobInv
  BY DecidingNow DEF WriteRow, AlertInv, Busy
<1>2. PICK r \in Record, k \in Rule : r = Current /\ k = job.rule
  BY <1>1 DEF Deciding
<1> DEFINE row == rows[<<EspOf[r], k>>]
           d == job.row
           x == [esp |-> EspOf[r], rule |-> k, alert |-> d.last, time |-> TimeOf[r]]
<1>3. d # NoRow /\ d = Decide(row, k, r) /\ row \in Row \cup {NoRow}
  BY <1>1, <1>2 DEF MessageInv, JobInv, Decision, CurrentRow, Deciding
<1>4. x \in published /\ InHand(x)
  BY <1>1, <1>2 DEF JobInv, InHand
<1>5. x \in Message
  BY <1>4 DEF AlertInv, TypeOK
<1>6. /\ d \in Row
      /\ d.active <=> k \in TrigOf[r]
      /\ d.active => d.until = TimeOf[r] + Cooldown
      /\ d.last.episode = d.episode
  <2> HIDE DEF row, d, x
  <2> QED
    BY <1>3, DecideLoud
<1>7. /\ d.last.kind = (IF k \in TrigOf[r] THEN "trigger" ELSE "recovery")
      /\ d.last.episode = EpisodeOf(row, r) /\ d.last.event = IdOf[r]
      /\ row # NoRow => row.last # d.last
      /\ k \in TrigOf[r] /\ IsActive(row) => row.until <= TimeOf[r]
      /\ k \notin TrigOf[r] => IsActive(row)
  <2> HIDE DEF row, d, x
  <2> QED
    BY <1>3, DecideSends
<1>8. x.esp = EspOf[r] /\ x.rule = k /\ x.alert = d.last /\ x.time = TimeOf[r]
  OBVIOUS
<1>9. Decides(x, r, k)
  <2> HIDE DEF row, d, x
  <2> QED
    BY <1>5, <1>7, <1>8 DEF Decides, row
<1>a. /\ rows' = [rows EXCEPT ![<<EspOf[r], k>>] = d]
      /\ UNCHANGED <<stream, mappingVars, published, repeated, failed>>
  BY <1>2 DEF WriteRow
<1> HIDE DEF row, d, x
<1> QED
  BY <1>2, <1>4, <1>6, <1>8, <1>9, <1>a DEF d

-----------------------------------------------------------------------------
(* What a step leaves of the shard, the checkpoint and the stores.         *)
LEMMA NothingIsUndone ==
    ASSUME AlertInv, [Next]_vars
    PROVE  /\ published \subseteq published' /\ failed \subseteq failed'
           /\ discarded \subseteq discarded'
           /\ ckpt \in Nat /\ ckpt' \in Nat /\ ckpt <= ckpt'
           /\ Len(stream) \in Nat /\ Len(stream') \in Nat /\ Len(stream) <= Len(stream')
           /\ stream \in Seq(Record) /\ stream' \in Seq(Record)
           /\ \A i \in Positions : i \in Positions' /\ stream'[i] = stream[i]
<1>1. TypeOK /\ TypeOK' /\ MappingTypeOK
  BY TypeStep DEF AlertInv, TypeOK
<1>2. /\ ckpt \in Nat /\ ckpt' \in Nat /\ Len(stream) \in Nat /\ Len(stream') \in Nat
      /\ stream \in Seq(Record) /\ stream' \in Seq(Record)
  BY <1>1 DEF TypeOK, MappingTypeOK
<1>3. failed \subseteq failed'
  BY DEF Next, Step, Arrives, Poll, Invoke, TooOld, Skip, Examine, StayQuiet, QuietOn,
         Publish, PublishOn, WriteRow, RecordRaises, Fault, Finish, Abort, alertVars, vars
<1>4. ASSUME NEW hi \in cuts, Advance(hi)
      PROVE  ckpt <= ckpt'
  BY <1>1, <1>4 DEF Advance, MappingTypeOK
<1>5. ASSUME NEW hi \in cuts, GiveUp(hi)
      PROVE  ckpt <= ckpt' /\ discarded \subseteq discarded'
  BY <1>4, <1>5 DEF GiveUp
<1>6. ckpt <= ckpt' /\ discarded \subseteq discarded'
  <2>1. CASE UNCHANGED <<ckpt, discarded>>
    BY <1>2, <2>1
  <2>2. CASE Finish
    <3>1. job.end \in cuts /\ Advance(job.end) /\ discarded' = discarded
      BY <2>2 DEF Finish, BatchSucceeded, NextBatch
    <3> QED
      BY <1>4, <3>1
  <2> QED
    BY <1>5, <2>1, <2>2, CheckpointMoves
<1> QED
  BY <1>2, <1>3, <1>6, StepGrows

LEMMA FactsStay ==
    ASSUME AlertInv, [Next]_vars, NEW i \in Positions, NEW m
    PROVE  /\ Of(i, m)' <=> Of(i, m)
           /\ Told(i, m)' <=> Told(i, m)
           /\ Pointed(i) => Pointed(i)'
           /\ i \in Nat /\ stream[i] \in Record
BY NothingIsUndone DEF Of, Told, Pointed, Positions

LEMMA WhoWrites ==
    ASSUME [Next]_vars
    PROVE  /\ published' = published \/ Publish
           /\ repeated' = repeated \/ Publish
           /\ rows' = rows \/ WriteRow
           /\ stream' = stream \/ (UNCHANGED <<mappingVars, alertVars, job>>
                                    /\ \E r \in Record : stream' = Append(stream, r))
<1>1. published' = published \/ Publish
  BY DEF Next, Step, Arrives, Poll, Invoke, TooOld, Skip, Examine, StayQuiet, QuietOn,
         WriteRow, RecordRaises, Fault, Finish, Abort, alertVars, vars
<1>2. repeated' = repeated \/ Publish
  BY DEF Next, Step, Arrives, Poll, Invoke, TooOld, Skip, Examine, StayQuiet, QuietOn,
         WriteRow, RecordRaises, Fault, Finish, Abort, alertVars, vars
<1>3. rows' = rows \/ WriteRow
  BY DEF Next, Step, Arrives, Poll, Invoke, TooOld, Skip, Examine, StayQuiet, QuietOn,
         Publish, PublishOn, RecordRaises, Fault, Finish, Abort, alertVars, vars
<1>4. stream' = stream \/ (UNCHANGED <<mappingVars, alertVars, job>>
                            /\ \E r \in Record : stream' = Append(stream, r))
  BY DEF Next, Step, Arrives, Poll, Invoke, TooOld, Skip, Examine, StayQuiet, QuietOn,
         Publish, PublishOn, WriteRow, RecordRaises, Fault, Finish, Abort, vars
<1> QED
  BY <1>1, <1>2, <1>3, <1>4

-----------------------------------------------------------------------------
(* What a delivery has behind it.  A step that fails the delivery leaves   *)
(* it in failed; what a step passes was given up, is not readable, or is   *)
(* the rule just decided.                                                  *)
PastMoves(i, k) ==
    /\ Past(i, k) => \/ Past(i, k)'
                     \/ ckpt' = ckpt /\ ckpt < i /\ (ckpt + 1)..i \subseteq failed'
    /\ Past(i, k)' => \/ Past(i, k)
                      \/ Pointed(i)'
                      \/ stream[i] \notin Readable
                      \/ i = job.pos /\ k = job.rule /\ (StayQuiet \/ WriteRow)

LEMMA NextRulePasses ==
    ASSUME AlertInv, job.at \in {"rule", "write"}, NextRule, UNCHANGED ckpt,
           NEW i \in Positions, NEW k \in Rule
    PROVE  /\ Past(i, k) => Past(i, k)'
           /\ Past(i, k)' => Past(i, k) \/ (i = job.pos /\ k = job.rule)
           /\ i = job.pos /\ k = job.rule => Past(i, k)'
<1>1. /\ job.pos \in Nat /\ job.rule \in 1..Rules /\ Rules \in Nat /\ i \in Nat /\ Busy
      /\ ckpt \in Nat
  BY DecidingNow, AlertAssumption DEF Deciding, Rule, Positions
<1>2. k \in 1..Rules
  BY DEF Rule
<1>3. CASE job.rule = Rules
  <2>1. job'.at = "record" /\ job'.pos = job.pos + 1
    BY <1>3 DEF NextRule, NextRecord, JobAt
  <2> QED
    BY <1>1, <1>2, <1>3, <2>1 DEF Past, Busy
<1>4. CASE job.rule # Rules
  <2>1. job'.at = "rule" /\ job'.pos = job.pos /\ job'.rule = job.rule + 1
    BY <1>4 DEF NextRule, JobAt
  <2> QED
    BY <1>1, <1>2, <1>4, <2>1 DEF Past, Busy
<1> QED
  BY <1>3, <1>4

LEMMA AbortPasses ==
    ASSUME AlertInv, Abort, Busy, NEW i \in Positions, NEW k \in Rule
    PROVE  PastMoves(i, k)
<1>1. TypeOK /\ MappingTypeOK /\ PointersAreBehind /\ JobInv
  BY DEF AlertInv, TypeOK
<1>2. /\ ckpt \in Nat /\ job.pos \in Nat /\ job.end \in Nat /\ i \in Nat
      /\ job.from = ckpt + 1 /\ job.pos <= job.end + 1
      /\ job.at # "record" => job.pos <= job.end
      /\ job.end \in cuts
  BY <1>1, NumbersInJob DEF JobInv, NextBatch, Positions
<1>3. Past(i, k) => i <= job.end
  <2>1. ckpt < job.end
    BY <1>1, <1>2 DEF MappingTypeOK
  <2> QED
    BY <1>2, <2>1 DEF Past
<1>4. Past(i, k)' <=> i <= ckpt'
  BY DEF Abort, Idle, Past, Busy
<1>5. CASE GiveUp(job.end)
  <2>1. ckpt' = job.end /\ \A j \in (ckpt + 1)..job.end : Pointed(j)'
    BY <1>1, <1>2, <1>5, GiveUpPoints
  <2>2. i <= job.end => Past(i, k) \/ i \in (ckpt + 1)..job.end
    BY <1>2 DEF Past
  <2> QED
    BY <1>3, <1>4, <2>1, <2>2 DEF PastMoves
<1>6. CASE ckpt' = ckpt
  <2>1. failed' = failed \cup job.from..job.end
    BY DEF Abort
  <2>2. Past(i, k)' => Past(i, k)
    BY <1>4, <1>6 DEF Past
  <2>3. ASSUME Past(i, k), ~Past(i, k)'
        PROVE  ckpt < i /\ (ckpt + 1)..i \subseteq failed'
    BY <1>2, <1>3, <1>4, <1>6, <2>1, <2>3
  <2> QED
    BY <1>6, <2>2, <2>3 DEF PastMoves
<1>7. GiveUp(job.end) \/ ckpt' = ckpt
  BY DEF Abort, BatchFailed
<1> QED
  BY <1>5, <1>6, <1>7

LEMMA PastStep ==
    ASSUME AlertInv, [Next]_vars, NEW i \in Positions, NEW k \in Rule
    PROVE  PastMoves(i, k)
<1>1. TypeOK /\ MappingTypeOK /\ PointersAreBehind /\ (Busy => JobInv)
  BY DEF AlertInv, TypeOK
<1>2. ckpt \in Nat /\ job.pos \in Nat /\ job.end \in Nat /\ i \in Nat /\ i > 0
  BY <1>1, NumbersInJob DEF Positions
<1>k. k \in Nat /\ k > 0
  BY DEF Rule
<1>3. CASE (\E r \in Record : Arrives(r)) \/ Poll \/ UNCHANGED vars
  <2>1. UNCHANGED <<ckpt, job>>
    BY <1>3 DEF Arrives, Poll, PollBatch, vars, mappingVars
  <2> QED
    BY <2>1 DEF PastMoves, Past, Busy
<1>4. CASE Invoke
  <2>1. ~Busy /\ ckpt' = ckpt /\ job'.at = "record" /\ job'.pos = ckpt + 1
    BY <1>4 DEF Invoke, mappingVars
  <2> QED
    BY <1>2, <2>1 DEF PastMoves, Past, Busy
<1>5. CASE TooOld
  <2>1. PICK hi \in cuts : GiveUp(hi)
    BY <1>5 DEF TooOld
  <2>2. ~Busy /\ job' = job
    BY <1>5 DEF TooOld
  <2>3. hi \in Nat /\ ckpt < hi /\ ckpt' = hi /\ \A j \in (ckpt + 1)..hi : Pointed(j)'
    BY <1>1, <2>1, GiveUpPoints
  <2>4. (Past(i, k) <=> i <= ckpt) /\ (Past(i, k)' <=> i <= hi)
    BY <2>2, <2>3 DEF Past, Busy
  <2>5. i <= hi => i <= ckpt \/ i \in (ckpt + 1)..hi
    BY <1>2, <2>3
  <2> QED
    BY <1>2, <2>3, <2>4, <2>5 DEF PastMoves
<1>6. CASE Skip
  <2>1. /\ Busy /\ job.at = "record" /\ stream[job.pos] \notin Readable
        /\ ckpt' = ckpt /\ job'.at = "record" /\ job'.pos = job.pos + 1
    BY <1>6 DEF Skip, AtRecord, NextRecord, JobAt, Current, Busy, mappingVars
  <2>2. Past(i, k) => Past(i, k)'
    BY <1>2, <2>1 DEF Past, Busy
  <2>3. Past(i, k)' => Past(i, k) \/ i = job.pos
    BY <1>2, <2>1 DEF Past, Busy
  <2> QED
    BY <2>1, <2>2, <2>3 DEF PastMoves
<1>7. CASE Examine
  <2>1. /\ job.at = "record" /\ ckpt' = ckpt
        /\ job'.at = "rule" /\ job'.pos = job.pos /\ job'.rule = 1
    BY <1>7 DEF Examine, AtRecord, JobAt, mappingVars
  <2> QED
    BY <1>2, <1>k, <2>1 DEF PastMoves, Past, Busy
<1>8. CASE StayQuiet \/ WriteRow
  <2>1. job.at \in {"rule", "write"} /\ NextRule /\ ckpt' = ckpt
    BY <1>8 DEF StayQuiet, QuietOn, WriteRow, mappingVars
  <2> QED
    BY <1>8, <2>1, NextRulePasses DEF PastMoves
<1>9. CASE Publish
  <2>1. /\ job.at = "rule" /\ ckpt' = ckpt
        /\ job'.at = "write" /\ job'.pos = job.pos /\ job'.rule = job.rule
    BY <1>9 DEF Publish, PublishOn, JobAt, mappingVars
  <2> QED
    BY <2>1 DEF PastMoves, Past, Busy
<1>10. CASE RecordRaises \/ Fault
  <2>1. Abort /\ Busy
    BY <1>10 DEF RecordRaises, Fault, AtRecord, Busy
  <2> QED
    BY <2>1, AbortPasses
<1>11. CASE Finish
  <2>1. /\ Busy /\ JobInv /\ job.at = "record" /\ job.pos > job.end
        /\ job' = Idle /\ ckpt' = job.end
    BY <1>1, <1>11 DEF Finish, Busy, BatchSucceeded, Advance
  <2>2. job.pos <= job.end + 1 /\ ckpt + 1 <= job.pos
    BY <2>1 DEF JobInv
  <2>3. Past(i, k)' <=> i <= job.end
    BY <2>1 DEF Past, Busy, Idle
  <2>4. Past(i, k) <=> i <= job.end
    BY <1>2, <2>1, <2>2 DEF Past
  <2> QED
    BY <2>3, <2>4 DEF PastMoves
<1> QED
  BY <1>3, <1>4, <1>5, <1>6, <1>7, <1>8, <1>9, <1>10, <1>11 DEF Next, Step

-----------------------------------------------------------------------------
(* A message tells of the record that was being decided on.                *)
LEMMA DecidesTells ==
    ASSUME NEW x, Decides(x, Current, job.rule), Deciding(Current, job.rule)
    PROVE  Told(job.pos, x)
<1>1. PICK r \in Record, k \in Rule : r = Current /\ k = job.rule
  BY DEF Deciding
<1>2. /\ x.esp = EspOf[r] /\ x.rule = k /\ x.time = TimeOf[r] /\ x.alert.event = IdOf[r]
      /\ x.alert.kind = "trigger" <=> k \in TrigOf[r]
  BY <1>1 DEF Decides
<1>3. stream[job.pos] = r /\ r \in Readable
  BY <1>1 DEF Deciding, Current
<1> QED
  BY <1>2, <1>3 DEF Told, Of

(* A delivery that is about to write goes on, writes, or fails.            *)
LEMMA AboutToWrite ==
    ASSUME AlertInv, [Next]_vars, job.at = "write"
    PROVE  \/ /\ UNCHANGED <<job, rows, published, ckpt, failed>>
              /\ Current' = Current
           \/ WriteRow
           \/ Abort
<1>1. Deciding(Current, job.rule)
  BY DecidingNow
<1>2. CASE \E r \in Record : Arrives(r)
  <2>1. UNCHANGED <<job, rows, published, ckpt, failed>>
    BY <1>2 DEF Arrives, mappingVars, alertVars
  <2>2. Current' = Current
    BY <1>1, <2>1, NothingIsUndone DEF Current, Deciding
  <2> QED
    BY <2>1, <2>2
<1>3. CASE UNCHANGED vars
  BY <1>3 DEF vars, alertVars, mappingVars, Current
<1> QED
  BY <1>1, <1>2, <1>3 DEF Next, Step, Poll, Invoke, TooOld, Skip, Examine, StayQuiet, QuietOn,
     Publish, RecordRaises, Fault, Finish, AtRecord, Deciding

LEMMA MessageInvStep ==
    ASSUME AlertInv, MessageInv, [Next]_vars, misread' = {}
    PROVE  MessageInv'
<1>1. failed' \subseteq Positions'
  <2>1. failed' = failed \/ (Abort /\ Busy)
    BY DEF Next, Step, Arrives, Poll, Invoke, TooOld, Skip, Examine, StayQuiet, QuietOn,
           Publish, PublishOn, WriteRow, RecordRaises, Fault, Finish, AtRecord, Busy,
           alertVars, vars
  <2>2. ASSUME Abort, Busy
        PROVE  failed' \subseteq Positions'
    <3>1. JobInv /\ job.end \in Positions /\ job.from \in Nat /\ job.from > 0
      BY <2>2, JobPositions, NumbersInJob DEF AlertInv, JobInv
    <3>2. job.from..job.end \subseteq Positions
      BY <3>1, NothingIsUndone DEF Positions
    <3> QED
      BY <2>2, <3>2, NothingIsUndone DEF Abort, MessageInv
  <2> QED
    BY <2>1, <2>2, NothingIsUndone DEF MessageInv
<1>2. ASSUME NEW m \in published'
      PROVE  \E i \in Positions' : Told(i, m)'
  <2>1. CASE m \in published
    <3>1. PICK i \in Positions : Told(i, m)
      BY <2>1 DEF MessageInv
    <3> QED
      BY <3>1, FactsStay, NothingIsUndone
  <2>2. CASE Publish /\ m \notin published
    <3>1. /\ Decides(m, Current, job.rule) /\ Deciding(Current, job.rule)
          /\ job.pos \in Positions
      BY <2>2, Sent, DecidingNow DEF Publish, Deciding
    <3>2. Told(job.pos, m)
      BY <3>1, DecidesTells
    <3> QED
      BY <3>1, <3>2, FactsStay, NothingIsUndone
  <2> QED
    BY <2>1, <2>2, WhoWrites
<1>3. (job.at = "write")' => job'.row = Decision'
  <2>1. CASE Publish
    <3>1. /\ UNCHANGED <<stream, rows>> /\ job' = JobAt("write", job.pos, job.rule, Decision)
      BY <2>1, Sent
    <3>2. job'.pos = job.pos /\ job'.rule = job.rule /\ job'.row = Decision
      BY <3>1 DEF JobAt
    <3>3. Current' = Current
      BY <3>1, <3>2, SMTT(30) DEF Current
    <3>4. Decision' = Decision
      BY <3>1, <3>2, <3>3, ZenonT(60)
         DEF Decision, CurrentRow, Decide, Quiet, AlertOf, EpisodeOf, IsActive
    <3> QED
      BY <3>2, <3>4
  <2>2. CASE job.at = "write"
    <3>1. CASE UNCHANGED <<job, rows>> /\ Current' = Current
      <4>1. Decision' = Decision
        BY <3>1 DEF Decision, CurrentRow, Decide, Quiet, AlertOf, EpisodeOf, IsActive
      <4> QED
        BY <2>2, <3>1, <4>1 DEF MessageInv
    <3>2. CASE WriteRow
      BY <3>2 DEF WriteRow, NextRule, NextRecord, JobAt
    <3>3. CASE Abort
      BY <3>3 DEF Abort, Idle
    <3> QED
      BY <2>2, <3>1, <3>2, <3>3, AboutToWrite
  <2>3. CASE ~Publish /\ job.at # "write"
    BY <2>3 DEF Next, Step, Arrives, Poll, Invoke, TooOld, Skip, Examine, StayQuiet, QuietOn,
       WriteRow, RecordRaises, Fault, Finish, Abort, NextRule, NextRecord, JobAt, Idle, vars
  <2> QED
    BY <2>1, <2>2, <2>3
<1>4. ASSUME NEW e \in Pump, NEW k \in Rule, IsActive(rows[<<e, k>>])'
      PROVE  \E m \in published' :
                  /\ m.esp = e /\ m.rule = k /\ m.alert = rows'[<<e, k>>].last
                  /\ m.time + Cooldown = rows'[<<e, k>>].until
  <2>1. CASE rows'[<<e, k>>] = rows[<<e, k>>]
    <3>1. IsActive(rows[<<e, k>>])
      BY <1>4, <2>1 DEF IsActive
    <3>2. PICK m \in published :
                  /\ m.esp = e /\ m.rule = k /\ m.alert = rows[<<e, k>>].last
                  /\ m.time + Cooldown = rows[<<e, k>>].until
      BY <3>1 DEF MessageInv
    <3> QED
      BY <2>1, <3>2, NothingIsUndone
  <2>2. CASE WriteRow /\ rows'[<<e, k>>] # rows[<<e, k>>]
    <3>1. PICK x \in published :
                  /\ Decides(x, Current, job.rule)
                  /\ job.row.last = x.alert
                  /\ job.row.active => job.row.until = x.time + Cooldown
                  /\ rows' = [rows EXCEPT ![<<EspOf[Current], job.rule>>] = job.row]
      BY <2>2, Written
    <3>2. <<e, k>> = <<EspOf[Current], job.rule>> /\ rows'[<<e, k>>] = job.row
      BY <2>2, <3>1 DEF AlertInv, TypeOK
    <3>3. e = EspOf[Current] /\ k = job.rule
      BY <3>2
    <3>4. x.esp = e /\ x.rule = k
      BY <3>1, <3>3 DEF Decides
    <3>5. job.row.active
      BY <1>4, <3>2 DEF IsActive
    <3> QED
      BY <3>1, <3>2, <3>4, <3>5, NothingIsUndone
  <2> QED
    BY <2>1, <2>2, WhoWrites
<1> QED
  BY <1>1, <1>2, <1>3, <1>4 DEF MessageInv

-----------------------------------------------------------------------------
(* Event-time order of a pump's records.                                   *)
LEMMA InOrder ==
    ASSUME NEW s \in Seq(Record),
           \A j \in 1..Len(s) : \A i \in 1..(j - 1) :
               EspOf[s[i]] = EspOf[s[j]] /\ s[i] # s[j] => TimeOf[s[i]] < TimeOf[s[j]],
           NEW i \in 1..Len(s), NEW j \in 1..Len(s), EspOf[s[i]] = EspOf[s[j]]
    PROVE  /\ TimeOf[s[i]] \in Nat /\ TimeOf[s[j]] \in Nat
           /\ i <= j => TimeOf[s[i]] <= TimeOf[s[j]]
           /\ TimeOf[s[i]] < TimeOf[s[j]] => i < j
           /\ TimeOf[s[i]] = TimeOf[s[j]] => s[i] = s[j]
<1>1. /\ s[i] \in Record /\ s[j] \in Record /\ i \in Nat /\ j \in Nat
      /\ TimeOf[s[i]] \in Nat /\ TimeOf[s[j]] \in Nat
  BY AlertAssumption
<1>2. i < j => s[i] = s[j] \/ TimeOf[s[i]] < TimeOf[s[j]]
  BY <1>1
<1>3. j < i => s[i] = s[j] \/ TimeOf[s[j]] < TimeOf[s[i]]
  BY <1>1
<1>4. i = j => s[i] = s[j]
  OBVIOUS
<1> QED
  BY <1>1, <1>2, <1>3, <1>4

LEMMA OrderNow ==
    ASSUME AlertInv, InEventOrder, NEW i \in Positions, NEW j \in Positions,
           EspOf[stream[i]] = EspOf[stream[j]]
    PROVE  /\ TimeOf[stream[i]] \in Nat /\ TimeOf[stream[j]] \in Nat
           /\ i <= j => TimeOf[stream[i]] <= TimeOf[stream[j]]
           /\ TimeOf[stream[i]] < TimeOf[stream[j]] => i < j
           /\ TimeOf[stream[i]] = TimeOf[stream[j]] => stream[i] = stream[j]
<1>1. stream \in Seq(Record)
  BY NumbersInJob DEF AlertInv
<1> QED
  BY <1>1, InOrder DEF InEventOrder, Positions

LEMMA OrderNext ==
    ASSUME AlertInv, [Next]_vars, InEventOrder', NEW i \in Positions', NEW j \in Positions',
           EspOf[stream'[i]] = EspOf[stream'[j]]
    PROVE  /\ TimeOf[stream'[i]] \in Nat /\ TimeOf[stream'[j]] \in Nat
           /\ i <= j => TimeOf[stream'[i]] <= TimeOf[stream'[j]]
           /\ TimeOf[stream'[i]] < TimeOf[stream'[j]] => i < j
           /\ TimeOf[stream'[i]] = TimeOf[stream'[j]] => stream'[i] = stream'[j]
<1>1. stream' \in Seq(Record)
  BY NothingIsUndone
<1> QED
  BY <1>1, InOrder, ZenonT(90) DEF InEventOrder, Positions

LEMMA OrderStays ==
    ASSUME AlertInv, [Next]_vars, InEventOrder'
    PROVE  InEventOrder
<1>1. /\ Len(stream) \in Nat /\ \A i \in Positions : i \in Positions' /\ stream'[i] = stream[i]
  BY NothingIsUndone
<1> SUFFICES ASSUME NEW j \in Positions, NEW i \in 1..(j - 1),
                    EspOf[stream[i]] = EspOf[stream[j]], stream[i] # stream[j]
             PROVE  TimeOf[stream[i]] < TimeOf[stream[j]]
  BY DEF InEventOrder
<1>2. i \in Positions
  BY <1>1 DEF Positions
<1> QED
  BY <1>1, <1>2 DEF InEventOrder

-----------------------------------------------------------------------------
(* Of the rule in hand, a delivery has the positions before its own behind *)
(* it.                                                                     *)
LEMMA PastWhenDeciding ==
    ASSUME Deciding(Current, job.rule), NEW i \in Positions
    PROVE  Past(i, job.rule) <=> i < job.pos
BY AlertAssumption DEF Deciding, Past, Positions, Rule

LEMMA MessageTypes ==
    ASSUME AlertInv, NEW m \in published
    PROVE  /\ m \in Message /\ m.time \in Nat /\ m.time + Cooldown \in Nat
           /\ m.esp \in Pump /\ m.rule \in Rule /\ m.alert.episode \in Id
           /\ m.alert.kind \in {"trigger", "recovery"}
BY AlertAssumption DEF AlertInv, TypeOK, Message, Alert

LEMMA SameMessage ==
    ASSUME NEW m \in Message, NEW n \in Message, m.esp = n.esp, m.rule = n.rule,
           m.time = n.time, m.alert.kind = n.alert.kind,
           m.alert.episode = n.alert.episode, m.alert.event = n.alert.event
    PROVE  m = n
<1>1. m.alert \in Alert /\ n.alert \in Alert
  BY DEF Message
<1>2. m.alert = n.alert
  BY <1>1 DEF Alert
<1> QED
  BY <1>2 DEF Message

LEMMA VainStays ==
    ASSUME AlertInv, [Next]_vars, NEW m, ToldInVain(m)
    PROVE  ToldInVain(m)'
<1>1. PICK t \in published : /\ SameEpisode(t, m) /\ t.alert.kind = "trigger"
                             /\ t.time <= m.time /\ GivenUp(t)
  BY DEF ToldInVain
<1>2. PICK i \in Positions : Of(i, t) /\ Pointed(i)
  BY <1>1 DEF GivenUp
<1>3. GivenUp(t)'
  BY <1>2, FactsStay, NothingIsUndone DEF GivenUp
<1> QED
  BY <1>1, <1>3, NothingIsUndone DEF ToldInVain, SameEpisode

(* An open row's last message is a trigger of its episode.                 *)
LEMMA RowIsTold ==
    ASSUME AlertInv, MessageInv, NEW e \in Pump, NEW k \in Rule, IsActive(rows[<<e, k>>])
    PROVE  /\ rows[<<e, k>>].until \in Nat /\ rows[<<e, k>>].episode \in Id
           /\ \E l \in Triggers(e, k, rows[<<e, k>>].episode) :
                  /\ l.alert = rows[<<e, k>>].last
                  /\ l.time + Cooldown = rows[<<e, k>>].until
<1> DEFINE row == rows[<<e, k>>]
<1>1. row \in Row /\ row # NoRow /\ row.active
  BY DEF IsActive, AlertInv, TypeOK
<1>2. Backed(e, k, row)
  BY <1>1 DEF AlertInv
<1>3. PICK l \in published : /\ l.esp = e /\ l.rule = k /\ l.alert = row.last
                             /\ l.time + Cooldown = row.until
  BY DEF MessageInv
<1>4. l.alert.kind = "trigger" /\ l.alert.episode = row.episode
  BY <1>1, <1>2, <1>3 DEF Backed
<1> QED
  BY <1>1, <1>3, <1>4 DEF Triggers, Row

(* A message of the current record's event is of the current record.       *)
LEMMA SameEvent ==
    ASSUME AlertInv, MessageInv, UniqueIds, Deciding(Current, job.rule),
           NEW m \in published, m.alert.event = IdOf[Current]
    PROVE  m.time = TimeOf[Current] /\ m.esp = EspOf[Current]
<1>1. PICK i \in Positions : Told(i, m)
  BY DEF MessageInv
<1>2. stream[i] \in Record /\ Current \in Record
  BY FactsStay, NumbersInJob DEF Deciding, AlertInv, Positions
<1>3. stream[i] = Current
  BY <1>1, <1>2 DEF UniqueIds, Told, Of
<1> QED
  BY <1>1, <1>3 DEF Told, Of

(* A record that opens an episode again sends the message it sent before.  *)
LEMMA OpenerAgain ==
    ASSUME AlertInv, MessageInv, UniqueIds, Deciding(Current, job.rule),
           NEW x, Decides(x, Current, job.rule), job.rule \in TrigOf[Current],
           ~IsActive(rows[<<EspOf[Current], job.rule>>]),
           OpenerIsTold(EspOf[Current], job.rule, x.alert.episode),
           NEW m \in Triggers(EspOf[Current], job.rule, x.alert.episode)
    PROVE  x \in published
<1>1. /\ x \in Message /\ x.esp = EspOf[Current] /\ x.rule = job.rule
      /\ x.time = TimeOf[Current] /\ x.alert.kind = "trigger"
      /\ x.alert.event = IdOf[Current] /\ x.alert.episode = IdOf[Current]
  BY DEF Decides, EpisodeOf
<1>2. PICK o \in Triggers(EspOf[Current], job.rule, x.alert.episode) :
        o.alert.event = x.alert.episode
  BY DEF OpenerIsTold
<1>3. /\ o \in published /\ o.esp = EspOf[Current] /\ o.rule = job.rule
      /\ o.alert.kind = "trigger" /\ o.alert.episode = x.alert.episode
      /\ o \in Message
  BY <1>2, MessageTypes DEF Triggers
<1>4. o.time = TimeOf[Current]
  BY <1>1, <1>2, <1>3, SameEvent
<1>5. o = x
  BY <1>1, <1>2, <1>3, <1>4, SameMessage
<1> QED
  BY <1>3, <1>5

(* A message between the row's and the current one was told in vain: its   *)
(* record is behind the delivery.                                          *)
LEMMA KnownOrInVain ==
    ASSUME AlertInv, MessageInv, InEventOrder, Deciding(Current, job.rule),
           NEW e \in Pump, NEW k \in Rule, e = EspOf[Current], k = job.rule,
           RowKnows(e, k), IsActive(rows[<<e, k>>]),
           NEW m \in Triggers(e, k, rows[<<e, k>>].episode),
           rows[<<e, k>>].until < m.time + Cooldown, m.time < TimeOf[Current]
    PROVE  ToldInVain(m)
<1>1. \/ \E i \in Positions : Told(i, m) /\ ~Past(i, k)
      \/ ToldInVain(m)
  BY DEF RowKnows
<1>2. ASSUME NEW i \in Positions, Told(i, m), ~Past(i, k)
      PROVE  FALSE
  <2>1. TimeOf[stream[i]] = m.time /\ EspOf[stream[i]] = e
    BY <1>2 DEF Told, Of, Triggers
  <2>2. job.pos \in Positions /\ stream[job.pos] = Current
    BY DEF Deciding, Current
  <2>3. i < job.pos
    BY <2>1, <2>2, OrderNow
  <2> QED
    BY <1>2, <2>3, PastWhenDeciding
<1> QED
  BY <1>1, <1>2

-----------------------------------------------------------------------------
(* A new trigger keeps its distance from those its episode has sent, the   *)
(* later ones, of an earlier delivery, included.                           *)
LEMMA SentKeepsDistance ==
    ASSUME AlertInv, MessageInv, UniqueIds, InEventOrder, Cooldown > 0, ScheduleInv,
           Deciding(Current, job.rule), NEW x, x \notin published,
           Decides(x, Current, job.rule), job.rule \in TrigOf[Current],
           NEW m \in Triggers(EspOf[Current], job.rule, x.alert.episode)
    PROVE  /\ m.time < x.time => m.time + Cooldown <= x.time \/ ToldInVain(m)
           /\ x.time < m.time => x.time + Cooldown <= m.time \/ ToldInVain(x)
<1> DEFINE e == EspOf[Current]
           k == job.rule
           row == rows[<<e, k>>]
           T == Triggers(e, k, x.alert.episode)
<1>1. /\ x \in Message /\ x.esp = e /\ x.rule = k /\ x.time = TimeOf[Current]
      /\ x.alert.kind = "trigger" /\ x.alert.event = IdOf[Current]
      /\ x.alert.episode = EpisodeOf(row, Current) /\ x.alert.episode \in Id
      /\ IsActive(row) => row.until <= x.time
      /\ e \in Pump /\ k \in Rule /\ x.time \in Nat
  BY DEF Decides, Deciding, Message, Alert
<1>2. RowCovers(e, k) /\ RowKnows(e, k) /\ OpenerIsTold(e, k, x.alert.episode)
      /\ NoGap(e, k, x.alert.episode)
  BY <1>1 DEF ScheduleInv
<1>3. IsActive(row)
  BY <1>2, OpenerAgain
<1>4. x.alert.episode = row.episode
  BY <1>1, <1>3 DEF EpisodeOf
<1>5. PICK l \in T : l.time + Cooldown = row.until
  BY <1>1, <1>3, <1>4, RowIsTold
<1>6. /\ \A t \in T : /\ t \in published /\ t \in Message /\ t.time \in Nat
                      /\ t.esp = e /\ t.rule = k /\ t.alert.kind = "trigger"
                      /\ t.alert.episode = x.alert.episode
      /\ row.until \in Nat /\ Cooldown \in Nat
  BY <1>1, <1>3, RowIsTold, MessageTypes, AlertAssumption DEF Triggers
<1>7. ASSUME NEW t \in T, row.until < t.time + Cooldown, t.time < x.time
      PROVE  ToldInVain(t)
  BY <1>1, <1>2, <1>3, <1>4, <1>7, KnownOrInVain
<1>8. ASSUME m.time < x.time
      PROVE  m.time + Cooldown <= x.time \/ ToldInVain(m)
  <2>1. CASE row.until < m.time + Cooldown
    BY <1>7, <1>8, <2>1
  <2>2. CASE m.time + Cooldown <= row.until
    <3>1. m.time + Cooldown <= x.time
      BY <1>1, <1>3, <1>6, <2>2
    <3> QED
      BY <3>1
  <2> QED
    BY <1>6, <2>1, <2>2
<1>9. ASSUME x.time < m.time
      PROVE  ToldInVain(x)
  <2>1. /\ job.pos \in (ckpt + 1)..Len(stream) /\ job.pos \in Positions
        /\ stream[job.pos] = Current /\ Current \in Readable
    BY DEF Deciding, Current, Positions
  <2>2. l.time <= x.time
    BY <1>1, <1>3, <1>5, <1>6
  <2>3. PICK t \in T : t.time <= x.time /\ x.time < t.time + Cooldown
    <3>1. l.time <= TimeOf[stream[job.pos]] /\ TimeOf[stream[job.pos]] <= m.time
      BY <1>1, <1>6, <1>9, <2>1, <2>2
    <3> QED
      BY <1>1, <1>2, <2>1, <3>1 DEF NoGap
  <2>4. t.time # x.time
    <3> SUFFICES ASSUME t.time = x.time PROVE FALSE
      OBVIOUS
    <3>1. PICK i \in Positions : Told(i, t)
      BY <1>6 DEF MessageInv
    <3>2. EspOf[stream[i]] = e /\ TimeOf[stream[i]] = TimeOf[Current]
          /\ IdOf[stream[i]] = t.alert.event
      BY <1>1, <1>6, <3>1 DEF Told, Of
    <3>3. stream[i] = Current
      BY <2>1, <3>2, OrderNow
    <3>4. t = x
      BY <1>1, <1>6, <3>2, <3>3, SameMessage
    <3> QED
      BY <1>6, <3>4
  <2>5. row.until < t.time + Cooldown /\ t.time < x.time
    BY <1>1, <1>3, <1>6, <2>3, <2>4
  <2>6. ToldInVain(t)
    BY <1>7, <2>5
  <2>7. PICK u \in published : /\ SameEpisode(u, t) /\ u.alert.kind = "trigger"
                               /\ u.time <= t.time /\ GivenUp(u)
    BY <2>6 DEF ToldInVain
  <2>8. SameEpisode(u, x) /\ u.time <= x.time
    BY <1>1, <1>6, <2>5, <2>7, MessageTypes DEF SameEpisode
  <2> QED
    BY <2>7, <2>8 DEF ToldInVain
<1> QED
  BY <1>8, <1>9

LEMMA SpacedStep ==
    ASSUME AlertInv, MessageInv, UniqueIds, TriggersAreSpaced, [Next]_vars, misread' = {},
           InEventOrder /\ Cooldown > 0 => ScheduleInv
    PROVE  TriggersAreSpaced'
<1>0. misread = {}
  BY StepGrows
<1> SUFFICES ASSUME InEventOrder', NEW m \in published', NEW n \in published',
                    SameEpisode(m, n), m.alert.kind = "trigger", n.alert.kind = "trigger",
                    m.time < n.time
             PROVE  m.time + Cooldown <= n.time \/ ToldInVain(m)'
  BY DEF TriggersAreSpaced, SameEpisode
<1>1. InEventOrder
  BY OrderStays
<1>2. CASE m \in published /\ n \in published
  BY <1>0, <1>1, <1>2, VainStays DEF TriggersAreSpaced
<1>3. CASE Publish /\ ~(m \in published /\ n \in published)
  <2>1. PICK x : Decides(x, Current, job.rule) /\ published' = published \cup {x}
    BY <1>3, Sent
  <2>2. Deciding(Current, job.rule) /\ x \notin published
    BY <1>3, <2>1, DecidingNow DEF Publish
  <2>3. /\ x \in Message /\ x.esp = EspOf[Current] /\ x.rule = job.rule /\ x.time \in Nat
        /\ x.alert.kind = "trigger" => job.rule \in TrigOf[Current]
    BY <2>1 DEF Decides, Message
  <2>4. CASE n = x /\ m \in published
    <3>1. m \in Triggers(EspOf[Current], job.rule, x.alert.episode) /\ m.time \in Nat
      BY <2>3, <2>4, MessageTypes DEF Triggers, SameEpisode
    <3>2. CASE Cooldown > 0
      <4>1. m.time + Cooldown <= n.time \/ ToldInVain(m)
        BY <1>1, <2>1, <2>2, <2>3, <2>4, <3>1, <3>2, SentKeepsDistance
      <4> QED
        BY <4>1, VainStays
    <3>3. CASE Cooldown = 0
      BY <2>3, <2>4, <3>1, <3>3
    <3> QED
      BY <3>2, <3>3, AlertAssumption
  <2>5. CASE m = x /\ n \in published
    <3>1. n \in Triggers(EspOf[Current], job.rule, x.alert.episode) /\ n.time \in Nat
      BY <2>3, <2>5, MessageTypes DEF Triggers, SameEpisode
    <3>2. CASE Cooldown > 0
      <4>1. m.time + Cooldown <= n.time \/ ToldInVain(m)
        BY <1>1, <2>1, <2>2, <2>3, <2>5, <3>1, <3>2, SentKeepsDistance
      <4> QED
        BY <4>1, VainStays
    <3>3. CASE Cooldown = 0
      BY <2>3, <2>5, <3>1, <3>3
    <3> QED
      BY <3>2, <3>3, AlertAssumption
  <2>6. CASE m = x /\ n = x
    BY <2>3, <2>6
  <2> QED
    BY <1>3, <2>1, <2>4, <2>5, <2>6
<1> QED
  BY <1>2, <1>3, WhoWrites

-----------------------------------------------------------------------------
(* Where the rows and the triggers of an episode come from.                *)
WritesRow(e, k) == WriteRow /\ e = EspOf[Current] /\ k = job.rule

LEMMA RowsMove ==
    ASSUME AlertInv, MessageInv, [Next]_vars, NEW e \in Pump, NEW k \in Rule
    PROVE  /\ WritesRow(e, k) => rows'[<<e, k>>] = job.row
           /\ ~WritesRow(e, k) => rows'[<<e, k>>] = rows[<<e, k>>]
<1>1. CASE rows' = rows /\ ~WriteRow
  BY <1>1 DEF WritesRow
<1>2. CASE WriteRow
  <2>1. /\ rows' = [rows EXCEPT ![<<EspOf[Current], job.rule>>] = job.row]
        /\ rows \in [Pump \X Rule -> Row \cup {NoRow}]
    BY <1>2 DEF WriteRow, AlertInv, TypeOK
  <2>2. <<e, k>> \in Pump \X Rule
    OBVIOUS
  <2>3. <<e, k>> = <<EspOf[Current], job.rule>> <=> e = EspOf[Current] /\ k = job.rule
    OBVIOUS
  <2> QED
    BY <1>2, <2>1, <2>2, <2>3 DEF WritesRow
<1> QED
  BY <1>1, <1>2, WhoWrites

LEMMA NewTrigger ==
    ASSUME AlertInv, [Next]_vars, misread' = {}, NEW e \in Pump, NEW k \in Rule, NEW episode \in Id
    PROVE  /\ Triggers(e, k, episode) \subseteq Triggers(e, k, episode)'
           /\ \A x \in Triggers(e, k, episode)' \ Triggers(e, k, episode) :
                /\ Publish /\ Deciding(Current, job.rule) /\ x \notin published
                /\ Decides(x, Current, job.rule)
                /\ e = EspOf[Current] /\ k = job.rule /\ k \in TrigOf[Current]
                /\ x.alert.episode = episode
                /\ published' = published \cup {x}
                /\ UNCHANGED <<stream, mappingVars, rows, failed>>
                /\ job' = JobAt("write", job.pos, job.rule, Decision)
<1>1. Triggers(e, k, episode) \subseteq Triggers(e, k, episode)'
  BY NothingIsUndone DEF Triggers
<1>2. ASSUME NEW x \in Triggers(e, k, episode)', x \notin Triggers(e, k, episode)
      PROVE  /\ Publish /\ Deciding(Current, job.rule) /\ x \notin published
             /\ Decides(x, Current, job.rule)
             /\ e = EspOf[Current] /\ k = job.rule /\ k \in TrigOf[Current]
             /\ x.alert.episode = episode
             /\ published' = published \cup {x}
             /\ UNCHANGED <<stream, mappingVars, rows, failed>>
             /\ job' = JobAt("write", job.pos, job.rule, Decision)
  <2>1. x \in published' /\ x \notin published /\ x.esp = e /\ x.rule = k
        /\ x.alert.kind = "trigger" /\ x.alert.episode = episode
    BY <1>2 DEF Triggers
  <2>2. Publish
    BY <2>1, WhoWrites
  <2>3. PICK y : /\ Decides(y, Current, job.rule)
                 /\ published' = published \cup {y}
                 /\ UNCHANGED <<stream, mappingVars, rows, failed>>
                 /\ job' = JobAt("write", job.pos, job.rule, Decision)
    BY <2>2, Sent
  <2>4. x = y
    BY <2>1, <2>3
  <2>5. Deciding(Current, job.rule)
    BY <2>2, DecidingNow DEF Publish
  <2>6. e = EspOf[Current] /\ k = job.rule /\ k \in TrigOf[Current]
    BY <2>1, <2>3, <2>4 DEF Decides
  <2> QED
    BY <2>1, <2>2, <2>3, <2>4, <2>5, <2>6
<1> QED
  BY <1>1, <1>2

(* And what a new trigger of an open episode says of it.                   *)
LEMMA NewTriggerOfOpen ==
    ASSUME AlertInv, MessageInv, Deciding(Current, job.rule),
           NEW x, Decides(x, Current, job.rule), job.rule \in TrigOf[Current],
           NEW e \in Pump, NEW k \in Rule, e = EspOf[Current], k = job.rule,
           IsActive(rows[<<e, k>>])
    PROVE  /\ x.alert.episode = rows[<<e, k>>].episode
           /\ \E l \in Triggers(e, k, x.alert.episode) :
                 /\ l.time + Cooldown = rows[<<e, k>>].until
                 /\ l.time + Cooldown <= x.time /\ l.time <= x.time
<1>1. x.alert.episode = rows[<<e, k>>].episode /\ rows[<<e, k>>].until <= x.time
      /\ x.time \in Nat
  BY DEF Decides, EpisodeOf, Message
<1>2. PICK l \in Triggers(e, k, x.alert.episode) : l.time + Cooldown = rows[<<e, k>>].until
  BY <1>1, RowIsTold
<1>3. l.time \in Nat /\ Cooldown \in Nat
  BY <1>2, MessageTypes, AlertAssumption DEF Triggers
<1> QED
  BY <1>1, <1>2, <1>3

LEMMA OpenerIsToldStep ==
    ASSUME AlertInv, MessageInv, [Next]_vars, misread' = {},
           NEW e \in Pump, NEW k \in Rule, NEW episode \in Id, OpenerIsTold(e, k, episode)
    PROVE  OpenerIsTold(e, k, episode)'
<1> DEFINE T == Triggers(e, k, episode)
<1> SUFFICES ASSUME NEW m \in T'
             PROVE  \E o \in T' : o.alert.event = episode /\ o.time <= m.time
  BY DEF OpenerIsTold
<1>1. CASE m \in T
  BY <1>1, NewTrigger DEF OpenerIsTold
<1>2. CASE m \notin T
  <2>1. /\ Deciding(Current, job.rule) /\ Decides(m, Current, job.rule)
        /\ e = EspOf[Current] /\ k = job.rule /\ k \in TrigOf[Current]
        /\ m.alert.episode = episode
    BY <1>2, NewTrigger
  <2>2. CASE IsActive(rows[<<e, k>>])
    <3>1. PICK l \in T : l.time <= m.time
      BY <2>1, <2>2, NewTriggerOfOpen
    <3>2. PICK o \in T : o.alert.event = episode /\ o.time <= l.time
      BY DEF OpenerIsTold
    <3>3. o.time \in Nat /\ l.time \in Nat /\ m.time \in Nat
      BY <2>1, MessageTypes DEF Triggers, Decides, Message
    <3> QED
      BY <3>1, <3>2, <3>3, NewTrigger
  <2>3. CASE ~IsActive(rows[<<e, k>>])
    <3>1. m.alert.event = episode /\ m.time \in Nat
      BY <2>1, <2>3 DEF Decides, EpisodeOf, Message
    <3> QED
      BY <3>1
  <2> QED
    BY <2>2, <2>3
<1> QED
  BY <1>1, <1>2

(* The gaps between an episode's triggers stay covered, for what arrives   *)
(* late and for what is sent again out of turn.                            *)
LEMMA NoGapStep ==
    ASSUME AlertInv, MessageInv, UniqueIds, InEventOrder', [Next]_vars, misread' = {},
           Cooldown > 0, ScheduleInv,
           NEW e \in Pump, NEW k \in Rule, NEW episode \in Id
    PROVE  NoGap(e, k, episode)'
<1> DEFINE T == Triggers(e, k, episode)
           row == rows[<<e, k>>]
<1>0. /\ InEventOrder
      /\ NoGap(e, k, episode) /\ OpenerIsTold(e, k, episode) /\ RowCovers(e, k)
  BY OrderStays DEF ScheduleInv
<1> SUFFICES ASSUME NEW m \in T', NEW n \in T', NEW i \in (ckpt' + 1)..Len(stream'),
                    stream'[i] \in Readable, EspOf[stream'[i]] = e,
                    k \in TrigOf[stream'[i]],
                    m.time <= TimeOf[stream'[i]], TimeOf[stream'[i]] <= n.time
             PROVE  \E t \in T' : /\ t.time <= TimeOf[stream'[i]]
                                  /\ TimeOf[stream'[i]] < t.time + Cooldown
  BY DEF NoGap
<1>1. /\ i \in Positions' /\ i \in Nat /\ ckpt <= ckpt' /\ ckpt \in Nat /\ ckpt' \in Nat
      /\ ckpt + 1 <= i /\ i \in Nat /\ Len(stream) \in Nat
      /\ T \subseteq T' /\ Cooldown \in Nat /\ TimeOf[stream'[i]] \in Nat
  <2>1. ckpt \in Nat /\ ckpt' \in Nat /\ ckpt <= ckpt' /\ Len(stream') \in Nat
        /\ Len(stream) \in Nat /\ stream' \in Seq(Record)
    BY NothingIsUndone
  <2>2. i \in Positions' /\ i \in Nat /\ ckpt + 1 <= i
    BY <2>1 DEF Positions
  <2>3. stream'[i] \in Record
    BY <2>1, <2>2 DEF Positions
  <2> QED
    BY <2>1, <2>2, <2>3, NewTrigger, AlertAssumption
<1>2. CASE m \in T /\ n \in T /\ i <= Len(stream)
  <2>1. i \in Positions /\ i \in (ckpt + 1)..Len(stream) /\ stream'[i] = stream[i]
    BY <1>1, <1>2, NothingIsUndone DEF Positions
  <2>2. \E t \in T : /\ t.time <= TimeOf[stream[i]]
                     /\ TimeOf[stream[i]] < t.time + Cooldown
    BY <1>0, <1>2, <2>1 DEF NoGap
  <2> QED
    BY <1>1, <2>1, <2>2
<1>3. CASE m \in T /\ n \in T /\ i > Len(stream)
  <2>1. PICK j \in Positions : Told(j, n)
    BY <1>3 DEF MessageInv, Triggers
  <2>2. /\ j \in Positions' /\ stream'[j] = stream[j] /\ j <= i
        /\ EspOf[stream[j]] = e /\ TimeOf[stream[j]] = n.time
    BY <1>1, <1>3, <2>1, NothingIsUndone DEF Positions, Told, Of, Triggers
  <2>3. n.time <= TimeOf[stream'[i]] /\ n.time \in Nat
    BY <1>1, <2>2, OrderNext
  <2> QED
    BY <1>1, <1>3, <2>3
<1>4. ASSUME NEW x \in T', x \notin T, x = m \/ x = n
      PROVE  \E t \in T' : /\ t.time <= TimeOf[stream'[i]]
                           /\ TimeOf[stream'[i]] < t.time + Cooldown
  <2>1. /\ Publish /\ Deciding(Current, job.rule) /\ x \notin published
        /\ Decides(x, Current, job.rule)
        /\ e = EspOf[Current] /\ k = job.rule /\ k \in TrigOf[Current]
        /\ x.alert.episode = episode
        /\ published' = published \cup {x}
        /\ UNCHANGED <<stream, mappingVars, rows, failed>>
    BY <1>4, NewTrigger
  <2>2. /\ i \in Positions /\ stream'[i] = stream[i] /\ i \in (ckpt + 1)..Len(stream)
        /\ job.pos \in Positions /\ stream[job.pos] = Current
        /\ x.time = TimeOf[Current] /\ x.time \in Nat
    BY <1>1, <2>1 DEF mappingVars, Positions, Deciding, Current, Decides, Message
  <2>3. T' = T \cup {x}
    BY <2>1 DEF Triggers, Decides
  <2>4. ASSUME NEW t \in T
        PROVE  IsActive(row)
    BY <1>0, <2>1, OpenerAgain
  <2>5. CASE x.time = TimeOf[stream[i]]
    BY <1>1, <2>2, <2>5, <1>4
  <2>6. CASE x = n /\ x.time # TimeOf[stream[i]]
    <3>1. m \in T /\ TimeOf[stream[i]] < x.time
      BY <1>1, <2>2, <2>3, <2>6
    <3>2. IsActive(row)
      BY <2>4, <3>1
    <3>3. PICK l \in T : l.time + Cooldown = row.until
      BY <2>1, <3>2, NewTriggerOfOpen
    <3>4. Past(i, k)
      <4>1. i < job.pos
        <5>1. EspOf[stream[i]] = EspOf[stream[job.pos]]
          BY <2>1, <2>2
        <5>2. TimeOf[stream[i]] < TimeOf[stream[job.pos]]
          BY <2>2, <3>1
        <5> QED
          BY <1>0, <2>2, <5>1, <5>2, OrderNow
      <4> QED
        BY <2>1, <2>2, <4>1, PastWhenDeciding
    <3>5. TimeOf[stream[i]] < l.time + Cooldown
      BY <1>0, <2>2, <3>2, <3>3, <3>4 DEF RowCovers
    <3>6. CASE l.time <= TimeOf[stream[i]]
      BY <1>1, <2>2, <3>5, <3>6
    <3>7. CASE TimeOf[stream[i]] <= l.time
      <4>1. \E t \in T : /\ t.time <= TimeOf[stream[i]]
                         /\ TimeOf[stream[i]] < t.time + Cooldown
        BY <1>0, <2>2, <3>1, <3>7 DEF NoGap
      <4> QED
        BY <1>1, <2>2, <4>1
    <3>8. l.time \in Nat
      BY MessageTypes DEF Triggers
    <3> QED
      BY <1>1, <2>2, <3>6, <3>7, <3>8
  <2>7. CASE x = m /\ x # n
    <3>1. n \in T
      BY <2>3, <2>7
    <3>2. IsActive(row)
      BY <2>4, <3>1
    <3>3. PICK l \in T : l.time <= x.time
      BY <2>1, <3>2, NewTriggerOfOpen
    <3>4. l.time <= TimeOf[stream[i]]
      <4>1. l.time \in Nat
        BY MessageTypes DEF Triggers
      <4> QED
        BY <1>1, <2>2, <2>7, <3>3, <4>1
    <3>5. \E t \in T : /\ t.time <= TimeOf[stream[i]]
                       /\ TimeOf[stream[i]] < t.time + Cooldown
      BY <1>0, <2>2, <3>1, <3>4 DEF NoGap
    <3> QED
      BY <1>1, <2>2, <3>5
  <2>8. CASE x = m /\ x = n /\ x.time # TimeOf[stream[i]]
    BY <1>1, <2>2, <2>8
  <2> QED
    BY <1>4, <2>5, <2>6, <2>7, <2>8
<1> QED
  BY <1>1, <1>2, <1>3, <1>4

(* A delivery that stays quiet about an anomaly of an open episode meets   *)
(* one that is in the row's cooldown.                                      *)
LEMMA QuietIsCovered ==
    ASSUME AlertInv, MessageInv, UniqueIds, StayQuiet, misread' = {},
           Deciding(Current, job.rule), NEW e \in Pump, NEW k \in Rule,
           e = EspOf[Current], k = job.rule, IsActive(rows[<<e, k>>]), Cooldown > 0
    PROVE  /\ k \in TrigOf[Current]
           /\ TimeOf[Current] < rows[<<e, k>>].until
           /\ \/ rows[<<e, k>>].last.event # IdOf[Current]
              \/ rows[<<e, k>>].until = TimeOf[Current] + Cooldown
<1> DEFINE row == rows[<<e, k>>]
<1>1. PICK r \in Record : r = Current
  BY DEF Deciding
<1>2. row \in Row /\ row # NoRow /\ Decide(row, k, r) = NoRow
  BY <1>1, FreshReads DEF QuietOn, CurrentRow, IsActive, Deciding
<1>3. row.active <=> row.last.kind = "trigger"
  BY <1>2 DEF AlertInv, Backed
<1>4. /\ IsActive(row) <=> k \in TrigOf[r]
      /\ k \in TrigOf[r] =>
           \/ TimeOf[r] < row.until
           \/ row.last.kind = "trigger" /\ row.last.event = IdOf[r]
  <2> HIDE DEF row
  <2> QED
    BY <1>2, <1>3, DecideQuiet
<1>5. PICK l \in published : l.alert = row.last /\ l.time + Cooldown = row.until
  BY RowIsTold DEF Triggers
<1>6. row.last.event = IdOf[r] => row.until = TimeOf[r] + Cooldown
  BY <1>1, <1>5, SameEvent
<1>7. TimeOf[r] \in Nat /\ Cooldown \in Nat
  BY AlertAssumption
<1>8. k \in TrigOf[r]
  BY <1>4
<1>9. TimeOf[r] < row.until
  BY <1>4, <1>6, <1>7, <1>8
<1> QED
  BY <1>1, <1>6, <1>8, <1>9

LEMMA RowCoversStep ==
    ASSUME AlertInv, AlertInv', MessageInv, UniqueIds, InEventOrder', [Next]_vars, misread' = {},
           Cooldown > 0, NEW e \in Pump, NEW k \in Rule, RowCovers(e, k)
    PROVE  RowCovers(e, k)'
<1> DEFINE row == rows[<<e, k>>]
<1> SUFFICES ASSUME IsActive(row)', NEW i \in (ckpt' + 1)..Len(stream'),
                    stream'[i] \in Readable, EspOf[stream'[i]] = e, Past(i, k)'
             PROVE  TimeOf[stream'[i]] < row'.until
  BY DEF RowCovers
<1>0. InEventOrder /\ Cooldown \in Nat
  BY OrderStays, AlertAssumption
<1>1. /\ ckpt \in Nat /\ ckpt' \in Nat /\ ckpt <= ckpt'
      /\ Len(stream) \in Nat /\ Len(stream') \in Nat
  BY NothingIsUndone
<1>2. i \in Positions
  <2>1. CASE stream' = stream
    BY <1>1, <2>1 DEF Positions
  <2>2. CASE UNCHANGED <<mappingVars, alertVars, job>>
    <3>1. Past(i, k) /\ i > ckpt
      BY <1>1, <2>2 DEF Past, Busy, mappingVars
    <3>2. Busy /\ TypeOK /\ JobInv
      BY <1>1, <3>1 DEF Past, AlertInv
    <3>3. /\ job.end \in Positions /\ job.end \in Nat /\ job.pos \in Nat
          /\ job.pos <= job.end + 1
          /\ job.at # "record" => job.pos <= job.end
      BY <3>2, JobPositions, NumbersInJob DEF JobInv
    <3> QED
      BY <1>1, <3>1, <3>3 DEF Past, Positions
  <2> QED
    BY <2>1, <2>2, WhoWrites
<1>3. /\ stream'[i] = stream[i] /\ ~Pointed(i)' /\ i \in Nat /\ i \in (ckpt + 1)..Len(stream)
      /\ stream[i] \in Readable /\ EspOf[stream[i]] = e
  <2>1. stream'[i] = stream[i]
    BY <1>2, NothingIsUndone
  <2>2. i \in (ckpt + 1)..Len(stream) /\ i \notin 1..ckpt'
    BY <1>1, <1>2 DEF Positions
  <2>3. ~Pointed(i)'
    <3>1. PointersAreBehind'
      BY DEF AlertInv
    <3>2. i \notin 1..ckpt'
      BY <2>2
    <3> QED
      BY <3>1, <3>2 DEF PointersAreBehind, Pointed
  <2> QED
    BY <1>1, <2>1, <2>2, <2>3
<1>4. \/ Past(i, k)
      \/ i = job.pos /\ k = job.rule /\ (StayQuiet \/ WriteRow)
  BY <1>2, <1>3, PastStep DEF PastMoves
<1>5. CASE WritesRow(e, k)
  <2>1. Deciding(Current, job.rule) /\ e = EspOf[Current] /\ k = job.rule
    BY <1>5, DecidingNow DEF WritesRow, WriteRow
  <2>2. job.pos \in Positions /\ stream[job.pos] = Current /\ job.pos \in Nat
    BY <2>1 DEF Deciding, Current
  <2>3. PICK x \in published :
          /\ Decides(x, Current, job.rule)
          /\ job.row.active => job.row.until = x.time + Cooldown
    BY <1>5, Written DEF WritesRow
  <2>4. row'.until = TimeOf[Current] + Cooldown
    <3>1. row' = job.row /\ job.row.active
      BY <1>5, RowsMove DEF IsActive
    <3> QED
      BY <2>3, <3>1 DEF Decides
  <2>5. i <= job.pos
    BY <1>2, <1>3, <1>4, <2>1, <2>2, PastWhenDeciding
  <2>6. /\ TimeOf[stream[i]] <= TimeOf[stream[job.pos]]
        /\ TimeOf[stream[i]] \in Nat /\ TimeOf[stream[job.pos]] \in Nat
    BY <1>0, <1>2, <1>3, <2>1, <2>2, <2>5, OrderNow
  <2> QED
    BY <1>0, <1>3, <2>2, <2>4, <2>6
<1>6. CASE ~WritesRow(e, k)
  <2>1. row' = row /\ IsActive(row)
    BY <1>6, RowsMove DEF IsActive
  <2>2. CASE Past(i, k)
    BY <1>3, <2>1, <2>2 DEF RowCovers
  <2>3. CASE i = job.pos /\ k = job.rule /\ StayQuiet
    <3>1. Deciding(Current, job.rule) /\ e = EspOf[Current]
      BY <1>3, <2>3, DecidingNow DEF StayQuiet, Current
    <3>2. TimeOf[Current] < row.until
      BY <2>1, <2>3, <3>1, QuietIsCovered
    <3> QED
      BY <1>3, <2>1, <2>3, <3>2 DEF Current
  <2>4. CASE i = job.pos /\ k = job.rule /\ WriteRow
    BY <1>3, <1>6, <2>4 DEF WritesRow, Current
  <2> QED
    BY <1>4, <2>2, <2>3, <2>4
<1> QED
  BY <1>5, <1>6

LEMMA RowKnowsStep ==
    ASSUME AlertInv, MessageInv, UniqueIds, InEventOrder', [Next]_vars, misread' = {},
           Cooldown > 0, TriggersAreSpaced,
           NEW e \in Pump, NEW k \in Rule, RowKnows(e, k)
    PROVE  RowKnows(e, k)'
<1> DEFINE row == rows[<<e, k>>]
<1> SUFFICES ASSUME IsActive(row)', NEW m \in Triggers(e, k, rows[<<e, k>>].episode)',
                    row'.until < m.time + Cooldown
             PROVE  \/ \E i \in Positions' : Told(i, m)' /\ ~Past(i, k)'
                    \/ ToldInVain(m)'
  BY DEF RowKnows
<1>0. InEventOrder /\ Cooldown \in Nat
  BY OrderStays, AlertAssumption
<1>1. CASE WritesRow(e, k)
  <2>1. Deciding(Current, job.rule) /\ e = EspOf[Current] /\ k = job.rule
    BY <1>1, DecidingNow DEF WritesRow, WriteRow
  <2>2. job.pos \in Positions /\ stream[job.pos] = Current /\ job.pos \in Nat
    BY <2>1 DEF Deciding, Current
  <2>3. PICK x \in published :
          /\ Decides(x, Current, job.rule)
          /\ job.row.active => job.row.until = x.time + Cooldown
          /\ UNCHANGED <<stream, mappingVars, published, repeated, failed>>
    BY <1>1, Written DEF WritesRow
  <2>4. row'.until = TimeOf[Current] + Cooldown
    <3>1. row' = job.row /\ job.row.active
      BY <1>1, RowsMove DEF IsActive
    <3> QED
      BY <2>3, <3>1 DEF Decides
  <2>5. m \in published /\ m.esp = e /\ m.rule = k
    BY <2>3 DEF Triggers
  <2>6. PICK i \in Positions : Told(i, m)
    BY <2>5 DEF MessageInv
  <2>7. EspOf[stream[i]] = EspOf[stream[job.pos]] /\ TimeOf[stream[i]] = m.time
    BY <2>1, <2>2, <2>5, <2>6 DEF Told, Of
  <2>8. TimeOf[stream[job.pos]] < TimeOf[stream[i]]
    <3>1. TimeOf[stream[i]] \in Nat /\ TimeOf[stream[job.pos]] \in Nat
      BY <1>0, <2>2, <2>7, OrderNow
    <3> QED
      BY <1>0, <2>2, <2>4, <2>7, <3>1
  <2>9. job.pos < i
    BY <1>0, <2>2, <2>7, <2>8, OrderNow
  <2>a. ~Past(i, k) /\ i # job.pos
    BY <2>1, <2>2, <2>9, PastWhenDeciding DEF Positions
  <2>b. ~Past(i, k)'
    <3>1. job.at = "write" /\ NextRule /\ ckpt' = ckpt
      BY <1>1, <2>3 DEF WritesRow, WriteRow, mappingVars
    <3> QED
      BY <2>a, <3>1, NextRulePasses
  <2> QED
    BY <2>6, <2>b, FactsStay, NothingIsUndone
<1>2. CASE ~WritesRow(e, k)
  <2>1. row' = row /\ IsActive(row)
    BY <1>2, RowsMove DEF IsActive
  <2>2. row.until \in Nat /\ row.episode \in Id
    BY <2>1, RowIsTold
  <2> DEFINE T == Triggers(e, k, row.episode)
  <2>3. CASE m \in T
    <3>1. CASE ToldInVain(m)
      BY <3>1, VainStays
    <3>2. ASSUME NEW i \in Positions, Told(i, m), ~Past(i, k), Past(i, k)'
          PROVE  ToldInVain(m)'
      <4>1. \/ Pointed(i)'
            \/ stream[i] \notin Readable
            \/ i = job.pos /\ k = job.rule /\ (StayQuiet \/ WriteRow)
        BY <3>2, PastStep DEF PastMoves
      <4>2. /\ stream[i] \in Readable /\ EspOf[stream[i]] = e /\ Of(i, m)
            /\ IdOf[stream[i]] = m.alert.event /\ TimeOf[stream[i]] = m.time
        BY <2>3, <3>2 DEF Told, Of, Triggers
      <4>3. m \in published' /\ m.alert.kind = "trigger" /\ m.time \in Nat
        BY <2>3, NothingIsUndone, MessageTypes DEF Triggers
      <4>4. CASE Pointed(i)'
        <5>1. GivenUp(m)'
          BY <4>2, <4>4, FactsStay, NothingIsUndone DEF GivenUp
        <5> QED
          BY <4>3, <5>1 DEF ToldInVain, SameEpisode
      <4>5. CASE i = job.pos /\ k = job.rule /\ WriteRow
        BY <1>2, <4>2, <4>5 DEF WritesRow, Current
      <4>6. CASE i = job.pos /\ k = job.rule /\ StayQuiet
        <5>1. Deciding(Current, job.rule) /\ e = EspOf[Current] /\ stream[i] = Current
          BY <4>2, <4>6, DecidingNow DEF StayQuiet, Current
        <5>2. m.time < row.until
          BY <2>1, <4>2, <4>6, <5>1, QuietIsCovered
        <5>3. PICK l \in T : l.time + Cooldown = row.until
          BY <2>1, RowIsTold
        <5>4. /\ l \in published /\ m \in published /\ SameEpisode(l, m)
              /\ l.alert.kind = "trigger" /\ l.time \in Nat
          BY <2>3, <5>3, MessageTypes DEF Triggers, SameEpisode
        <5>5. l.time < m.time /\ ~(l.time + Cooldown <= m.time)
          BY <1>0, <2>1, <2>2, <4>3, <5>2, <5>3, <5>4
        <5>6. ToldInVain(l)
          BY <1>0, <4>3, <5>4, <5>5, StepGrows DEF TriggersAreSpaced
        <5>7. PICK t \in published : /\ SameEpisode(t, l) /\ t.alert.kind = "trigger"
                                     /\ t.time <= l.time /\ GivenUp(t)
          BY <5>6 DEF ToldInVain
        <5>8. SameEpisode(t, m) /\ t.time <= m.time
          BY <4>3, <5>4, <5>5, <5>7, MessageTypes DEF SameEpisode
        <5>9. ToldInVain(m)
          BY <5>7, <5>8 DEF ToldInVain
        <5> QED
          BY <5>9, VainStays
      <4> QED
        BY <4>1, <4>2, <4>4, <4>5, <4>6
    <3>3. \/ \E i \in Positions : Told(i, m) /\ ~Past(i, k)
          \/ ToldInVain(m)
      BY <2>1, <2>3 DEF RowKnows
    <3> QED
      BY <3>1, <3>2, <3>3, FactsStay, NothingIsUndone
  <2>4. CASE m \notin T
    <3>0. PICK episode \in Id : episode = row.episode
      BY <2>2
    <3>1. /\ Deciding(Current, job.rule) /\ Decides(m, Current, job.rule)
          /\ k = job.rule /\ UNCHANGED <<stream, mappingVars, rows, failed>>
          /\ job' = JobAt("write", job.pos, job.rule, Decision)
      <4>1. m \in Triggers(e, k, episode)' /\ m \notin Triggers(e, k, episode)
        BY <2>1, <2>4, <3>0 DEF Triggers
      <4> QED
        BY <4>1, NewTrigger
    <3>2. PICK i \in Positions : i = job.pos /\ Told(i, m)
      BY <3>1, DecidesTells DEF Deciding
    <3>3. ~Past(i, k)'
      BY <3>1, <3>2, AlertAssumption DEF Past, JobAt, Deciding, mappingVars, Rule
    <3>4. Told(i, m)' /\ i \in Positions'
      BY <3>2, FactsStay, NothingIsUndone
    <3> QED
      BY <3>3, <3>4
  <2> QED
    BY <2>3, <2>4
<1> QED
  BY <1>1, <1>2

LEMMA ScheduleStep ==
    ASSUME AlertInv, AlertInv', MessageInv, UniqueIds, InEventOrder', [Next]_vars, misread' = {},
           Cooldown > 0, TriggersAreSpaced, ScheduleInv
    PROVE  ScheduleInv'
<1> SUFFICES ASSUME NEW e \in Pump, NEW k \in Rule
             PROVE  /\ RowCovers(e, k)' /\ RowKnows(e, k)'
                    /\ \A episode \in Id : /\ OpenerIsTold(e, k, episode)'
                                           /\ NoGap(e, k, episode)'
  BY DEF ScheduleInv
<1>1. RowCovers(e, k) /\ RowKnows(e, k)
      /\ \A episode \in Id : OpenerIsTold(e, k, episode)
  BY DEF ScheduleInv
<1>2. RowCovers(e, k)'
  BY <1>1, RowCoversStep
<1>3. RowKnows(e, k)'
  BY <1>1, RowKnowsStep
<1>4. ASSUME NEW episode \in Id
      PROVE  OpenerIsTold(e, k, episode)' /\ NoGap(e, k, episode)'
  BY <1>1, <1>4, OpenerIsToldStep, NoGapStep
<1> QED
  BY <1>2, <1>3, <1>4

-----------------------------------------------------------------------------
(* Messages that go out once.                                              *)
LEMMA FailedStays ==
    ASSUME AlertInv, MessageInv, [Next]_vars, NEW m, WasInFailedBatch(m)
    PROVE  WasInFailedBatch(m)'
<1>1. PICK i \in failed : Of(i, m)
  BY DEF WasInFailedBatch
<1>2. i \in Positions /\ i \in failed'
  BY NothingIsUndone DEF MessageInv
<1> QED
  BY <1>1, <1>2, FactsStay DEF WasInFailedBatch

(* What a delivery has behind it of a message stays behind, or a failed    *)
(* delivery had it.                                                        *)
LEMMA PastOrFailed ==
    ASSUME AlertInv, [Next]_vars, NEW i \in Positions, NEW k \in Rule,
           NEW m, Of(i, m), Past(i, k), ~WasInFailedBatch(m)'
    PROVE  Past(i, k)'
<1> SUFFICES ASSUME ckpt < i, (ckpt + 1)..i \subseteq failed'
             PROVE  FALSE
  BY PastStep DEF PastMoves
<1>1. ckpt \in Nat /\ i \in Nat
  BY NothingIsUndone, FactsStay
<1>2. i \in failed'
  BY <1>1
<1> QED
  BY <1>2, FactsStay DEF WasInFailedBatch

LEMMA EachMessageOnceStep ==
    ASSUME AlertInv, MessageInv, UniqueIds, EachMessageOnce, InEventOrder => OnceInv,
           [Next]_vars, misread' = {}
    PROVE  EachMessageOnce'
<1> SUFFICES ASSUME InEventOrder'
             PROVE  /\ \A m \in repeated' : WasInFailedBatch(m)'
                    /\ \A m, n \in published' :
                          /\ SameEpisode(m, n)
                          /\ m.alert.kind = "recovery" /\ n.alert.kind = "recovery"
                          => m = n \/ WasInFailedBatch(m)' \/ WasInFailedBatch(n)'
  BY DEF EachMessageOnce, SameEpisode
<1>0. InEventOrder /\ OnceInv /\ misread = {}
  BY OrderStays, StepGrows
<1>1. ASSUME Publish, NEW x, Decides(x, Current, job.rule), x \in published
      PROVE  WasInFailedBatch(x)
  <2> SUFFICES ASSUME ~WasInFailedBatch(x)
               PROVE  FALSE
    OBVIOUS
  <2>1. /\ Deciding(Current, job.rule) /\ job.at # "write"
        /\ x.esp = EspOf[Current] /\ x.rule = job.rule
    BY <1>1, DecidingNow DEF Publish, Decides
  <2>2. Settled(x)
    BY <1>0, <1>1, <2>1 DEF OnceInv, InHand
  <2>3. rows[<<x.esp, x.rule>>] # NoRow => rows[<<x.esp, x.rule>>].last # x.alert
    BY <1>1, <2>1 DEF Decides
  <2>4. \A i \in Positions : Told(i, x) => Past(i, x.rule)
    BY <2>2, <2>3 DEF Settled
  <2>5. job.pos \in Positions /\ job.pos \in Nat /\ Told(job.pos, x)
    BY <1>1, <2>1, DecidesTells DEF Deciding
  <2> QED
    BY <2>1, <2>4, <2>5, PastWhenDeciding
<1>2. ASSUME NEW m \in repeated'
      PROVE  WasInFailedBatch(m)'
  <2>1. CASE m \in repeated
    BY <1>0, <2>1, FailedStays DEF EachMessageOnce
  <2>2. CASE m \notin repeated
    <3>1. Publish /\ \E x : Decides(x, Current, job.rule) /\ m = x /\ x \in published
      BY <1>2, <2>2, WhoWrites, Sent
    <3> QED
      BY <1>1, <3>1, FailedStays
  <2> QED
    BY <2>1, <2>2
<1>3. ASSUME NEW x \in published', x \notin published, x.alert.kind = "recovery",
             NEW m \in published, m.alert.kind = "recovery", SameEpisode(m, x)
      PROVE  WasInFailedBatch(m)
  <2> SUFFICES ASSUME ~WasInFailedBatch(m)
               PROVE  FALSE
    OBVIOUS
  <2>1. Publish /\ Decides(x, Current, job.rule)
    BY <1>3, WhoWrites, Sent
  <2>2. /\ x.esp = EspOf[Current] /\ x.rule = job.rule /\ job.at # "write"
        /\ IsActive(rows[<<x.esp, x.rule>>])
        /\ x.alert.episode = rows[<<x.esp, x.rule>>].episode
    BY <1>3, <2>1 DEF Decides, Publish, EpisodeOf
  <2>3. Closed(m) /\ ~InHand(m)
    BY <1>0, <1>3, <2>2 DEF OnceInv, InHand
  <2> QED
    BY <1>3, <2>2, <2>3 DEF Closed, SameEpisode
<1>4. ASSUME NEW m \in published', NEW n \in published', SameEpisode(m, n),
             m.alert.kind = "recovery", n.alert.kind = "recovery", m # n
      PROVE  WasInFailedBatch(m)' \/ WasInFailedBatch(n)'
  <2>1. CASE m \in published /\ n \in published
    BY <1>0, <1>4, <2>1, FailedStays DEF EachMessageOnce
  <2>2. CASE m \in published /\ n \notin published
    BY <1>3, <1>4, <2>2, FailedStays
  <2>3. CASE m \notin published /\ n \in published
    BY <1>3, <1>4, <2>3, FailedStays DEF SameEpisode
  <2>4. CASE m \notin published /\ n \notin published
    BY <1>4, <2>4, WhoWrites, Sent
  <2> QED
    BY <2>1, <2>2, <2>3, <2>4
<1> QED
  BY <1>2, <1>4

LEMMA OpenedStays ==
    ASSUME AlertInv, [Next]_vars, NEW e \in Pump, NEW k \in Rule, NEW episode \in Id,
           Opened(e, k, episode)
    PROVE  Opened(e, k, episode)'
<1>1. PICK u \in Positions :
        /\ EspOf[stream[u]] = e /\ IdOf[stream[u]] = episode
        /\ k \in TrigOf[stream[u]]
        /\ Past(u, k) \/ (ckpt + 1)..u \subseteq failed
  BY DEF Opened
<1>2. u \in Positions' /\ stream'[u] = stream[u] /\ u \in Nat
      /\ ckpt \in Nat /\ ckpt' \in Nat /\ ckpt <= ckpt' /\ failed \subseteq failed'
  BY NothingIsUndone, FactsStay
<1>3. Past(u, k)' \/ (ckpt' + 1)..u \subseteq failed'
  <2>1. CASE Past(u, k)
    BY <2>1, PastStep DEF PastMoves
  <2>2. CASE (ckpt + 1)..u \subseteq failed
    BY <1>2, <2>2
  <2> QED
    BY <1>1, <2>1, <2>2
<1> QED
  BY <1>1, <1>2, <1>3 DEF Opened

LEMMA OpenStep ==
    ASSUME AlertInv, MessageInv, [Next]_vars, NEW e \in Pump, NEW k \in Rule,
           IsActive(rows[<<e, k>>]) => Opened(e, k, rows[<<e, k>>].episode),
           IsActive(rows[<<e, k>>])'
    PROVE  Opened(e, k, rows[<<e, k>>].episode)'
<1> DEFINE row == rows[<<e, k>>]
<1> SUFFICES ASSUME NEW episode, episode = row'.episode
             PROVE  Opened(e, k, episode)'
  BY DEF Opened
<1>1. CASE ~WritesRow(e, k)
  <2>1. IsActive(row) /\ row' = row /\ row.episode \in Id
    BY <1>1, RowsMove, RowIsTold DEF IsActive
  <2>2. Opened(e, k, episode) /\ episode \in Id
    BY <2>1
  <2> QED
    BY <2>2, OpenedStays
<1>2. CASE WritesRow(e, k)
  <2>1. /\ Deciding(Current, job.rule) /\ e = EspOf[Current] /\ k = job.rule
        /\ job.at = "write" /\ NextRule
    BY <1>2, DecidingNow DEF WritesRow, WriteRow
  <2>2. PICK x \in published :
          /\ Decides(x, Current, job.rule)
          /\ job.row.episode = x.alert.episode
          /\ job.row.active <=> job.rule \in TrigOf[Current]
          /\ UNCHANGED <<stream, mappingVars, published, repeated, failed>>
    BY <1>2, Written DEF WritesRow
  <2>3. row' = job.row /\ job.row.active
    BY <1>2, RowsMove DEF IsActive
  <2>4. episode = EpisodeOf(row, Current)
    BY <2>1, <2>2, <2>3 DEF Decides
  <2>5. CASE IsActive(row)
    <3>1. episode \in Id /\ Opened(e, k, episode)
      BY <2>4, <2>5, RowIsTold DEF EpisodeOf
    <3> QED
      BY <3>1, OpenedStays
  <2>6. CASE ~IsActive(row)
    <3>1. PICK u \in Positions : u = job.pos
      BY <2>1 DEF Deciding
    <3>2. /\ EspOf[stream[u]] = e /\ IdOf[stream[u]] = episode /\ k \in TrigOf[stream[u]]
      BY <2>1, <2>2, <2>3, <2>4, <2>6, <3>1 DEF EpisodeOf, Current
    <3>3. Past(u, k)'
      BY <2>1, <2>2, <3>1, NextRulePasses DEF mappingVars
    <3> QED
      BY <3>2, <3>3, NothingIsUndone DEF Opened
  <2> QED
    BY <2>5, <2>6
<1> QED
  BY <1>1, <1>2

(* A message that is settled has its record behind the delivery.           *)
LEMMA SettledIsPast ==
    ASSUME MessageInv, NEW m \in published, Settled(m)
    PROVE  \E i \in Positions : Told(i, m) /\ Past(i, m.rule)
BY DEF Settled, MessageInv

(* The recovery a delivery sends is of an episode that opened earlier.     *)
LEMMA RecoveryIsLater ==
    ASSUME AlertInv, MessageInv, UniqueIds, InEventOrder, OnceInv,
           Deciding(Current, job.rule), NEW x, Decides(x, Current, job.rule),
           x.alert.kind = "recovery", ~WasInFailedBatch(x)
    PROVE  \E i \in Positions : /\ EspOf[stream[i]] = x.esp
                                /\ IdOf[stream[i]] = x.alert.episode
                                /\ TimeOf[stream[i]] < x.time
<1> DEFINE e == EspOf[Current]
           k == job.rule
<1>1. /\ e \in Pump /\ k \in Rule /\ job.pos \in Positions /\ job.pos \in Nat
      /\ stream[job.pos] = Current /\ ckpt \in Nat /\ ckpt < job.pos
  BY DEF Deciding, Current
<1>2. /\ x.esp = e /\ x.time = TimeOf[Current] /\ k \notin TrigOf[Current]
      /\ IsActive(rows[<<e, k>>]) /\ x.alert.episode = rows[<<e, k>>].episode
  BY DEF Decides, EpisodeOf
<1>3. PICK u \in Positions :
        /\ EspOf[stream[u]] = e /\ IdOf[stream[u]] = x.alert.episode
        /\ k \in TrigOf[stream[u]]
        /\ Past(u, k) \/ (ckpt + 1)..u \subseteq failed
  BY <1>1, <1>2 DEF OnceInv, Opened
<1>4. u < job.pos
  <2>1. CASE Past(u, k)
    BY <2>1, PastWhenDeciding
  <2>2. ASSUME (ckpt + 1)..u \subseteq failed, job.pos <= u
        PROVE  FALSE
    <3>1. job.pos \in failed
      BY <1>1, <2>2 DEF Positions
    <3>2. Of(job.pos, x)
      BY DecidesTells DEF Told
    <3> QED
      BY <3>1, <3>2 DEF WasInFailedBatch
  <2> QED
    BY <1>1, <1>3, <2>1, <2>2 DEF Positions
<1>5. stream[u] # stream[job.pos]
  BY <1>1, <1>2, <1>3
<1>6. u \in 1..(job.pos - 1)
  BY <1>1, <1>4 DEF Positions
<1>7. TimeOf[stream[u]] < TimeOf[stream[job.pos]]
  BY <1>1, <1>3, <1>5, <1>6 DEF InEventOrder
<1> QED
  BY <1>1, <1>2, <1>3, <1>7

(* A row that a delivery writes again after it knew of m is of a later     *)
(* record: m's own record would have been passed over in silence.          *)
LEMMA NextIsLater ==
    ASSUME AlertInv, MessageInv, InEventOrder,
           Deciding(Current, job.rule), NEW x, Decides(x, Current, job.rule),
           NEW m \in published, m.esp = EspOf[Current], m.rule = job.rule,
           rows[<<m.esp, m.rule>>] # NoRow, rows[<<m.esp, m.rule>>].last = m.alert,
           NEW i \in Positions, Told(i, m), Past(i, m.rule)
    PROVE  m.time < TimeOf[stream[job.pos]]
<1> DEFINE row == rows[<<m.esp, m.rule>>]
<1>1. /\ job.pos \in Positions /\ stream[job.pos] = Current
      /\ EspOf[stream[i]] = EspOf[stream[job.pos]] /\ TimeOf[stream[i]] = m.time
      /\ i < job.pos /\ IdOf[stream[i]] = m.alert.event
      /\ m.alert.kind = "trigger" <=> m.rule \in TrigOf[stream[i]]
  BY PastWhenDeciding DEF Told, Of, Deciding, Current
<1>2. /\ TimeOf[stream[i]] <= TimeOf[stream[job.pos]]
      /\ TimeOf[stream[i]] \in Nat /\ TimeOf[stream[job.pos]] \in Nat
      /\ TimeOf[stream[i]] = TimeOf[stream[job.pos]] => stream[i] = stream[job.pos]
  BY <1>1, OrderNow DEF Positions
<1>3. ASSUME stream[i] = Current
      PROVE  FALSE
  <2>1. Backed(m.esp, m.rule, row) /\ row \in Row
    BY MessageTypes DEF AlertInv, Deciding
  <2>2. /\ x.alert \in Alert /\ m.alert \in Alert
        /\ x.alert.event = m.alert.event /\ x.alert.kind = m.alert.kind
        /\ x.alert # m.alert
    <3>1. x.alert.event = m.alert.event /\ x.alert # m.alert
      BY <1>1, <1>3 DEF Decides
    <3>2. x.alert \in Alert /\ m.alert \in Alert
      BY MessageTypes DEF Decides, Message
    <3>3. x.alert.kind = m.alert.kind
      BY <1>1, <1>3, <3>2 DEF Decides, Alert
    <3> QED
      BY <3>1, <3>2, <3>3
  <2>3. IsActive(row)
    BY <1>1, <1>3, <2>1 DEF IsActive, Backed, Decides
  <2>4. x.alert.episode = m.alert.episode
    BY <2>1, <2>3 DEF Backed, Decides, EpisodeOf
  <2> QED
    BY <2>2, <2>4 DEF Alert
<1> QED
  BY <1>1, <1>2, <1>3

LEMMA SettledStep ==
    ASSUME AlertInv, MessageInv, UniqueIds, InEventOrder', [Next]_vars, misread' = {},
           NEW m \in published, Settled(m), ~WasInFailedBatch(m)'
    PROVE  Settled(m)'
<1>0. InEventOrder /\ m.esp \in Pump /\ m.rule \in Rule
  BY OrderStays, MessageTypes
<1> DEFINE row == rows[<<m.esp, m.rule>>]
<1>1. ASSUME NEW i \in Positions, Told(i, m), Past(i, m.rule)
      PROVE  Past(i, m.rule)'
  BY <1>0, <1>1, PastOrFailed DEF Told
<1>2. CASE /\ \A i \in Positions : Told(i, m) => Past(i, m.rule)
           /\ \E i \in Positions : EspOf[stream[i]] = m.esp /\ m.time < TimeOf[stream[i]]
  <2>1. PICK j \in Positions : EspOf[stream[j]] = m.esp /\ m.time < TimeOf[stream[j]]
    BY <1>2
  <2>2. j \in Positions' /\ stream'[j] = stream[j]
    BY NothingIsUndone
  <2>3. ASSUME NEW i \in Positions', Told(i, m)'
        PROVE  Past(i, m.rule)'
    <3>1. /\ EspOf[stream'[i]] = EspOf[stream'[j]]
          /\ TimeOf[stream'[i]] < TimeOf[stream'[j]]
      BY <2>1, <2>2, <2>3 DEF Told, Of
    <3>2. i < j
      BY <2>2, <2>3, <3>1, OrderNext
    <3>3. i \in Positions
      BY <2>3, <3>2, NothingIsUndone DEF Positions
    <3>4. Told(i, m)
      BY <2>3, <3>3, FactsStay
    <3> QED
      BY <1>1, <1>2, <3>3, <3>4
  <2> QED
    BY <2>1, <2>2, <2>3 DEF Settled
<1>3. ASSUME row # NoRow, row.last = m.alert,
             NEW i \in Positions, Told(i, m), Past(i, m.rule)
      PROVE  Settled(m)'
  <2>1. CASE ~WritesRow(m.esp, m.rule)
    <3>1. row' = row
      BY <1>0, <2>1, RowsMove
    <3>2. i \in Positions' /\ Told(i, m)' /\ Past(i, m.rule)'
      BY <1>1, <1>3, FactsStay, NothingIsUndone
    <3> QED
      BY <1>3, <3>1, <3>2 DEF Settled
  <2>2. CASE WritesRow(m.esp, m.rule)
    <3>1. Deciding(Current, job.rule) /\ m.esp = EspOf[Current] /\ m.rule = job.rule
      BY <2>2, DecidingNow DEF WritesRow, WriteRow
    <3>2. PICK x \in published : Decides(x, Current, job.rule)
      BY <2>2, Written DEF WritesRow
    <3>3. job.pos \in Positions /\ stream[job.pos] = Current
      BY <3>1 DEF Deciding, Current
    <3>4. m.time < TimeOf[stream[job.pos]]
      BY <1>0, <1>3, <3>1, <3>2, NextIsLater
    <3>5. ASSUME NEW j \in Positions, Told(j, m)
          PROVE  Past(j, m.rule)
      <4>1. EspOf[stream[j]] = EspOf[stream[job.pos]] /\ TimeOf[stream[j]] = m.time
        BY <3>1, <3>3, <3>5 DEF Told, Of
      <4>2. j < job.pos
        BY <1>0, <3>3, <3>4, <4>1, OrderNow
      <4> QED
        BY <3>1, <4>2, PastWhenDeciding
    <3> QED
      BY <1>2, <3>1, <3>3, <3>4, <3>5
  <2> QED
    BY <2>1, <2>2
<1> QED
  BY <1>2, <1>3 DEF Settled

(* The message in hand stays so, is settled by the write, or has failed.   *)
LEMMA InHandStep ==
    ASSUME AlertInv, MessageInv, [Next]_vars, misread' = {},
           NEW m \in published, InHand(m), ~WasInFailedBatch(m)'
    PROVE  /\ InHand(m)' \/ Settled(m)'
           /\ m.alert.kind = "recovery" => InHand(m)' \/ ~IsActive(rows[<<m.esp, m.rule>>])'
<1>1. /\ Deciding(Current, job.rule) /\ job.at = "write" /\ JobInv
      /\ m.esp = EspOf[Current] /\ m.rule = job.rule /\ m.alert = job.row.last
      /\ m.esp \in Pump /\ m.rule \in Rule
  BY DecidingNow, MessageTypes DEF InHand, AlertInv, Busy
<1>2. CASE UNCHANGED job /\ Current' = Current
  BY <1>2 DEF InHand
<1>3. CASE WriteRow
  <2>1. PICK x \in published :
          /\ Decides(x, Current, job.rule) /\ InHand(x)
          /\ job.row \in Row
          /\ job.row.active <=> job.rule \in TrigOf[Current]
          /\ UNCHANGED <<stream, mappingVars, published, repeated, failed>>
    BY <1>3, Written
  <2>2. rows'[<<m.esp, m.rule>>] = job.row /\ job.row # NoRow
    BY <1>1, <1>3, <2>1, RowsMove, NoRowAssumption DEF WritesRow
  <2>3. m = x
    BY <2>1 DEF InHand
  <2>4. PICK i \in Positions : i = job.pos /\ Told(i, m)
    BY <1>1, <2>1, <2>3, DecidesTells DEF Deciding
  <2>5. Past(i, m.rule)'
    BY <1>1, <1>3, <2>1, <2>4, NextRulePasses DEF WriteRow, mappingVars
  <2>6. Settled(m)'
    BY <1>1, <2>2, <2>4, <2>5, FactsStay, NothingIsUndone DEF Settled
  <2>7. m.alert.kind = "recovery" => ~IsActive(rows[<<m.esp, m.rule>>])'
    <3>1. m.alert.kind = "recovery" => ~job.row.active
      BY <2>1, <2>3 DEF Decides
    <3> QED
      BY <2>2, <3>1 DEF IsActive
  <2> QED
    BY <2>6, <2>7
<1>4. CASE Abort
  <2>1. failed' = failed \cup job.from..job.end
    BY <1>4 DEF Abort
  <2>2. PICK i \in Positions : i = job.pos /\ Told(i, m)
    <3>1. Decision = job.row /\ job.row # NoRow
      BY <1>1 DEF MessageInv, JobInv
    <3>2. PICK r \in Record, k \in Rule : r = Current /\ k = job.rule
      BY <1>1 DEF Deciding
    <3>3. job.row = Decide(rows[<<EspOf[r], k>>], k, r)
          /\ rows[<<EspOf[r], k>>] \in Row \cup {NoRow}
      BY <1>1, <3>1, <3>2 DEF Decision, CurrentRow, Deciding
    <3>4. /\ job.row.last.kind = (IF k \in TrigOf[r] THEN "trigger" ELSE "recovery")
          /\ job.row.last.event = IdOf[r]
      BY <3>1, <3>3, DecideSends
    <3>5. m.time = TimeOf[Current] /\ stream[job.pos] = Current /\ job.pos \in Positions
          /\ Current \in Readable
      BY <1>1 DEF InHand, Deciding, Current
    <3>6. m.alert.kind = "trigger" <=> m.rule \in TrigOf[Current]
      BY <1>1, <3>2, <3>4
    <3> QED
      BY <1>1, <3>2, <3>4, <3>5, <3>6 DEF Told, Of
  <2>3. i \in failed'
    <3>1. /\ job.from = ckpt + 1 /\ ckpt < job.pos /\ job.pos <= job.end
          /\ ckpt \in Nat /\ job.pos \in Nat /\ job.end \in Nat
      BY <1>1, NumbersInJob DEF Deciding, AlertInv
    <3> QED
      BY <2>1, <2>2, <3>1
  <2> QED
    BY <2>2, <2>3, FactsStay DEF WasInFailedBatch, Told
<1> QED
  BY <1>1, <1>2, <1>3, <1>4, AboutToWrite

(* A recovery's episode does not open again.                               *)
LEMMA ClosedStep ==
    ASSUME AlertInv, MessageInv, UniqueIds, InEventOrder, [Next]_vars, misread' = {},
           NEW m \in published, m.alert.kind = "recovery", Closed(m),
           InHand(m) \/ Settled(m), ~WasInFailedBatch(m)'
    PROVE  Closed(m)'
<1> DEFINE row == rows[<<m.esp, m.rule>>]
<1>0. m.esp \in Pump /\ m.rule \in Rule
  BY MessageTypes
<1>1. PICK u \in Positions : /\ EspOf[stream[u]] = m.esp
                             /\ IdOf[stream[u]] = m.alert.episode
                             /\ TimeOf[stream[u]] < m.time
  BY DEF Closed
<1>2. u \in Positions' /\ stream'[u] = stream[u] /\ stream[u] \in Record
  BY NothingIsUndone, FactsStay
<1>3. InHand(m)' \/ ~(IsActive(row) /\ row.episode = m.alert.episode)'
  <2>1. CASE InHand(m)
    BY <2>1, InHandStep
  <2>2. CASE ~InHand(m) /\ ~WritesRow(m.esp, m.rule)
    <3>1. row' = row /\ ~(IsActive(row) /\ row.episode = m.alert.episode)
      BY <1>0, <2>2, RowsMove DEF Closed
    <3> QED
      BY <3>1 DEF IsActive
  <2>3. CASE ~InHand(m) /\ WritesRow(m.esp, m.rule)
    <3> SUFFICES ASSUME IsActive(row)', row'.episode = m.alert.episode
                 PROVE  FALSE
      OBVIOUS
    <3>1. Deciding(Current, job.rule) /\ m.esp = EspOf[Current] /\ m.rule = job.rule
      BY <2>3, DecidingNow DEF WritesRow, WriteRow
    <3>2. PICK x \in published :
            /\ Decides(x, Current, job.rule)
            /\ job.row.episode = x.alert.episode
      BY <2>3, Written DEF WritesRow
    <3>3. row' = job.row
      BY <1>0, <2>3, RowsMove
    <3>4. m.alert.episode = EpisodeOf(row, Current)
      BY <3>1, <3>2, <3>3 DEF Decides
    <3>5. ~IsActive(row)
      BY <2>3, <3>4 DEF Closed, EpisodeOf
    <3>6. stream[u] = Current
      BY <1>1, <1>2, <3>1, <3>4, <3>5 DEF EpisodeOf, UniqueIds, Deciding
    <3>7. PICK i \in Positions : Told(i, m) /\ Past(i, m.rule)
      BY <2>3, SettledIsPast
    <3>8. /\ job.pos \in Positions /\ stream[job.pos] = Current /\ i < job.pos
          /\ EspOf[stream[i]] = EspOf[stream[job.pos]] /\ TimeOf[stream[i]] = m.time
          /\ i \in Nat /\ job.pos \in Nat
      BY <3>1, <3>7, PastWhenDeciding DEF Deciding, Current, Told, Of, Positions
    <3>9. /\ TimeOf[stream[i]] <= TimeOf[stream[job.pos]]
          /\ TimeOf[stream[i]] \in Nat /\ TimeOf[stream[job.pos]] \in Nat
      BY <3>8, OrderNow
    <3> QED
      BY <1>1, <3>6, <3>8, <3>9
  <2> QED
    BY <2>1, <2>2, <2>3
<1> QED
  BY <1>1, <1>2, <1>3 DEF Closed

LEMMA OnceStep ==
    ASSUME AlertInv, MessageInv, UniqueIds, InEventOrder', OnceInv, [Next]_vars, misread' = {}
    PROVE  OnceInv'
<1>0. InEventOrder
  BY OrderStays
<1>1. ASSUME NEW e \in Pump, NEW k \in Rule, IsActive(rows[<<e, k>>])'
      PROVE  Opened(e, k, rows[<<e, k>>].episode)'
  BY <1>1, OpenStep DEF OnceInv
<1>2. ASSUME NEW m \in published', ~WasInFailedBatch(m)'
      PROVE  /\ InHand(m)' \/ Settled(m)'
             /\ m.alert.kind = "recovery" => Closed(m)'
  <2>1. CASE m \in published
    <3>1. /\ InHand(m) \/ Settled(m)
          /\ m.alert.kind = "recovery" => Closed(m)
      BY <1>2, <2>1, FailedStays DEF OnceInv
    <3>2. InHand(m)' \/ Settled(m)'
      BY <1>2, <2>1, <3>1, InHandStep, SettledStep
    <3>3. m.alert.kind = "recovery" => Closed(m)'
      BY <1>0, <1>2, <2>1, <3>1, ClosedStep
    <3> QED
      BY <3>2, <3>3
  <2>2. CASE m \notin published
    <3>1. Publish
      BY <1>2, <2>2, WhoWrites
    <3>2. /\ Decides(m, Current, job.rule) /\ Deciding(Current, job.rule)
          /\ InHand(m)' /\ stream' = stream
      BY <1>2, <2>2, <3>1, Sent, DecidingNow DEF Publish
    <3>3. ~WasInFailedBatch(m)
      BY <1>2, FailedStays
    <3>4. ASSUME m.alert.kind = "recovery"
          PROVE  Closed(m)'
      <4>1. PICK i \in Positions : /\ EspOf[stream[i]] = m.esp
                                   /\ IdOf[stream[i]] = m.alert.episode
                                   /\ TimeOf[stream[i]] < m.time
        BY <1>0, <3>2, <3>3, <3>4, RecoveryIsLater
      <4> QED
        BY <3>2, <4>1 DEF Closed, Positions
    <3> QED
      BY <3>2, <3>4
  <2> QED
    BY <2>1, <2>2
<1> QED
  BY <1>1, <1>2 DEF OnceInv

-----------------------------------------------------------------------------
LEMMA InitEpisodeInv ==
    ASSUME Init
    PROVE  EpisodeInv
<1>1. /\ published = {} /\ repeated = {} /\ failed = {} /\ job.at = "idle"
      /\ \A e \in Pump : \A k \in Rule : ~IsActive(rows[<<e, k>>])
  BY DEF Init, Idle, IsActive
<1>2. MessageInv
  BY <1>1 DEF MessageInv
<1>3. TriggersAreSpaced /\ EachMessageOnce /\ OnceInv
  BY <1>1 DEF TriggersAreSpaced, EachMessageOnce, OnceInv
<1>4. ScheduleInv
  <2>1. ASSUME NEW e, NEW k, NEW episode
        PROVE  Triggers(e, k, episode) = {}
    BY <1>1 DEF Triggers
  <2>2. ASSUME NEW e \in Pump, NEW k \in Rule
        PROVE  RowCovers(e, k) /\ RowKnows(e, k)
    BY <1>1 DEF RowCovers, RowKnows
  <2>3. ASSUME NEW e \in Pump, NEW k \in Rule, NEW episode \in Id
        PROVE  OpenerIsTold(e, k, episode) /\ NoGap(e, k, episode)
    BY <2>1 DEF OpenerIsTold, NoGap
  <2> QED
    BY <2>2, <2>3 DEF ScheduleInv
<1> QED
  BY <1>2, <1>3, <1>4, InitAlertInv DEF EpisodeInv

(* The invariant of the messages: what the rows know of what was sent,     *)
(* what a delivery has behind it, and which records may still be met.      *)
THEOREM EpisodeInvariant == Spec => []EpisodeInv
<1>1. AlertInv' /\ EpisodeInv /\ [Next]_vars => EpisodeInv'
  <2> SUFFICES ASSUME AlertInv', EpisodeInv, [Next]_vars
               PROVE  EpisodeInv'
    OBVIOUS
  <2>. AlertInv
    BY DEF EpisodeInv
  <2>1. ASSUME misread' = {}
        PROVE  misread = {} /\ MessageInv /\ MessageInv'
    <3>1. misread = {}
      BY <2>1, StepGrows
    <3> QED
      BY <2>1, <3>1, MessageInvStep DEF EpisodeInv
  <2>2. ASSUME misread' = {}, UniqueIds
        PROVE  /\ TriggersAreSpaced'
               /\ EachMessageOnce'
               /\ InEventOrder' => OnceInv'
               /\ InEventOrder' /\ Cooldown > 0 => ScheduleInv'
    <3>1. /\ misread = {} /\ MessageInv
          /\ TriggersAreSpaced /\ EachMessageOnce
          /\ InEventOrder => OnceInv
          /\ InEventOrder /\ Cooldown > 0 => ScheduleInv
      BY <2>1, <2>2 DEF EpisodeInv
    <3>2. TriggersAreSpaced'
      BY <2>2, <3>1, SpacedStep
    <3>3. EachMessageOnce'
      BY <2>2, <3>1, EachMessageOnceStep
    <3>4. InEventOrder' => OnceInv'
      BY <2>2, <3>1, OrderStays, OnceStep
    <3>5. InEventOrder' /\ Cooldown > 0 => ScheduleInv'
      BY <2>2, <3>1, OrderStays, ScheduleStep
    <3> QED
      BY <3>2, <3>3, <3>4, <3>5
  <2>3. UniqueIds' = UniqueIds
    BY DEF UniqueIds
  <2> QED
    BY <2>1, <2>2, <2>3 DEF EpisodeInv
<1> QED
  BY InitEpisodeInv, <1>1, AlertInvariant, PTL DEF Spec

(* When event ids tell records apart and a pump's records come in order,   *)
(* two triggers of an episode are a cooldown apart, whatever is delivered  *)
(* again, or one of the episode's records was given up: as long as no      *)
(* older row was read.                                                     *)
THEOREM TriggersKeepDistance ==
    ASSUME UniqueIds
    PROVE  Spec => []TriggersAreSpaced
<1>1. EpisodeInv => TriggersAreSpaced
  BY UniqueIds DEF EpisodeInv, TriggersAreSpaced
<1> QED
  BY <1>1, EpisodeInvariant, PTL

(* And only a record that a failed delivery had is told of twice, or ends  *)
(* its episode twice, as long as no older row was read.                    *)
THEOREM MessagesGoOutOnce ==
    ASSUME UniqueIds
    PROVE  Spec => []EachMessageOnce
<1>1. EpisodeInv => EachMessageOnce
  BY UniqueIds DEF EpisodeInv, EachMessageOnce
<1> QED
  BY <1>1, EpisodeInvariant, PTL

=============================================================================
