------------------------- MODULE StreamIngestProofs -------------------------
(***************************************************************************)
(* Proofs about StreamIngest for every set of records, every batch size    *)
(* and every retry limit: type correctness, the inductive invariant, the   *)
(* accounting invariants it implies, that the latest-state table           *)
(* implements LatestState, and what the drain gate beside it may report.   *)
(***************************************************************************)
EXTENDS DrainGate, KinesisMappingProofs, TLAPS

USE DEF Worker

(* The shard is only ever appended to.                                     *)
StreamGrows ==
    /\ Len(stream) <= Len(stream')
    /\ \A i \in 1..Len(stream) : stream'[i] = stream[i]

(* Nothing the stores hold is taken back: objects stay, rows get newer.    *)
StoreGrows ==
    /\ quarantine \subseteq quarantine'
    /\ \A k \in Key : raw[k] # None => raw'[k] # None
    /\ \A e \in Pump : latest[e] # None =>
          /\ latest'[e] # None
          /\ TimeOf[latest[e]] <= TimeOf[latest'[e]]

-----------------------------------------------------------------------------
LEMMA NumbersInJob ==
    ASSUME TypeOK, NEW w \in Worker
    PROVE  /\ job[w].from \in Nat /\ job[w].pos \in Nat /\ job[w].end \in Nat
           /\ stream \in Seq(Record) /\ Len(stream) \in Nat
  BY DEF TypeOK, Job, MappingTypeOK

(* What a record under a worker's hand is.                                 *)
LEMMA CurrentIsRecord ==
    ASSUME TypeOK, NEW w \in Worker, Busy(w), JobInv(w),
           job[w].pos <= job[w].end
    PROVE  /\ job[w].pos \in Positions
           /\ Current(w) \in Record
           /\ KeyOf[Current(w)] \in Key
           /\ EspOf[Current(w)] \in Pump
<1>1. job[w].pos \in Nat /\ job[w].end \in Nat /\ job[w].from \in Nat
  BY DEF TypeOK, Job
<1>2. job[w].pos \in 1..Len(stream)
  BY <1>1 DEF JobInv, TypeOK, MappingTypeOK
<1>3. Current(w) \in Record
  BY <1>2 DEF Current, TypeOK, MappingTypeOK
<1> QED
  BY <1>2, <1>3, IngestAssumption DEF Positions, Key

(* A step of the system leaves the shard and the stores at least as full.  *)
LEMMA StepGrows ==
    ASSUME IngestInv, [Next]_vars
    PROVE  StreamGrows /\ StoreGrows
<1> USE DEF StreamGrows, StoreGrows
<1>t. TypeOK /\ MappingTypeOK
  BY DEF IngestInv, TypeOK
<1>s. \A r : stream' = Append(stream, r) /\ r \in Record => StreamGrows
  BY <1>t DEF MappingTypeOK
<1>l. \A e \in Pump : latest[e] # None => TimeOf[latest[e]] \in Nat
  BY <1>t, IngestAssumption DEF TypeOK
<1>u. UNCHANGED storeVars => StoreGrows
  BY <1>l DEF storeVars
<1>v. UNCHANGED stream => StreamGrows
  BY <1>t DEF MappingTypeOK
<1>1. ASSUME NEW r \in Record, PutAcknowledged(r) \/ PutFailed(r)
      PROVE  StreamGrows /\ StoreGrows
  BY <1>1, <1>s, <1>u, <1>v DEF PutAcknowledged, PutFailed
<1>2. CASE Poll \/ Invoke \/ TooOld \/ StartReplay
  BY <1>2, <1>u, <1>v DEF Poll, Invoke, TooOld, StartReplay
<1>3. ASSUME NEW w \in Worker, Quarantine(w)
      PROVE  StreamGrows /\ StoreGrows
  BY <1>3, <1>l, <1>v DEF Quarantine
<1>4. ASSUME NEW w \in Worker, PutRaw(w)
      PROVE  StreamGrows /\ StoreGrows
  <2>1. JobInv(w) /\ Busy(w) /\ job[w].pos <= job[w].end
    BY <1>4 DEF PutRaw, Holds, Busy, IngestInv
  <2>2. Current(w) \in Record
    BY <2>1, <1>t, CurrentIsRecord
  <2>3. \A k \in Key : raw[k] # None => raw'[k] # None
    BY <1>4, <1>t, <2>2, IngestAssumption DEF PutRaw, TypeOK
  <2> QED
    BY <1>4, <2>3, <1>l, <1>v DEF PutRaw
<1>5. ASSUME NEW w \in Worker, WriteLatest(w)
      PROVE  StreamGrows /\ StoreGrows
  <2>1. JobInv(w) /\ Busy(w) /\ job[w].pos <= job[w].end
    BY <1>5 DEF WriteLatest, Holds, Busy, IngestInv
  <2>2. Current(w) \in Record /\ EspOf[Current(w)] \in Pump
    BY <2>1, <1>t, CurrentIsRecord
  <2>3. ASSUME NEW e \in Pump, latest[e] # None
        PROVE  /\ latest'[e] # None
               /\ TimeOf[latest[e]] <= TimeOf[latest'[e]]
    <3>1. CASE latest' = latest
      BY <3>1, <2>3, <1>l
    <3>2. CASE /\ Newer(Current(w), latest[EspOf[Current(w)]])
               /\ latest' = [latest EXCEPT ![EspOf[Current(w)]] = Current(w)]
      BY <3>2, <2>2, <2>3, <1>l, <1>t, IngestAssumption DEF TypeOK, Newer
    <3> QED
      BY <1>5, <3>1, <3>2 DEF WriteLatest
  <2> QED
    BY <1>5, <2>3, <1>v DEF WriteLatest
<1>6. ASSUME NEW w \in Worker, RecordRaises(w) \/ Fault(w) \/ Finish(w)
      PROVE  StreamGrows /\ StoreGrows
  BY <1>6, <1>u, <1>v DEF RecordRaises, Fault, Finish, Abort
<1>7. CASE UNCHANGED vars
  BY <1>7, <1>u, <1>v DEF vars
<1> QED
  BY <1>1, <1>2, <1>3, <1>4, <1>5, <1>6, <1>7 DEF Next, Step

(* Once settled, a record stays settled.                                   *)
LEMMA SettledIsStable ==
    ASSUME TypeOK, TypeOK', StoreGrows, NEW r \in Record, Settled(r)
    PROVE  Settled(r)'
<1>1. CASE r \in Rejected /\ r \in quarantine
  BY <1>1 DEF StoreGrows, Settled
<1>2. CASE /\ r \in Accepted
           /\ raw[KeyOf[r]] # None
           /\ latest[EspOf[r]] # None
           /\ TimeOf[r] <= TimeOf[latest[EspOf[r]]]
  <2>1. KeyOf[r] \in Key /\ EspOf[r] \in Pump
    BY IngestAssumption DEF Key
  <2>2. latest'[EspOf[r]] # None /\ raw'[KeyOf[r]] # None
    BY <1>2, <2>1 DEF StoreGrows
  <2>3. /\ TimeOf[r] \in Nat
        /\ TimeOf[latest[EspOf[r]]] \in Nat
        /\ TimeOf[latest'[EspOf[r]]] \in Nat
    BY <1>2, <2>1, <2>2, IngestAssumption DEF TypeOK
  <2>4. TimeOf[latest[EspOf[r]]] <= TimeOf[latest'[EspOf[r]]]
    BY <1>2, <2>1 DEF StoreGrows
  <2>5. TimeOf[r] <= TimeOf[latest'[EspOf[r]]]
    BY <1>2, <2>3, <2>4
  <2> QED
    BY <1>2, <2>2, <2>5 DEF Settled
<1> QED
  BY <1>1, <1>2 DEF Settled

-----------------------------------------------------------------------------
(* Every action keeps every variable in its type.                          *)
LEMMA TypeStep ==
    ASSUME IngestInv, [Next]_vars
    PROVE  TypeOK'
<1> USE DEF TypeOK
<1>t. TypeOK /\ MappingTypeOK
  BY DEF IngestInv
<1>m. UNCHANGED <<stream, mappingVars>> => MappingTypeOK'
  BY <1>t DEF mappingVars, MappingTypeOK
<1>a. UNCHANGED mappingVars /\ MappingTypeOK => UNCHANGED <<ckpt, cuts, tries, discarded>>
  BY DEF mappingVars
<1>i. Idle \in Job
  BY DEF Idle, Job
<1>1. ASSUME NEW r \in Record, PutAcknowledged(r) \/ PutFailed(r)
      PROVE  TypeOK'
  <2>1. stream' \in Seq(Record) /\ Len(stream') \in Nat /\ Len(stream) <= Len(stream')
    <3>1. stream' \in {stream, Append(stream, r)}
      BY <1>1 DEF PutAcknowledged, PutFailed
    <3>2. stream \in Seq(Record)
      BY <1>t DEF MappingTypeOK
    <3> QED
      BY <3>1, <3>2, AppendGrows
  <2>2. UNCHANGED <<mappingVars, storeVars, job, receipted>>
    BY <1>1 DEF PutAcknowledged, PutFailed
  <2>3. MappingTypeOK'
    <3>1. ckpt \in Nat /\ ckpt <= Len(stream) /\ Len(stream) \in Nat
      BY <1>t DEF MappingTypeOK
    <3>2. ckpt' = ckpt /\ cuts' = cuts /\ ckpt \in 0..Len(stream')
      BY <2>1, <2>2, <3>1 DEF mappingVars
    <3>3. cuts' \subseteq (ckpt' + 1)..Len(stream')
      BY <1>t, <2>1, <3>1, <3>2 DEF MappingTypeOK
    <3> QED
      BY <1>t, <2>1, <2>2, <3>2, <3>3 DEF mappingVars, MappingTypeOK
  <2>4. attempts[r] + 1 \in 0..MaxAttempts
    BY <1>1, <1>t, IngestAssumption
    DEF PutAcknowledged, PutFailed, IngestInv, AttemptsLeft
  <2>5. /\ attempts' \in [Record -> 0..MaxAttempts]
        /\ verdict' \in [Record -> {"sending", "acknowledged", "failed"}]
    BY <1>1, <1>t, <2>4 DEF PutAcknowledged, PutFailed
  <2> QED
    BY <1>t, <2>2, <2>3, <2>5 DEF storeVars
<1>2. CASE Poll \/ TooOld
  <2>1. /\ UNCHANGED <<stream, producerVars, storeVars, job, receipted>>
        /\ PollBatch \/ \E hi \in cuts : GiveUp(hi)
    BY <1>2 DEF Poll, TooOld
  <2>2. MappingTypeOK'
    BY <1>t, <2>1, MappingStepTyped
  <2> QED
    BY <1>t, <2>1, <2>2 DEF producerVars, storeVars
<1>3. CASE Invoke
  <2>1. ASSUME NEW hi \in cuts
        PROVE  [at |-> "next", from |-> ckpt + 1,
                pos |-> ckpt + 1, end |-> hi] \in Job
    BY <1>t DEF MappingTypeOK, Job
  <2>2. job' \in [Worker -> Job]
    BY <1>3, <1>t, <2>1 DEF Invoke
  <2> QED
    BY <1>3, <1>t, <1>m, <2>2 DEF Invoke, producerVars, storeVars
<1>4. CASE StartReplay
  <2>1. ASSUME NEW f \in discarded, NEW n \in 0..f.size
        PROVE  [at |-> "next", from |-> f.start,
                pos |-> f.start, end |-> f.start + n - 1] \in Job
    BY <1>t DEF MappingTypeOK, Pointer, Job
  <2>2. job' \in [Worker -> Job]
    BY <1>4, <1>t, <2>1 DEF StartReplay
  <2> QED
    BY <1>4, <1>t, <1>m, <2>2 DEF StartReplay, producerVars, storeVars
<1>5. ASSUME NEW w \in Worker, Quarantine(w) \/ PutRaw(w) \/ WriteLatest(w)
      PROVE  TypeOK'
  <2>1. JobInv(w) /\ Busy(w) /\ job[w].pos <= job[w].end
    BY <1>5 DEF Quarantine, PutRaw, WriteLatest, Holds, Busy, IngestInv
  <2>2. /\ Current(w) \in Record
        /\ KeyOf[Current(w)] \in Key
        /\ EspOf[Current(w)] \in Pump
    BY <2>1, <1>t, CurrentIsRecord
  <2>3. /\ UNCHANGED <<stream, mappingVars, producerVars, receipted>>
        /\ \E where \in {"next", "state"} : \E p \in {job[w].pos, job[w].pos + 1} :
             job' = [job EXCEPT ![w] = [at |-> where, from |-> @.from,
                                        pos |-> p, end |-> @.end]]
    BY <1>5 DEF Quarantine, PutRaw, WriteLatest, NextRecord
  <2>4. job' \in [Worker -> Job]
    BY <2>3, <1>t DEF Job
  <2>5. /\ raw' \in [Key -> Record \cup {None}]
        /\ quarantine' \subseteq Record
        /\ latest' \in [Pump -> Record \cup {None}]
    BY <1>5, <1>t, <2>2 DEF Quarantine, PutRaw, WriteLatest
  <2> QED
    BY <1>t, <1>m, <2>3, <2>4, <2>5 DEF producerVars
<1>6. ASSUME NEW w \in Worker, RecordRaises(w) \/ Fault(w) \/ Finish(w)
      PROVE  TypeOK'
  <2>1. /\ UNCHANGED <<stream, producerVars, storeVars>>
        /\ job' = [job EXCEPT ![w] = Idle]
    BY <1>6 DEF RecordRaises, Fault, Finish, Abort
  <2>2. Busy(w) /\ JobInv(w)
    BY <1>6 DEF RecordRaises, Fault, Finish, Holds, Busy, IngestInv
  <2>3. w = "live" => job[w].end \in cuts
    BY <2>2 DEF JobInv, NextBatch
  <2>4. MappingTypeOK'
    BY <1>6, <1>t, <2>1, <2>3, MappingStepTyped
    DEF RecordRaises, Fault, Finish, Abort
  <2>5. receipted' \subseteq Nat
    <3>1. job[w].from \in Nat /\ job[w].end \in Nat
      BY <1>t DEF Job
    <3>2. receipted' \in {receipted, receipted \cup job[w].from..job[w].end}
      BY <1>6 DEF RecordRaises, Fault, Finish, Abort
    <3> QED
      BY <1>t, <3>1, <3>2
  <2> QED
    BY <1>t, <1>i, <2>1, <2>4, <2>5 DEF producerVars, storeVars
<1>7. CASE UNCHANGED vars
  BY <1>7, <1>t, <1>m DEF vars, producerVars, storeVars
<1> QED
  BY <1>1, <1>2, <1>3, <1>4, <1>5, <1>6, <1>7 DEF Next, Step

-----------------------------------------------------------------------------
(* What a step leaves of the facts about positions and unfinished jobs.    *)
LEMMA SettledPositionsStay ==
    ASSUME IngestInv, [Next]_vars, NEW i \in Positions, Settled(stream[i])
    PROVE  i \in Positions' /\ Settled(stream[i])'
<1>1. StreamGrows /\ StoreGrows /\ TypeOK /\ TypeOK'
  BY StepGrows, TypeStep DEF IngestInv
<1>2. stream[i] \in Record
  BY <1>1 DEF TypeOK, MappingTypeOK, Positions
<1>3. i \in Positions' /\ stream'[i] = stream[i]
  BY <1>1 DEF StreamGrows, Positions, TypeOK, MappingTypeOK
<1>4. \A r \in Record : Settled(r) => Settled(r)'
  BY <1>1, SettledIsStable
<1>5. Settled(stream[i])'
  BY <1>2, <1>3, <1>4 DEF Settled
<1> QED
  BY <1>3, <1>5

LEMMA UntouchedJobStays ==
    ASSUME IngestInv, [Next]_vars, NEW w \in Worker, Busy(w),
           job'[w] = job[w],
           w = "live" => UNCHANGED <<ckpt, cuts>>
    PROVE  JobInv(w)'
<1> DEFINE j == job[w]
<1>1. /\ TypeOK /\ TypeOK' /\ JobInv(w)
      /\ StreamGrows /\ StoreGrows
  BY StepGrows, TypeStep DEF IngestInv
<1>2. /\ j.from \in Nat /\ j.pos \in Nat /\ j.end \in Nat
      /\ Len(stream) \in Nat /\ Len(stream') \in Nat
  <2>1. Len(stream') \in Nat
    BY <1>1 DEF TypeOK, MappingTypeOK
  <2> QED
    BY <1>1, <2>1, NumbersInJob
<1>3. /\ j.from >= 1 /\ j.from <= j.pos /\ j.pos <= j.end + 1
      /\ j.end <= Len(stream')
  BY <1>1, <1>2 DEF JobInv, StreamGrows
<1>4. ASSUME NEW i \in j.from..(j.pos - 1)
      PROVE  Settled(stream[i])'
  <2>1. i \in Positions /\ Settled(stream[i])
    BY <1>1, <1>2 DEF JobInv, Positions
  <2> QED
    BY <2>1, SettledPositionsStay
<1>5. ASSUME j.at = "state"
      PROVE  /\ j.pos <= j.end
             /\ stream'[j.pos] \in Accepted
             /\ raw'[KeyOf[stream'[j.pos]]] # None
  <2>1. /\ j.pos <= j.end
        /\ stream[j.pos] \in Accepted
        /\ raw[KeyOf[stream[j.pos]]] # None
    BY <1>1, <1>5 DEF JobInv
  <2>2. j.pos \in 1..Len(stream)
    BY <1>1, <1>2, <2>1 DEF JobInv
  <2>3. stream'[j.pos] = stream[j.pos]
    BY <1>1, <2>2 DEF StreamGrows
  <2>4. KeyOf[stream[j.pos]] \in Key
    BY <2>1, IngestAssumption DEF Key
  <2> QED
    BY <1>1, <2>1, <2>3, <2>4 DEF StoreGrows
<1>6. w = "live" => j.from = ckpt' + 1 /\ NextBatch(j.end)'
  BY <1>1 DEF JobInv, NextBatch
<1> QED
  BY <1>3, <1>4, <1>5, <1>6 DEF JobInv, Settled

(* A worker that moves on to the next record has settled the one it held.  *)
LEMMA NextRecordKeepsJob ==
    ASSUME IngestInv, [Next]_vars, NEW w \in Worker,
           Busy(w), job[w].pos <= job[w].end,
           NextRecord(w), UNCHANGED <<stream, ckpt, cuts>>,
           NEW r \in Record, r = Current(w), Settled(r)'
    PROVE  JobInv(w)'
<1> DEFINE j == job[w]
<1>1. /\ TypeOK /\ TypeOK' /\ JobInv(w)
  BY TypeStep DEF IngestInv
<1>2. /\ j.from \in Nat /\ j.pos \in Nat /\ j.end \in Nat
      /\ Len(stream) \in Nat
  BY <1>1, NumbersInJob
<1>3. job'[w] = [at |-> "next", from |-> j.from, pos |-> j.pos + 1, end |-> j.end]
  BY <1>1 DEF NextRecord, TypeOK
<1>4. ASSUME NEW i \in j.from..j.pos
      PROVE  Settled(stream[i])'
  <2>1. CASE i \in j.from..(j.pos - 1)
    <3>1. i \in Positions /\ Settled(stream[i])
      BY <1>1, <1>2, <2>1 DEF JobInv, Positions
    <3> QED
      BY <3>1, SettledPositionsStay
  <2>2. CASE i = j.pos
    BY <2>2 DEF Current, Settled
  <2> QED
    BY <1>2, <2>1, <2>2
<1>5. \A i \in j.from..((j.pos + 1) - 1) : Settled(stream[i])'
  BY <1>2, <1>4
<1>6. w = "live" => j.from = ckpt' + 1 /\ NextBatch(j.end)'
  BY <1>1, <1>3 DEF JobInv, NextBatch
<1> QED
  BY <1>1, <1>2, <1>3, <1>5, <1>6 DEF JobInv

(* The stores after each of process_record's last steps on a record.       *)
LEMMA QuarantineSettles ==
    ASSUME IngestInv, [Next]_vars, NEW w \in Worker, Quarantine(w)
    PROVE  Current(w) \in Record /\ \E r \in Record : r = Current(w) /\ Settled(r)'
<1>1. JobInv(w) /\ Busy(w) /\ job[w].pos <= job[w].end /\ TypeOK
  BY DEF Quarantine, Holds, Busy, IngestInv
<1>2. Current(w) \in Record
  BY <1>1, CurrentIsRecord
<1>3. PICK r \in Record : r = Current(w)
  BY <1>2
<1>4. r \in Rejected /\ r \in quarantine'
  BY <1>3 DEF Quarantine
<1> QED
  BY <1>2, <1>3, <1>4 DEF Settled

LEMMA WriteLatestSettles ==
    ASSUME IngestInv, [Next]_vars, NEW w \in Worker, WriteLatest(w)
    PROVE  Current(w) \in Record /\ \E r \in Record : r = Current(w) /\ Settled(r)'
<1>1. JobInv(w) /\ Busy(w) /\ job[w].pos <= job[w].end /\ job[w].at = "state" /\ TypeOK
  BY DEF WriteLatest, Holds, Busy, IngestInv
<1>2. Current(w) \in Record /\ EspOf[Current(w)] \in Pump
  BY <1>1, CurrentIsRecord
<1>3. PICK r \in Record : r = Current(w)
  BY <1>2
<1>4. r \in Accepted /\ raw'[KeyOf[r]] # None
  BY <1>1, <1>3 DEF JobInv, Current, WriteLatest
<1>5. /\ latest'[EspOf[r]] # None
      /\ TimeOf[r] <= TimeOf[latest'[EspOf[r]]]
  <2>1. TimeOf[r] \in Nat /\ r # None
    BY IngestAssumption
  <2>2. CASE Newer(r, latest[EspOf[r]])
    <3>1. latest'[EspOf[r]] = r
      BY <1>1, <1>2, <1>3, <2>2 DEF WriteLatest, TypeOK
    <3> QED
      BY <2>1, <3>1
  <2>3. CASE ~Newer(r, latest[EspOf[r]])
    <3>1. latest' = latest
      BY <1>3, <2>3 DEF WriteLatest
    <3>2. latest[EspOf[r]] # None /\ ~(TimeOf[latest[EspOf[r]]] < TimeOf[r])
      BY <2>3 DEF Newer
    <3>3. TimeOf[latest[EspOf[r]]] \in Nat
      BY <1>1, <1>2, <1>3, <3>2, IngestAssumption DEF TypeOK
    <3> QED
      BY <2>1, <3>1, <3>2, <3>3
  <2> QED
    BY <2>2, <2>3
<1> QED
  BY <1>2, <1>3, <1>4, <1>5 DEF Settled

-----------------------------------------------------------------------------
(* Each conjunct of the invariant, over one step.                          *)
LEMMA AttemptsLeftStep ==
    ASSUME IngestInv, [Next]_vars
    PROVE  AttemptsLeft'
<1>1. /\ attempts \in [Record -> 0..MaxAttempts] /\ AttemptsLeft
      /\ verdict \in [Record -> {"sending", "acknowledged", "failed"}]
      /\ MaxAttempts \in Nat
  BY IngestAssumption DEF IngestInv, TypeOK
<1>2. ASSUME NEW r \in Record, PutAcknowledged(r)
      PROVE  AttemptsLeft'
  BY <1>1, <1>2 DEF PutAcknowledged, AttemptsLeft
<1>3. ASSUME NEW r \in Record, PutFailed(r)
      PROVE  AttemptsLeft'
  <2>1. attempts[r] < MaxAttempts
    BY <1>1, <1>3 DEF PutFailed, AttemptsLeft
  <2> QED
    BY <1>1, <1>3, <2>1 DEF PutFailed, AttemptsLeft
<1>4. CASE UNCHANGED producerVars
  BY <1>1, <1>4 DEF producerVars, AttemptsLeft
<1> QED
  BY <1>2, <1>3, <1>4
  DEF Next, Step, Poll, Invoke, TooOld, StartReplay, Quarantine, PutRaw,
      WriteLatest, RecordRaises, Fault, Finish, Abort, vars

(* The three ways the checkpoint and the pointers can change in a step.    *)
LEMMA CheckpointStep ==
    ASSUME IngestInv, [Next]_vars
    PROVE  \/ UNCHANGED <<ckpt, discarded>>
           \/ \E hi \in cuts : GiveUp(hi)
           \/ /\ UNCHANGED discarded
              /\ ckpt' = job["live"].end
              /\ JobInv("live") /\ NextBatch(job["live"].end)
              /\ job["live"].pos > job["live"].end
<1>1. ASSUME NEW w \in Worker, Abort(w), Busy(w)
      PROVE  UNCHANGED <<ckpt, discarded>> \/ \E hi \in cuts : GiveUp(hi)
  BY <1>1 DEF Abort, BatchFailed, NextBatch, mappingVars
<1>2. ASSUME NEW w \in Worker, Finish(w)
      PROVE  \/ UNCHANGED <<ckpt, discarded>>
             \/ /\ UNCHANGED discarded
                /\ ckpt' = job["live"].end
                /\ JobInv("live") /\ NextBatch(job["live"].end)
                /\ job["live"].pos > job["live"].end
  <2>1. Busy(w) /\ JobInv(w)
    BY <1>2 DEF Finish, Busy, IngestInv
  <2> QED
    BY <1>2, <2>1 DEF Finish, BatchSucceeded, Advance, JobInv, mappingVars
<1>3. ASSUME NEW w \in Worker, RecordRaises(w) \/ Fault(w)
      PROVE  UNCHANGED <<ckpt, discarded>> \/ \E hi \in cuts : GiveUp(hi)
  BY <1>3, <1>1 DEF RecordRaises, Fault, Holds, Busy
<1>4. CASE \/ \E r \in Record : PutAcknowledged(r) \/ PutFailed(r)
           \/ Poll \/ Invoke \/ TooOld \/ StartReplay
           \/ \E w \in Worker : Quarantine(w) \/ PutRaw(w) \/ WriteLatest(w)
           \/ UNCHANGED vars
  BY <1>4 DEF PutAcknowledged, PutFailed, Poll, PollBatch, Invoke, TooOld,
              StartReplay, Quarantine, PutRaw, WriteLatest, vars, mappingVars
<1> QED
  BY <1>2, <1>3, <1>4 DEF Next, Step

LEMMA PointersAreBehindStep ==
    ASSUME IngestInv, [Next]_vars
    PROVE  PointersAreBehind'
<1>1. /\ PointersAreBehind /\ MappingTypeOK /\ ckpt \in Nat
  BY DEF IngestInv, TypeOK, MappingTypeOK
<1>2. CASE UNCHANGED <<ckpt, discarded>>
  BY <1>1, <1>2 DEF PointersAreBehind, Covered
<1>3. ASSUME NEW hi \in cuts, GiveUp(hi)
      PROVE  PointersAreBehind'
  BY <1>1, <1>3, GiveUpPoints
<1>4. CASE /\ UNCHANGED discarded
           /\ ckpt' = job["live"].end
           /\ NextBatch(job["live"].end)
  <2>1. ckpt' \in (ckpt + 1)..Len(stream)
    BY <1>1, <1>4 DEF NextBatch, MappingTypeOK
  <2>2. ckpt' \in Nat /\ ckpt <= ckpt'
    BY <1>1, <2>1
  <2> QED
    BY <1>1, <1>4, <2>2 DEF PointersAreBehind, Covered
<1> QED
  BY <1>2, <1>3, <1>4, CheckpointStep

LEMMA NothingDisappearsStep ==
    ASSUME IngestInv, [Next]_vars
    PROVE  NothingDisappears'
<1> DEFINE j == job["live"]
<1>1. /\ NothingDisappears /\ MappingTypeOK /\ TypeOK
      /\ ckpt \in Nat /\ ckpt <= Len(stream) /\ Len(stream) \in Nat
  BY DEF IngestInv, TypeOK, MappingTypeOK
<1>2. \A i \in Positions : Settled(stream[i]) => Settled(stream[i])'
  BY SettledPositionsStay
<1>3. discarded \subseteq discarded'
  BY CheckpointStep DEF GiveUp
<1>4. \A i \in 1..ckpt : (Settled(stream[i]) \/ Pointed(i))'
  BY <1>1, <1>2, <1>3 DEF NothingDisappears, Pointed, Positions, Covered
<1>5. CASE ckpt' = ckpt
  BY <1>4, <1>5 DEF NothingDisappears
<1>6. ASSUME NEW hi \in cuts, GiveUp(hi)
      PROVE  NothingDisappears'
  <2>1. /\ hi \in Nat /\ ckpt < hi /\ ckpt' = hi
        /\ \A i \in (ckpt + 1)..hi : Pointed(i)'
    BY <1>1, <1>6, GiveUpPoints DEF IngestInv
  <2> QED
    BY <1>1, <1>4, <2>1 DEF NothingDisappears
<1>7. CASE /\ ckpt' = j.end
           /\ JobInv("live") /\ NextBatch(j.end)
           /\ j.pos > j.end
  <2>1. j.from \in Nat /\ j.pos \in Nat /\ j.end \in Nat
    BY <1>1, NumbersInJob
  <2>2. j.from = ckpt + 1 /\ j.pos = j.end + 1 /\ j.end <= Len(stream)
    BY <1>7, <2>1 DEF JobInv
  <2>3. \A i \in (ckpt + 1)..j.end : i \in Positions /\ Settled(stream[i])
    BY <1>1, <1>7, <2>1, <2>2 DEF JobInv, Positions
  <2>4. \A i \in (ckpt + 1)..j.end : Settled(stream[i])'
    BY <1>2, <2>3
  <2> QED
    BY <1>1, <1>4, <1>7, <2>1, <2>4 DEF NothingDisappears
<1> QED
  BY <1>5, <1>6, <1>7, CheckpointStep

LEMMA ReceiptsAreTrueStep ==
    ASSUME IngestInv, [Next]_vars
    PROVE  ReceiptsAreTrue'
<1> DEFINE j == job["replay"]
<1>1. ReceiptsAreTrue /\ TypeOK
  BY DEF IngestInv
<1>2. \A i \in Positions :
        Settled(stream[i]) => i \in Positions' /\ Settled(stream[i])'
  BY SettledPositionsStay
<1>3. \A i \in receipted : i \in Positions' /\ Settled(stream[i])'
  BY <1>1, <1>2 DEF ReceiptsAreTrue
<1>4. CASE UNCHANGED receipted
  BY <1>3, <1>4 DEF ReceiptsAreTrue
<1>5. CASE Finish("replay")
  <2>1. JobInv("replay") /\ j.pos > j.end
    BY <1>5 DEF Finish, Busy, IngestInv
  <2>2. j.from \in Nat /\ j.pos \in Nat /\ j.end \in Nat /\ Len(stream) \in Nat
    BY <1>1, NumbersInJob
  <2>3. \A i \in j.from..j.end : i \in Positions /\ Settled(stream[i])
    BY <2>1, <2>2 DEF JobInv, Positions
  <2>4. \A i \in j.from..j.end : i \in Positions' /\ Settled(stream[i])'
    BY <1>2, <2>3
  <2>5. receipted' = receipted \cup j.from..j.end
    BY <1>5 DEF Finish
  <2> QED
    BY <1>3, <2>4, <2>5 DEF ReceiptsAreTrue
<1> QED
  BY <1>4, <1>5
  DEF Next, Step, PutAcknowledged, PutFailed, Poll, Invoke, TooOld, StartReplay,
      Quarantine, PutRaw, WriteLatest, RecordRaises, Fault, Finish, Abort, vars

LEMMA LatestHasHistoryStep ==
    ASSUME IngestInv, [Next]_vars
    PROVE  LatestHasHistory'
<1>1. LatestHasHistory /\ TypeOK
  BY DEF IngestInv
<1>2. \A k \in Key : raw[k] # None => raw'[k] # None
  BY StepGrows DEF StoreGrows
<1>3. \A r \in Record : KeyOf[r] \in Key
  BY IngestAssumption DEF Key
<1>4. ASSUME NEW e \in Pump, latest'[e] = latest[e], latest'[e] # None
      PROVE  raw'[KeyOf[latest'[e]]] # None
  BY <1>1, <1>2, <1>3, <1>4 DEF LatestHasHistory, TypeOK
<1>5. CASE UNCHANGED latest
  BY <1>4, <1>5 DEF LatestHasHistory
<1>6. ASSUME NEW w \in Worker, WriteLatest(w)
      PROVE  LatestHasHistory'
  <2>1. JobInv(w) /\ job[w].at = "state" /\ Busy(w) /\ job[w].pos <= job[w].end
    BY <1>6 DEF WriteLatest, Holds, Busy, IngestInv
  <2>2. Current(w) \in Record /\ EspOf[Current(w)] \in Pump
    BY <1>1, <2>1, CurrentIsRecord
  <2>3. raw'[KeyOf[Current(w)]] # None
    BY <1>6, <2>1 DEF JobInv, Current, WriteLatest
  <2>4. ASSUME NEW e \in Pump, latest'[e] # None
        PROVE  raw'[KeyOf[latest'[e]]] # None
    <3>1. latest'[e] = latest[e] \/ latest'[e] = Current(w)
      BY <1>1, <1>6, <2>2 DEF WriteLatest, TypeOK
    <3> QED
      BY <1>4, <2>3, <2>4, <3>1
  <2> QED
    BY <2>4 DEF LatestHasHistory
<1> QED
  BY <1>5, <1>6
  DEF Next, Step, PutAcknowledged, PutFailed, Poll, Invoke, TooOld, StartReplay,
      Quarantine, PutRaw, RecordRaises, Fault, Finish, Abort, vars, storeVars

LEMMA JobStep ==
    ASSUME IngestInv, [Next]_vars, NEW w \in Worker, Busy(w)'
    PROVE  JobInv(w)'
<1>t. TypeOK /\ TypeOK' /\ MappingTypeOK
  BY TypeStep DEF IngestInv, TypeOK
<1>j. job \in [Worker -> Job]
  BY <1>t DEF TypeOK
<1>u. ASSUME job'[w] = job[w], w = "live" => UNCHANGED <<ckpt, cuts>>
      PROVE  JobInv(w)'
  <2>1. Busy(w)
    BY <1>u DEF Busy
  <2> QED
    BY <1>u, <2>1, UntouchedJobStays
<1>1. CASE \/ \E r \in Record : PutAcknowledged(r) \/ PutFailed(r)
           \/ UNCHANGED vars
  BY <1>1, <1>u DEF PutAcknowledged, PutFailed, vars, mappingVars
<1>2. CASE Poll \/ TooOld
  BY <1>2, <1>u DEF Poll, TooOld, Busy
<1>3. CASE Invoke
  <2>1. CASE w = "live"
    <3>1. PICK hi \in cuts :
            /\ NextBatch(hi)
            /\ job' = [job EXCEPT !["live"] =
                         [at |-> "next", from |-> ckpt + 1,
                          pos |-> ckpt + 1, end |-> hi]]
      BY <1>3 DEF Invoke
    <3>2. job'[w] = [at |-> "next", from |-> ckpt + 1, pos |-> ckpt + 1, end |-> hi]
      BY <2>1, <3>1, <1>j
    <3>3. /\ ckpt \in Nat /\ hi \in Nat /\ Len(stream) \in Nat
          /\ ckpt + 1 <= hi /\ hi <= Len(stream)
      BY <1>t DEF MappingTypeOK
    <3>4. UNCHANGED <<stream, ckpt, cuts>>
      BY <1>3 DEF Invoke, mappingVars
    <3> QED
      BY <3>1, <3>2, <3>3, <3>4 DEF JobInv, NextBatch
  <2>2. CASE w # "live"
    <3>1. job'[w] = job[w]
      BY <1>3, <2>2, <1>j DEF Invoke
    <3> QED
      BY <1>u, <2>2, <3>1
  <2> QED
    BY <2>1, <2>2
<1>4. CASE StartReplay
  <2>1. CASE w = "replay"
    <3>0. PICK f \in discarded : \E n \in 0..f.size :
            job' = [job EXCEPT !["replay"] =
                      [at |-> "next", from |-> f.start,
                       pos |-> f.start, end |-> f.start + n - 1]]
      BY <1>4 DEF StartReplay
    <3>1. PICK n \in 0..f.size :
            job' = [job EXCEPT !["replay"] =
                      [at |-> "next", from |-> f.start,
                       pos |-> f.start, end |-> f.start + n - 1]]
      BY <3>0
    <3>2. job'[w] = [at |-> "next", from |-> f.start,
                     pos |-> f.start, end |-> f.start + n - 1]
      BY <2>1, <3>1, <1>j
    <3>3. f.start \in Nat \ {0} /\ f.size \in Nat \ {0} /\ n \in Nat /\ n <= f.size
      BY <1>t DEF MappingTypeOK, Pointer
    <3>4. f.start + f.size - 1 \in Covered(f)
      BY <3>3 DEF Covered
    <3>5. f.start + f.size - 1 <= Len(stream)
      BY <1>t, <3>4 DEF IngestInv, PointersAreBehind, MappingTypeOK
    <3>6. stream' = stream /\ Len(stream) \in Nat
      BY <1>4, <1>t DEF StartReplay, MappingTypeOK
    <3> QED
      BY <2>1, <3>2, <3>3, <3>5, <3>6, SMTT(30) DEF JobInv
  <2>2. CASE w # "replay"
    <3>1. job'[w] = job[w] /\ UNCHANGED <<ckpt, cuts>>
      BY <1>4, <2>2, <1>j DEF StartReplay, mappingVars
    <3> QED
      BY <1>u, <3>1
  <2> QED
    BY <2>1, <2>2
<1>5. ASSUME NEW v \in Worker, v # w,
             \/ Quarantine(v) \/ PutRaw(v) \/ WriteLatest(v)
             \/ RecordRaises(v) \/ Fault(v) \/ Finish(v)
      PROVE  JobInv(w)'
  <2>1. job'[w] = job[w]
    BY <1>5, <1>j
    DEF Quarantine, PutRaw, WriteLatest, NextRecord, RecordRaises, Fault, Finish, Abort
  <2>2. w = "live" => UNCHANGED <<ckpt, cuts>>
    BY <1>5
    DEF Quarantine, PutRaw, WriteLatest, RecordRaises, Fault, Finish, Abort, mappingVars
  <2> QED
    BY <1>u, <2>1, <2>2
<1>6. CASE RecordRaises(w) \/ Fault(w) \/ Finish(w)
  <2>1. job'[w] = Idle
    BY <1>6, <1>j DEF RecordRaises, Fault, Finish, Abort
  <2> QED
    BY <2>1 DEF Busy, Idle
<1>7. CASE Quarantine(w) \/ WriteLatest(w)
  <2>1. /\ Busy(w) /\ job[w].pos <= job[w].end
        /\ NextRecord(w) /\ UNCHANGED <<stream, ckpt, cuts>>
    BY <1>7 DEF Quarantine, WriteLatest, Holds, Busy, mappingVars
  <2>2. PICK r \in Record : r = Current(w) /\ Settled(r)'
    BY <1>7, QuarantineSettles, WriteLatestSettles
  <2> QED
    BY <2>1, <2>2, NextRecordKeepsJob
<1>8. CASE PutRaw(w)
  <2> DEFINE j == job[w]
  <2>1. Busy(w) /\ j.pos <= j.end /\ JobInv(w)
    BY <1>8 DEF PutRaw, Holds, Busy, IngestInv
  <2>2. job'[w] = [at |-> "state", from |-> j.from, pos |-> j.pos, end |-> j.end]
    BY <1>8, <1>j DEF PutRaw
  <2>3. UNCHANGED <<stream, ckpt, cuts>>
    BY <1>8 DEF PutRaw, mappingVars
  <2>4. Current(w) \in Record /\ KeyOf[Current(w)] \in Key
    BY <1>t, <2>1, CurrentIsRecord
  <2>5. raw'[KeyOf[stream[j.pos]]] # None /\ stream[j.pos] \in Accepted
    BY <1>8, <1>t, <2>4, IngestAssumption DEF PutRaw, Current, TypeOK
  <2>6. j.from \in Nat /\ j.pos \in Nat /\ j.end \in Nat /\ Len(stream) \in Nat
    BY <1>t, NumbersInJob
  <2>7. \A i \in j.from..(j.pos - 1) : Settled(stream[i])'
    <3>1. \A i \in j.from..(j.pos - 1) : i \in Positions /\ Settled(stream[i])
      BY <2>1, <2>6 DEF JobInv, Positions
    <3> QED
      BY <3>1, SettledPositionsStay
  <2>8. w = "live" => j.from = ckpt' + 1 /\ NextBatch(job[w].end)'
    BY <2>1, <2>2, <2>3 DEF JobInv, NextBatch
  <2> QED
    BY <2>1, <2>2, <2>3, <2>5, <2>6, <2>7, <2>8 DEF JobInv
<1> QED
  BY <1>1, <1>2, <1>3, <1>4, <1>5, <1>6, <1>7, <1>8 DEF Next, Step

-----------------------------------------------------------------------------
(* The invariant of the ingest path, for every instance: nothing behind    *)
(* the checkpoint is unaccounted for, receipts are true, and every row of  *)
(* the table has its raw object.                                           *)
THEOREM IngestInvariant == Spec => []IngestInv
<1>1. Init => IngestInv
  <2> SUFFICES ASSUME Init PROVE IngestInv
    OBVIOUS
  <2>1. TypeOK
    BY IngestAssumption, MappingAssumption
    DEF Init, MappingInit, TypeOK, MappingTypeOK, Job, Idle
  <2>2. AttemptsLeft /\ PointersAreBehind /\ NothingDisappears
        /\ ReceiptsAreTrue /\ LatestHasHistory
    BY IngestAssumption
    DEF Init, MappingInit, AttemptsLeft, PointersAreBehind, NothingDisappears,
        ReceiptsAreTrue, LatestHasHistory
  <2>3. \A w \in Worker : ~Busy(w)
    BY DEF Init, Busy, Idle
  <2> QED
    BY <2>1, <2>2, <2>3 DEF IngestInv
<1>2. IngestInv /\ [Next]_vars => IngestInv'
  <2> SUFFICES ASSUME IngestInv, [Next]_vars PROVE IngestInv'
    OBVIOUS
  <2>1. TypeOK' /\ AttemptsLeft' /\ PointersAreBehind' /\ NothingDisappears'
        /\ ReceiptsAreTrue' /\ LatestHasHistory'
    BY TypeStep, AttemptsLeftStep, PointersAreBehindStep,
       NothingDisappearsStep, ReceiptsAreTrueStep, LatestHasHistoryStep
  <2>2. \A w \in Worker : Busy(w)' => JobInv(w)'
    BY JobStep
  <2> QED
    BY <2>1, <2>2 DEF IngestInv
<1> QED
  BY <1>1, <1>2, PTL DEF Spec

(* The state variables keep their types in every instance.                 *)
THEOREM IngestTypeCorrect == Spec => []TypeOK
<1>1. IngestInv => TypeOK
  BY DEF IngestInv
<1> QED
  BY <1>1, IngestInvariant, PTL

(* "No event can disappear without accepted/quarantined/superseded          *)
(* accounting", with the failure pointer as the fourth account.            *)
THEOREM IngestAccounts == Spec => []NothingDisappears
<1>1. IngestInv => NothingDisappears
  BY DEF IngestInv
<1> QED
  BY <1>1, IngestInvariant, PTL

(* A replay receipt never lists a record that is not settled.              *)
THEOREM ReplayReceiptsAreTrue == Spec => []ReceiptsAreTrue
<1>1. IngestInv => ReceiptsAreTrue
  BY DEF IngestInv
<1> QED
  BY <1>1, IngestInvariant, PTL

(* Raw history is never behind the latest-state table.                     *)
THEOREM HistoryBeforeState == Spec => []LatestHasHistory
<1>1. IngestInv => LatestHasHistory
  BY DEF IngestInv
<1> QED
  BY <1>1, IngestInvariant, PTL

(* Two uncoordinated writers of the table implement the register of        *)
(* LatestState: every step is a Take of an accepted record or a stutter.   *)
THEOREM TableImplementsRegister == Spec => LatestRegister
<1>1. Init => L!LatestInit
  BY DEF Init, L!LatestInit
<1>2. IngestInv /\ [Next]_vars => [L!LatestNext]_latest
  <2> SUFFICES ASSUME IngestInv, [Next]_vars, latest' # latest
               PROVE  L!LatestNext
    OBVIOUS
  <2>1. PICK w \in Worker : WriteLatest(w)
    BY DEF Next, Step, PutAcknowledged, PutFailed, Poll, Invoke, TooOld,
           StartReplay, Quarantine, PutRaw, RecordRaises, Fault, Finish,
           Abort, vars, storeVars
  <2>2. Current(w) \in Accepted
    BY <2>1 DEF WriteLatest, Holds, Busy, IngestInv, JobInv, Current
  <2>3. L!Take(Current(w))
    BY <2>1 DEF WriteLatest, L!Take, L!Newer, Newer
  <2> QED
    BY <2>2, <2>3 DEF L!LatestNext
<1> QED
  BY <1>1, <1>2, IngestInvariant, PTL DEF Spec, LatestRegister, L!LatestSpec

-----------------------------------------------------------------------------
(* The drain gate beside the ingest path: its steps change nothing of      *)
(* StreamIngest, whose store only grows, so a receipt that lists nothing   *)
(* missing is true for any records, faults and number of looks.            *)

(* The composition is the ingest path with a bystander.                    *)
THEOREM GateOnlyWatches == DrainSpec => Spec
<1>1. DrainInit => Init
  BY DEF DrainInit
<1>2. [DrainNext]_drainVars => [Next]_vars
  <2>1. IngestStep => Next
    BY DEF IngestStep, Next, Worker
  <2>2. StartGate \/ GateStep => UNCHANGED vars
    BY DEF StartGate, GateStep, HeadObject, HeadRaises, Scan, ScanRaises,
           NothingToScan, WriteReceipt, LookAgain
  <2> QED
    BY <2>1, <2>2 DEF DrainNext, drainVars
<1> QED
  BY <1>1, <1>2, PTL DEF DrainSpec, Spec

(* An archived record stays archived.                                      *)
LEMMA ArchivedStays ==
    ASSUME IngestInv, [Next]_vars
    PROVE  Archived \subseteq Archived'
<1>1. StoreGrows /\ TypeOK /\ TypeOK'
  BY StepGrows, TypeStep DEF IngestInv
<1>2. \A r \in Record : KeyOf[r] \in Key
  BY DEF Key
<1> QED
  BY <1>1, <1>2 DEF StoreGrows, Archived

(* Once the gate runs the producer has ended, so the ledger stays.         *)
LEMMA LedgerStays ==
    ASSUME GateInv, gate # "off", [DrainNext]_drainVars
    PROVE  UNCHANGED <<verdict, attempts, Ledger>>
<1>1. \A r \in Record : ~PutAcknowledged(r) /\ ~PutFailed(r)
  BY DEF GateInv, PutAcknowledged, PutFailed
<1>2. UNCHANGED <<verdict, attempts>>
  BY <1>1 DEF DrainNext, drainVars, vars, producerVars, IngestStep, Step,
     Poll, Invoke, TooOld, Quarantine, PutRaw, WriteLatest, RecordRaises,
     Abort, Fault, Finish, StartGate, GateStep, HeadObject, HeadRaises, Scan,
     ScanRaises, NothingToScan, WriteReceipt, LookAgain
<1> QED
  BY <1>2 DEF Ledger

(* A look starts with everything that is still missing to be asked for.    *)
LEMMA LookBegins ==
    ASSUME NEW events, BeginLook(events), UNCHANGED vars,
           \A r \in Record : MaySend(r) => verdict[r] # "sending",
           Ledger \ events \subseteq Archived
    PROVE  GateInv'
<1>1. UNCHANGED <<verdict, attempts, raw, quarantine, Ledger, Archived>>
  BY DEF vars, producerVars, storeVars, Ledger, Archived
<1> QED
  BY <1>1 DEF BeginLook, GateInv, MaySend

LEMMA GateInvStep ==
    ASSUME IngestInv, GateInv, [DrainNext]_drainVars, [Next]_vars
    PROVE  GateInv'
<1>1. Archived \subseteq Archived'
  BY ArchivedStays
<1>q. quarantine \subseteq quarantine'
  BY StepGrows DEF StoreGrows
<1>2. CASE UNCHANGED gateVars
  <2>1. CASE gate = "off"
    BY <1>1, <1>2, <2>1 DEF GateInv, gateVars
  <2>2. CASE gate # "off"
    BY <1>1, <1>q, <1>2, <2>2, LedgerStays DEF GateInv, MaySend, gateVars
  <2> QED
    BY <2>1, <2>2
<1>3. CASE StartGate
  BY <1>3, LookBegins DEF StartGate
<1>4. CASE LookAgain
  <2>1. gate # "off" /\ BeginLook(missing) /\ UNCHANGED vars
    BY <1>4 DEF LookAgain
  <2> QED
    BY <2>1, LookBegins DEF GateInv
<1>5. ASSUME NEW r \in Record, HeadObject(r)
      PROVE  GateInv'
  <2>1. /\ gate = "looking" /\ gate' = "looking" /\ r \in todo
        /\ todo' = todo \ {r} /\ UNCHANGED before
        /\ missing' = IF raw[KeyOf[r]] # None THEN missing \ {r} ELSE missing
        /\ UNCHANGED <<verdict, attempts, raw, quarantine>>
    BY <1>5 DEF HeadObject, vars, producerVars, storeVars
  <2>2. UNCHANGED <<Ledger, Archived>>
    BY <2>1 DEF Ledger, Archived
  <2>3. raw[KeyOf[r]] # None => r \in Archived
    BY DEF Archived
  <2>4. Ledger' \ missing' \subseteq Archived'
    BY <2>1, <2>2, <2>3 DEF GateInv
  <2>5. missing' \cap before' \subseteq todo' \cup quarantine'
    BY <2>1, <2>2 DEF GateInv, Archived
  <2> QED
    BY <2>1, <2>2, <2>4, <2>5 DEF GateInv, MaySend
<1>6. CASE HeadRaises \/ ScanRaises
  <2>1. /\ gate # "off" /\ gate' = "raised"
        /\ UNCHANGED <<missing, before, verdict, attempts, raw, quarantine>>
    BY <1>6 DEF HeadRaises, ScanRaises, AtScan, vars, producerVars, storeVars
  <2> QED
    BY <2>1 DEF GateInv, MaySend, Ledger, Archived
<1>7. CASE Scan
  <2>1. /\ gate = "looking" /\ gate' = "looked" /\ todo = {}
        /\ missing' = missing \ quarantine
        /\ UNCHANGED <<before, verdict, attempts, raw, quarantine>>
    BY <1>7 DEF Scan, AtScan, vars, producerVars, storeVars
  <2>2. UNCHANGED <<Ledger, Archived>>
    BY <2>1 DEF Ledger, Archived
  <2>3. Ledger' \ missing' \subseteq Archived'
    BY <2>1, <2>2 DEF GateInv, Ledger, Archived
  <2>4. missing' \cap before' = {}
    BY <2>1 DEF GateInv
  <2> QED
    BY <2>1, <2>2, <2>3, <2>4 DEF GateInv, MaySend
<1>8. CASE NothingToScan \/ WriteReceipt
  <2>1. /\ gate \in {"looking", "looked"} /\ gate' \in {"looked", "written"}
        /\ gate = "looking" => missing = {}
        /\ UNCHANGED <<missing, before, verdict, attempts, raw, quarantine>>
    BY <1>8 DEF NothingToScan, WriteReceipt, vars, producerVars, storeVars
  <2> QED
    BY <2>1 DEF GateInv, MaySend, Ledger, Archived
<1> QED
  BY <1>2, <1>3, <1>4, <1>5, <1>6, <1>7, <1>8
  DEF DrainNext, GateStep, drainVars

-----------------------------------------------------------------------------
(* The gate's inductive invariant, on top of the one of the ingest path.   *)
THEOREM GateInvariant == DrainSpec => [](IngestInv /\ GateInv)
<1>1. DrainInit => GateInv
  BY DEF DrainInit, GateInit, GateInv
<1>2. IngestInv /\ GateInv /\ [DrainNext]_drainVars /\ [Next]_vars => GateInv'
  BY GateInvStep
<1>3. DrainSpec => [][Next]_vars
  BY GateOnlyWatches, PTL DEF Spec
<1>4. DrainSpec => []IngestInv
  BY GateOnlyWatches, IngestInvariant, PTL
<1> QED
  BY <1>1, <1>2, <1>3, <1>4, PTL DEF DrainSpec

(* "an incomplete run is reported, never silently called clean", for any   *)
(* number of events, looks and faults.                                     *)
THEOREM CompleteReceiptsAreTrue == DrainSpec => []CompleteIsTrue
<1>1. GateInv => CompleteIsTrue
  BY DEF GateInv, CompleteIsTrue
<1> QED
  BY <1>1, GateInvariant, PTL

(* No receipt lists what was archived before its last look.                *)
THEOREM ReceiptsAccuseNobody == DrainSpec => []MissingWasNotArchived
<1>1. GateInv => MissingWasNotArchived
  BY DEF GateInv, MissingWasNotArchived
<1> QED
  BY <1>1, GateInvariant, PTL

=============================================================================
