--------------------------- MODULE KinesisMapping ---------------------------
(***************************************************************************)
(* One Kinesis shard and one Lambda event source mapping that reads it, as *)
(* infrastructure/realtime_stack.py configures them: one shard, batches of *)
(* at most BatchSize records, a failed batch bisected, a failed single     *)
(* record retried at most MaxRetries times, a record older than the        *)
(* maximum age given up, and every given-up range written to the failure   *)
(* destination as a pointer (first record and count), never as records.    *)
(* The mapping itself is AWS code; this module is the contract the two     *)
(* consumers, StreamIngest and AnomalyAlerts, are written against.         *)
(*                                                                         *)
(* Records are named by their position in the shard.  Positions 1..ckpt    *)
(* are behind the mapping's checkpoint.  A polled batch and the pieces a   *)
(* bisection cut it into are the intervals between consecutive members of  *)
(* cuts: the batch to be delivered next is ckpt+1..hi, hi the smallest.    *)
(***************************************************************************)
EXTENDS Naturals, Sequences

CONSTANTS Record,      \* payloads that can be put on the stream
          BatchSize,   \* batch_size of the mapping
          MaxRetries   \* maximum_retry_attempts of the mapping

ASSUME MappingAssumption == /\ BatchSize \in Nat \ {0}
                            /\ MaxRetries \in Nat

VARIABLES stream,      \* the shard: every record put so far, in order
          ckpt,        \* how many records the mapping is done with
          cuts,        \* last positions of the polled batch and its pieces
          tries,       \* failed deliveries of the single record at ckpt+1
          discarded    \* pointers in the on-failure destination

mappingVars == <<ckpt, cuts, tries, discarded>>

Positions == 1..Len(stream)

Pointer == [start : Nat \ {0}, size : Nat \ {0}]

(* The positions a failure pointer covers. *)
Covered(f) == f.start..(f.start + f.size - 1)

MappingTypeOK ==
    /\ stream \in Seq(Record)
    /\ ckpt \in 0..Len(stream)
    /\ cuts \subseteq (ckpt + 1)..Len(stream)
    /\ tries \in 0..MaxRetries
    /\ discarded \subseteq Pointer

MappingInit ==
    /\ stream = <<>>
    /\ ckpt = 0
    /\ cuts = {}
    /\ tries = 0
    /\ discarded = {}

(* hi ends the batch that is to be delivered next. *)
NextBatch(hi) == hi \in cuts /\ \A c \in cuts : hi <= c

Advance(hi) ==
    /\ ckpt' = hi
    /\ cuts' = cuts \ {hi}
    /\ tries' = 0

(* Read the next records of the shard, at most BatchSize of them. *)
PollBatch ==
    /\ cuts = {}
    /\ \E hi \in (ckpt + 1)..Len(stream) :
          /\ hi <= ckpt + BatchSize
          /\ cuts' = {hi}
    /\ UNCHANGED <<ckpt, tries, discarded>>

(* The function returned normally: move past the batch. *)
BatchSucceeded(hi) ==
    /\ NextBatch(hi)
    /\ Advance(hi)
    /\ UNCHANGED discarded

(* Give up the batch, leaving a pointer to it in the bucket. *)
GiveUp(hi) ==
    /\ NextBatch(hi)
    /\ Advance(hi)
    /\ discarded' = discarded \cup {[start |-> ckpt + 1, size |-> hi - ckpt]}

(* The invocation failed.  A batch of several records is cut in two; a     *)
(* single record is redelivered until its retries are used up.             *)
BatchFailed(hi) ==
    /\ NextBatch(hi)
    /\ \/ /\ hi > ckpt + 1
          /\ cuts' = cuts \cup {(ckpt + hi) \div 2}
          /\ tries' = 0
          /\ UNCHANGED <<ckpt, discarded>>
       \/ /\ hi = ckpt + 1
          /\ tries < MaxRetries
          /\ tries' = tries + 1
          /\ UNCHANGED <<ckpt, cuts, discarded>>
       \/ /\ hi = ckpt + 1
          /\ tries = MaxRetries
          /\ GiveUp(hi)

(* Position i was given up: some pointer in the bucket covers it.          *)
Pointed(i) == \E f \in discarded : i \in Covered(f)

(* Pointers only cover records the mapping is done with.                   *)
PointersAreBehind ==
    \A f \in discarded : Covered(f) \subseteq 1..ckpt

=============================================================================
