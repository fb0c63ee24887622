--------------------------- MODULE DashboardCache ---------------------------
(***************************************************************************)
(* The dashboard server: ResilientTtlCache between the request threads and *)
(* a source that moves.  A request takes its time, waits for the lock, and *)
(* under the lock either hits the cache or loads.                          *)
(*                                                                         *)
(* The source is the row of one pump in the latest-state table, which      *)
(* fetch_pumps reads with an eventually consistent batch_get_item: a read  *)
(* may miss a version some replica has not got yet, and a key DynamoDB did *)
(* not process is left out of the answer.  The publication pointer, the    *)
(* source of the other cache, is the case in which every version settles   *)
(* as it is written and no key is left out.                                *)
(*                                                                         *)
(* A value is the number of the version it was read from; 0 is a pump that *)
(* is not in the list.                                                     *)
(***************************************************************************)
EXTENDS Integers, Sequences

CONSTANTS Request,           \* request threads of the server
          Ttl,               \* cache_ttl_seconds
          UnavailableAfter,  \* unavailable_after_seconds
          MaxTime,           \* bound: the time observed
          MaxVersions,       \* bound: versions of the row
          None

ASSUME CacheAssumption ==
    /\ Ttl \in Nat \ {0}
    /\ UnavailableAfter \in Nat
    /\ MaxTime \in Nat
    /\ MaxVersions \in Nat
    /\ None \notin Nat
    /\ None \notin Request

VARIABLES clock,
          written,    \* versions of the row written so far
          settled,    \* settled[v]: when the last replica got version v
          value,      \* _value: 0 before the first success, too
          fetchedAt,  \* _fetched_at
          lock,       \* _lock: the request that holds it
          stage,      \* where each request is
          now,        \* the time it compares with the cache
          seen,       \* the version its loader read
          reply       \* what it returned

sourceVars == <<clock, written, settled>>
cacheVars == <<value, fetchedAt, lock>>
requestVars == <<stage, now, seen, reply>>
serverVars == <<sourceVars, cacheVars, requestVars>>

Version == 0 .. written

NoReply == [state |-> "unavailable", value |-> 0, at |-> None]

CacheInit ==
    /\ clock = 0
    /\ written = 0 /\ settled = <<>>
    /\ value = 0 /\ fetchedAt = None /\ lock = None
    /\ stage = [q \in Request |-> "free"]
    /\ now = [q \in Request |-> 0]
    /\ seen = [q \in Request |-> 0]
    /\ reply = [q \in Request |-> NoReply]

-----------------------------------------------------------------------------
(* Time passes; the last version is observed for at least a Ttl after it   *)
(* settled.                                                                *)
Tick ==
    /\ clock < MaxTime
    /\ Len(settled) = written \/ clock + Ttl < MaxTime
    /\ clock' = clock + 1
    /\ UNCHANGED <<written, settled, cacheVars, requestVars>>

(* The StreamProcessor puts a newer row: some replicas have it.            *)
WriteRow ==
    /\ written < MaxVersions
    /\ clock + Ttl <= MaxTime
    /\ written' = written + 1
    /\ UNCHANGED <<clock, settled, cacheVars, requestVars>>

(* The last replica gets the next version.                                 *)
Settle ==
    /\ Len(settled) < written
    /\ settled' = Append(settled, clock)
    /\ UNCHANGED <<clock, written, cacheVars, requestVars>>

(* A client asks, and get takes the time before the lock.                  *)
Enter(q) ==
    /\ stage[q] = "free"
    /\ stage' = [stage EXCEPT ![q] = "waiting"]
    /\ now' = [now EXCEPT ![q] = clock]
    /\ UNCHANGED <<sourceVars, cacheVars, seen, reply>>

(* Mutation of Within: an entry that was filled once is never too old.     *)
WithinForever(q, limit) == fetchedAt # None

Within(q, limit) == fetchedAt # None /\ now[q] - fetchedAt < limit

(* The request's time and its loader's reading end with the call.          *)
Answer(q, state, v, t) ==
    /\ stage' = [stage EXCEPT ![q] = "replied"]
    /\ reply' = [reply EXCEPT ![q] = [state |-> state, value |-> v, at |-> t]]
    /\ now' = [now EXCEPT ![q] = 0]
    /\ seen' = [seen EXCEPT ![q] = 0]
    /\ UNCHANGED sourceVars

Hit(q) ==
    /\ stage[q] = "waiting"
    /\ lock = None
    /\ Within(q, Ttl)
    /\ Answer(q, "fresh", value, fetchedAt)
    /\ UNCHANGED cacheVars

(* Mutation of Miss: the lock guards the test and not the load.            *)
MissUnlocked(q) ==
    /\ stage[q] = "waiting"
    /\ ~Within(q, Ttl)
    /\ stage' = [stage EXCEPT ![q] = "loading"]
    /\ UNCHANGED <<sourceVars, cacheVars, now, seen, reply>>

Miss(q) ==
    /\ stage[q] = "waiting"
    /\ lock = None
    /\ ~Within(q, Ttl)
    /\ lock' = q
    /\ stage' = [stage EXCEPT ![q] = "loading"]
    /\ UNCHANGED <<sourceVars, value, fetchedAt, now, seen, reply>>

(* batch_get_item answers with what some replica has.                      *)
ReadSource(q) ==
    /\ stage[q] = "loading"
    /\ stage' = [stage EXCEPT ![q] = "loaded"]
    /\ \E v \in Len(settled) .. written : seen' = [seen EXCEPT ![q] = v]
    /\ UNCHANGED <<sourceVars, cacheVars, now, reply>>

(* The key comes back in UnprocessedKeys, which nobody looks at; what it   *)
(* does to the cache is observed for a Ttl.                                *)
LeaveOut(q) ==
    /\ stage[q] = "loading"
    /\ clock + Ttl <= MaxTime
    /\ stage' = [stage EXCEPT ![q] = "loaded"]
    /\ UNCHANGED <<sourceVars, cacheVars, now, seen, reply>>

(* Mutation of LoadSucceeds: the entry is dated when it is stored.         *)
LoadSucceedsDatedLate(q) ==
    /\ stage[q] = "loaded"
    /\ value' = seen[q]
    /\ fetchedAt' = clock
    /\ lock' = None
    /\ Answer(q, "fresh", seen[q], clock)

LoadSucceeds(q) ==
    /\ stage[q] = "loaded"
    /\ value' = seen[q]
    /\ fetchedAt' = now[q]
    /\ lock' = None
    /\ Answer(q, "fresh", seen[q], now[q])

(* Mutation of LoadFails: the exception leaves without releasing the lock. *)
LoadFailsHoldingLock(q) ==
    /\ stage[q] \in {"loading", "loaded"}
    /\ Answer(q, "unavailable", 0, None)
    /\ UNCHANGED <<value, fetchedAt, lock>>

(* The loader raises: no stack, no answer from AWS, and for a publication  *)
(* no pointer, an unapproved report or a summary of another run.           *)
LoadFails(q) ==
    /\ stage[q] \in {"loading", "loaded"}
    /\ lock' = None
    /\ IF Within(q, UnavailableAfter)
       THEN Answer(q, "stale", value, fetchedAt)
       ELSE Answer(q, "unavailable", 0, None)
    /\ UNCHANGED <<value, fetchedAt>>

Serve(q) ==
    \/ Hit(q) \/ Miss(q) \/ ReadSource(q) \/ LeaveOut(q)
    \/ LoadSucceeds(q) \/ LoadFails(q)

-----------------------------------------------------------------------------
(* At time t or later version v could still be read: a replica had nothing *)
(* newer.                                                                  *)
CurrentSince(v, t) == v >= Len(settled) \/ settled[v + 1] >= t

(* fetched_at and data_age_seconds, which every envelope carries, are      *)
(* true: the value was one to be read at that time or later, however long  *)
(* the request waited for the lock and its loader for AWS.  Of a pump that *)
(* is not in the list nothing is claimed.                                  *)
ClaimedAgeIsTrue ==
    value # 0 => fetchedAt # None /\ CurrentSince(value, fetchedAt)

Answers(q) == stage[q] # "replied" /\ stage'[q] = "replied"

(* A label is true of its value when the client gets it: what is fresh was *)
(* current less than a Ttl before the client asked, what is stale less     *)
(* than the limit before, whatever other requests did in between.          *)
LabelsAreTrue ==
    [][\A q \in Request : Answers(q) /\ reply'[q].value # 0 =>
           /\ reply'[q].state = "fresh" =>
                  CurrentSince(reply'[q].value, now[q] - Ttl + 1)
           /\ reply'[q].state = "stale" =>
                  CurrentSince(reply'[q].value, now[q] - UnavailableAfter + 1)]_serverVars

=============================================================================
