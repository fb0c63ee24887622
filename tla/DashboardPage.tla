---------------------------- MODULE DashboardPage ---------------------------
(***************************************************************************)
(* A browser page (app.js) that polls the server of DashboardCache, beside *)
(* other clients.  The page has one request in flight; a fetch may fail    *)
(* while the server still works on it.                                     *)
(***************************************************************************)
EXTENDS DashboardCache

VARIABLES awaits,       \* the requests of its fetches in flight
          shown,        \* the version in state.pumpsData
          shownAt,      \* fetched_at of the envelope it came in
          label,        \* state.systemState
          lastSuccess   \* state.lastSuccessTime

pageVars == <<awaits, shown, shownAt, label, lastSuccess>>
vars == <<serverVars, pageVars>>

Init ==
    /\ CacheInit
    /\ awaits = {} /\ shown = 0 /\ shownAt = None
    /\ label = "fresh" /\ lastSuccess = None

(* Mutation of Poll: without the guard a second fetch starts.              *)
PollAnyway(q) ==
    /\ Enter(q)
    /\ awaits' = awaits \cup {q}
    /\ UNCHANGED <<shown, shownAt, label, lastSuccess>>

-----------------------------------------------------------------------------
(* The timer or the refresh button; both return while a fetch is out.      *)
Poll(q) ==
    /\ awaits = {}
    /\ Enter(q)
    /\ awaits' = {q}
    /\ UNCHANGED <<shown, shownAt, label, lastSuccess>>

(* The slot of a request whose answer was delivered or dropped.            *)
Release(q) ==
    /\ stage[q] = "replied"
    /\ stage' = [stage EXCEPT ![q] = "free"]
    /\ reply' = [reply EXCEPT ![q] = NoReply]
    /\ UNCHANGED <<sourceVars, cacheVars, now, seen>>

(* Mutation of Deliver: a failed poll leaves the guard set.                *)
DeliverGuardLeft(q) ==
    /\ q \in awaits
    /\ Release(q)
    /\ label' = reply[q].state
    /\ IF reply[q].state = "unavailable"
       THEN UNCHANGED <<awaits, shown, shownAt, lastSuccess>>
       ELSE /\ awaits' = awaits \ {q}
            /\ shown' = reply[q].value
            /\ shownAt' = reply[q].at
            /\ lastSuccess' = clock

(* 200: the envelope's data and state.  503: the last data stay.           *)
Deliver(q) ==
    /\ q \in awaits
    /\ Release(q)
    /\ awaits' = awaits \ {q}
    /\ label' = reply[q].state
    /\ IF reply[q].state = "unavailable"
       THEN UNCHANGED <<shown, shownAt, lastSuccess>>
       ELSE /\ shown' = reply[q].value
            /\ shownAt' = reply[q].at
            /\ lastSuccess' = clock

(* network_failure: the page stops waiting, the server does not know.      *)
FetchFails(q) ==
    /\ q \in awaits
    /\ awaits' = awaits \ {q}
    /\ label' = IF lastSuccess # None /\ clock - lastSuccess <= UnavailableAfter
                THEN "stale" ELSE "unavailable"
    /\ UNCHANGED <<serverVars, shown, shownAt, lastSuccess>>

(* Other clients of the server, and answers nobody waits for.              *)
Visit(q) == Enter(q) /\ UNCHANGED pageVars
Discard(q) == q \notin awaits /\ Release(q) /\ UNCHANGED pageVars

Server(q) == Serve(q) /\ UNCHANGED pageVars

Next ==
    \/ Tick /\ UNCHANGED pageVars
    \/ WriteRow /\ UNCHANGED pageVars
    \/ Settle /\ UNCHANGED pageVars
    \/ \E q \in Request :
           \/ Poll(q) \/ Deliver(q) \/ FetchFails(q)
           \/ Visit(q) \/ Discard(q) \/ Server(q)

Spec == Init /\ [][Next]_vars

(* Time passes, a row reaches its replicas and answers arrive.  Clients    *)
(* poll seconds apart, so a poll finds a thread, and a waiting thread the  *)
(* lock, that is free again and again.                                     *)
FairSpec ==
    /\ Spec
    /\ WF_vars(Tick /\ UNCHANGED pageVars)
    /\ WF_vars(Settle /\ UNCHANGED pageVars)
    /\ SF_vars(\E q \in Request : Poll(q))
    /\ WF_vars(\E q \in Request : Deliver(q))
    /\ \A q \in Request : SF_vars(Server(q)) /\ WF_vars(Discard(q))

-----------------------------------------------------------------------------
Stage == {"free", "waiting", "loading", "loaded", "replied"}
Label == {"fresh", "stale", "unavailable"}
Time == 0 .. clock

TypeOK ==
    /\ clock \in 0 .. MaxTime
    /\ written \in Nat
    /\ settled \in Seq(Nat)
    /\ Len(settled) <= written
    /\ value \in Version
    /\ fetchedAt \in Time \cup {None}
    /\ lock \in Request \cup {None}
    /\ stage \in [Request -> Stage]
    /\ now \in [Request -> Time]
    /\ seen \in [Request -> Version]
    /\ reply \in [Request -> [state : Label, value : Version, at : Time \cup {None}]]
    /\ awaits \subseteq Request
    /\ shown \in Version
    /\ shownAt \in Time \cup {None}
    /\ label \in Label
    /\ lastSuccess \in Time \cup {None}

(* What one loads under the lock nobody else overtakes, and what one was   *)
(* told was fetched no earlier than what the page shows: the inductive     *)
(* invariant.                                                              *)
SettledInThePast == \A i \in DOMAIN settled : settled[i] <= clock

OneLoader ==
    \A q \in Request : stage[q] \in {"loading", "loaded"} <=> lock = q

(* Who loads asked after the cached value was fetched, and what it has     *)
(* read was still to be read when it asked.                                *)
LoaderIsLater ==
    \A q \in Request :
        /\ stage[q] \in {"loading", "loaded"} /\ fetchedAt # None => fetchedAt < now[q]
        /\ seen[q] # 0 => stage[q] = "loaded" /\ CurrentSince(seen[q], now[q])

OneFetch ==
    /\ \A p, q \in awaits : p = q
    /\ \A q \in awaits : stage[q] # "free"

PageBehindCache ==
    /\ shownAt # None => fetchedAt # None /\ shownAt <= fetchedAt
    /\ shown # 0 => shownAt # None /\ CurrentSince(shown, shownAt)

AnswerNotBehindPage ==
    \A q \in awaits : stage[q] = "replied" /\ reply[q].state # "unavailable" =>
        /\ reply[q].at # None /\ fetchedAt # None /\ reply[q].at <= fetchedAt
        /\ shownAt # None => shownAt <= reply[q].at
        /\ reply[q].value # 0 => CurrentSince(reply[q].value, reply[q].at)

DashboardInv ==
    /\ TypeOK
    /\ SettledInThePast
    /\ OneLoader
    /\ ClaimedAgeIsTrue
    /\ LoaderIsLater
    /\ OneFetch
    /\ PageBehindCache
    /\ AnswerNotBehindPage

(* What the page comes to show was fetched no earlier than what it showed, *)
(* and is no row that every replica had replaced by then: the guard keeps  *)
(* a slow poll from overtaking a later one, the lock a slow load.  Between *)
(* versions that were both to be read, the read decides.                   *)
PageNeverGoesBack ==
    [][shownAt # None =>
           /\ shownAt' >= shownAt
           /\ shown' # 0 => CurrentSince(shown', shownAt)]_vars

Fault == \E q \in Request : FetchFails(q) \/ LoadFails(q) \/ LeaveOut(q)

(* Once nothing fails any more, and no key is left out, the page comes to  *)
(* show the last version, and keeps showing it, whatever the outage left   *)
(* in the cache and the guard.                                             *)
PageCatchesUp ==
    []<><<Fault>>_vars \/ <>[](written # 0 => shown = written /\ label = "fresh")

(* No request waits for ever: every exit of get releases the lock.         *)
RequestsAreAnswered == \A q \in Request : []<>(stage[q] \in {"free", "replied"})

=============================================================================
