--------------------------- MODULE DashboardProofs --------------------------
(***************************************************************************)
(* Whatever the number of request threads and versions, the limits and the *)
(* failures, and however far the replicas of the table lag behind: the     *)
(* dashboard's claims about the age of what it serves are true, and the    *)
(* page never goes back to a row that was replaced everywhere.             *)
(***************************************************************************)
EXTENDS DashboardPage, SequenceTheorems, TLAPS

-----------------------------------------------------------------------------
(* The source and the clock only go forward.                               *)
LEMMA SourceForward ==
    ASSUME TypeOK, SettledInThePast, [Next]_vars
    PROVE  /\ clock \in Nat /\ Len(settled) \in Nat /\ written \in Nat
           /\ clock' \in 0 .. MaxTime
           /\ settled' \in Seq(Nat) /\ written' \in Nat
           /\ Len(settled') <= written'
           /\ clock <= clock' /\ written <= written'
           /\ SettledInThePast'
           /\ \A v \in Version, t \in Time : CurrentSince(v, t) => CurrentSince(v, t)'
<1>0. /\ clock \in Nat /\ Len(settled) \in Nat /\ MaxTime \in Nat /\ clock \in 0 .. MaxTime
      /\ written \in Nat /\ Len(settled) <= written /\ settled \in Seq(Nat)
  BY CacheAssumption DEF TypeOK
<1>1. CASE UNCHANGED sourceVars
  BY <1>0, <1>1 DEF sourceVars, SettledInThePast, CurrentSince
<1>2. CASE Tick \/ WriteRow
  BY <1>0, <1>2 DEF Tick, WriteRow, SettledInThePast, CurrentSince
<1>3. CASE Settle
  <2>1. /\ settled' = Append(settled, clock) /\ UNCHANGED <<clock, written>>
        /\ Len(settled) < written
    BY <1>3 DEF Settle
  <2>2. /\ settled' \in Seq(Nat)
        /\ Len(settled') = Len(settled) + 1
        /\ \A i \in 1 .. Len(settled) : settled'[i] = settled[i]
        /\ settled'[Len(settled) + 1] = clock
    BY <2>1, <1>0, AppendProperties
  <2>3. SettledInThePast'
    BY <2>1, <2>2, <1>0 DEF SettledInThePast
  <2>4. ASSUME NEW v \in Version, NEW t \in Time, CurrentSince(v, t)
        PROVE  CurrentSince(v, t)'
    BY <2>1, <2>2, <2>4, <1>0 DEF CurrentSince, Version, Time
  <2> QED
    BY <1>0, <2>1, <2>2, <2>3, <2>4
<1> QED
  <2>1. ASSUME NEW q \in Request, Poll(q) \/ Deliver(q) \/ FetchFails(q)
                 \/ Visit(q) \/ Discard(q) \/ Server(q)
        PROVE  UNCHANGED sourceVars
    BY <2>1 DEF Poll, Deliver, FetchFails, Visit, Discard, Server, Enter, Release,
       Serve, Hit, Miss, ReadSource, LeaveOut, LoadSucceeds, LoadFails, Answer,
       serverVars, sourceVars
  <2>2. CASE UNCHANGED vars
    BY <1>1, <2>2 DEF vars, serverVars
  <2> QED
    BY <1>1, <1>2, <1>3, <2>1, <2>2 DEF Next

Envelope == [state : Label, value : Version, at : Time \cup {None}]

(* What an answer leaves behind, whatever it says.                         *)
LEMMA AnswerTyped ==
    ASSUME TypeOK, NEW q \in Request, NEW state \in Label, NEW v \in Version,
           NEW t \in Time \cup {None}, Answer(q, state, v, t)
    PROVE  /\ UNCHANGED sourceVars
           /\ stage' \in [Request -> Stage]
           /\ now' \in [Request -> Time]
           /\ seen' \in [Request -> Version]
           /\ reply' \in [Request -> Envelope]
<1>1. 0 \in Time /\ 0 \in Version
  BY CacheAssumption DEF TypeOK, Time, Version
<1>2. [state |-> state, value |-> v, at |-> t] \in Envelope
  BY DEF Envelope
<1> QED
  BY <1>1, <1>2 DEF TypeOK, Answer, Stage, Envelope

LEMMA TypeStep ==
    ASSUME TypeOK, SettledInThePast, [Next]_vars
    PROVE  TypeOK'
<1>1. /\ clock \in Nat /\ written \in Nat /\ clock' \in Nat /\ written' \in Nat
      /\ clock' \in 0 .. MaxTime /\ settled' \in Seq(Nat) /\ Len(settled') <= written'
      /\ clock <= clock' /\ written <= written' /\ Len(settled) \in 0 .. written
  <2>1. /\ clock \in Nat /\ written \in Nat /\ clock' \in 0 .. MaxTime /\ written' \in Nat
        /\ settled' \in Seq(Nat) /\ Len(settled') <= written'
        /\ clock <= clock' /\ written <= written' /\ Len(settled) \in Nat
    BY SourceForward
  <2>2. MaxTime \in Nat /\ Len(settled) <= written
    BY CacheAssumption DEF TypeOK
  <2> QED
    BY <2>1, <2>2
<1>2. Time \subseteq Time' /\ Version \subseteq Version'
  BY <1>1 DEF Time, Version
<1> DEFINE Typed ==
      /\ value' \in Version
      /\ fetchedAt' \in Time \cup {None}
      /\ lock' \in Request \cup {None}
      /\ stage' \in [Request -> Stage]
      /\ now' \in [Request -> Time]
      /\ seen' \in [Request -> Version]
      /\ reply' \in [Request -> Envelope]
      /\ awaits' \subseteq Request
      /\ shown' \in Version /\ shownAt' \in Time \cup {None}
      /\ label' \in Label
      /\ lastSuccess' \in Time \cup {None}
<1>3. Typed
  <2>0. clock \in Time /\ 0 \in Version /\ Len(settled) .. written \subseteq Version
    BY <1>1 DEF Time, Version
  <2>1. CASE UNCHANGED vars
    BY <2>1 DEF TypeOK, vars, serverVars, sourceVars, cacheVars, requestVars, pageVars,
       Envelope
  <2>2. CASE Tick /\ UNCHANGED pageVars
    BY <2>2 DEF TypeOK, Tick, cacheVars, requestVars, pageVars, Envelope
  <2>3. CASE (WriteRow \/ Settle) /\ UNCHANGED pageVars
    BY <2>3 DEF TypeOK, WriteRow, Settle, cacheVars, requestVars, pageVars, Envelope
  <2>4. ASSUME NEW q \in Request, Poll(q) \/ Visit(q) PROVE  Typed
    BY <2>0, <2>4 DEF TypeOK, Poll, Visit, Enter, Stage, sourceVars, cacheVars, pageVars,
       Envelope
  <2>5. ASSUME NEW q \in Request, Deliver(q) \/ Discard(q) PROVE  Typed
    <3>1. NoReply \in Envelope
      BY <2>0 DEF NoReply, Label, Envelope
    <3>2. Release(q) /\ reply[q] \in Envelope
      BY <2>5 DEF Deliver, Discard, TypeOK, Envelope
    <3>3. /\ value' \in Version /\ fetchedAt' \in Time \cup {None}
          /\ lock' \in Request \cup {None} /\ stage' \in [Request -> Stage]
          /\ now' \in [Request -> Time] /\ seen' \in [Request -> Version]
          /\ reply' \in [Request -> Envelope]
      BY <3>1, <3>2 DEF Release, TypeOK, Stage, cacheVars, Envelope
    <3>4. /\ awaits' \subseteq Request /\ shown' \in Version
          /\ shownAt' \in Time \cup {None}
          /\ label' \in Label /\ lastSuccess' \in Time \cup {None}
      BY <2>0, <2>5, <3>2 DEF Deliver, Discard, TypeOK, pageVars, Envelope
    <3> QED
      BY <3>3, <3>4
  <2>6. ASSUME NEW q \in Request, FetchFails(q) PROVE  Typed
    BY <2>6 DEF TypeOK, FetchFails, Label, serverVars, sourceVars, cacheVars, requestVars,
       Envelope
  <2>7. ASSUME NEW q \in Request, Server(q) PROVE  Typed
    <3>1. now[q] \in Time /\ seen[q] \in Version /\ value \in Version
          /\ fetchedAt \in Time \cup {None}
      BY DEF TypeOK
    <3>2. CASE Hit(q)
      <4>1. Answer(q, "fresh", value, fetchedAt) /\ UNCHANGED cacheVars
        BY <3>2 DEF Hit
      <4> QED
        BY <2>7, <3>1, <4>1, AnswerTyped DEF Server, TypeOK, Label, cacheVars, pageVars
    <3>3. CASE Miss(q) \/ ReadSource(q) \/ LeaveOut(q)
      BY <2>0, <2>7, <3>3 DEF Server, Miss, ReadSource, LeaveOut, TypeOK, Stage, sourceVars,
         cacheVars, pageVars, Envelope
    <3>4. CASE LoadSucceeds(q)
      <4>1. /\ Answer(q, "fresh", seen[q], now[q])
            /\ value' = seen[q] /\ fetchedAt' = now[q] /\ lock' = None
        BY <3>4 DEF LoadSucceeds
      <4> QED
        BY <2>7, <3>1, <4>1, AnswerTyped DEF Server, TypeOK, Label, pageVars
    <3>5. CASE LoadFails(q)
      <4>1. /\ \/ Answer(q, "stale", value, fetchedAt)
               \/ Answer(q, "unavailable", 0, None)
            /\ lock' = None /\ UNCHANGED <<value, fetchedAt>>
        BY <3>5 DEF LoadFails
      <4> QED
        BY <2>0, <2>7, <3>1, <4>1, AnswerTyped DEF Server, TypeOK, Label, pageVars
    <3> QED
      BY <2>7, <3>2, <3>3, <3>4, <3>5 DEF Server, Serve
  <2> QED
    BY <2>1, <2>2, <2>3, <2>4, <2>5, <2>6, <2>7 DEF Next
<1>4. [Request -> Time] \subseteq [Request -> Time'] /\ [Request -> Version] \subseteq [Request -> Version']
      /\ [Request -> Envelope] \subseteq [Request -> Envelope']
  BY <1>2 DEF Envelope, Label
<1> QED
  BY <1>1, <1>2, <1>3, <1>4 DEF TypeOK, Label, Stage, Envelope

-----------------------------------------------------------------------------
(* The lock: only its holder loads, so it stores what was fetched later.   *)
CacheInv == OneLoader /\ ClaimedAgeIsTrue /\ LoaderIsLater

Loads(q) == stage[q] \in {"loading", "loaded"}

(* The cached value is fetched anew, never dated back.                     *)
FetchedForward == fetchedAt # None => fetchedAt' # None /\ fetchedAt <= fetchedAt'

(* A step that neither loads nor stores. *)
LEMMA QuietStep ==
    ASSUME TypeOK, TypeOK', SettledInThePast, CacheInv, [Next]_vars,
           UNCHANGED <<value, fetchedAt, lock>>,
           \A p \in Request : \/ UNCHANGED <<stage[p], now[p], seen[p]>>
                              \/ ~Loads(p) /\ ~Loads(p)' /\ seen'[p] = 0
    PROVE  CacheInv'
<1>1. \A v \in Version, t \in Time : CurrentSince(v, t) => CurrentSince(v, t)'
  BY SourceForward
<1>2. /\ value \in Version /\ fetchedAt \in Time \cup {None}
      /\ \A p \in Request : now[p] \in Time /\ seen[p] \in Version
  BY DEF TypeOK
<1>3. OneLoader'
  BY DEF CacheInv, OneLoader, Loads
<1>4. ClaimedAgeIsTrue'
  <2>1. value # 0 => fetchedAt \in Time /\ CurrentSince(value, fetchedAt)'
    BY <1>1, <1>2 DEF CacheInv, ClaimedAgeIsTrue
  <2> QED
    BY <2>1 DEF CacheInv, ClaimedAgeIsTrue, CurrentSince
<1>5. LoaderIsLater'
  <2>1. ASSUME NEW p \in Request, stage'[p] \in {"loading", "loaded"}, fetchedAt' # None
        PROVE  fetchedAt' < now'[p]
    <3>1. UNCHANGED <<stage[p], now[p], seen[p]>>
      BY <2>1 DEF Loads
    <3> QED
      BY <2>1, <3>1 DEF CacheInv, LoaderIsLater
  <2>2. ASSUME NEW p \in Request, seen'[p] # 0
        PROVE  stage'[p] = "loaded" /\ CurrentSince(seen[p], now[p])'
    <3>1. UNCHANGED <<stage[p], now[p], seen[p]>>
      BY <2>2
    <3>2. stage[p] = "loaded" /\ CurrentSince(seen[p], now[p])
      BY <2>2, <3>1 DEF CacheInv, LoaderIsLater
    <3> QED
      BY <1>1, <1>2, <3>1, <3>2 DEF CurrentSince
  <2> QED
    BY <2>1, <2>2 DEF LoaderIsLater
<1> QED
  BY <1>3, <1>4, <1>5 DEF CacheInv

LEMMA CacheStep ==
    ASSUME TypeOK, TypeOK', SettledInThePast, CacheInv, [Next]_vars
    PROVE  CacheInv' /\ FetchedForward
<1>0. /\ value \in Nat /\ Len(settled) \in Nat /\ clock \in Nat /\ fetchedAt \in Time \cup {None}
      /\ fetchedAt # None => fetchedAt \in Nat
      /\ None \notin Request /\ None \notin Nat /\ Ttl \in Nat \ {0}
      /\ \A p \in Request : now[p] \in Time /\ now[p] \in Nat /\ now[p] # None /\ seen[p] \in Nat
      /\ settled \in Seq(Nat) /\ written \in Nat /\ Len(settled) <= written
  <2>1. /\ clock \in Nat /\ Len(settled) \in Nat /\ settled \in Seq(Nat) /\ written \in Nat
        /\ Len(settled) <= written
    BY SourceForward DEF TypeOK
  <2>2. Time \subseteq Nat /\ Version \subseteq Nat
    BY <2>1 DEF Time, Version
  <2>3. /\ value \in Version /\ fetchedAt \in Time \cup {None}
        /\ \A p \in Request : now[p] \in Time /\ seen[p] \in Version
    BY DEF TypeOK
  <2> QED
    BY <2>1, <2>2, <2>3, CacheAssumption
<1>1. CASE /\ UNCHANGED cacheVars
           /\ \A p \in Request : \/ UNCHANGED <<stage[p], now[p], seen[p]>>
                                 \/ ~Loads(p) /\ ~Loads(p)' /\ seen'[p] = 0
  BY <1>0, <1>1, QuietStep DEF cacheVars, FetchedForward
<1>2. ASSUME NEW q \in Request, Server(q)
      PROVE  CacheInv' /\ FetchedForward
  <2>1. UNCHANGED sourceVars
    BY <1>2 DEF Server, Serve, Hit, Miss, ReadSource, LeaveOut, LoadSucceeds, LoadFails, Answer
  <2>2. CASE Hit(q)
    BY <1>1, <2>2 DEF Hit, Answer, Loads, TypeOK
  <2>3. CASE Miss(q)
    <3>1. /\ lock = None /\ lock' = q /\ stage' = [stage EXCEPT ![q] = "loading"]
          /\ stage[q] = "waiting" /\ ~Within(q, Ttl)
          /\ UNCHANGED <<value, fetchedAt, now, seen>>
      BY <2>3 DEF Miss
    <3>2. \A p \in Request : ~Loads(p) /\ seen[p] = 0
      BY <1>0, <3>1 DEF CacheInv, OneLoader, LoaderIsLater, Loads
    <3>3. fetchedAt # None => fetchedAt < now[q]
      BY <1>0, <3>1 DEF Within
    <3>4. OneLoader' /\ LoaderIsLater'
      BY <3>1, <3>2, <3>3 DEF OneLoader, LoaderIsLater, Loads, TypeOK
    <3> QED
      BY <1>0, <2>1, <3>1, <3>4
      DEF CacheInv, ClaimedAgeIsTrue, CurrentSince, sourceVars, FetchedForward
  <2>4. CASE ReadSource(q) \/ LeaveOut(q)
    <3>1. /\ stage[q] = "loading" /\ stage' = [stage EXCEPT ![q] = "loaded"]
          /\ UNCHANGED <<value, fetchedAt, lock, now, settled>>
      BY <2>4 DEF ReadSource, LeaveOut, sourceVars, cacheVars
    <3>2. PICK v \in Nat : /\ seen' = [seen EXCEPT ![q] = v]
                           /\ v # 0 => v >= Len(settled)
      <4>1. CASE ReadSource(q)
        <5>1. PICK v \in Len(settled) .. written : seen' = [seen EXCEPT ![q] = v]
          BY <4>1 DEF ReadSource
        <5>2. v \in Nat /\ v >= Len(settled)
          BY <1>0
        <5> QED
          BY <5>1, <5>2
      <4>2. CASE LeaveOut(q)
        <5>1. seen[q] = 0
          BY <3>1 DEF CacheInv, LoaderIsLater
        <5>2. seen' = [seen EXCEPT ![q] = 0]
          BY <4>2, <5>1 DEF LeaveOut, TypeOK
        <5> QED
          BY <5>2
      <4> QED
        BY <2>4, <4>1, <4>2
    <3>3. OneLoader'
      BY <3>1 DEF CacheInv, OneLoader, TypeOK
    <3>4. LoaderIsLater'
      BY <1>0, <3>1, <3>2 DEF CacheInv, LoaderIsLater, CurrentSince, TypeOK
    <3> QED
      BY <1>0, <3>1, <3>3, <3>4 DEF CacheInv, ClaimedAgeIsTrue, CurrentSince, FetchedForward
  <2>5. CASE LoadSucceeds(q) \/ LoadFails(q)
    <3>1. /\ Loads(q) /\ lock' = None /\ stage' = [stage EXCEPT ![q] = "replied"]
          /\ seen' = [seen EXCEPT ![q] = 0] /\ now' = [now EXCEPT ![q] = 0]
          /\ UNCHANGED settled
      BY <2>1, <2>5 DEF LoadSucceeds, LoadFails, Answer, Loads, sourceVars
    <3>2. \A p \in Request : ~Loads(p)'
      BY <3>1 DEF CacheInv, OneLoader, Loads, TypeOK
    <3>3. \A p \in Request : seen'[p] = 0
      <4>1. \A p \in Request \ {q} : ~Loads(p)
        BY <3>1 DEF CacheInv, OneLoader, Loads
      <4> QED
        BY <3>1, <4>1 DEF CacheInv, LoaderIsLater, Loads, TypeOK
    <3>4. OneLoader' /\ LoaderIsLater'
      BY <1>0, <3>1, <3>2, <3>3 DEF OneLoader, LoaderIsLater, Loads
    <3>5. CASE LoadSucceeds(q)
      <4>1. stage[q] = "loaded" /\ value' = seen[q] /\ fetchedAt' = now[q]
        BY <3>5 DEF LoadSucceeds
      <4>2. /\ fetchedAt # None => fetchedAt < now[q]
            /\ seen[q] # 0 => CurrentSince(seen[q], now[q])
        BY <4>1 DEF CacheInv, LoaderIsLater
      <4> QED
        BY <1>0, <3>1, <3>4, <4>1, <4>2 DEF CacheInv, ClaimedAgeIsTrue, CurrentSince, FetchedForward
    <3>6. CASE LoadFails(q)
      <4>1. UNCHANGED <<value, fetchedAt>>
        BY <3>6 DEF LoadFails
      <4> QED
        BY <1>0, <3>1, <3>4, <4>1 DEF CacheInv, ClaimedAgeIsTrue, CurrentSince, FetchedForward
    <3> QED
      BY <2>5, <3>5, <3>6
  <2> QED
    BY <1>2, <2>2, <2>3, <2>4, <2>5 DEF Server, Serve
<1>3. CASE UNCHANGED vars
  BY <1>1, <1>3 DEF vars, serverVars, requestVars, cacheVars
<1>4. CASE Tick \/ WriteRow \/ Settle
  BY <1>1, <1>4 DEF Tick, WriteRow, Settle, requestVars, cacheVars
<1>5. ASSUME NEW q \in Request, Poll(q) \/ Visit(q)
      PROVE  CacheInv' /\ FetchedForward
  <2>1. Enter(q) /\ stage[q] = "free" /\ seen[q] = 0
    BY <1>5 DEF Poll, Visit, Enter, CacheInv, LoaderIsLater
  <2> QED
    BY <1>1, <2>1 DEF Enter, Loads, TypeOK
<1>6. ASSUME NEW q \in Request, Deliver(q) \/ Discard(q)
      PROVE  CacheInv' /\ FetchedForward
  <2>1. Release(q) /\ stage[q] = "replied" /\ seen[q] = 0
    BY <1>6 DEF Deliver, Discard, Release, CacheInv, LoaderIsLater
  <2> QED
    BY <1>1, <2>1 DEF Release, Loads, TypeOK
<1>7. ASSUME NEW q \in Request, FetchFails(q)
      PROVE  CacheInv' /\ FetchedForward
  BY <1>1, <1>7 DEF FetchFails, serverVars, requestVars, cacheVars
<1> QED
  BY <1>2, <1>3, <1>4, <1>5, <1>6, <1>7 DEF Next

-----------------------------------------------------------------------------
(* The page: its only fetch is answered from a cache that is never behind. *)
PageInv == OneFetch /\ PageBehindCache /\ AnswerNotBehindPage

PageForward ==
    shownAt # None => /\ shownAt' >= shownAt
                      /\ shown' # 0 => CurrentSince(shown', shownAt)

(* The answer to a fetch is not behind the page. *)
InOrder(q) ==
    stage[q] = "replied" /\ reply[q].state # "unavailable" =>
        /\ reply[q].at # None /\ fetchedAt # None /\ reply[q].at <= fetchedAt
        /\ shownAt # None => shownAt <= reply[q].at
        /\ reply[q].value # 0 => CurrentSince(reply[q].value, reply[q].at)

LEMMA PageStep ==
    ASSUME TypeOK, TypeOK', SettledInThePast, CacheInv, CacheInv', PageInv,
           FetchedForward, [Next]_vars
    PROVE  PageInv' /\ PageForward
<1>0. /\ shown \in Version /\ shown' \in Version' /\ awaits \subseteq Request
      /\ shownAt \in Time \cup {None} /\ fetchedAt \in Time \cup {None}
      /\ fetchedAt' \in Nat \cup {None} /\ None \notin Nat /\ Time \subseteq Nat
      /\ \A q \in Request : reply[q].value \in Version /\ reply[q].at \in Time \cup {None}
      /\ \A q \in awaits : stage[q] # "free"
      /\ \A p, q \in awaits : p = q
      /\ \A q \in awaits : InOrder(q)
  BY CacheAssumption, SMTT(30) DEF TypeOK, Time, PageInv, OneFetch, AnswerNotBehindPage, InOrder
<1>1. \A v \in Version, t \in Time : CurrentSince(v, t) => CurrentSince(v, t)'
  BY SourceForward
<1>2. /\ shownAt # None => /\ fetchedAt' # None /\ shownAt <= fetchedAt'
                           /\ shownAt \in Nat
      /\ shown # 0 => shownAt # None /\ CurrentSince(shown, shownAt)
  <2>1. /\ shownAt # None => /\ fetchedAt # None /\ shownAt <= fetchedAt
                             /\ shownAt \in Nat /\ fetchedAt \in Nat
        /\ shown # 0 => shownAt # None /\ CurrentSince(shown, shownAt)
    BY <1>0 DEF PageInv, PageBehindCache
  <2> QED
    BY <1>0, <2>1 DEF FetchedForward
<1>3. ASSUME UNCHANGED <<shown, shownAt>>
      PROVE  PageBehindCache' /\ PageForward
  <2>1. shown # 0 => CurrentSince(shown, shownAt)'
    BY <1>0, <1>1, <1>2, <1>3 DEF CurrentSince
  <2> QED
    BY <1>0, <1>2, <1>3, <2>1 DEF PageBehindCache, PageForward, CurrentSince
<1>4. ASSUME NEW q \in awaits, UNCHANGED <<shownAt, stage[q], reply[q]>>
      PROVE  InOrder(q)'
  <2>1. reply[q].value \in Version /\ reply[q].at \in Time \cup {None} /\ InOrder(q)
    BY <1>0
  <2>2. ASSUME stage[q] = "replied", reply[q].state # "unavailable"
        PROVE  /\ reply[q].at # None /\ fetchedAt' # None /\ reply[q].at <= fetchedAt'
               /\ shownAt # None => shownAt <= reply[q].at
               /\ reply[q].value # 0 => CurrentSince(reply[q].value, reply[q].at)'
    <3>1. /\ reply[q].at \in Time /\ fetchedAt # None /\ reply[q].at <= fetchedAt
          /\ shownAt # None => shownAt <= reply[q].at
          /\ reply[q].value # 0 => CurrentSince(reply[q].value, reply[q].at)
      BY <2>1, <2>2 DEF InOrder
    <3>2. /\ fetchedAt' # None /\ fetchedAt <= fetchedAt'
          /\ fetchedAt \in Nat /\ fetchedAt' \in Nat /\ reply[q].at \in Nat
      BY <1>0, <3>1 DEF FetchedForward
    <3>3. reply[q].value # 0 => CurrentSince(reply[q].value, reply[q].at)'
      BY <1>1, <1>4, <2>1, <3>1 DEF CurrentSince
    <3> QED
      BY <1>0, <3>1, <3>2, <3>3
  <2> QED
    BY <1>4, <2>2 DEF InOrder, CurrentSince
<1>5. ASSUME UNCHANGED <<awaits, shown, shownAt>>,
             \A q \in awaits : UNCHANGED <<stage[q], reply[q]>>
      PROVE  PageInv' /\ PageForward
  <2>1. OneFetch'
    BY <1>0, <1>5 DEF OneFetch
  <2>2. AnswerNotBehindPage'
    BY <1>4, <1>5 DEF AnswerNotBehindPage, InOrder
  <2> QED
    BY <1>3, <1>5, <2>1, <2>2 DEF PageInv
<1>6. ASSUME NEW q \in Request, Server(q)
      PROVE  PageInv' /\ PageForward
  <2>1. UNCHANGED <<awaits, shown, shownAt>> /\ stage'[q] # "free" /\ UNCHANGED settled
        /\ \A p \in Request \ {q} : UNCHANGED <<stage[p], reply[p]>>
    BY <1>6 DEF Server, Serve, Hit, Miss, ReadSource, LeaveOut, LoadSucceeds, LoadFails,
       Answer, pageVars, sourceVars, TypeOK
  <2>2. OneFetch'
    BY <1>0, <2>1 DEF OneFetch
  <2>3. InOrder(q)'
    <3>1. CASE Hit(q)
      <4>1. /\ reply'[q] = [state |-> "fresh", value |-> value, at |-> fetchedAt]
            /\ fetchedAt # None /\ UNCHANGED <<value, fetchedAt>>
        BY <3>1 DEF Hit, Answer, Within, cacheVars, TypeOK
      <4> QED
        BY <1>0, <1>2, <2>1, <4>1 DEF InOrder, CacheInv, ClaimedAgeIsTrue, CurrentSince
    <3>2. CASE Miss(q) \/ ReadSource(q) \/ LeaveOut(q)
      BY <3>2 DEF Miss, ReadSource, LeaveOut, InOrder, TypeOK
    <3>3. CASE LoadSucceeds(q)
      <4>1. /\ reply'[q] = [state |-> "fresh", value |-> seen[q], at |-> now[q]]
            /\ value' = seen[q] /\ fetchedAt' = now[q] /\ now[q] \in Nat
        BY <1>0, <3>3 DEF LoadSucceeds, Answer, TypeOK
      <4> QED
        BY <1>0, <1>2, <2>1, <4>1 DEF InOrder, CacheInv, ClaimedAgeIsTrue, CurrentSince
    <3>4. CASE LoadFails(q)
      <4>1. /\ \/ reply'[q].state = "unavailable"
               \/ /\ reply'[q] = [state |-> "stale", value |-> value, at |-> fetchedAt]
                  /\ fetchedAt # None
            /\ UNCHANGED <<value, fetchedAt>>
        BY <3>4 DEF LoadFails, Answer, Within, TypeOK
      <4> QED
        BY <1>0, <1>2, <2>1, <4>1 DEF InOrder, CacheInv, ClaimedAgeIsTrue, CurrentSince
    <3> QED
      BY <1>6, <3>1, <3>2, <3>3, <3>4 DEF Server, Serve
  <2>4. AnswerNotBehindPage'
    <3>1. ASSUME NEW p \in awaits, p # q PROVE InOrder(p)'
      BY <1>0, <1>4, <2>1, <3>1
    <3> QED
      BY <2>1, <2>3, <3>1 DEF AnswerNotBehindPage, InOrder
  <2> QED
    BY <1>3, <2>1, <2>2, <2>4 DEF PageInv
<1>7. ASSUME NEW q \in Request, Poll(q)
      PROVE  PageInv' /\ PageForward
  <2>1. awaits' = {q} /\ stage'[q] = "waiting" /\ UNCHANGED <<shown, shownAt>>
    BY <1>7 DEF Poll, Enter, TypeOK
  <2> QED
    BY <1>3, <2>1 DEF PageInv, OneFetch, AnswerNotBehindPage
<1>8. ASSUME NEW q \in Request, Deliver(q)
      PROVE  PageInv' /\ PageForward
  <2>1. awaits' = {} /\ UNCHANGED <<fetchedAt, settled>>
    BY <1>0, <1>8 DEF Deliver, Release, cacheVars, sourceVars
  <2>2. CASE reply[q].state = "unavailable"
    <3>1. UNCHANGED <<shown, shownAt>>
      BY <1>8, <2>2 DEF Deliver
    <3> QED
      BY <1>3, <2>1, <3>1 DEF PageInv, OneFetch, AnswerNotBehindPage
  <2>3. CASE reply[q].state # "unavailable"
    <3>1. shown' = reply[q].value /\ shownAt' = reply[q].at
      BY <1>8, <2>3 DEF Deliver
    <3>2. /\ reply[q].at \in Nat /\ fetchedAt # None /\ reply[q].at <= fetchedAt
          /\ shownAt # None => shownAt <= reply[q].at
          /\ reply[q].value # 0 => CurrentSince(reply[q].value, reply[q].at)
      BY <1>0, <1>8, <2>3 DEF Deliver, Release, InOrder
    <3>3. PageBehindCache'
      BY <1>0, <2>1, <3>1, <3>2 DEF PageBehindCache, CurrentSince
    <3>4. PageForward
      <4>1. SUFFICES ASSUME shownAt # None
                     PROVE  /\ shownAt' >= shownAt
                            /\ shown' # 0 => CurrentSince(shown', shownAt)
        BY DEF PageForward
      <4>2. shownAt \in Nat /\ shownAt <= reply[q].at
        BY <1>2, <3>2, <4>1
      <4>3. ASSUME reply[q].value # 0
            PROVE  CurrentSince(reply[q].value, shownAt)
        <5>1. /\ settled \in Seq(Nat) /\ reply[q].value \in Nat
          BY <1>0 DEF TypeOK, Version
        <5> QED
          BY <3>2, <4>2, <4>3, <5>1 DEF CurrentSince
      <4> QED
        BY <3>1, <3>2, <4>2, <4>3
    <3> QED
      BY <2>1, <3>3, <3>4 DEF PageInv, OneFetch, AnswerNotBehindPage
  <2> QED
    BY <2>2, <2>3
<1>9. ASSUME NEW q \in Request, FetchFails(q)
      PROVE  PageInv' /\ PageForward
  <2>1. awaits' \subseteq awaits /\ UNCHANGED <<shown, shownAt, stage, reply>>
    BY <1>9 DEF FetchFails, serverVars, requestVars
  <2>2. OneFetch'
    BY <1>0, <2>1 DEF OneFetch
  <2>3. AnswerNotBehindPage'
    BY <1>4, <2>1 DEF AnswerNotBehindPage, InOrder
  <2> QED
    BY <1>3, <2>1, <2>2, <2>3 DEF PageInv
<1>a. ASSUME NEW q \in Request, Visit(q)
      PROVE  PageInv' /\ PageForward
  BY <1>0, <1>5, <1>a DEF Visit, Enter, pageVars, TypeOK
<1>b. ASSUME NEW q \in Request, Discard(q)
      PROVE  PageInv' /\ PageForward
  BY <1>0, <1>5, <1>b DEF Discard, Release, pageVars, TypeOK
<1>c. CASE UNCHANGED vars
  BY <1>5, <1>c DEF vars, serverVars, requestVars, pageVars
<1>d. CASE (Tick \/ WriteRow \/ Settle) /\ UNCHANGED pageVars
  BY <1>5, <1>d DEF Tick, WriteRow, Settle, requestVars, pageVars
<1> QED
  BY <1>6, <1>7, <1>8, <1>9, <1>a, <1>b, <1>c, <1>d DEF Next

-----------------------------------------------------------------------------
(* DashboardInv is inductive.                                              *)
THEOREM DashboardInvariant == Spec => []DashboardInv
<1> DEFINE Parts == TypeOK /\ SettledInThePast /\ CacheInv /\ PageInv
<1>1. Init => Parts
  <2> SUFFICES ASSUME Init PROVE Parts
    OBVIOUS
  <2>0. 0 \in Nat /\ <<>> \in Seq(Nat) /\ Len(<<>>) = 0 /\ MaxTime \in Nat /\ None # 0
        /\ None \notin Request
    BY CacheAssumption, EmptySeq
  <2>1. Version = {0} /\ Time = {0}
    BY <2>0 DEF Init, CacheInit, Version, Time
  <2>2. TypeOK
    BY <2>0, <2>1 DEF Init, CacheInit, TypeOK, NoReply, Stage, Label
  <2> QED
    BY <2>0, <2>2 DEF Init, CacheInit, SettledInThePast, CacheInv, OneLoader,
       ClaimedAgeIsTrue, LoaderIsLater, PageInv, OneFetch, PageBehindCache, AnswerNotBehindPage
<1>2. Parts /\ [Next]_vars => Parts'
  BY SourceForward, TypeStep, CacheStep, PageStep
<1>3. Parts <=> DashboardInv
  BY DEF CacheInv, PageInv, DashboardInv
<1> QED
  BY <1>1, <1>2, <1>3, PTL DEF Spec

(* fetched_at and data_age_seconds are never younger than the data.        *)
THEOREM ClaimedAgeHolds == Spec => []ClaimedAgeIsTrue
<1>1. DashboardInv => ClaimedAgeIsTrue
  BY DEF DashboardInv
<1> QED
  BY <1>1, DashboardInvariant, PTL

(* Answers reach the page in the order they were fetched, and none shows a *)
(* row that every replica had replaced before the one shown was fetched.   *)
THEOREM PageStaysForward == Spec => PageNeverGoesBack
<1>1. DashboardInv /\ DashboardInv' /\ [Next]_vars => PageForward
  BY CacheStep, PageStep DEF DashboardInv, CacheInv, PageInv
<1> QED
  BY <1>1, DashboardInvariant, PTL DEF Spec, PageNeverGoesBack, PageForward

(* "fresh" and "stale" are true of the data they come with, for every      *)
(* request and whatever other requests do while it waits or loads.         *)
THEOREM LabelsHold == Spec => LabelsAreTrue
<1> DEFINE Truth(q) == reply'[q].value # 0 =>
       /\ reply'[q].state = "fresh" => CurrentSince(reply'[q].value, now[q] - Ttl + 1)
       /\ reply'[q].state = "stale" =>
              CurrentSince(reply'[q].value, now[q] - UnavailableAfter + 1)
<1>1. ASSUME DashboardInv, [Next]_vars, NEW q \in Request, Answers(q)
      PROVE  Truth(q)
  <2>0. /\ now[q] \in Nat /\ Ttl \in Nat \ {0} /\ UnavailableAfter \in Nat
        /\ fetchedAt \in Nat \cup {None} /\ None \notin Nat
        /\ value \in Nat /\ Len(settled) \in Nat /\ seen[q] \in Nat
        /\ stage \in [Request -> Stage] /\ settled \in Seq(Nat)
        /\ reply \in [Request -> Envelope]
    BY <1>1, CacheAssumption DEF DashboardInv, TypeOK, Time, Version, Envelope
  <2>1. Server(q)
    <3>1. ASSUME NEW p \in Request, Server(p), p # q PROVE stage'[q] = stage[q]
      BY <2>0, <3>1 DEF Server, Serve, Hit, Miss, ReadSource, LeaveOut, LoadSucceeds,
         LoadFails, Answer
    <3>2. ASSUME NEW p \in Request,
                 Poll(p) \/ Deliver(p) \/ FetchFails(p) \/ Visit(p) \/ Discard(p)
          PROVE  ~Answers(q)
      BY <2>0, <3>2 DEF Poll, Deliver, FetchFails, Visit, Discard, Enter, Release, Answers,
         serverVars, requestVars
    <3>3. CASE UNCHANGED vars \/ Tick \/ WriteRow \/ Settle
      BY <1>1, <3>3 DEF Tick, WriteRow, Settle, Answers, vars, serverVars, requestVars
    <3> QED
      BY <1>1, <3>1, <3>2, <3>3 DEF Next, Answers
  <2>2. ClaimedAgeIsTrue /\ LoaderIsLater
    BY <1>1 DEF DashboardInv
  <2>3. \A v, t, u : v \in Nat /\ t \in Int /\ u \in Int /\ u <= t
                     /\ CurrentSince(v, t) => CurrentSince(v, u)
    BY <2>0 DEF CurrentSince
  <2>4. CASE Hit(q)
    <3>1. /\ reply'[q] = [state |-> "fresh", value |-> value, at |-> fetchedAt]
          /\ fetchedAt \in Nat /\ now[q] - fetchedAt < Ttl
      BY <2>0, <2>4 DEF Hit, Answer, Within
    <3>2. (value # 0 => CurrentSince(value, fetchedAt)) /\ now[q] - Ttl + 1 <= fetchedAt
      BY <2>0, <2>2, <3>1 DEF ClaimedAgeIsTrue
    <3> QED
      BY <2>0, <2>3, <3>1, <3>2
  <2>5. CASE LoadSucceeds(q)
    <3>1. reply'[q] = [state |-> "fresh", value |-> seen[q], at |-> now[q]]
      BY <2>0, <2>5 DEF LoadSucceeds, Answer
    <3>2. (seen[q] # 0 => CurrentSince(seen[q], now[q])) /\ now[q] - Ttl + 1 <= now[q]
      BY <2>0, <2>2, <3>1 DEF LoaderIsLater
    <3> QED
      BY <2>0, <2>3, <3>1, <3>2
  <2>6. CASE LoadFails(q)
    <3>1. CASE Within(q, UnavailableAfter)
      <4>1. /\ reply'[q] = [state |-> "stale", value |-> value, at |-> fetchedAt]
            /\ fetchedAt \in Nat /\ now[q] - fetchedAt < UnavailableAfter
        BY <2>0, <2>6, <3>1 DEF LoadFails, Answer, Within
      <4>2. /\ value # 0 => CurrentSince(value, fetchedAt)
            /\ now[q] - UnavailableAfter + 1 <= fetchedAt
        BY <2>0, <2>2, <4>1 DEF ClaimedAgeIsTrue
      <4>3. value # 0 => CurrentSince(value, now[q] - UnavailableAfter + 1)
        <5>1. value \in Nat /\ fetchedAt \in Int /\ now[q] - UnavailableAfter + 1 \in Int
          BY <2>0, <4>1
        <5> QED
          BY <2>3, <4>2, <5>1
      <4> QED
        BY <4>1, <4>3
    <3>2. CASE ~Within(q, UnavailableAfter)
      <4>1. reply'[q].state = "unavailable"
        BY <2>0, <2>6, <3>2 DEF LoadFails, Answer
      <4> QED
        BY <4>1
    <3> QED
      BY <3>1, <3>2
  <2>7. CASE Miss(q) \/ ReadSource(q) \/ LeaveOut(q)
    BY <1>1, <2>0, <2>7 DEF Miss, ReadSource, LeaveOut, Answers
  <2> QED
    BY <2>1, <2>4, <2>5, <2>6, <2>7 DEF Server, Serve
<1>2. DashboardInv /\ [Next]_vars =>
        [\A q \in Request : Answers(q) /\ reply'[q].value # 0 =>
           /\ reply'[q].state = "fresh" =>
                  CurrentSince(reply'[q].value, now[q] - Ttl + 1)
           /\ reply'[q].state = "stale" =>
                  CurrentSince(reply'[q].value, now[q] - UnavailableAfter + 1)]_serverVars
  BY <1>1
<1> QED
  BY <1>2, DashboardInvariant, PTL DEF Spec, LabelsAreTrue

=============================================================================
