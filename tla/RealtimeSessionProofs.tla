------------------------ MODULE RealtimeSessionProofs -----------------------
(***************************************************************************)
(* The guard over the realtime stack, for any number of sessions, of       *)
(* repeated invocations and of failing calls.                              *)
(***************************************************************************)
EXTENDS RealtimeSession, TLAPS

-----------------------------------------------------------------------------
(* The inductive invariant.  Sessions follow one another; a session that   *)
(* is about to deploy has its schedule or had it; one that tidies up has   *)
(* seen the stack gone.  Answered: even while the stack is being deleted,  *)
(* for that may fail, it has an excuse, a reaper or the only schedule, or  *)
(* a session that took the schedule away is about to make its own.         *)
OneSession ==
    \A s, t \in Session : at[s] \in Running /\ at[t] \in Running => s = t

DeployIsScheduled ==
    \A s \in Session : at[s] = "deploy" => schedule = s \/ reaper[s].at # "none"

TidyIsLast == \A s \in Session : at[s] = "tidy" => stack.state = "none"

StackHasSession == stack.state # "none" => stack.of \in Session

Answered ==
    \/ stack.state = "none" \/ stack.excuse # "none"
    \/ Reaping(stack.of)
    \/ schedule = stack.of
    \/ schedule = None /\ \E s \in Session : at[s] = "schedule"

SessionInv ==
    /\ TypeOK
    /\ OneSession
    /\ OnlyOwnScheduleFires
    /\ DeployIsScheduled
    /\ TidyIsLast
    /\ StackHasSession
    /\ Answered

-----------------------------------------------------------------------------
LEMMA SessionInvInit == Init => SessionInv
BY SessionAssumption
   DEF Init, SessionInv, TypeOK, OneSession, OnlyOwnScheduleFires, DeployIsScheduled,
       TidyIsLast, StackHasSession, Answered, Place, Running, Scheduled, Stack, NoStack,
       Invocation

(* The types, action by action. *)
LEMMA TypeStep ==
    ASSUME TypeOK, [Next]_vars
    PROVE  TypeOK'
<1> USE SessionAssumption
    DEF TypeOK, Place, Running, Stack, NoStack, Invocation, Goes, StackAs, Excused,
        ReaperAt, Alert, StopBare, Fault
<1>1. ASSUME NEW s \in Session, Begin(s) \/ Lose(s)
      PROVE  TypeOK'
  BY <1>1 DEF Begin, Lose
<1>2. ASSUME NEW s \in Session, Unschedule(s) \/ Schedule(s) \/ ScheduleThrows(s)
      PROVE  TypeOK'
  BY <1>2 DEF Unschedule, Schedule, ScheduleThrows
<1>3. ASSUME NEW s \in Session, Deploy(s)
      PROVE  TypeOK'
  BY <1>3 DEF Deploy
<1>4. ASSUME NEW s \in Session,
             Deployed(s) \/ Work(s) \/ Destroy(s) \/ Destroyed(s) \/ Tidy(s)
      PROVE  TypeOK'
  BY <1>4 DEF Deployed, Work, Destroy, Destroyed, Tidy
<1>5. ASSUME NEW s \in Session, Look(s) \/ Delete(s) \/ Denied(s) \/ Poll(s)
      PROVE  TypeOK'
  BY <1>5 DEF Look, Delete, Denied, Poll
<1>6. ASSUME NEW s \in Session, Raises(s)
      PROVE  TypeOK'
  BY <1>6 DEF Raises
<1>7. ASSUME Fires \/ StackCreated \/ StackDeleted \/ StackDeleteFails \/ StopStack
      PROVE  TypeOK'
  BY <1>7 DEF Fires, StackCreated, StackDeleted, StackDeleteFails, StopStack
<1>8. CASE UNCHANGED vars
  BY <1>8 DEF vars
<1> QED
  BY <1>1, <1>2, <1>3, <1>4, <1>5, <1>6, <1>7, <1>8 DEF Next, Script, Reap

(* The rest, likewise. *)
Others == OneSession /\ OnlyOwnScheduleFires /\ DeployIsScheduled /\ TidyIsLast
              /\ StackHasSession /\ Answered

LEMMA OthersStep ==
    ASSUME TypeOK, Others, [Next]_vars
    PROVE  Others'
<1> USE SessionAssumption
    DEF TypeOK, Others, OneSession, OnlyOwnScheduleFires, DeployIsScheduled, TidyIsLast,
        StackHasSession, Answered, Place, Running, Scheduled, Reaping, Stack, NoStack,
        Invocation, Goes, StackAs, Excused, ReaperAt, Alert, StopBare, Fault
<1>1. ASSUME NEW s \in Session, Begin(s) \/ Lose(s)
      PROVE  Others'
  BY <1>1 DEF Begin, Lose
<1>2. ASSUME NEW s \in Session, Unschedule(s)
      PROVE  Others'
  BY <1>2 DEF Unschedule
<1>3. ASSUME NEW s \in Session, Schedule(s)
      PROVE  Others'
  BY <1>3 DEF Schedule
<1>4. ASSUME NEW s \in Session, ScheduleThrows(s)
      PROVE  Others'
  BY <1>4 DEF ScheduleThrows
<1>5. ASSUME NEW s \in Session, Deploy(s)
      PROVE  Others'
  BY <1>5 DEF Deploy
<1>6. ASSUME NEW s \in Session, Deployed(s) \/ Work(s) \/ Destroy(s)
      PROVE  Others'
  BY <1>6 DEF Deployed, Work, Destroy
<1>7. ASSUME NEW s \in Session, Destroyed(s) \/ Tidy(s)
      PROVE  Others'
  BY <1>7 DEF Destroyed, Tidy
<1>8. ASSUME NEW s \in Session, Look(s)
      PROVE  Others'
  BY <1>8 DEF Look
<1>9. ASSUME NEW s \in Session, Delete(s) \/ Denied(s)
      PROVE  Others'
  BY <1>9 DEF Delete, Denied
<1>10. ASSUME NEW s \in Session, Poll(s)
       PROVE  Others'
  BY <1>10 DEF Poll
<1>11. ASSUME NEW s \in Session, Raises(s)
       PROVE  Others'
  BY <1>11 DEF Raises
<1>12. ASSUME Fires
       PROVE  Others'
  BY <1>12 DEF Fires
<1>13. ASSUME StackCreated \/ StackDeleted \/ StackDeleteFails \/ StopStack
       PROVE  Others'
  BY <1>13 DEF StackCreated, StackDeleted, StackDeleteFails, StopStack
<1>14. CASE UNCHANGED vars
  BY <1>14 DEF vars
<1> QED
  BY <1>1, <1>2, <1>3, <1>4, <1>5, <1>6, <1>7, <1>8, <1>9, <1>10, <1>11, <1>12, <1>13,
     <1>14 DEF Next, Script, Reap

LEMMA SessionInvStep == SessionInv /\ [Next]_vars => SessionInv'
BY TypeStep, OthersStep DEF SessionInv, Others

-----------------------------------------------------------------------------
(* A stack is never left without something that answers for it: its own    *)
(* schedule, that schedule's reaper, a script about to make one, or one of *)
(* the reasons the code itself gives up for.                               *)
THEOREM StackStaysGuarded == Spec => []StackIsGuarded
<1>1. SessionInv => StackIsGuarded
  BY DEF SessionInv, Answered, StackIsGuarded
<1> QED
  BY SessionInvInit, SessionInvStep, <1>1, PTL DEF Spec

(* No schedule of an earlier session fires into the work of a later one,   *)
(* although both deletions of it may fail unnoticed (realtime-start.ps1).  *)
THEOREM NoForeignSchedule == Spec => []OnlyOwnScheduleFires
<1>1. SessionInv => OnlyOwnScheduleFires
  BY DEF SessionInv
<1> QED
  BY SessionInvInit, SessionInvStep, <1>1, PTL DEF Spec

(* Every variable keeps its type; an invocation of the reaper is repeated  *)
(* at most Retries times.                                                  *)
THEOREM SessionTypes == Spec => []TypeOK
<1>1. SessionInv => TypeOK
  BY DEF SessionInv
<1> QED
  BY SessionInvInit, SessionInvStep, <1>1, PTL DEF Spec

=============================================================================
