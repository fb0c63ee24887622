--------------------------- MODULE RealtimeSession --------------------------
(***************************************************************************)
(* The life of the disposable realtime stack: sessions of                  *)
(* scripts/realtime-start.ps1 one after the other, the one-shot expiry     *)
(* schedule of a fixed name that each of them makes, the expiry reaper     *)
(* Lambda that the schedule invokes, and CloudFormation, which creates and *)
(* deletes the one stack by its name.  A session's laptop may be lost      *)
(* between any two of its steps; calls to AWS may fail.                    *)
(***************************************************************************)
EXTENDS Naturals

CONSTANTS Session,
          Retries,    \* times a failed asynchronous invocation is repeated
          MaxFaults,  \* bound: calls and deletions that fail
          None

ASSUME SessionAssumption ==
    /\ Retries \in Nat /\ MaxFaults \in Nat
    /\ None \notin Session

VARIABLES at,        \* per session, what its script does next
          schedule,  \* the session whose expiry is scheduled
          stack,     \* the realtime stack
          reaper,    \* per session, the reaper's invocation for it
          faults

vars == <<at, schedule, stack, reaper, faults>>

(* The script's places: "deploying" and "destroying" wait for              *)
(* CloudFormation, "work" runs the producer and the drain gate.            *)
Running == {"unschedule", "schedule", "deploy", "deploying", "work",
            "destroy", "destroying", "tidy"}

Place == {"idle", "over"} \cup Running

(* of: the session whose schedule is to see to it.  excuse: why it may be  *)
(* left behind, "none" while it may not: deployed when that schedule had   *)
(* done, stripped of it by a session that then stopped, the reaper failed  *)
(* for good, or the reaper reported it.                                    *)
Stack == [state : {"none", "creating", "up", "deleting", "delete_failed"},
          of : Session \cup {None},
          excuse : {"none", "late", "stripped", "dropped", "reported"}]

NoStack == [state |-> "none", of |-> None, excuse |-> "none"]

Invocation == [at : {"none", "look", "delete", "poll", "ended"},
               tries : 0..Retries]

Reaping(s) == reaper[s].at \in {"look", "delete", "poll"}

ReaperAt(s, step) == reaper' = [reaper EXCEPT ![s] = [at |-> step, tries |-> @.tries]]

Fault == faults < MaxFaults /\ faults' = faults + 1

Excused(reason) == [state |-> stack.state, of |-> stack.of, excuse |-> reason]

StackAs(state) == [state |-> state, of |-> stack.of, excuse |-> stack.excuse]

-----------------------------------------------------------------------------
Init ==
    /\ at = [s \in Session |-> "idle"]
    /\ schedule = None
    /\ stack = NoStack
    /\ reaper = [s \in Session |-> [at |-> "none", tries |-> 0]]
    /\ faults = 0

Goes(s, place) == at' = [at EXCEPT ![s] = place]

(* The operator starts a session when none is running. *)
Begin(s) ==
    /\ at[s] = "idle"
    /\ \A t \in Session : at[t] \notin Running
    /\ Goes(s, "unschedule")
    /\ UNCHANGED <<schedule, stack, reaper, faults>>

(* A stray schedule is deleted; an error is taken for a missing one. *)
Unschedule(s) ==
    /\ at[s] = "unschedule"
    /\ \/ schedule' = None /\ UNCHANGED faults
       \/ Fault /\ UNCHANGED schedule
    /\ Goes(s, "schedule")
    /\ UNCHANGED <<stack, reaper>>

Schedule(s) ==
    /\ at[s] = "schedule"
    /\ schedule = None
    /\ schedule' = s
    /\ stack' = IF stack.state = "none" THEN stack
                ELSE [state |-> stack.state, of |-> s, excuse |-> "none"]
    /\ Goes(s, "deploy")
    /\ UNCHANGED <<reaper, faults>>

(* The script stops before it has a schedule.  A stack that was there has  *)
(* lost its own.                                                           *)
StopBare(s) ==
    /\ Goes(s, "over")
    /\ stack' = IF \/ schedule # None \/ stack.state = "none"
                   \/ Reaping(stack.of) \/ stack.excuse # "none"
                THEN stack ELSE Excused("stripped")

(* Mutation of ScheduleThrows: the script goes on without its schedule. *)
ScheduleOptional(s) ==
    /\ at[s] = "schedule"
    /\ \/ schedule # None /\ UNCHANGED faults
       \/ Fault
    /\ Goes(s, "deploy")
    /\ UNCHANGED <<schedule, stack, reaper>>

(* create-schedule throws: the name is taken, or the call fails.           *)
ScheduleThrows(s) ==
    /\ at[s] = "schedule"
    /\ \/ schedule # None /\ UNCHANGED faults
       \/ Fault
    /\ StopBare(s)
    /\ UNCHANGED <<schedule, reaper>>

(* cdk deploy creates the stack, leaves one that is up as it is, and fails *)
(* on one whose deletion failed; it waits while a stack is in transition.  *)
Deploy(s) ==
    LET excuse == IF reaper[s].at = "ended" THEN "late" ELSE "none"
    IN  /\ at[s] = "deploy"
        /\ \/ /\ stack.state = "none"
              /\ stack' = [state |-> "creating", of |-> s, excuse |-> excuse]
              /\ Goes(s, "deploying")
           \/ /\ stack.state = "up"
              /\ stack' = [state |-> "up", of |-> s, excuse |-> excuse]
              /\ Goes(s, "work")
           \/ /\ stack.state = "delete_failed"
              /\ Goes(s, "destroy")
              /\ UNCHANGED stack
        /\ UNCHANGED <<schedule, reaper, faults>>

(* cdk deploy returns: the stack is up, or it is being deleted.            *)
Deployed(s) ==
    /\ at[s] = "deploying"
    /\ stack.state # "creating"
    /\ Goes(s, IF stack.state = "up" THEN "work" ELSE "destroy")
    /\ UNCHANGED <<schedule, stack, reaper, faults>>

(* The producer and the drain gate; whatever they end in, finally goes on. *)
Work(s) ==
    /\ at[s] = "work"
    /\ Goes(s, "destroy")
    /\ UNCHANGED <<schedule, stack, reaper, faults>>

(* Mutation of Destroy: the schedule is deleted first. *)
DestroyUnscheduled(s) ==
    /\ at[s] = "destroy"
    /\ stack' = IF stack.state = "none" THEN stack ELSE StackAs("deleting")
    /\ schedule' = None
    /\ Goes(s, "destroying")
    /\ UNCHANGED <<reaper, faults>>

(* cdk destroy. *)
Destroy(s) ==
    /\ at[s] = "destroy"
    /\ stack' = IF stack.state = "none" THEN stack ELSE StackAs("deleting")
    /\ Goes(s, "destroying")
    /\ UNCHANGED <<schedule, reaper, faults>>

(* A deletion that failed throws, and leaves the schedule in place.        *)
Destroyed(s) ==
    /\ at[s] = "destroying"
    /\ stack.state # "deleting"
    /\ Goes(s, IF stack.state = "none" THEN "tidy" ELSE "over")
    /\ UNCHANGED <<schedule, stack, reaper, faults>>

(* The schedule is deleted, if that works. *)
Tidy(s) ==
    /\ at[s] = "tidy"
    /\ \/ schedule' = None /\ UNCHANGED faults
       \/ Fault /\ UNCHANGED schedule
    /\ Goes(s, "over")
    /\ UNCHANGED <<stack, reaper>>

(* The laptop or the terminal is gone. *)
Lose(s) ==
    /\ at[s] \in Running
    /\ IF at[s] = "schedule"
       THEN StopBare(s)
       ELSE Goes(s, "over") /\ UNCHANGED stack
    /\ UNCHANGED <<schedule, reaper, faults>>

-----------------------------------------------------------------------------
(* CloudFormation, and realtime-stop.ps1. *)
StackCreated ==
    /\ stack.state = "creating"
    /\ stack' = StackAs("up")
    /\ UNCHANGED <<at, schedule, reaper, faults>>

StackDeleted ==
    /\ stack.state = "deleting"
    /\ stack' = NoStack
    /\ UNCHANGED <<at, schedule, reaper, faults>>

StackDeleteFails ==
    /\ stack.state = "deleting"
    /\ Fault
    /\ stack' = StackAs("delete_failed")
    /\ UNCHANGED <<at, schedule, reaper>>

StopStack ==
    /\ stack.state \in {"creating", "up", "delete_failed"}
    /\ stack' = StackAs("deleting")
    /\ UNCHANGED <<at, schedule, reaper, faults>>

-----------------------------------------------------------------------------
(* The deadline comes: the schedule invokes the reaper and is gone.        *)
Fires ==
    /\ schedule # None
    /\ ReaperAt(schedule, "look")
    /\ schedule' = None
    /\ UNCHANGED <<at, stack, faults>>

(* The first describe_stacks. *)
Look(s) ==
    /\ reaper[s].at = "look"
    /\ ReaperAt(s, CASE stack.state = "none" -> "ended"
                     [] stack.state = "deleting" -> "poll"
                     [] OTHER -> "delete")
    /\ UNCHANGED <<at, schedule, stack, faults>>

(* delete_stack, by name: whichever stack has it now. *)
Delete(s) ==
    /\ reaper[s].at = "delete"
    /\ stack' = IF stack.state = "none" THEN stack ELSE StackAs("deleting")
    /\ ReaperAt(s, "poll")
    /\ UNCHANGED <<at, schedule, faults>>

(* A notice on the alert topic, and the end of the invocation.             *)
Alert(s) ==
    /\ ReaperAt(s, "ended")
    /\ stack' = IF stack.of = s THEN Excused("reported") ELSE stack

Denied(s) ==
    /\ reaper[s].at = "delete"
    /\ Fault
    /\ Alert(s)
    /\ UNCHANGED <<at, schedule>>

(* Mutation of Poll: only the end of the deletion ends the loop. *)
PollForEver(s) ==
    /\ reaper[s].at = "poll"
    /\ stack.state = "none"
    /\ ReaperAt(s, "ended")
    /\ UNCHANGED <<at, schedule, stack, faults>>

(* The poll loop's exits: deleted; failed or still there at its deadline.  *)
Poll(s) ==
    /\ reaper[s].at = "poll"
    /\ IF stack.state = "none"
       THEN ReaperAt(s, "ended") /\ UNCHANGED stack
       ELSE Alert(s)
    /\ UNCHANGED <<at, schedule, faults>>

(* Mutation of Raises: an invocation is repeated once more. *)
RaisesAgain(s) ==
    /\ Reaping(s)
    /\ Fault
    /\ IF reaper[s].tries <= Retries
       THEN /\ reaper' = [reaper EXCEPT ![s] = [at |-> "look",
                                                tries |-> @.tries + 1]]
            /\ UNCHANGED stack
       ELSE /\ ReaperAt(s, "ended")
            /\ stack' = IF stack.of = s THEN Excused("dropped") ELSE stack
    /\ UNCHANGED <<at, schedule>>

(* An exception leaves the handler (_stack_status raises, publish fails):  *)
(* Lambda repeats the invocation, in the end drops it.                     *)
Raises(s) ==
    /\ Reaping(s)
    /\ Fault
    /\ IF reaper[s].tries < Retries
       THEN /\ reaper' = [reaper EXCEPT ![s] = [at |-> "look",
                                                tries |-> @.tries + 1]]
            /\ UNCHANGED stack
       ELSE /\ ReaperAt(s, "ended")
            /\ stack' = IF stack.of = s THEN Excused("dropped") ELSE stack
    /\ UNCHANGED <<at, schedule>>

-----------------------------------------------------------------------------
Script(s) ==
    Unschedule(s) \/ Schedule(s) \/ ScheduleThrows(s) \/ Deploy(s)
        \/ Deployed(s) \/ Work(s) \/ Destroy(s) \/ Destroyed(s) \/ Tidy(s)

Reap(s) == Look(s) \/ Delete(s) \/ Denied(s) \/ Poll(s) \/ Raises(s)

Next ==
    \/ \E s \in Session : Begin(s) \/ Script(s) \/ Lose(s) \/ Reap(s)
    \/ Fires \/ StackCreated \/ StackDeleted \/ StackDeleteFails \/ StopStack

Spec == Init /\ [][Next]_vars

(* A script goes on until it ends or its laptop is lost; the schedule      *)
(* fires, the reaper runs, CloudFormation finishes what it began.  No      *)
(* operator is obliged to begin or to stop anything.                       *)
FairSpec ==
    /\ Spec
    /\ \A s \in Session : WF_vars(Script(s)) /\ WF_vars(Reap(s))
    /\ WF_vars(Fires) /\ WF_vars(StackCreated) /\ WF_vars(StackDeleted)

-----------------------------------------------------------------------------
TypeOK ==
    /\ at \in [Session -> Place]
    /\ schedule \in Session \cup {None}
    /\ stack \in Stack
    /\ reaper \in [Session -> Invocation]
    /\ faults \in 0..MaxFaults

(* "This disposable stack cannot outlive its agreed deadline just because  *)
(* a laptop or terminal disconnected": whoever is lost, a stack has the    *)
(* schedule that answers for it, or that schedule's reaper at work, or a   *)
(* script about to replace a schedule it deleted, or it is left behind for *)
(* one of the reasons named.                                               *)
StackIsGuarded ==
    \/ stack.state \in {"none", "deleting"}
    \/ schedule = stack.of
    \/ Reaping(stack.of)
    \/ \E s \in Session : at[s] = "schedule"
    \/ stack.excuse # "none"

(* A schedule an earlier session could not delete never fires into the     *)
(* work of a later one: whichever deletions of it failed, a session that   *)
(* deploys has the only schedule there is.                                 *)
Scheduled == Running \ {"unschedule", "schedule"}

OnlyOwnScheduleFires ==
    \A s \in Session : at[s] \in Scheduled => schedule \in {s, None}

(* And that is enough: the stack goes away in the end, whatever becomes of *)
(* the laptops, of the calls that fail and of the sessions after it.       *)
StackEventuallyGoes ==
    stack.state # "none" ~> (stack.state = "none" \/ stack.excuse # "none")

=============================================================================
