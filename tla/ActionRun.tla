------------------------------ MODULE ActionRun ------------------------------
(***************************************************************************)
(* One run of an agent definition's top-level actions, interactive or in   *)
(* machine mode.  The operation is the task that walks the actions; in     *)
(* parallel mode every matching action is a lane, a task of its own, else  *)
(* the operation runs it itself.  A lane goes through the steps of its     *)
(* action, each of which starts a child process and waits for it.  In      *)
(* machine mode children are registered with their owner and a dispatcher  *)
(* cancels the operation, sweeps the children and writes the report.       *)
(*                                                                         *)
(* An action is what a task does between two points where another thread   *)
(* can be seen: a lock, an atomic, an await, a process started or ended.   *)
(***************************************************************************)
EXTENDS Integers, Sequences

CONSTANTS
  NumActions,  \* bound: top-level actions
  NumSteps,    \* their numbers of steps
  Kind,        \* of each step: "exec" or "agent"
  OnFailure    \* of each step: "stop", "continue" or "abort"

Actions == 1 .. NumActions
Steps == UNION {{<<a, s>> : s \in 1 .. NumSteps[a]} : a \in Actions}

ASSUME RunAssumption ==
  /\ NumActions \in Nat
  /\ NumSteps \in [Actions -> Nat]
  /\ Kind \in [Steps -> {"exec", "agent"}]
  /\ OnFailure \in [Steps -> {"stop", "continue", "abort"}]

VARIABLES
  mode,      \* action_execution and machine::selected
  op,        \* the operation: its place, the action it is at, its result
  lane,      \* run_matching_action_steps of each action
  doomed,    \* lanes whose task is to be aborted
  record,    \* the action whose abort is recorded, if any
  failures,  \* top_level_failures
  child,     \* the process of each step
  registry,  \* CHILDREN: the steps whose child is registered
  canceled,  \* CANCELED
  budget,    \* the runtime budget: left, spent, or spent and recorded as the error
  dispatch,  \* the dispatcher: its place and what it has confirmed
  report,    \* the terminal response, or how an interactive run ended
  after      \* history: steps started after the abort was recorded

taskVars == <<op, lane, doomed, failures>>
processVars == <<child, registry>>
machineVars == <<canceled, dispatch>>
vars == <<mode, taskVars, record, processVars, machineVars, budget, report, after>>

-----------------------------------------------------------------------------
LanePCs == {"absent", "top", "starting", "cleared", "spawned", "waiting", "ended"}
LaneResults == {"none", "completed", "failed", "aborted", "stopped", "error", "gone"}
OpPCs == {"walk", "run", "collect", "ended", "gone"}
OpResults == {"none", "ok", "failed", "aborted", "error"}
ChildStates == {"none", "loose", "owned", "ok", "bad", "stray"}
Modes == [parallel : BOOLEAN, machine : BOOLEAN]
DispatchPCs == {"watch", "sweep", "drain", "lanes", "resweep", "settle", "over"}
Outcomes == {"none", "succeeded", "failed", "canceled", "incomplete"}
Cleanups == {"none", "completed", "unconfirmed"}

Here(a) == <<a, lane[a].step>>
Running(c) == child[c] \in {"loose", "owned"}
LaneOver(a) == lane[a].pc \in {"absent", "ended"}

late == budget # "left"

\* InvocationAbortSignal::is_triggered.
Triggered == canceled \/ record # <<>>

\* The lanes that LaneCompletion counts.
ActiveLanes == IF mode.parallel THEN {a \in Actions : ~LaneOver(a)} ELSE {}

\* What becomes of the child of a step whose waiting future is dropped:
\* OwnedChild and kill_on_drop end it, without them it runs on.
Dropped(c) ==
  CASE child[c] \in {"loose", "owned"} -> IF mode.machine THEN "bad" ELSE "stray"
    [] OTHER -> child[c]

\* Drop of OwnedChild.
Without(c) == registry \ {c}

End(a, result) ==
  lane' = [lane EXCEPT ![a] = [pc |-> "ended", step |-> @.step, result |-> result]]

-----------------------------------------------------------------------------
(* A lane.                                                                 *)

\* Mutant: only a cancellation stops a lane, not a recorded abort.
CancelOnly(a) == canceled

\* The abort signal as lane a sees it before a step.
Stopped(a) == Triggered

\* Between two steps: the abort signal, the step's condition, the signal again.
NextStep(a) ==
  /\ lane[a].pc = "top"
  /\ IF Stopped(a)
     THEN End(a, "stopped")
     ELSE IF lane[a].step > NumSteps[a]
          THEN End(a, "completed")
          ELSE \/ lane' = [lane EXCEPT ![a].pc = "starting"]
               \/ lane' = [lane EXCEPT ![a].step = @ + 1]
               \/ End(a, "error")
  /\ UNCHANGED <<mode, op, doomed, failures, record, processVars, machineVars, budget,
                 report, after>>

\* The step of lane a is over: on to the next one, or its failure mode.
Judge(a, how) ==
  LET on == OnFailure[Here(a)]
      ok == how = "ok"
  IN /\ IF ok \/ on = "continue"
        THEN lane' = [lane EXCEPT ![a].pc = "top", ![a].step = @ + 1]
        ELSE End(a, IF on = "abort" THEN "aborted" ELSE "failed")
     /\ record' = IF ~ok /\ on = "abort" /\ record = <<>>
                  THEN <<a>> ELSE record
     /\ budget' = IF how = "timeout" THEN "noted" ELSE budget
     /\ UNCHANGED <<mode, op, doomed, failures, machineVars, report>>

\* The time left and, in machine mode, `prepare`.
ClearToStart(a) ==
  /\ lane[a].pc = "starting"
  /\ IF late \/ canceled
     THEN Judge(a, IF late THEN "timeout" ELSE "bad") /\ UNCHANGED <<processVars, after>>
     ELSE /\ lane' = [lane EXCEPT ![a].pc = "cleared"]
          /\ UNCHANGED <<mode, op, doomed, failures, record, processVars, machineVars,
                         budget, report, after>>

\* spawn, which may fail.
Spawn(a) ==
  /\ lane[a].pc = "cleared"
  /\ \/ /\ child' = [child EXCEPT ![Here(a)] = "loose"]
        /\ lane' = [lane EXCEPT ![a].pc = IF mode.machine THEN "spawned" ELSE "waiting"]
        /\ after' = IF record = <<>> THEN after ELSE after \union {Here(a)}
        /\ UNCHANGED <<mode, op, doomed, failures, record, registry, machineVars, budget, report>>
     \/ Judge(a, "bad") /\ UNCHANGED <<processVars, after>>

\* Mutant: a child is registered whether or not the run is canceled.
AlwaysRegister == TRUE

\* The cancellation as register sees it.
MayRegister == ~canceled

\* OwnedChild::attach, under the lock of the registry: a cancellation that is
\* already there ends the child, which the sweep can not have seen.
Attach(a) ==
  /\ lane[a].pc = "spawned"
  /\ IF MayRegister
     THEN /\ registry' = registry \union {Here(a)}
          /\ child' = [child EXCEPT ![Here(a)] = IF @ = "loose" THEN "owned" ELSE @]
          /\ lane' = [lane EXCEPT ![a].pc = "waiting"]
          /\ UNCHANGED <<mode, op, doomed, failures, record, machineVars, budget, report>>
     ELSE /\ child' = [child EXCEPT ![Here(a)] = "bad"]
          /\ UNCHANGED registry
          /\ Judge(a, "bad")
  /\ UNCHANGED after

\* The child ended: terminate and Drop of OwnedChild, then the outcome.
Collect(a) ==
  /\ lane[a].pc = "waiting"
  /\ child[Here(a)] \in {"ok", "bad"}
  /\ registry' = Without(Here(a))
  /\ Judge(a, child[Here(a)])
  /\ UNCHANGED <<child, after>>

\* Mutant: an owned child is left alone when its time is up.
AgentOnly(c) == Kind[c] = "agent"

\* Which child the deadline ends: an owned one, and that of an agent step;
\* an interactive exec step drops the future that waits for it.
KilledByDeadline(c) == mode.machine \/ Kind[c] = "agent"

\* Mutant: a step waits without a timeout.
NeverExpired(a) == FALSE

\* The timeout around the wait of lane a's step.
Expired(a) == late

\* The time is up while the step waits.
StepTimeout(a) ==
  /\ lane[a].pc = "waiting"
  /\ Expired(a)
  /\ Running(Here(a))
  /\ child' = [child EXCEPT ![Here(a)] = IF KilledByDeadline(Here(a)) THEN "bad" ELSE "stray"]
  /\ registry' = Without(Here(a))
  /\ Judge(a, "timeout")
  /\ UNCHANGED after

\* An aborted task is dropped where it waits, or before it ran at all.
LaneAborted(a) ==
  /\ a \in doomed
  /\ \/ lane[a].pc = "waiting"
     \/ lane[a].pc = "top" /\ lane[a].step = 1
  /\ End(a, "gone")
  /\ IF lane[a].pc = "waiting"
     THEN /\ child' = [child EXCEPT ![Here(a)] = Dropped(Here(a))]
          /\ registry' = Without(Here(a))
     ELSE UNCHANGED processVars
  /\ UNCHANGED <<mode, op, doomed, failures, record, machineVars, budget, report, after>>

-----------------------------------------------------------------------------
(* The operation.                                                          *)

\* The walk over the actions: the abort signal first, then the logic, then
\* the lane, in a task of its own or in this one.
Walk ==
  /\ op.pc = "walk"
  /\ IF Triggered \/ op.at > NumActions
     THEN /\ op' = [op EXCEPT !.pc = "collect",
                               !.at = IF mode.parallel THEN 1 ELSE NumActions + 1]
          /\ UNCHANGED lane
     ELSE \/ op' = [op EXCEPT !.at = @ + 1] /\ UNCHANGED lane
          \/ /\ lane' = [lane EXCEPT ![op.at] = [pc |-> "top", step |-> 1, result |-> "none"]]
             /\ op' = IF mode.parallel THEN [op EXCEPT !.at = @ + 1] ELSE [op EXCEPT !.pc = "run"]
  /\ UNCHANGED <<mode, doomed, failures, record, processVars, machineVars, budget, report, after>>

\* Drop of OwnedLane, of every lane not yet collected.
DropLanes(from) ==
  doomed' = IF mode.machine /\ mode.parallel
            THEN doomed \union {a \in Actions : a >= from /\ ~LaneOver(a)} ELSE doomed

\* Mutant: a failed action ends the operation as well.
AnyFailure(a) == lane[a].result \in {"failed", "error", "gone"}

\* A lane that returns an error ends the operation.
Fatal(a) == lane[a].result \in {"error", "gone"}

\* collect_action_execution_result of the action the operation is at; an error
\* that is not a failed step ends the operation there.
CollectLane ==
  LET a == op.at
  IN /\ \/ op.pc = "run"
        \/ op.pc = "collect" /\ a <= NumActions
     /\ LaneOver(a)
     /\ failures' = IF lane[a].result \in {"failed", "aborted"} THEN failures \union {a} ELSE failures
     /\ IF Fatal(a)
        THEN /\ op' = [op EXCEPT !.pc = "ended", !.result = "error"]
             /\ DropLanes(a + 1)
        ELSE /\ op' = [op EXCEPT
                  !.pc = IF @ = "run" /\ lane[a].result # "aborted" THEN "walk" ELSE "collect",
                  !.at = IF op.pc = "run" /\ lane[a].result = "aborted"
                         THEN NumActions + 1 ELSE a + 1]
             /\ UNCHANGED doomed
     /\ UNCHANGED <<mode, lane, record, processVars, machineVars, budget, report, after>>

\* The end of apply_actions_with_data.
OpEnds ==
  /\ op.pc = "collect" /\ op.at > NumActions
  /\ op' = [op EXCEPT !.pc = "ended",
              !.result = CASE record # <<>> -> "aborted"
                           [] record = <<>> /\ failures # {} -> "failed"
                           [] OTHER -> "ok"]
  /\ UNCHANGED <<mode, lane, doomed, failures, record, processVars, machineVars, budget, report, after>>

\* The aborted operation is dropped where it waits, its own lane with it.
OpAborted ==
  /\ dispatch.aborting
  /\ op.pc \in {"walk", "collect", "run"}
  /\ op.pc = "run" => lane[op.at].pc = "waiting"
  /\ op.pc = "walk" => mode.parallel
  /\ op' = [op EXCEPT !.pc = "gone"]
  /\ IF op.pc = "run"
     THEN /\ End(op.at, "gone")
          /\ child' = [child EXCEPT ![Here(op.at)] = Dropped(Here(op.at))]
          /\ registry' = Without(Here(op.at))
     ELSE UNCHANGED <<lane, processVars>>
  /\ DropLanes(1)
  /\ UNCHANGED <<mode, failures, record, machineVars, budget, report, after>>

-----------------------------------------------------------------------------
(* The dispatcher of machine mode.                                         *)

\* An interrupt while the operation runs: stop_operation begins and sets
\* CANCELED before the first sweep.
Cancel ==
  /\ mode.machine /\ dispatch.pc = "watch"
  /\ canceled' = TRUE
  /\ dispatch' = [dispatch EXCEPT !.pc = "sweep"]
  /\ UNCHANGED <<mode, taskVars, record, processVars, budget, report, after>>

\* terminate_all under the lock of the registry, as far as it came: it stops at
\* the first child that it can not end.  The order of the registry is left out.
Sweep(ended) ==
  child' = [c \in Steps |-> IF child[c] = "owned" /\ c \in ended THEN "bad" ELSE child[c]]

\* A sweep of stop_operation; all must work out for a confirmed cleanup.
SweepStep ==
  /\ dispatch.pc \in {"sweep", "resweep"}
  /\ \E ended \in SUBSET registry :
       LET ok == ended = registry
       IN /\ Sweep(ended)
          /\ dispatch' = [dispatch EXCEPT !.pc = IF @ = "sweep" THEN "drain" ELSE "settle",
                            !.confirmed = @ /\ ok, !.swept = @ \/ (dispatch.pc = "sweep" /\ ok)]
  /\ UNCHANGED <<mode, taskVars, record, registry, canceled, budget, report, after>>

OpOver == op.pc \in {"ended", "gone"}

\* The operation ends within two seconds of the sweep, or is aborted, and then
\* ends soon or is given up.
Drain ==
  /\ dispatch.pc = "drain"
  /\ dispatch' = IF OpOver THEN [dispatch EXCEPT !.pc = "lanes"]
                 ELSE IF ~dispatch.aborting THEN [dispatch EXCEPT !.aborting = TRUE]
                      ELSE [dispatch EXCEPT !.pc = "lanes", !.confirmed = FALSE]
  /\ UNCHANGED <<mode, taskVars, record, processVars, canceled, budget, report, after>>

\* settle_lanes within stop_operation: two seconds for the lanes to end.
SettleLanes ==
  /\ dispatch.pc = "lanes"
  /\ \E settled \in BOOLEAN :
       /\ settled => ActiveLanes = {}
       /\ dispatch' = [dispatch EXCEPT !.pc = "resweep", !.confirmed = @ /\ settled]
  /\ UNCHANGED <<mode, taskVars, record, processVars, canceled, budget, report, after>>

\* The operation ended by itself.
OpObserved ==
  /\ mode.machine /\ dispatch.pc = "watch"
  /\ op.pc = "ended"
  /\ dispatch' = [dispatch EXCEPT !.pc = "settle"]
  /\ UNCHANGED <<mode, taskVars, record, processVars, canceled, budget, report, after>>

\* Mutant: the operation's own result is reported, canceled or not.
OwnResult == IF op.result = "ok" THEN "succeeded" ELSE "failed"

\* The result of the run; that of a canceled operation is not looked at, and an
\* error recorded on the way (record_error) stands even if its step continued.
Outcome ==
  CASE canceled -> "canceled"
    [] ~canceled /\ op.result = "ok" /\ budget # "noted" -> "succeeded"
    [] OTHER -> "failed"

\* The last wait for the lanes and the terminal response.
Report ==
  /\ dispatch.pc = "settle"
  /\ \/ /\ ActiveLanes = {}
        /\ report' = [outcome |-> Outcome,
                      cleanup |-> CASE ~canceled -> "none"
                                    [] canceled /\ dispatch.confirmed -> "completed"
                                    [] OTHER -> "unconfirmed"]
        /\ UNCHANGED <<canceled, processVars>>
     \/ /\ ActiveLanes # {}
        /\ canceled' = TRUE
        /\ \E ended \in SUBSET registry : Sweep(ended)
        /\ report' = [outcome |-> "incomplete", cleanup |-> "unconfirmed"]
        /\ UNCHANGED registry
  /\ dispatch' = [dispatch EXCEPT !.pc = "over"]
  /\ UNCHANGED <<mode, taskVars, record, budget, after>>

\* An interactive run ends with its operation; lanes it left behind go with
\* the process, their children stay.
Exit ==
  /\ ~mode.machine /\ dispatch.pc = "watch"
  /\ op.pc = "ended"
  /\ dispatch' = [dispatch EXCEPT !.pc = "over"]
  /\ report' = [outcome |-> IF op.result = "ok" THEN "succeeded" ELSE "failed", cleanup |-> "none"]
  /\ lane' = [a \in Actions |->
       IF LaneOver(a) THEN lane[a] ELSE [lane[a] EXCEPT !.pc = "ended", !.result = "gone"]]
  /\ child' = [c \in Steps |-> Dropped(c)]
  /\ registry' = {}
  /\ UNCHANGED <<mode, op, doomed, failures, record, canceled, budget, after>>

-----------------------------------------------------------------------------
(* Children and time.                                                      *)

\* A child ends by itself, whether or not somebody waits for it.
ChildEnds(c) ==
  /\ child[c] \in {"loose", "owned", "stray"}
  /\ \E s \in {"ok", "bad"} : child' = [child EXCEPT ![c] = s]
  /\ UNCHANGED <<mode, taskVars, record, registry, machineVars, budget, report, after>>

\* The deadline of the runtime budget.
DeadlinePasses ==
  /\ budget = "left"
  /\ budget' = "spent"
  /\ UNCHANGED <<mode, taskVars, record, processVars, machineVars, report, after>>

-----------------------------------------------------------------------------
Init ==
  /\ mode \in Modes
  /\ op = [pc |-> "walk", at |-> 1, result |-> "none"]
  /\ lane = [a \in Actions |-> [pc |-> "absent", step |-> 1, result |-> "none"]]
  /\ doomed = {}
  /\ record = <<>>
  /\ failures = {}
  /\ child = [c \in Steps |-> "none"]
  /\ registry = {}
  /\ canceled = FALSE
  /\ budget = "left"
  /\ dispatch = [pc |-> "watch", confirmed |-> TRUE, aborting |-> FALSE, swept |-> FALSE]
  /\ report = [outcome |-> "none", cleanup |-> "none"]
  /\ after = {}

LaneStep(a) ==
  \/ NextStep(a) \/ ClearToStart(a) \/ Spawn(a) \/ Attach(a) \/ Collect(a)
  \/ StepTimeout(a) \/ LaneAborted(a)

OpStep == Walk \/ CollectLane \/ OpEnds \/ OpAborted

DispatchStep == SweepStep \/ Drain \/ SettleLanes \/ OpObserved \/ Report \/ Exit

Over == dispatch.pc = "over"

Next ==
  \/ ~Over /\ \E a \in Actions : LaneStep(a)
  \/ ~Over /\ OpStep
  \/ DispatchStep
  \/ Cancel
  \/ ~Over /\ DeadlinePasses
  \/ \E c \in Steps : ChildEnds(c)

Spec == Init /\ [][Next]_vars

\* Tasks run on and the budget runs out; a child need not end by itself.
FairSpec ==
  /\ Spec
  /\ \A a \in Actions : WF_vars(~Over /\ LaneStep(a))
  /\ WF_vars(~Over /\ OpStep)
  /\ WF_vars(DispatchStep)
  /\ WF_vars(~Over /\ DeadlinePasses)

-----------------------------------------------------------------------------
(* Correctness.                                                            *)

\* The variables stay in their domains; the registry lists only children that a
\* lane waits for.
TypeOK ==
  /\ mode \in Modes
  /\ op \in [pc : OpPCs, at : 1 .. NumActions + 1, result : OpResults]
  /\ lane \in [Actions -> [pc : LanePCs, step : Nat, result : LaneResults]]
  /\ \A a \in Actions :
       /\ lane[a].step \in 1 .. NumSteps[a] + 1
       /\ lane[a].pc \in {"starting", "cleared", "spawned", "waiting"} => Here(a) \in Steps
  /\ doomed \subseteq Actions /\ failures \subseteq Actions
  /\ record = <<>> \/ \E a \in Actions : record = <<a>>
  /\ child \in [Steps -> ChildStates]
  /\ registry \subseteq Steps
  /\ \A c \in registry : lane[c[1]].pc = "waiting" /\ Here(c[1]) = c
  /\ canceled \in BOOLEAN /\ budget \in {"left", "spent", "noted"}
  /\ dispatch \in [pc : DispatchPCs, confirmed : BOOLEAN, aborting : BOOLEAN, swept : BOOLEAN]
  /\ report \in [outcome : Outcomes, cleanup : Cleanups]
  /\ after \subseteq Steps

\* machine-interface.md: machine mode owns its child processes and cleans up
\* on cancellation and deadline.  No child of it runs without a lane that is
\* about to register it or waits for it; an interactive run leaves one behind
\* only after its deadline or when it ended over a condition.
ChildrenOwned ==
  \A c \in Steps :
    /\ child[c] = "stray" =>
         ~mode.machine /\ (late \/ \E a \in Actions : lane[a].result = "error")
    /\ Running(c) => Here(c[1]) = c /\ lane[c[1]].pc \in {"spawned", "waiting"}
    /\ child[c] = "owned" => c \in registry

\* machine_process.rs: "A child cannot start after that sweep has missed its
\* identity."  Once the first sweep has worked out, no registered child runs,
\* whatever lanes do afterwards.
SweepIsFinal == dispatch.swept => \A c \in Steps : child[c] # "owned"

\* The response of machine mode: a confirmed cleanup and a plain outcome are
\* given only when nothing of the run is left that could still act, and success
\* only when every action that was started went through all of its steps.
ReportHonest ==
  /\ mode.machine /\ (report.cleanup = "completed" \/ report.outcome \in {"succeeded", "failed"}) =>
       OpOver /\ (\A a \in Actions : LaneOver(a)) /\ \A c \in Steps : ~Running(c)
  /\ report.outcome = "succeeded" =>
       \A a \in Actions : lane[a].pc # "absent" => lane[a].result = "completed"

\* actions-and-child-agents.md: abort "stops scheduling new work for the
\* invocation, lets already-running work settle".  After an abort is recorded
\* the action that aborted starts nothing and every other one at most the step
\* it had already decided on; in sequential mode there is none.
AbortStopsScheduling ==
  /\ \A c, d \in after : c[1] = d[1] => c = d
  /\ \A c \in after : record # <<c[1]>>
  /\ ~mode.parallel => after = {}

\* actions-and-child-agents.md: a failure "stays local to that action's
\* remaining step list.  Other eligible top-level actions still run, and Cargo
\* AI aggregates their failures".  An operation that ends by itself has gone
\* through every action and names those that failed; an abort it recorded is
\* its result unless another action ended over its condition.
FailuresStayLocal ==
  op.pc = "ended" =>
    /\ record # <<>> => op.result \in {"aborted", "error"}
    /\ op.result = "error" => \E a \in Actions : lane[a].result \in {"error", "gone"}
    /\ op.result \in {"ok", "failed"} =>
         /\ failures = {a \in Actions : lane[a].result \in {"failed", "aborted"}}
         /\ \A a \in Actions : LaneOver(a)
         /\ ~canceled => \A a \in Actions : lane[a].result # "stopped"

\* Every run ends with a response, in every mode, even if a child never ends.
RunsEnd == <>(report.outcome # "none")

=============================================================================
