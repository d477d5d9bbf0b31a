--------------------------- MODULE ActionRunProofs ---------------------------
(***************************************************************************)
(* What a run of an agent's actions keeps to in ActionRun, for any actions *)
(* and steps, in every mode.  None of the properties but TypeOK is         *)
(* inductive: IInv adds how far the operation has come and what it has     *)
(* collected, what a recorded abort and a cancellation have already        *)
(* stopped, and what the dispatcher knows at each place.                   *)
(***************************************************************************)
EXTENDS ActionRun, TLAPS

\* A lane has a result exactly when it has ended; it was stopped by a signal.
LaneResult(a) ==
  /\ lane[a].pc = "ended" <=> lane[a].result # "none"
  /\ lane[a].result = "stopped" => Triggered

\* Without machine mode nobody cancels or aborts.
Interactive ==
  ~mode.machine =>
    /\ ~canceled /\ ~dispatch.aborting /\ doomed = {}
    /\ dispatch.pc \in {"watch", "over"}
    /\ ~Over => \A a \in Actions : lane[a].result # "gone"

\* The operation has collected the lanes of S, none of which was fatal.
Collected(S) ==
  /\ \A a \in S : LaneOver(a) /\ ~Fatal(a)
  /\ failures = {a \in S : lane[a].result \in {"failed", "aborted"}}

Before == {a \in Actions : a < op.at}

\* The lanes behind the operation are collected, those ahead have not started.
Walking ==
  op.pc = "walk" =>
    /\ Collected(IF mode.parallel THEN {} ELSE Before)
    /\ \A a \in Actions \ Before : lane[a].pc = "absent"

RunningOne ==
  op.pc = "run" =>
    /\ ~mode.parallel /\ op.at \in Actions
    /\ Collected(Before)
    /\ \A a \in Actions \ Before : a # op.at => lane[a].pc = "absent"

Collecting == op.pc = "collect" => Collected(Before)

\* The result that the operation ended with, and why.
Ended ==
  op.pc = "ended" =>
    /\ op.result # "none"
    /\ op.result # "error" => Collected(Actions)
    /\ op.result = "error" => \E a \in Actions : Fatal(a)
    /\ op.result \in {"ok", "failed"} <=> op.result # "error" /\ record = <<>>
    /\ op.result = "ok" => failures = {}

\* Sequential lanes run one at a time.
OneAtATime ==
  ~mode.parallel => \A a \in Actions : ~LaneOver(a) => op.pc = "run" /\ op.at = a

\* A recorded abort is that of a lane that has ended; a lane that had decided on
\* a step then has taken it, and takes no other.
Recorded ==
  /\ \A a \in Actions : record = <<a>> => lane[a].result = "aborted"
  /\ record = <<>> => after = {}
  /\ \A c \in after : lane[c[1]].pc \notin {"absent", "starting", "cleared"}
  /\ ~mode.parallel /\ record # <<>> => \A a \in Actions : LaneOver(a)

\* What the dispatcher knows at each place.
Dispatching ==
  /\ dispatch.pc \in {"sweep", "drain", "lanes", "resweep"} => canceled
  /\ dispatch.swept \/ dispatch.aborting => canceled
  /\ dispatch.pc \in {"lanes", "resweep", "settle"} /\ dispatch.confirmed /\ canceled => OpOver
  /\ dispatch.pc = "settle" /\ ~canceled => op.pc = "ended"
  /\ ~Over => report.outcome = "none" /\ report.cleanup = "none"
  /\ ~mode.machine /\ Over => op.pc = "ended"

IInv ==
  /\ TypeOK
  /\ \A a \in Actions : LaneResult(a)
  /\ Interactive
  /\ Walking
  /\ RunningOne
  /\ Collecting
  /\ Ended
  /\ OneAtATime
  /\ Recorded
  /\ AbortStopsScheduling
  /\ ChildrenOwned
  /\ SweepIsFinal
  /\ Dispatching
  /\ ReportHonest

-----------------------------------------------------------------------------
(* Steps and types.                                                        *)

LEMMA StepsMember ==
  /\ \A a \in Actions, s \in Int : <<a, s>> \in Steps <=> s \in 1 .. NumSteps[a]
  /\ \A c \in Steps : c[1] \in Actions /\ c = <<c[1], c[2]>>
BY RunAssumption DEF Steps

LEMMA NumTypes ==
  /\ NumActions \in Nat /\ Actions \subseteq Int
  /\ \A a \in Actions : NumSteps[a] \in Nat
BY RunAssumption DEF Actions

Lanes == [pc : LanePCs, step : Nat, result : LaneResults]

Busy == {"starting", "cleared", "spawned", "waiting"}

\* What a step that moves lane a does to lanes and the record.
LaneMove(a) ==
  /\ ~LaneOver(a)
  /\ lane' \in [Actions -> Lanes]
  /\ \A b \in Actions \ {a} : lane'[b] = lane[b]
  /\ lane'[a].pc # "absent"
  /\ lane'[a].step \in 1 .. NumSteps[a] + 1
  /\ lane'[a].pc \in Busy => lane'[a].step <= NumSteps[a]
  /\ lane'[a].pc = "ended" <=> lane'[a].result # "none"
  /\ lane'[a].result = "stopped" => Triggered
  /\ lane'[a].result = "gone" => mode.machine
  /\ \/ record' = record
     \/ record = <<>> /\ record' = <<a>> /\ lane'[a].result = "aborted"
  /\ UNCHANGED <<mode, failures, machineVars, report>>

\* A step of lane a itself.
Move(a) == LaneMove(a) /\ UNCHANGED <<op, doomed>>

LEMMA LaneIs ==
  ASSUME IInv, NEW a \in Actions
  PROVE  /\ lane[a] \in Lanes
         /\ lane[a].step \in 1 .. NumSteps[a] + 1
         /\ lane[a].pc \in Busy => lane[a].step \in 1 .. NumSteps[a] /\ Here(a) \in Steps
         /\ Here(a) \in Steps => lane[a].step \in 1 .. NumSteps[a]
         /\ lane[a].pc = "ended" <=> lane[a].result # "none"
<1>1. /\ lane[a] \in Lanes
      /\ lane[a].step \in 1 .. NumSteps[a] + 1
      /\ lane[a].pc \in Busy => Here(a) \in Steps
  BY DEF IInv, TypeOK, Lanes, Busy
<1>2. Here(a) \in Steps => lane[a].step \in 1 .. NumSteps[a]
  <2>1. lane[a].step \in Int
    BY <1>1 DEF Lanes
  <2> QED BY <2>1, StepsMember DEF Here
<1>3. lane[a].pc = "ended" <=> lane[a].result # "none"
  BY DEF IInv, LaneResult
<1> QED BY <1>1, <1>2, <1>3

\* An assignment to one field of a lane.
LEMMA PcSet ==
  ASSUME IInv, NEW a \in Actions, NEW q \in LanePCs, lane' = [lane EXCEPT ![a].pc = q]
  PROVE  lane' = [lane EXCEPT ![a] =
                    [pc |-> q, step |-> lane[a].step, result |-> lane[a].result]]
<1>0. lane \in [Actions -> Lanes]
  BY DEF IInv, TypeOK, Lanes
<1>1. lane' \in [Actions -> Lanes]
  BY <1>0 DEF Lanes
<1>2. lane'[a].pc = q /\ lane'[a].step = lane[a].step /\ lane'[a].result = lane[a].result
  BY <1>0 DEF Lanes
<1>3. \A b \in Actions \ {a} : lane'[b] = lane[b]
  BY <1>0
<1>4. lane'[a] = [pc |-> q, step |-> lane[a].step, result |-> lane[a].result]
  BY <1>1, <1>2 DEF Lanes
<1> QED BY <1>0, <1>1, <1>3, <1>4

LEMMA StepPassed ==
  ASSUME IInv, NEW a \in Actions, lane' = [lane EXCEPT ![a].step = @ + 1]
  PROVE  lane' = [lane EXCEPT ![a] =
                    [pc |-> lane[a].pc, step |-> lane[a].step + 1, result |-> lane[a].result]]
<1>0. lane \in [Actions -> Lanes]
  BY DEF IInv, TypeOK, Lanes
<1>1. lane' \in [Actions -> Lanes]
  BY <1>0 DEF Lanes
<1>2. /\ lane'[a].pc = lane[a].pc /\ lane'[a].step = lane[a].step + 1
      /\ lane'[a].result = lane[a].result
  BY <1>0 DEF Lanes
<1>3. \A b \in Actions \ {a} : lane'[b] = lane[b]
  BY <1>0
<1>4. lane'[a] = [pc |-> lane[a].pc, step |-> lane[a].step + 1, result |-> lane[a].result]
  BY <1>1, <1>2 DEF Lanes
<1> QED BY <1>0, <1>1, <1>3, <1>4

\* A lane that ends, or moves on.
LEMMA EndMovesLane ==
  ASSUME IInv, NEW a \in Actions, ~LaneOver(a),
         NEW r \in LaneResults \ {"none"}, End(a, r),
         r = "stopped" => Triggered, r = "gone" => mode.machine,
         \/ record' = record
         \/ record = <<>> /\ record' = <<a>> /\ r = "aborted",
         UNCHANGED <<mode, failures, machineVars, report>>
  PROVE  LaneMove(a) /\ lane'[a] = [pc |-> "ended", step |-> lane[a].step, result |-> r]
<1>1. lane \in [Actions -> Lanes]
  BY DEF IInv, TypeOK, Lanes
<1>2. lane' = [lane EXCEPT ![a] = [pc |-> "ended", step |-> lane[a].step, result |-> r]]
  BY DEF End
<1>3. [pc |-> "ended", step |-> lane[a].step, result |-> r] \in Lanes
  BY <1>1 DEF Lanes, LanePCs
<1> QED BY <1>1, <1>2, <1>3, LaneIs DEF LaneMove, Busy

LEMMA EndMoves ==
  ASSUME IInv, NEW a \in Actions, ~LaneOver(a),
         NEW r \in LaneResults \ {"none"}, End(a, r),
         r = "stopped" => Triggered, r = "gone" => mode.machine,
         \/ record' = record
         \/ record = <<>> /\ record' = <<a>> /\ r = "aborted",
         UNCHANGED <<mode, op, doomed, failures, machineVars, report>>
  PROVE  Move(a) /\ lane'[a] = [pc |-> "ended", step |-> lane[a].step, result |-> r]
BY EndMovesLane DEF Move

LEMMA OnMoves ==
  ASSUME IInv, NEW a \in Actions, ~LaneOver(a),
         NEW q \in LanePCs \ {"absent", "ended"}, NEW s \in 1 .. NumSteps[a] + 1,
         q \in Busy => s <= NumSteps[a],
         lane' = [lane EXCEPT ![a] = [pc |-> q, step |-> s, result |-> "none"]],
         UNCHANGED <<mode, op, doomed, failures, machineVars, report, record>>
  PROVE  Move(a) /\ lane'[a] = [pc |-> q, step |-> s, result |-> "none"]
<1>1. lane \in [Actions -> Lanes]
  BY DEF IInv, TypeOK, Lanes
<1>2. [pc |-> q, step |-> s, result |-> "none"] \in Lanes
  BY NumTypes DEF Lanes, LaneResults
<1> QED BY <1>1, <1>2 DEF Move, LaneMove

LEMMA JudgeMoves ==
  ASSUME IInv, NEW a \in Actions, lane[a].pc \in Busy,
         NEW how \in {"ok", "bad", "timeout"}, Judge(a, how)
  PROVE  /\ Move(a)
         /\ lane'[a].pc \in {"top", "ended"}
         /\ budget' \in {budget, "noted"}
         /\ how = "timeout" => budget' = "noted"
<1>1. /\ lane[a] \in Lanes /\ lane[a].step \in 1 .. NumSteps[a] /\ lane[a].result = "none"
      /\ NumSteps[a] \in Nat
  BY LaneIs, NumTypes DEF Busy
<1>2. /\ budget' \in {budget, "noted"}
      /\ how = "timeout" => budget' = "noted"
      /\ UNCHANGED <<mode, op, doomed, failures, machineVars, report>>
      /\ ~LaneOver(a)
  BY DEF Judge, LaneOver, Busy
<1>3. CASE how = "ok" \/ OnFailure[Here(a)] = "continue"
  <2>1. /\ lane' = [lane EXCEPT ![a] = [pc |-> "top", step |-> lane[a].step + 1, result |-> "none"]]
        /\ record' = record
    BY <1>1, <1>3 DEF Judge, IInv, TypeOK, Lanes
  <2>2. lane[a].step + 1 \in 1 .. NumSteps[a] + 1
    BY <1>1
  <2>3. "top" \in LanePCs \ {"absent", "ended"} /\ "top" \notin Busy
    BY DEF LanePCs, Busy
  <2>4. Move(a) /\ lane'[a] = [pc |-> "top", step |-> lane[a].step + 1, result |-> "none"]
    BY <1>2, <2>1, <2>2, <2>3, OnMoves
  <2> QED BY <1>2, <2>4
<1>4. CASE ~(how = "ok" \/ OnFailure[Here(a)] = "continue")
  <2> DEFINE r == IF OnFailure[Here(a)] = "abort" THEN "aborted" ELSE "failed"
  <2>1. /\ End(a, r)
        /\ \/ record' = record
           \/ record = <<>> /\ record' = <<a>> /\ r = "aborted"
    BY <1>4 DEF Judge
  <2>2. r \in LaneResults \ {"none"} /\ r # "stopped" /\ r # "gone"
    BY DEF LaneResults
  <2> HIDE DEF r
  <2>3. Move(a) /\ lane'[a] = [pc |-> "ended", step |-> lane[a].step, result |-> r]
    BY <1>2, <2>1, <2>2, EndMoves
  <2> QED BY <1>2, <2>3
<1> QED BY <1>3, <1>4

-----------------------------------------------------------------------------
(* What a lane's step leaves true.                                         *)

\* A step of a lane, but for types, processes and the history of the abort.
LEMMA MoveKeeps ==
  ASSUME IInv, ~Over, NEW a \in Actions, Move(a)
  PROVE  /\ \A b \in Actions : LaneResult(b)'
         /\ Interactive' /\ Walking' /\ RunningOne' /\ Collecting' /\ Ended'
         /\ OneAtATime' /\ Dispatching' /\ ReportHonest'
         /\ \A b \in Actions : record' = <<b>> => lane'[b].result = "aborted"
         /\ ~mode'.parallel /\ record' # <<>> => \A b \in Actions : LaneOver(b)'
<1> USE DEF IInv, Move, LaneMove
<1>1. /\ mode' = mode /\ op' = op /\ doomed' = doomed /\ failures' = failures
      /\ canceled' = canceled /\ dispatch' = dispatch /\ report' = report
      /\ Over' = Over /\ OpOver' = OpOver /\ Before' = Before
  BY DEF machineVars, Over, OpOver, Before
<1>2. Triggered => Triggered'
  BY <1>1 DEF Triggered
<1>3. \A b \in Actions : LaneResult(b)'
  BY <1>1, <1>2 DEF LaneResult
<1>4. Interactive'
  BY <1>1 DEF Interactive
<1>5. ASSUME NEW S \in SUBSET Actions, Collected(S) PROVE Collected(S)'
  BY <1>1, <1>5 DEF Collected, LaneOver, Fatal
<1>0. Collected(Before) => Collected(Before)'
  BY <1>1 DEF Collected, LaneOver, Fatal, Before
<1>6. Before \subseteq Actions
  BY DEF Before
<1>7. Walking'
  <2> SUFFICES ASSUME op.pc = "walk" PROVE Walking'
    BY <1>1 DEF Walking
  <2> DEFINE S == IF mode.parallel THEN {} ELSE Before
  <2>1. Collected(S) /\ \A b \in Actions \ Before : lane[b].pc = "absent"
    BY DEF Walking
  <2>2. S \subseteq Actions /\ S' = S
    BY <1>1, <1>6
  <2> HIDE DEF S
  <2>3. Collected(S)'
    BY <1>5, <2>1, <2>2
  <2>4. \A b \in Actions \ Before : lane'[b].pc = "absent"
    BY <2>1 DEF LaneOver
  <2> QED BY <1>1, <2>2, <2>3, <2>4 DEF Walking, S, Collected
<1>8. RunningOne'
  <2> SUFFICES ASSUME op.pc = "run" PROVE RunningOne'
    BY <1>1 DEF RunningOne
  <2>1. Collected(Before)'
    BY <1>0 DEF RunningOne
  <2>2. \A b \in Actions \ Before : b # op.at => lane'[b].pc = "absent"
    BY DEF LaneOver, RunningOne
  <2> QED BY <1>1, <2>1, <2>2 DEF RunningOne, Collected
<1>9. Collecting'
  <2> SUFFICES ASSUME op.pc = "collect" PROVE Collecting'
    BY <1>1 DEF Collecting
  <2>1. Collected(Before)'
    BY <1>0 DEF Collecting
  <2> QED BY <1>1, <2>1 DEF Collecting, Collected
<1>10. Ended'
  <2> SUFFICES ASSUME op.pc = "ended" PROVE Ended'
    BY <1>1 DEF Ended
  <2>1. op.result = "error"
    BY DEF Ended, Collected
  <2>2. \E b \in Actions : Fatal(b)'
    BY <2>1 DEF Ended, Fatal, LaneResult, LaneOver
  <2> QED BY <1>1, <2>1, <2>2 DEF Ended
<1>11. OneAtATime'
  BY <1>1 DEF OneAtATime, LaneOver
<1>12. Dispatching'
  BY <1>1 DEF Dispatching
<1>13. ReportHonest'
  BY <1>1 DEF ReportHonest, Dispatching
<1>14. \A b \in Actions : record' = <<b>> => lane'[b].result = "aborted"
  BY DEF Recorded, LaneResult, LaneOver
<1>15. ~mode'.parallel /\ record' # <<>> => \A b \in Actions : LaneOver(b)'
  BY <1>1 DEF Recorded, OneAtATime, LaneOver
<1> QED BY <1>3, <1>4, <1>7, <1>8, <1>9, <1>10, <1>11, <1>12, <1>13, <1>14, <1>15

\* A step of lane a that touches no process but that of its own step.
LEMMA ProcessesKept ==
  ASSUME IInv, NEW a \in Actions, LaneMove(a),
         child' \in [Steps -> ChildStates], registry' \subseteq Steps,
         \A c \in Steps : c # Here(a) =>
           child'[c] = child[c] /\ (c \in registry' <=> c \in registry),
         Here(a) \in Steps =>
           /\ \/ child'[Here(a)] \notin {"loose", "owned"} /\ Here(a) \notin registry'
              \/ /\ lane'[a].step = lane[a].step /\ lane'[a].pc \in {"spawned", "waiting"}
                 /\ child'[Here(a)] = "owned" => Here(a) \in registry'
                 /\ Here(a) \in registry' => lane'[a].pc = "waiting"
           /\ child'[Here(a)] = "stray" =>
                child[Here(a)] = "stray" \/ (~mode.machine /\ late')
           /\ child'[Here(a)] = "owned" => child[Here(a)] = "owned" \/ ~canceled,
         late => late'
  PROVE  /\ ChildrenOwned' /\ SweepIsFinal'
         /\ \A c \in registry' : lane'[c[1]].pc = "waiting" /\ Here(c[1])' = c
<1>1. /\ mode' = mode /\ dispatch' = dispatch /\ canceled' = canceled
      /\ \A b \in Actions \ {a} : lane'[b] = lane[b]
      /\ \A b \in Actions : lane[b].result = "error" => lane'[b].result = "error"
  BY DEF LaneMove, machineVars, IInv, LaneResult, LaneOver
<1>2. /\ registry \subseteq Steps
      /\ \A c \in registry : lane[c[1]].pc = "waiting" /\ Here(c[1]) = c
  BY DEF IInv, TypeOK
<1>3. ASSUME NEW c \in Steps
      PROVE  /\ child'[c] = "stray" =>
                  ~mode'.machine /\ (late' \/ \E b \in Actions : lane'[b].result = "error")
             /\ Running(c)' => Here(c[1])' = c /\ lane'[c[1]].pc \in {"spawned", "waiting"}
             /\ child'[c] = "owned" => c \in registry'
             /\ c \in registry' => lane'[c[1]].pc = "waiting" /\ Here(c[1])' = c
             /\ dispatch'.swept => child'[c] # "owned"
  <2>1. c[1] \in Actions /\ c = <<c[1], c[2]>>
    BY StepsMember
  <2>2. /\ child[c] = "stray" =>
             ~mode.machine /\ (late \/ \E b \in Actions : lane[b].result = "error")
        /\ Running(c) => Here(c[1]) = c /\ lane[c[1]].pc \in {"spawned", "waiting"}
        /\ child[c] = "owned" => c \in registry
        /\ dispatch.swept => child[c] # "owned" /\ canceled
    BY DEF IInv, ChildrenOwned, SweepIsFinal, Dispatching
  <2>3. CASE c = Here(a)
    <3>1. c[1] = a /\ Here(a)' = <<a, lane'[a].step>>
      BY <2>3 DEF Here
    <3>2. lane'[a].step = lane[a].step => Here(c[1])' = c
      BY <2>3, <3>1 DEF Here
    <3> QED BY <1>1, <2>2, <2>3, <3>1, <3>2 DEF Running
  <2>4. CASE c # Here(a) /\ c[1] = a
    <3>1. ~Running(c) /\ c \notin registry
      BY <1>2, <2>2, <2>4
    <3> QED BY <1>1, <2>2, <2>4, <3>1 DEF Running
  <2>5. CASE c # Here(a) /\ c[1] # a
    <3>1. lane'[c[1]] = lane[c[1]] /\ Here(c[1])' = Here(c[1])
      BY <1>1, <2>1, <2>5 DEF Here
    <3> QED BY <1>1, <1>2, <2>2, <2>5, <3>1 DEF Running
  <2> QED BY <2>3, <2>4, <2>5
<1>4. ChildrenOwned'
  BY <1>3 DEF ChildrenOwned
<1>5. SweepIsFinal'
  BY <1>3 DEF SweepIsFinal
<1> QED BY <1>3, <1>4, <1>5

LEMMA MoveTypes ==
  ASSUME IInv, NEW a \in Actions, Move(a),
         child' \in [Steps -> ChildStates], registry' \subseteq Steps, after' \subseteq Steps,
         \A c \in registry' : lane'[c[1]].pc = "waiting" /\ Here(c[1])' = c,
         budget' \in {budget, "noted"}
  PROVE  TypeOK'
<1>1. /\ mode' \in Modes
      /\ op' \in [pc : OpPCs, at : 1 .. NumActions + 1, result : OpResults]
      /\ doomed' \subseteq Actions /\ failures' \subseteq Actions
      /\ record' = <<>> \/ \E b \in Actions : record' = <<b>>
      /\ canceled' \in BOOLEAN /\ budget' \in {"left", "spent", "noted"}
      /\ dispatch' \in [pc : DispatchPCs, confirmed : BOOLEAN, aborting : BOOLEAN, swept : BOOLEAN]
      /\ report' \in [outcome : Outcomes, cleanup : Cleanups]
  BY DEF IInv, TypeOK, Move, LaneMove, machineVars
<1>2. ASSUME NEW b \in Actions
      PROVE  /\ lane'[b].step \in 1 .. NumSteps[b] + 1
             /\ lane'[b].pc \in Busy => Here(b)' \in Steps
  <2>1. CASE b = a
    <3>1. /\ lane'[a].step \in 1 .. NumSteps[a] + 1
          /\ lane'[a].pc \in Busy => lane'[a].step <= NumSteps[a]
      BY DEF Move, LaneMove
    <3>2. lane'[a].pc \in Busy => <<a, lane'[a].step>> \in Steps
      BY <3>1, NumTypes, StepsMember
    <3> QED BY <2>1, <3>1, <3>2 DEF Here
  <2>2. CASE b # a
    <3>1. lane'[b] = lane[b]
      BY <2>2 DEF Move, LaneMove
    <3> QED BY <3>1, LaneIs DEF Here
  <2> QED BY <2>1, <2>2
<1>3. lane' \in [Actions -> [pc : LanePCs, step : Nat, result : LaneResults]]
  BY DEF Move, LaneMove, Lanes
<1> QED BY <1>1, <1>2, <1>3 DEF TypeOK, Busy

\* A lane that is not on its way to a new step leaves the history of the abort.
LEMMA HistoryKept ==
  ASSUME IInv, ~Over, NEW a \in Actions, Move(a), after' = after,
         lane'[a].pc \in {"starting", "cleared"} =>
           record = <<>> \/ lane[a].pc \in {"starting", "cleared"}
  PROVE  Recorded' /\ AbortStopsScheduling'
<1>1. record' = record \/ (record = <<>> /\ record' # <<>>)
  BY DEF Move, LaneMove
<1>2. /\ after \subseteq Steps
      /\ \A c \in after : c[1] \in Actions
      /\ record = <<>> => after = {}
      /\ mode' = mode
  BY StepsMember DEF IInv, TypeOK, Recorded, Move, LaneMove
<1>3. Recorded'
  <2>1. \A c \in after : lane'[c[1]].pc \notin {"absent", "starting", "cleared"}
    <3> SUFFICES ASSUME NEW c \in after
                 PROVE  lane'[c[1]].pc \notin {"absent", "starting", "cleared"}
      OBVIOUS
    <3>1. record # <<>> /\ lane[c[1]].pc \notin {"absent", "starting", "cleared"}
      BY <1>2 DEF IInv, Recorded
    <3> QED BY <1>2, <3>1 DEF Move, LaneMove
  <2> QED BY <1>1, <1>2, <2>1, MoveKeeps DEF Recorded
<1>4. AbortStopsScheduling'
  BY <1>1, <1>2 DEF IInv, AbortStopsScheduling
<1> QED BY <1>3, <1>4

\* What is left to show of a lane's step.
LEMMA Kept ==
  ASSUME IInv, ~Over, NEW a \in Actions, Move(a),
         TypeOK', Recorded', AbortStopsScheduling', ChildrenOwned', SweepIsFinal'
  PROVE  IInv'
BY MoveKeeps DEF IInv

\* A step of a lane that starts, ends and registers no process.
LEMMA QuietMove ==
  ASSUME IInv, ~Over, NEW a \in Actions, Move(a),
         UNCHANGED <<processVars, after>>, budget' \in {budget, "noted"},
         lane'[a].pc \in {"starting", "cleared"} =>
           record = <<>> \/ lane[a].pc \in {"starting", "cleared"},
         Here(a) \in Steps => ~Running(Here(a)) /\ Here(a) \notin registry
  PROVE  IInv'
<1>1. /\ child' = child /\ registry' = registry /\ after' = after
      /\ child' \in [Steps -> ChildStates] /\ registry' \subseteq Steps /\ after' \subseteq Steps
      /\ late => late'
  BY DEF IInv, TypeOK, processVars, late
<1>2. /\ ChildrenOwned' /\ SweepIsFinal'
      /\ \A c \in registry' : lane'[c[1]].pc = "waiting" /\ Here(c[1])' = c
  BY <1>1, ProcessesKept DEF Running, Move
<1>3. TypeOK'
  BY <1>1, <1>2, MoveTypes
<1>4. Recorded' /\ AbortStopsScheduling'
  BY <1>1, HistoryKept
<1> QED BY <1>2, <1>3, <1>4, Kept

-----------------------------------------------------------------------------
(* The steps of a lane.                                                    *)

LEMMA NothingRuns ==
  ASSUME IInv, NEW a \in Actions, lane[a].pc \notin {"spawned", "waiting"}, Here(a) \in Steps
  PROVE  ~Running(Here(a)) /\ Here(a) \notin registry
<1>1. Here(a)[1] = a
  BY DEF Here
<1> QED BY <1>1 DEF IInv, ChildrenOwned, TypeOK

LEMMA NextStepKeeps ==
  ASSUME IInv, ~Over, NEW a \in Actions, NextStep(a)
  PROVE  IInv'
<1>1. /\ lane[a].pc = "top" /\ ~LaneOver(a)
      /\ UNCHANGED <<mode, op, doomed, failures, machineVars, report, record>>
      /\ UNCHANGED <<processVars, after>> /\ budget' = budget
  BY DEF NextStep, LaneOver
<1>2. /\ lane[a] \in Lanes /\ lane[a].step \in 1 .. NumSteps[a] + 1 /\ lane[a].result = "none"
      /\ NumSteps[a] \in Nat
  BY <1>1, LaneIs, NumTypes
<1>3. Move(a) /\ (lane'[a].pc \in {"starting", "cleared"} => record = <<>>)
  <2>1. CASE Stopped(a) /\ End(a, "stopped")
    <3>1. Move(a) /\ lane'[a] = [pc |-> "ended", step |-> lane[a].step, result |-> "stopped"]
      BY <1>1, <2>1, EndMoves DEF Stopped, LaneResults
    <3> QED BY <3>1
  <2>2. CASE End(a, "completed")
    <3>1. Move(a) /\ lane'[a] = [pc |-> "ended", step |-> lane[a].step, result |-> "completed"]
      BY <1>1, <2>2, EndMoves DEF LaneResults
    <3> QED BY <3>1
  <2>3. CASE End(a, "error")
    <3>1. Move(a) /\ lane'[a] = [pc |-> "ended", step |-> lane[a].step, result |-> "error"]
      BY <1>1, <2>3, EndMoves DEF LaneResults
    <3> QED BY <3>1
  <2>4. CASE ~Stopped(a) /\ ~(lane[a].step > NumSteps[a])
             /\ lane' = [lane EXCEPT ![a].pc = "starting"]
    <3>1. lane' = [lane EXCEPT ![a] = [pc |-> "starting", step |-> lane[a].step, result |-> "none"]]
      BY <1>2, <2>4, PcSet DEF LanePCs
    <3>2. "starting" \in LanePCs \ {"absent", "ended"} /\ lane[a].step <= NumSteps[a]
      BY <1>2, <2>4 DEF LanePCs, Lanes
    <3>3. Move(a)
      BY <1>1, <1>2, <3>1, <3>2, OnMoves
    <3>4. record = <<>>
      BY <2>4 DEF Stopped, Triggered
    <3> QED BY <3>3, <3>4
  <2>5. CASE ~(lane[a].step > NumSteps[a]) /\ lane' = [lane EXCEPT ![a].step = @ + 1]
    <3>1. lane' = [lane EXCEPT ![a] = [pc |-> "top", step |-> lane[a].step + 1, result |-> "none"]]
      BY <1>1, <1>2, <2>5, StepPassed
    <3>2. /\ "top" \in LanePCs \ {"absent", "ended"} /\ "top" \notin Busy
          /\ lane[a].step + 1 \in 1 .. NumSteps[a] + 1
      BY <1>2, <2>5 DEF LanePCs, Busy
    <3>3. Move(a) /\ lane'[a] = [pc |-> "top", step |-> lane[a].step + 1, result |-> "none"]
      BY <1>1, <3>1, <3>2, OnMoves
    <3> QED BY <3>3
  <2> QED BY <2>1, <2>2, <2>3, <2>4, <2>5 DEF NextStep
<1>4. Here(a) \in Steps => ~Running(Here(a)) /\ Here(a) \notin registry
  BY <1>1, NothingRuns
<1> QED BY <1>1, <1>3, <1>4, QuietMove

LEMMA ClearToStartKeeps ==
  ASSUME IInv, ~Over, NEW a \in Actions, ClearToStart(a)
  PROVE  IInv'
<1>1. lane[a].pc = "starting" /\ UNCHANGED <<processVars, after>>
  BY DEF ClearToStart
<1>2. Here(a) \in Steps => ~Running(Here(a)) /\ Here(a) \notin registry
  BY <1>1, NothingRuns
<1>3. Move(a) /\ budget' \in {budget, "noted"}
  <2>1. CASE late \/ canceled
    <3> DEFINE how == IF late THEN "timeout" ELSE "bad"
    <3>1. Judge(a, how) /\ how \in {"ok", "bad", "timeout"}
      BY <2>1 DEF ClearToStart
    <3> HIDE DEF how
    <3> QED BY <1>1, <3>1, JudgeMoves DEF Busy
  <2>2. CASE ~(late \/ canceled)
    <3>1. /\ lane[a] \in Lanes /\ lane[a].step \in 1 .. NumSteps[a] /\ lane[a].result = "none"
          /\ NumSteps[a] \in Nat
      BY <1>1, LaneIs, NumTypes DEF Busy
    <3>2. /\ lane' = [lane EXCEPT ![a].pc = "cleared"]
          /\ UNCHANGED <<mode, op, doomed, failures, record, machineVars, budget, report>>
      BY <2>2 DEF ClearToStart
    <3>3. lane' = [lane EXCEPT ![a] = [pc |-> "cleared", step |-> lane[a].step, result |-> "none"]]
      BY <3>1, <3>2, PcSet DEF LanePCs
    <3>4. /\ "cleared" \in LanePCs \ {"absent", "ended"} /\ ~LaneOver(a)
          /\ lane[a].step \in 1 .. NumSteps[a] + 1 /\ lane[a].step <= NumSteps[a]
      BY <1>1, <3>1 DEF LanePCs, LaneOver
    <3> QED BY <3>2, <3>3, <3>4, OnMoves
  <2> QED BY <2>1, <2>2
<1> QED BY <1>1, <1>2, <1>3, QuietMove

LEMMA SpawnKeeps ==
  ASSUME IInv, ~Over, NEW a \in Actions, Spawn(a)
  PROVE  IInv'
<1>1. lane[a].pc = "cleared" /\ lane[a].pc \in Busy /\ ~LaneOver(a)
  BY DEF Spawn, Busy, LaneOver
<1>2. /\ lane[a] \in Lanes /\ lane[a].step \in 1 .. NumSteps[a] /\ Here(a) \in Steps
      /\ NumSteps[a] \in Nat /\ lane[a].result = "none"
  BY <1>1, LaneIs, NumTypes
<1>3. ~Running(Here(a)) /\ Here(a) \notin registry
  BY <1>1, <1>2, NothingRuns
<1>4. CASE Judge(a, "bad") /\ UNCHANGED <<processVars, after>>
  <2>1. Move(a) /\ lane'[a].pc \in {"top", "ended"} /\ budget' \in {budget, "noted"}
    BY <1>1, <1>4, JudgeMoves
  <2> QED BY <1>3, <1>4, <2>1, QuietMove
<1>5. CASE ~(Judge(a, "bad") /\ UNCHANGED <<processVars, after>>)
  <2> DEFINE q == IF mode.machine THEN "spawned" ELSE "waiting"
  <2>1. /\ child' = [child EXCEPT ![Here(a)] = "loose"]
        /\ lane' = [lane EXCEPT ![a].pc = q]
        /\ after' = IF record = <<>> THEN after ELSE after \union {Here(a)}
        /\ registry' = registry /\ budget' = budget
        /\ UNCHANGED <<mode, op, doomed, failures, record, machineVars, report>>
    BY <1>5 DEF Spawn
  <2>2. q \in LanePCs \ {"absent", "ended"} /\ q \in {"spawned", "waiting"}
    BY DEF LanePCs
  <2> HIDE DEF q
  <2>3. lane' = [lane EXCEPT ![a] = [pc |-> q, step |-> lane[a].step, result |-> "none"]]
    BY <1>2, <2>1, <2>2, PcSet
  <2>4. lane[a].step \in 1 .. NumSteps[a] + 1 /\ lane[a].step <= NumSteps[a]
    BY <1>2
  <2>5. Move(a) /\ lane'[a] = [pc |-> q, step |-> lane[a].step, result |-> "none"]
    BY <1>1, <2>1, <2>2, <2>3, <2>4, OnMoves
  <2>6. lane'[a].pc \in {"spawned", "waiting"} /\ lane'[a].step = lane[a].step
    BY <2>2, <2>5
  <2>7. /\ child' \in [Steps -> ChildStates] /\ child'[Here(a)] = "loose"
        /\ \A c \in Steps : c # Here(a) => child'[c] = child[c]
        /\ registry' \subseteq Steps /\ after' \subseteq Steps
        /\ late => late'
    BY <1>2, <2>1 DEF IInv, TypeOK, ChildStates, late
  <2>8. /\ ChildrenOwned' /\ SweepIsFinal'
        /\ \A c \in registry' : lane'[c[1]].pc = "waiting" /\ Here(c[1])' = c
    BY <1>3, <2>1, <2>5, <2>6, <2>7, ProcessesKept DEF Move
  <2>9. TypeOK'
    BY <2>1, <2>5, <2>7, <2>8, MoveTypes
  <2>10. /\ record' = record /\ mode' = mode
         /\ \A c \in after : c[1] \in Actions /\ c[1] # a
         /\ Here(a)[1] = a
    BY <1>1, <2>1, StepsMember DEF IInv, Recorded, TypeOK, Here
  <2>11. \A c \in after' : lane'[c[1]].pc \notin {"absent", "starting", "cleared"}
    BY <2>1, <2>5, <2>6, <2>10 DEF IInv, Recorded, Move, LaneMove
  <2>12. record = <<>> => after' = {}
    BY <2>1 DEF IInv, Recorded
  <2>13. Recorded'
    BY <2>5, <2>10, <2>11, <2>12, MoveKeeps DEF Recorded
  <2>14. record # <<a>>
    BY <1>1, <1>2 DEF IInv, Recorded
  <2>15. ~mode.parallel => record = <<>>
    BY <1>1 DEF IInv, Recorded
  <2>16. AbortStopsScheduling'
    BY <2>1, <2>10, <2>12, <2>14, <2>15 DEF IInv, AbortStopsScheduling
  <2> QED BY <2>5, <2>8, <2>9, <2>13, <2>16, Kept
<1> QED BY <1>4, <1>5

\* The processes of a lane's step, when only its own process is concerned.
LEMMA OwnProcess ==
  ASSUME IInv, ~Over, NEW a \in Actions, Move(a), Here(a) \in Steps,
         NEW s \in ChildStates, child' = [child EXCEPT ![Here(a)] = s],
         \A c \in Steps : c # Here(a) => (c \in registry' <=> c \in registry),
         registry' \subseteq Steps,
         \/ s \notin {"loose", "owned"} /\ Here(a) \notin registry'
         \/ /\ lane'[a].step = lane[a].step /\ lane'[a].pc = "waiting"
            /\ Here(a) \in registry',
         s = "stray" => child[Here(a)] = "stray" \/ (~mode.machine /\ late'),
         s = "owned" => child[Here(a)] = "owned" \/ ~canceled,
         budget' \in {budget, "noted"}, after' = after,
         lane'[a].pc \notin {"starting", "cleared"}
  PROVE  IInv'
<1>1. /\ child' \in [Steps -> ChildStates] /\ child'[Here(a)] = s
      /\ \A c \in Steps : c # Here(a) => child'[c] = child[c]
      /\ late => late'
      /\ after' \subseteq Steps
  BY DEF IInv, TypeOK, late
<1>2. /\ ChildrenOwned' /\ SweepIsFinal'
      /\ \A c \in registry' : lane'[c[1]].pc = "waiting" /\ Here(c[1])' = c
  BY <1>1, ProcessesKept DEF Move
<1>3. TypeOK'
  BY <1>1, <1>2, MoveTypes
<1>4. Recorded' /\ AbortStopsScheduling'
  BY HistoryKept
<1> QED BY <1>2, <1>3, <1>4, Kept

LEMMA AttachKeeps ==
  ASSUME IInv, ~Over, NEW a \in Actions, Attach(a)
  PROVE  IInv'
<1>1. lane[a].pc = "spawned" /\ lane[a].pc \in Busy /\ ~LaneOver(a) /\ after' = after
  BY DEF Attach, Busy, LaneOver
<1>2. /\ lane[a] \in Lanes /\ lane[a].step \in 1 .. NumSteps[a] /\ Here(a) \in Steps
      /\ NumSteps[a] \in Nat /\ lane[a].result = "none"
  BY <1>1, LaneIs, NumTypes
<1>3. CASE MayRegister
  <2> DEFINE s == IF child[Here(a)] = "loose" THEN "owned" ELSE child[Here(a)]
  <2>1. /\ registry' = registry \union {Here(a)}
        /\ child' = [child EXCEPT ![Here(a)] = s]
        /\ lane' = [lane EXCEPT ![a].pc = "waiting"]
        /\ UNCHANGED <<mode, op, doomed, failures, record, machineVars, budget, report>>
    BY <1>3 DEF Attach
  <2>2. /\ child[Here(a)] \in ChildStates /\ registry \subseteq Steps
        /\ s \in ChildStates
        /\ s = "stray" => child[Here(a)] = "stray"
        /\ ~canceled
    BY <1>2, <1>3 DEF IInv, TypeOK, ChildStates, MayRegister
  <2> HIDE DEF s
  <2>3. lane' = [lane EXCEPT ![a] = [pc |-> "waiting", step |-> lane[a].step, result |-> "none"]]
    BY <1>2, <2>1, PcSet DEF LanePCs
  <2>4. /\ lane[a].step \in 1 .. NumSteps[a] + 1 /\ lane[a].step <= NumSteps[a]
        /\ "waiting" \in LanePCs \ {"absent", "ended"}
    BY <1>2 DEF LanePCs
  <2>5. Move(a) /\ lane'[a] = [pc |-> "waiting", step |-> lane[a].step, result |-> "none"]
    BY <1>1, <2>1, <2>3, <2>4, OnMoves
  <2>6. registry' \subseteq Steps /\ Here(a) \in registry'
    BY <1>2, <2>1, <2>2
  <2>7. /\ lane'[a].step = lane[a].step /\ lane'[a].pc = "waiting"
        /\ budget' \in {budget, "noted"} /\ after' = after
        /\ \A c \in Steps : c # Here(a) => (c \in registry' <=> c \in registry)
    BY <1>1, <2>1, <2>5
  <2> QED BY <1>2, <2>1, <2>2, <2>5, <2>6, <2>7, OwnProcess
<1>4. CASE ~MayRegister
  <2>1. child' = [child EXCEPT ![Here(a)] = "bad"] /\ registry' = registry /\ Judge(a, "bad")
    BY <1>4 DEF Attach
  <2>2. Move(a) /\ lane'[a].pc \in {"top", "ended"} /\ budget' \in {budget, "noted"}
    BY <1>1, <2>1, JudgeMoves
  <2>3. Here(a) \notin registry' /\ registry' \subseteq Steps
    BY <1>1, <2>1 DEF IInv, TypeOK, Here
  <2> QED BY <1>1, <1>2, <2>1, <2>2, <2>3, OwnProcess DEF ChildStates
<1> QED BY <1>3, <1>4

LEMMA CollectKeeps ==
  ASSUME IInv, ~Over, NEW a \in Actions, Collect(a)
  PROVE  IInv'
<1>1. /\ lane[a].pc = "waiting" /\ lane[a].pc \in Busy
      /\ child[Here(a)] \in {"ok", "bad"} /\ child' = child /\ after' = after
      /\ registry' = registry \ {Here(a)} /\ Judge(a, child[Here(a)])
  BY DEF Collect, Busy, Without
<1>2. Here(a) \in Steps
  BY <1>1, LaneIs
<1>3. Move(a) /\ lane'[a].pc \in {"top", "ended"} /\ budget' \in {budget, "noted"}
  BY <1>1, JudgeMoves
<1>4. child' = [child EXCEPT ![Here(a)] = child[Here(a)]] /\ registry' \subseteq Steps
  BY <1>1 DEF IInv, TypeOK
<1> QED BY <1>1, <1>2, <1>3, <1>4, OwnProcess DEF ChildStates

LEMMA StepTimeoutKeeps ==
  ASSUME IInv, ~Over, NEW a \in Actions, StepTimeout(a)
  PROVE  IInv'
<1> DEFINE s == IF KilledByDeadline(Here(a)) THEN "bad" ELSE "stray"
<1>1. /\ lane[a].pc = "waiting" /\ lane[a].pc \in Busy
      /\ child' = [child EXCEPT ![Here(a)] = s] /\ after' = after
      /\ registry' = registry \ {Here(a)} /\ Judge(a, "timeout")
  BY DEF StepTimeout, Busy, Without
<1>2. Here(a) \in Steps
  BY <1>1, LaneIs
<1>3. /\ Move(a) /\ lane'[a].pc \in {"top", "ended"}
      /\ budget' \in {budget, "noted"} /\ budget' = "noted"
  BY <1>1, JudgeMoves
<1>4. /\ s \in ChildStates /\ s \notin {"loose", "owned"}
      /\ s = "stray" => ~mode.machine /\ late'
      /\ registry' \subseteq Steps
  BY <1>1, <1>3 DEF IInv, TypeOK, ChildStates, KilledByDeadline, late
<1> HIDE DEF s
<1> QED BY <1>1, <1>2, <1>3, <1>4, OwnProcess

LEMMA LaneAbortedKeeps ==
  ASSUME IInv, ~Over, NEW a \in Actions, LaneAborted(a)
  PROVE  IInv'
<1>1. /\ a \in doomed /\ lane[a].pc \in {"waiting", "top"} /\ ~LaneOver(a) /\ End(a, "gone")
      /\ UNCHANGED <<mode, op, doomed, failures, record, machineVars, budget, report, after>>
  BY DEF LaneAborted, LaneOver
<1>2. mode.machine
  BY <1>1 DEF IInv, Interactive
<1>3. Move(a) /\ lane'[a] = [pc |-> "ended", step |-> lane[a].step, result |-> "gone"]
  BY <1>1, <1>2, EndMoves DEF LaneResults
<1>4. CASE lane[a].pc = "waiting"
  <2> DEFINE s == Dropped(Here(a))
  <2>1. Here(a) \in Steps
    BY <1>4, LaneIs DEF Busy
  <2>2. /\ child' = [child EXCEPT ![Here(a)] = s]
        /\ registry' = registry \ {Here(a)} /\ registry' \subseteq Steps
    BY <1>4 DEF LaneAborted, Without, IInv, TypeOK
  <2>3. /\ child[Here(a)] \in ChildStates
        /\ s \in ChildStates /\ s \notin {"loose", "owned"}
        /\ s = "stray" => child[Here(a)] = "stray"
    BY <1>2, <2>1 DEF Dropped, ChildStates, IInv, TypeOK
  <2> HIDE DEF s
  <2>4. /\ lane'[a].pc = "ended" /\ Here(a) \notin registry'
        /\ budget' \in {budget, "noted"} /\ after' = after
        /\ \A c \in Steps : c # Here(a) => (c \in registry' <=> c \in registry)
    BY <1>1, <1>3, <2>2
  <2> QED BY <1>3, <2>1, <2>2, <2>3, <2>4, OwnProcess
<1>5. CASE lane[a].pc = "top"
  <2>1. UNCHANGED processVars
    BY <1>5 DEF LaneAborted
  <2>2. Here(a) \in Steps => ~Running(Here(a)) /\ Here(a) \notin registry
    BY <1>5, NothingRuns
  <2> QED BY <1>1, <1>3, <2>1, <2>2, QuietMove
<1> QED BY <1>1, <1>4, <1>5

LEMMA LaneStepKeeps ==
  ASSUME IInv, ~Over, NEW a \in Actions, LaneStep(a)
  PROVE  IInv'
BY NextStepKeeps, ClearToStartKeeps, SpawnKeeps, AttachKeeps, CollectKeeps,
   StepTimeoutKeeps, LaneAbortedKeeps DEF LaneStep

-----------------------------------------------------------------------------
(* The steps of the operation.                                             *)

LEMMA OpIs ==
  ASSUME IInv
  PROVE  /\ op = [pc |-> op.pc, at |-> op.at, result |-> op.result]
         /\ op.pc \in OpPCs /\ op.at \in 1 .. NumActions + 1 /\ op.result \in OpResults
BY DEF IInv, TypeOK

\* A step of the operation that touches no lane.
LEMMA OpStepKeeps ==
  ASSUME IInv, ~Over, ~OpOver,
         UNCHANGED <<mode, lane, record, processVars, machineVars, budget, report, after>>,
         op' \in [pc : OpPCs, at : 1 .. NumActions + 1, result : OpResults],
         failures' \subseteq Actions, doomed' \subseteq Actions,
         ~mode.machine => doomed' = {},
         Walking', RunningOne', Collecting', Ended', OneAtATime'
  PROVE  IInv'
<1>1. /\ mode' = mode /\ lane' = lane /\ record' = record /\ child' = child
      /\ registry' = registry /\ canceled' = canceled /\ dispatch' = dispatch
      /\ budget' = budget /\ report' = report /\ after' = after
  BY DEF processVars, machineVars
<1>2. TypeOK'
  BY <1>1 DEF IInv, TypeOK, Here
<1>3. /\ \A a \in Actions : LaneResult(a)'
      /\ Interactive' /\ Recorded' /\ AbortStopsScheduling'
  BY <1>1 DEF IInv, LaneResult, Triggered, Interactive, Over, Recorded, LaneOver,
              AbortStopsScheduling
<1>4. ChildrenOwned' /\ SweepIsFinal'
  BY <1>1 DEF IInv, ChildrenOwned, Running, Here, late, SweepIsFinal
<1>5. Dispatching' /\ ReportHonest'
  BY <1>1 DEF IInv, Dispatching, ReportHonest, Over, OpOver
<1> QED BY <1>2, <1>3, <1>4, <1>5 DEF IInv

\* A lane that has not started has nothing to collect.
LEMMA AbsentIsCollected ==
  ASSUME IInv, NEW a \in Actions, lane[a].pc = "absent"
  PROVE  LaneOver(a) /\ ~Fatal(a) /\ lane[a].result \notin {"failed", "aborted"}
<1>1. lane[a].result = "none"
  BY LaneIs
<1> QED BY <1>1 DEF LaneOver, Fatal

\* The operation starts a lane.
LEMMA LaneStarts ==
  ASSUME IInv, ~Over, op.pc = "walk",
         ~(Triggered \/ op.at > NumActions),
         lane' = [lane EXCEPT ![op.at] = [pc |-> "top", step |-> 1, result |-> "none"]],
         op' = IF mode.parallel THEN [op EXCEPT !.at = @ + 1] ELSE [op EXCEPT !.pc = "run"],
         UNCHANGED <<mode, doomed, failures, record, processVars, machineVars, budget,
                     report, after>>
  PROVE  IInv'
<1>1. /\ mode' = mode /\ doomed' = doomed /\ failures' = failures /\ record' = record
      /\ child' = child /\ registry' = registry /\ canceled' = canceled
      /\ dispatch' = dispatch /\ budget' = budget /\ report' = report /\ after' = after
  BY DEF processVars, machineVars
<1>2. /\ op.at \in Actions /\ op.at + 1 \in 1 .. NumActions + 1 /\ op.at \notin Before
      /\ NumActions \in Nat /\ \A a \in Actions : a # op.at /\ a \notin Before => a > op.at
  BY NumTypes, OpIs DEF Actions, Before
<1> DEFINE at == op.at
           new == [pc |-> "top", step |-> 1, result |-> "none"]
<1>3. /\ lane[at].pc = "absent" /\ lane[at].result = "none"
      /\ ~mode.parallel => \A a \in Actions : LaneOver(a)
      /\ Collected(IF mode.parallel THEN {} ELSE Before)
      /\ \A a \in Actions \ Before : lane[a].pc = "absent"
  BY <1>2, LaneIs DEF IInv, Walking, OneAtATime
<1>4. /\ lane' \in [Actions -> Lanes] /\ lane'[at] = new
      /\ \A a \in Actions \ {at} : lane'[a] = lane[a]
  <2>1. lane \in [Actions -> Lanes] /\ new \in Lanes
    BY DEF IInv, TypeOK, Lanes, LanePCs, LaneResults
  <2> QED BY <1>2, <2>1
<1>5. /\ op' = IF mode.parallel THEN [pc |-> "walk", at |-> at + 1, result |-> op.result]
                                ELSE [pc |-> "run", at |-> at, result |-> op.result]
      /\ op' \in [pc : OpPCs, at : 1 .. NumActions + 1, result : OpResults]
  BY <1>2, OpIs DEF OpPCs
<1>6. record = <<>> /\ ~canceled
  BY DEF Triggered
<1>7. \A c \in Steps : Running(c) \/ c \in registry => c[1] \in Actions /\ c[1] # at
  BY <1>3, StepsMember DEF IInv, ChildrenOwned, TypeOK
<1>8. TypeOK'
  <2>1. ASSUME NEW a \in Actions
        PROVE  /\ lane'[a].step \in 1 .. NumSteps[a] + 1
               /\ lane'[a].pc \in Busy => Here(a)' \in Steps
    <3>1. CASE a = at
      <4>1. lane'[a] = new /\ new.pc \notin Busy /\ 1 \in 1 .. NumSteps[a] + 1
        BY <1>4, <3>1, NumTypes DEF Busy
      <4> QED BY <4>1
    <3>2. CASE a # at
      BY <1>4, <3>2, LaneIs DEF Here
    <3> QED BY <3>1, <3>2
  <2>2. \A c \in registry : lane'[c[1]].pc = "waiting" /\ Here(c[1])' = c
    BY <1>4, <1>7 DEF IInv, TypeOK, Here
  <2>3. lane' \in [Actions -> [pc : LanePCs, step : Nat, result : LaneResults]]
    BY <1>4 DEF Lanes
  <2>4. /\ mode' \in Modes /\ doomed' \subseteq Actions /\ failures' \subseteq Actions
        /\ record' = <<>> /\ child' \in [Steps -> ChildStates] /\ registry' \subseteq Steps
        /\ canceled' \in BOOLEAN /\ budget' \in {"left", "spent", "noted"}
        /\ dispatch' \in [pc : DispatchPCs, confirmed : BOOLEAN, aborting : BOOLEAN,
                          swept : BOOLEAN]
        /\ report' \in [outcome : Outcomes, cleanup : Cleanups] /\ after' \subseteq Steps
    BY <1>1, <1>6 DEF IInv, TypeOK
  <2> QED BY <1>1, <1>5, <2>1, <2>2, <2>3, <2>4 DEF TypeOK, Busy
<1>9. \A a \in Actions : LaneResult(a)'
  BY <1>1, <1>4 DEF IInv, LaneResult, Triggered
<1>10. Interactive'
  BY <1>1, <1>4 DEF IInv, Interactive, Over
<1>11. \A a \in Actions : lane[a].result # "none" => lane'[a] = lane[a]
  BY <1>3, <1>4
<1>12. \A a \in Before : a \in Actions /\ lane'[a] = lane[a]
  BY <1>2, <1>4 DEF Before
<1>13. Walking' /\ RunningOne'
  <2>1. CASE mode.parallel
    <3>1. Before' = Before \union {at}
      BY <1>2, <1>5, <2>1 DEF Before, Actions
    <3>2. \A a \in Actions \ Before' : lane'[a].pc = "absent"
      BY <1>3, <1>4, <3>1
    <3> QED BY <1>1, <1>3, <1>5, <2>1, <3>2 DEF Walking, RunningOne, Collected
  <2>2. CASE ~mode.parallel
    <3>1. Before' = Before /\ op'.at = at /\ op'.pc = "run"
      BY <1>5, <2>2 DEF Before
    <3>2. Collected(Before)
      BY <1>3, <2>2
    <3>3. Collected(Before)'
      BY <1>1, <1>12, <3>1, <3>2 DEF Collected, LaneOver, Fatal
    <3>4. \A a \in Actions \ Before : a # at => lane'[a].pc = "absent"
      BY <1>3, <1>4
    <3> QED BY <1>1, <1>2, <2>2, <3>1, <3>3, <3>4 DEF Walking, RunningOne, Collected
  <2> QED BY <2>1, <2>2
<1>14. Collecting' /\ Ended' /\ ~OpOver /\ ~OpOver'
  BY <1>5 DEF Collecting, Ended, OpOver
<1>15. OneAtATime'
  BY <1>1, <1>3, <1>4, <1>5 DEF OneAtATime, LaneOver
<1>16. Recorded' /\ AbortStopsScheduling'
  BY <1>1, <1>6 DEF IInv, Recorded, AbortStopsScheduling
<1>17. ChildrenOwned' /\ SweepIsFinal'
  <2>1. \A c \in Steps : Running(c) => lane'[c[1]] = lane[c[1]] /\ Here(c[1])' = Here(c[1])
    BY <1>4, <1>7 DEF Here
  <2> QED BY <1>1, <1>11, <2>1 DEF IInv, ChildrenOwned, SweepIsFinal, Running, late
<1>18. Dispatching' /\ ReportHonest'
  BY <1>1, <1>14 DEF IInv, Dispatching, ReportHonest, Over
<1> QED BY <1>8, <1>9, <1>10, <1>13, <1>14, <1>15, <1>16, <1>17, <1>18 DEF IInv

LEMMA WalkKeeps ==
  ASSUME IInv, ~Over, Walk
  PROVE  IInv'
<1>1. /\ op.pc = "walk" /\ ~OpOver
      /\ UNCHANGED <<mode, doomed, failures, record, processVars, machineVars, budget,
                     report, after>>
  BY DEF Walk, OpOver
<1>2. /\ mode' = mode /\ doomed' = doomed /\ failures' = failures /\ record' = record
      /\ child' = child /\ registry' = registry /\ canceled' = canceled
      /\ dispatch' = dispatch /\ budget' = budget /\ report' = report /\ after' = after
  BY <1>1 DEF processVars, machineVars
<1>3. /\ Collected(IF mode.parallel THEN {} ELSE Before)
      /\ \A a \in Actions \ Before : lane[a].pc = "absent"
      /\ ~mode.parallel => \A a \in Actions : LaneOver(a)
      /\ failures \subseteq Actions /\ doomed \subseteq Actions
      /\ ~mode.machine => doomed = {}
  BY <1>1 DEF IInv, Walking, OneAtATime, TypeOK, Interactive
<1>4. mode.parallel => failures = {}
  BY <1>3 DEF Collected
<1>5. NumActions \in Nat /\ op.at \in 1 .. NumActions + 1
  BY NumTypes, OpIs
<1>6. CASE Triggered \/ op.at > NumActions
  <2> DEFINE n == IF mode.parallel THEN 1 ELSE NumActions + 1
  <2>1. op' = [pc |-> "collect", at |-> n, result |-> op.result] /\ lane' = lane
    BY <1>6, OpIs DEF Walk
  <2>2. n \in 1 .. NumActions + 1
    BY <1>5
  <2>3. op' \in [pc : OpPCs, at : 1 .. NumActions + 1, result : OpResults]
    BY <2>1, <2>2, OpIs DEF OpPCs
  <2>4. Collecting'
    <3>1. CASE mode.parallel
      <4>1. Before' = {}
        BY <2>1, <3>1 DEF Before, Actions
      <4> QED BY <1>2, <1>4, <2>1, <3>1, <4>1 DEF Collecting, Collected
    <3>2. CASE ~mode.parallel
      <4>1. Before' = Actions
        BY <1>5, <2>1, <3>2 DEF Before, Actions
      <4>2. Collected(Before) /\ Before \subseteq Actions
        BY <1>3, <3>2 DEF Before
      <4>3. Collected(Actions)
        BY <1>3, <4>2, AbsentIsCollected DEF Collected
      <4> QED BY <1>2, <2>1, <4>1, <4>3 DEF Collecting, Collected, LaneOver, Fatal
    <3> QED BY <3>1, <3>2
  <2>5. Walking' /\ RunningOne' /\ Ended' /\ OneAtATime'
    BY <1>2, <1>3, <2>1 DEF Walking, RunningOne, Ended, OneAtATime, LaneOver
  <2> QED BY <1>1, <1>2, <1>3, <2>1, <2>3, <2>4, <2>5, OpStepKeeps
<1>7. CASE ~(Triggered \/ op.at > NumActions) /\ op' = [op EXCEPT !.at = @ + 1] /\ lane' = lane
  <2>1. op' = [pc |-> "walk", at |-> op.at + 1, result |-> op.result]
    BY <1>1, <1>7, OpIs
  <2>2. op.at \in Actions /\ op.at + 1 \in 1 .. NumActions + 1
    BY <1>5, <1>7 DEF Actions
  <2>3. op' \in [pc : OpPCs, at : 1 .. NumActions + 1, result : OpResults]
    BY <2>1, <2>2, OpIs DEF OpPCs
  <2>4. Before' = Before \union {op.at} /\ op.at \in Actions \ Before
    BY <2>1, <2>2 DEF Before, Actions
  <2>5. Walking'
    <3>1. \A a \in Actions \ Before' : lane'[a].pc = "absent"
      BY <1>3, <1>7, <2>4
    <3>2. CASE mode.parallel
      BY <1>2, <1>4, <3>1, <3>2 DEF Walking, Collected
    <3>3. CASE ~mode.parallel
      <4>1. Collected(Before)
        BY <1>3, <3>3
      <4>2. Collected(Before)'
        BY <1>2, <1>3, <1>7, <2>4, <4>1, AbsentIsCollected DEF Collected, LaneOver, Fatal
      <4> QED BY <1>2, <3>1, <3>3, <4>2 DEF Walking, Collected
    <3> QED BY <3>2, <3>3
  <2>6. RunningOne' /\ Collecting' /\ Ended' /\ OneAtATime'
    BY <1>2, <1>3, <1>7, <2>1 DEF RunningOne, Collecting, Ended, OneAtATime, LaneOver
  <2> QED BY <1>1, <1>2, <1>3, <1>7, <2>3, <2>5, <2>6, OpStepKeeps
<1>8. CASE /\ ~(Triggered \/ op.at > NumActions)
           /\ lane' = [lane EXCEPT ![op.at] = [pc |-> "top", step |-> 1, result |-> "none"]]
           /\ op' = IF mode.parallel THEN [op EXCEPT !.at = @ + 1] ELSE [op EXCEPT !.pc = "run"]
  BY <1>1, <1>8, LaneStarts
<1> QED BY <1>6, <1>7, <1>8 DEF Walk

LEMMA CollectLaneKeeps ==
  ASSUME IInv, ~Over, CollectLane
  PROVE  IInv'
<1> DEFINE a == op.at
<1>1. /\ \/ op.pc = "run"
         \/ op.pc = "collect" /\ a <= NumActions
      /\ LaneOver(a) /\ ~OpOver
      /\ failures' = IF lane[a].result \in {"failed", "aborted"}
                     THEN failures \union {a} ELSE failures
      /\ UNCHANGED <<mode, lane, record, processVars, machineVars, budget, report, after>>
  BY DEF CollectLane, OpOver
<1>2. mode' = mode /\ lane' = lane /\ record' = record
  BY <1>1
<1>3. /\ a \in Actions /\ a \notin Before /\ Before \subseteq Actions /\ a + 1 \in 1 .. NumActions + 1
      /\ NumActions \in Nat
      /\ {b \in Actions : b < a + 1} = Before \union {a}
  <2>1. op.pc = "run" => a \in Actions
    BY DEF IInv, RunningOne
  <2> QED BY <1>1, <2>1, NumTypes, OpIs DEF Actions, Before
<1>4. /\ Collected(Before)
      /\ op.pc = "run" => ~mode.parallel /\ \A b \in Actions \ Before : b # a => lane[b].pc = "absent"
      /\ ~mode.parallel => \A b \in Actions : LaneOver(b)
  BY <1>1 DEF IInv, RunningOne, Collecting, OneAtATime
<1>5. failures' \subseteq Actions
  BY <1>1, <1>3 DEF IInv, TypeOK
<1>6. CASE Fatal(a)
  <2>1. op' = [pc |-> "ended", at |-> a, result |-> "error"] /\ DropLanes(a + 1)
    BY <1>6, OpIs DEF CollectLane
  <2>2. op' \in [pc : OpPCs, at : 1 .. NumActions + 1, result : OpResults]
    BY <2>1, OpIs DEF OpPCs, OpResults
  <2>3. doomed' \subseteq Actions /\ (~mode.machine => doomed' = {})
    BY <2>1 DEF DropLanes, IInv, TypeOK, Interactive
  <2>4. Ended'
    BY <1>2, <1>3, <1>6, <2>1 DEF Ended, Fatal
  <2>5. Walking' /\ RunningOne' /\ Collecting' /\ OneAtATime'
    BY <1>2, <1>4, <2>1 DEF Walking, RunningOne, Collecting, OneAtATime, LaneOver
  <2> QED BY <1>1, <1>5, <2>2, <2>3, <2>4, <2>5, OpStepKeeps
<1>7. CASE ~Fatal(a)
  <2> DEFINE out == op.pc = "run" /\ lane[a].result = "aborted"
             q == IF op.pc = "run" /\ lane[a].result # "aborted" THEN "walk" ELSE "collect"
             n == IF out THEN NumActions + 1 ELSE a + 1
  <2>1. op' = [pc |-> q, at |-> n, result |-> op.result] /\ doomed' = doomed
    BY <1>7, OpIs DEF CollectLane
  <2>2. q \in {"walk", "collect"} /\ n \in 1 .. NumActions + 1
    BY <1>3
  <2>3. op' \in [pc : OpPCs, at : 1 .. NumActions + 1, result : OpResults]
    BY <2>1, <2>2, OpIs DEF OpPCs
  <2>4. doomed' \subseteq Actions /\ (~mode.machine => doomed' = {})
    BY <2>1 DEF IInv, TypeOK, Interactive
  <2>5. /\ \A b \in Before \union {a} : LaneOver(b) /\ ~Fatal(b)
        /\ failures' = {b \in Before \union {a} : lane[b].result \in {"failed", "aborted"}}
    BY <1>1, <1>3, <1>4, <1>7 DEF Collected
  <2>6. /\ \A b \in Before' : LaneOver(b) /\ ~Fatal(b)
        /\ failures' = {b \in Before' : lane[b].result \in {"failed", "aborted"}}
    <3>1. CASE out
      <4>1. Before' = Actions
        BY <1>3, <2>1, <3>1 DEF Before, Actions
      <4>2. \A b \in Actions : b \notin Before \union {a} =>
              LaneOver(b) /\ ~Fatal(b) /\ lane[b].result \notin {"failed", "aborted"}
        BY <1>4, <3>1, AbsentIsCollected
      <4> QED BY <1>3, <2>5, <4>1, <4>2
    <3>2. CASE ~out
      <4>1. Before' = Before \union {a}
        BY <1>3, <2>1, <3>2 DEF Before
      <4> QED BY <2>5, <4>1
    <3> QED BY <3>1, <3>2
  <2>7. Collected(Before)'
    BY <1>2, <2>6 DEF Collected, LaneOver, Fatal
  <2>8. Collecting' /\ RunningOne' /\ Ended'
    BY <2>1, <2>2, <2>7 DEF Collecting, RunningOne, Ended
  <2>9. Walking'
    <3> SUFFICES ASSUME q = "walk" PROVE Walking'
      BY <2>1 DEF Walking
    <3>1. op.pc = "run" /\ ~mode.parallel /\ ~out
      BY <1>4
    <3>2. Before' = Before \union {a}
      BY <1>3, <2>1, <3>1 DEF Before
    <3>3. \A b \in Actions \ Before' : lane'[b].pc = "absent"
      BY <1>2, <1>4, <3>1, <3>2
    <3> QED BY <1>2, <2>7, <3>1, <3>3 DEF Walking, Collected
  <2>10. OneAtATime'
    BY <1>2, <1>4 DEF OneAtATime, LaneOver
  <2> QED BY <1>1, <1>5, <2>3, <2>4, <2>8, <2>9, <2>10, OpStepKeeps
<1> QED BY <1>6, <1>7

LEMMA OpEndsKeeps ==
  ASSUME IInv, ~Over, OpEnds
  PROVE  IInv'
<1> DEFINE r == CASE record # <<>> -> "aborted"
                  [] record = <<>> /\ failures # {} -> "failed"
                  [] OTHER -> "ok"
<1>1. /\ op.pc = "collect" /\ ~(op.at <= NumActions) /\ ~OpOver
      /\ doomed' = doomed /\ failures' = failures
      /\ UNCHANGED <<mode, lane, record, processVars, machineVars, budget, report, after>>
  BY NumTypes, OpIs DEF OpEnds, OpOver
<1>2. op' = [pc |-> "ended", at |-> op.at, result |-> r]
  BY OpIs DEF OpEnds
<1>3. /\ r \in {"aborted", "failed", "ok"}
      /\ r \in {"ok", "failed"} <=> record = <<>>
      /\ r = "ok" => failures = {}
  OBVIOUS
<1> HIDE DEF r
<1>4. mode' = mode /\ lane' = lane /\ record' = record
  BY <1>1
<1>5. Before = Actions
  BY <1>1, NumTypes, OpIs DEF Before, Actions
<1>6. Ended'
  <2>1. Collected(Actions)
    BY <1>1, <1>5 DEF IInv, Collecting
  <2>2. Collected(Actions)'
    BY <1>1, <1>4, <2>1 DEF Collected, LaneOver, Fatal
  <2> QED BY <1>1, <1>2, <1>3, <1>4, <2>2 DEF Ended
<1>7. Walking' /\ RunningOne' /\ Collecting' /\ OneAtATime'
  BY <1>1, <1>2, <1>4 DEF IInv, Walking, RunningOne, Collecting, OneAtATime, LaneOver
<1>8. /\ op' \in [pc : OpPCs, at : 1 .. NumActions + 1, result : OpResults]
      /\ failures' \subseteq Actions /\ doomed' \subseteq Actions
      /\ ~mode.machine => doomed' = {}
  BY <1>1, <1>2, <1>3, OpIs DEF IInv, TypeOK, Interactive, OpPCs, OpResults
<1> QED BY <1>1, <1>6, <1>7, <1>8, OpStepKeeps

LEMMA OpAbortedKeeps ==
  ASSUME IInv, ~Over, OpAborted
  PROVE  IInv'
<1>1. /\ dispatch.aborting /\ canceled /\ mode.machine /\ ~OpOver
      /\ op' = [pc |-> "gone", at |-> op.at, result |-> op.result]
      /\ DropLanes(1)
      /\ UNCHANGED <<mode, failures, record, machineVars, budget, report, after>>
  BY OpIs DEF OpAborted, OpOver, IInv, Interactive, Dispatching
<1>2. /\ op' \in [pc : OpPCs, at : 1 .. NumActions + 1, result : OpResults]
      /\ doomed' \subseteq Actions
  BY <1>1, OpIs DEF OpPCs, DropLanes, IInv, TypeOK
<1>3. Walking' /\ RunningOne' /\ Collecting' /\ Ended'
  BY <1>1 DEF Walking, RunningOne, Collecting, Ended
<1>4. CASE op.pc # "run"
  <2>1. UNCHANGED <<lane, processVars>>
    BY <1>4 DEF OpAborted
  <2>2. OneAtATime'
    BY <1>1, <1>4, <2>1 DEF IInv, OneAtATime, LaneOver
  <2>3. failures' \subseteq Actions
    BY <1>1 DEF IInv, TypeOK
  <2> QED BY <1>1, <1>2, <1>3, <2>1, <2>2, <2>3, OpStepKeeps
<1>5. CASE op.pc = "run"
  <2> DEFINE a == op.at
             s == Dropped(Here(a))
  <2>1. /\ a \in Actions /\ lane[a].pc = "waiting" /\ ~LaneOver(a) /\ End(a, "gone")
        /\ ~mode.parallel
        /\ child' = [child EXCEPT ![Here(a)] = s]
        /\ registry' = registry \ {Here(a)}
    BY <1>5 DEF OpAborted, IInv, RunningOne, LaneOver, Without
  <2>2. LaneMove(a) /\ lane'[a] = [pc |-> "ended", step |-> lane[a].step, result |-> "gone"]
    BY <1>1, <2>1, EndMovesLane DEF LaneResults
  <2>3. Here(a) \in Steps
    BY <2>1, LaneIs DEF Busy
  <2>4. /\ child[Here(a)] \in ChildStates
        /\ s \in ChildStates /\ s \notin {"loose", "owned"}
        /\ s = "stray" => child[Here(a)] = "stray"
    BY <1>1, <2>3 DEF Dropped, ChildStates, IInv, TypeOK
  <2> HIDE DEF s
  <2>5. /\ child' \in [Steps -> ChildStates] /\ child'[Here(a)] = s
        /\ \A c \in Steps : c # Here(a) => child'[c] = child[c]
        /\ registry' \subseteq Steps /\ Here(a) \notin registry'
        /\ \A c \in Steps : c # Here(a) => (c \in registry' <=> c \in registry)
        /\ late => late'
    BY <1>1, <2>1, <2>3, <2>4 DEF IInv, TypeOK, late
  <2>6. /\ ChildrenOwned' /\ SweepIsFinal'
        /\ \A c \in registry' : lane'[c[1]].pc = "waiting" /\ Here(c[1])' = c
    BY <2>1, <2>2, <2>3, <2>4, <2>5, ProcessesKept
  <2>7. /\ mode' = mode /\ failures' = failures /\ record' = record /\ canceled' = canceled
        /\ dispatch' = dispatch /\ budget' = budget /\ report' = report /\ after' = after
    BY <1>1 DEF machineVars
  <2>8. /\ \A b \in Actions \ {a} : lane'[b] = lane[b]
        /\ lane'[a].pc = "ended" /\ lane'[a].result = "gone" /\ lane'[a].step = lane[a].step
        /\ lane' \in [Actions -> [pc : LanePCs, step : Nat, result : LaneResults]]
    BY <2>2 DEF LaneMove, Lanes
  <2>9. TypeOK'
    <3>1. ASSUME NEW b \in Actions
          PROVE  /\ lane'[b].step \in 1 .. NumSteps[b] + 1
                 /\ lane'[b].pc \in Busy => Here(b)' \in Steps
      <4>1. CASE b = a
        BY <2>8, <4>1, LaneIs DEF Busy
      <4>2. CASE b # a
        BY <2>8, <4>2, LaneIs DEF Here
      <4> QED BY <4>1, <4>2
    <3>2. /\ mode' \in Modes /\ failures' \subseteq Actions
          /\ record' = <<>> \/ \E b \in Actions : record' = <<b>>
          /\ canceled' \in BOOLEAN /\ budget' \in {"left", "spent", "noted"}
          /\ dispatch' \in [pc : DispatchPCs, confirmed : BOOLEAN, aborting : BOOLEAN,
                            swept : BOOLEAN]
          /\ report' \in [outcome : Outcomes, cleanup : Cleanups] /\ after' \subseteq Steps
      BY <2>7 DEF IInv, TypeOK
    <3> QED BY <1>2, <2>5, <2>6, <2>8, <3>1, <3>2 DEF TypeOK, Busy
  <2>10. /\ lane[a].result = "none"
         /\ \A b \in Actions : lane[b].result # "none" => lane'[b] = lane[b]
    BY <2>1, <2>8, LaneIs
  <2>11. \A b \in Actions : LaneResult(b)'
    BY <2>7, <2>8 DEF IInv, LaneResult, Triggered
  <2>12. Interactive'
    BY <1>1, <2>7 DEF Interactive
  <2>13. OneAtATime'
    BY <2>1, <2>8 DEF IInv, OneAtATime, LaneOver
  <2>14. Recorded'
    <3>1. \A b \in Actions : record' = <<b>> => lane'[b].result = "aborted"
      BY <2>7, <2>10 DEF IInv, Recorded
    <3>2. \A c \in after' : lane'[c[1]].pc \notin {"absent", "starting", "cleared"}
      <4> SUFFICES ASSUME NEW c \in after
                   PROVE  lane'[c[1]].pc \notin {"absent", "starting", "cleared"}
        BY <2>7
      <4>1. c[1] \in Actions /\ lane[c[1]].pc \notin {"absent", "starting", "cleared"}
        BY StepsMember DEF IInv, TypeOK, Recorded
      <4> QED BY <2>8, <4>1
    <3>3. ~mode.parallel => \A b \in Actions : LaneOver(b)'
      BY <1>5, <2>1, <2>8 DEF IInv, OneAtATime, LaneOver
    <3> QED BY <2>7, <3>1, <3>2, <3>3 DEF IInv, Recorded
  <2>15. AbortStopsScheduling'
    BY <2>7 DEF IInv, AbortStopsScheduling
  <2>16. Dispatching' /\ ReportHonest'
    BY <1>1, <2>7 DEF IInv, Dispatching, ReportHonest, Over, OpOver
  <2> QED BY <1>3, <2>6, <2>9, <2>11, <2>12, <2>13, <2>14, <2>15, <2>16 DEF IInv
<1> QED BY <1>4, <1>5

LEMMA OpStepsKeep ==
  ASSUME IInv, ~Over, OpStep
  PROVE  IInv'
BY WalkKeeps, CollectLaneKeeps, OpEndsKeeps, OpAbortedKeeps DEF OpStep

-----------------------------------------------------------------------------
(* The dispatcher, the children and time.                                  *)

Dispatches == [pc : DispatchPCs, confirmed : BOOLEAN, aborting : BOOLEAN, swept : BOOLEAN]

\* A step of no task: children may have ended, a cancellation may be new.
LEMMA OutsideKeeps ==
  ASSUME IInv, UNCHANGED <<mode, taskVars, record, registry, after>>,
         child' \in [Steps -> ChildStates],
         \A c \in Steps : child'[c] = child[c] \/ child'[c] \in {"ok", "bad"},
         canceled' \in BOOLEAN, canceled => canceled',
         budget' \in {"left", "spent", "noted"}, late => late',
         dispatch' \in Dispatches, report' \in [outcome : Outcomes, cleanup : Cleanups],
         dispatch'.swept => dispatch.swept \/ \A c \in Steps : child'[c] # "owned",
         ~mode.machine => ~canceled' /\ ~dispatch'.aborting /\ dispatch'.pc = dispatch.pc,
         Dispatching', ReportHonest'
  PROVE  IInv'
<1>1. /\ mode' = mode /\ lane' = lane /\ record' = record /\ op' = op /\ doomed' = doomed
      /\ failures' = failures /\ registry' = registry /\ after' = after
  BY DEF taskVars
<1>2. TypeOK'
  BY <1>1 DEF IInv, TypeOK, Here, Dispatches
<1>3. \A a \in Actions : LaneResult(a)'
  BY <1>1 DEF IInv, LaneResult, Triggered
<1>4. Interactive'
  BY <1>1 DEF IInv, Interactive, Over
<1>5. /\ Walking' /\ RunningOne' /\ Collecting' /\ Ended' /\ OneAtATime'
  BY <1>1 DEF IInv, Walking, RunningOne, Collecting, Ended, OneAtATime, Before, Collected,
              LaneOver, Fatal
<1>6. Recorded' /\ AbortStopsScheduling'
  BY <1>1 DEF IInv, Recorded, AbortStopsScheduling, LaneOver
<1>7. ChildrenOwned'
  <2> SUFFICES ASSUME NEW c \in Steps
               PROVE  /\ child'[c] = "stray" =>
                           ~mode'.machine /\ (late' \/ \E a \in Actions : lane'[a].result = "error")
                      /\ Running(c)' => Here(c[1])' = c /\ lane'[c[1]].pc \in {"spawned", "waiting"}
                      /\ child'[c] = "owned" => c \in registry'
    BY DEF ChildrenOwned
  <2>1. CASE child'[c] = child[c]
    BY <1>1, <2>1 DEF IInv, ChildrenOwned, Running, Here
  <2>2. CASE child'[c] \in {"ok", "bad"}
    BY <2>2 DEF Running
  <2> QED BY <2>1, <2>2
<1>8. SweepIsFinal'
  BY DEF IInv, SweepIsFinal
<1> QED BY <1>2, <1>3, <1>4, <1>5, <1>6, <1>7, <1>8 DEF IInv

LEMMA DispatchIs ==
  ASSUME IInv
  PROVE  /\ dispatch = [pc |-> dispatch.pc, confirmed |-> dispatch.confirmed,
                        aborting |-> dispatch.aborting, swept |-> dispatch.swept]
         /\ dispatch.pc \in DispatchPCs /\ dispatch.confirmed \in BOOLEAN
         /\ dispatch.aborting \in BOOLEAN /\ dispatch.swept \in BOOLEAN
BY DEF IInv, TypeOK

\* A step of the dispatcher before the report that starts and ends no process.
LEMMA WaitKeeps ==
  ASSUME IInv, ~Over,
         UNCHANGED <<mode, taskVars, record, processVars, budget, report, after>>,
         canceled' \in BOOLEAN, canceled => canceled', mode.machine,
         dispatch' \in Dispatches, dispatch'.swept = dispatch.swept, dispatch'.pc # "over",
         Dispatching'
  PROVE  IInv'
<1>1. /\ registry' = registry /\ child' = child /\ report' = report /\ budget' = budget
      /\ child' \in [Steps -> ChildStates]
      /\ report' \in [outcome : Outcomes, cleanup : Cleanups]
      /\ budget' \in {"left", "spent", "noted"} /\ (late => late')
  BY DEF processVars, IInv, TypeOK, late
<1>2. ReportHonest'
  BY <1>1 DEF IInv, ReportHonest, Dispatching
<1>3. UNCHANGED <<mode, taskVars, record, registry, after>>
  BY <1>1
<1> QED BY <1>1, <1>2, <1>3, OutsideKeeps

\* Only machine mode has a dispatcher that leaves its watch.
LEMMA AtWork ==
  ASSUME IInv, dispatch.pc \in {"sweep", "drain", "lanes", "resweep", "settle"}
  PROVE  mode.machine /\ ~Over
BY DEF IInv, Interactive, Over

LEMMA CancelKeeps ==
  ASSUME IInv, Cancel
  PROVE  IInv'
<1>1. /\ mode.machine /\ ~Over /\ canceled' = TRUE
      /\ UNCHANGED <<mode, taskVars, record, processVars, budget, report, after>>
  BY DEF Cancel, Over
<1>2. dispatch' = [pc |-> "sweep", confirmed |-> dispatch.confirmed,
                   aborting |-> dispatch.aborting, swept |-> dispatch.swept]
  BY DispatchIs DEF Cancel
<1>3. dispatch' \in Dispatches
  BY <1>2, DispatchIs DEF Dispatches, DispatchPCs
<1>4. Dispatching'
  BY <1>1, <1>2 DEF IInv, Dispatching, Over
<1> QED BY <1>1, <1>2, <1>3, <1>4, WaitKeeps

LEMMA DrainKeeps ==
  ASSUME IInv, Drain
  PROVE  IInv'
<1>1. /\ dispatch.pc = "drain" /\ mode.machine /\ ~Over /\ canceled
      /\ UNCHANGED <<mode, taskVars, record, processVars, canceled, budget, report, after>>
  BY AtWork DEF Drain, IInv, Dispatching
<1>2. \/ /\ OpOver
         /\ dispatch' = [pc |-> "lanes", confirmed |-> dispatch.confirmed,
                         aborting |-> dispatch.aborting, swept |-> dispatch.swept]
      \/ dispatch' = [pc |-> "drain", confirmed |-> dispatch.confirmed,
                      aborting |-> TRUE, swept |-> dispatch.swept]
      \/ dispatch' = [pc |-> "lanes", confirmed |-> FALSE,
                      aborting |-> dispatch.aborting, swept |-> dispatch.swept]
  BY DispatchIs DEF Drain
<1>3. dispatch' \in Dispatches
  <2>1. /\ dispatch.confirmed \in BOOLEAN /\ FALSE \in BOOLEAN /\ dispatch.swept \in BOOLEAN
        /\ dispatch.aborting \in BOOLEAN /\ TRUE \in BOOLEAN
        /\ "lanes" \in DispatchPCs /\ "drain" \in DispatchPCs
    BY DispatchIs DEF DispatchPCs
  <2>2. \A q \in DispatchPCs, x, y, z \in BOOLEAN :
          [pc |-> q, confirmed |-> x, aborting |-> y, swept |-> z] \in Dispatches
    BY DEF Dispatches
  <2> QED BY ONLY <1>2, <2>1, <2>2
<1>4. op' = op /\ canceled' = canceled /\ report' = report /\ mode' = mode
  BY <1>1 DEF taskVars
<1>5. Dispatching'
  BY <1>1, <1>2, <1>4 DEF IInv, Dispatching, Over, OpOver
<1>6. dispatch'.swept = dispatch.swept /\ dispatch'.pc # "over"
  BY <1>2
<1>7. canceled' \in BOOLEAN /\ (canceled => canceled')
  BY <1>4 DEF IInv, TypeOK
<1> QED BY <1>1, <1>3, <1>5, <1>6, <1>7, WaitKeeps

LEMMA SettleLanesKeeps ==
  ASSUME IInv, SettleLanes
  PROVE  IInv'
<1>1. /\ dispatch.pc = "lanes" /\ mode.machine /\ ~Over /\ canceled
      /\ UNCHANGED <<mode, taskVars, record, processVars, canceled, budget, report, after>>
  BY AtWork DEF SettleLanes, IInv, Dispatching
<1>2. PICK settled \in BOOLEAN :
        dispatch' = [dispatch EXCEPT !.pc = "resweep", !.confirmed = @ /\ settled]
  BY DEF SettleLanes
<1>3. /\ dispatch'.pc = "resweep" /\ dispatch'.swept = dispatch.swept
      /\ dispatch'.aborting = dispatch.aborting
      /\ dispatch'.confirmed => dispatch.confirmed
      /\ dispatch' \in Dispatches
  <2>1. dispatch' = [pc |-> "resweep", confirmed |-> dispatch.confirmed /\ settled,
                     aborting |-> dispatch.aborting, swept |-> dispatch.swept]
    BY <1>2, DispatchIs
  <2> QED BY <2>1, DispatchIs DEF Dispatches, DispatchPCs
<1>4. op' = op /\ canceled' = canceled /\ report' = report /\ mode' = mode
  BY <1>1 DEF taskVars
<1>5. Dispatching'
  BY <1>1, <1>3, <1>4 DEF IInv, Dispatching, Over, OpOver
<1>6. canceled' \in BOOLEAN /\ (canceled => canceled')
  BY <1>4 DEF IInv, TypeOK
<1> QED BY <1>1, <1>3, <1>5, <1>6, WaitKeeps

LEMMA OpObservedKeeps ==
  ASSUME IInv, OpObserved
  PROVE  IInv'
<1>1. /\ dispatch.pc = "watch" /\ mode.machine /\ ~Over /\ op.pc = "ended"
      /\ UNCHANGED <<mode, taskVars, record, processVars, canceled, budget, report, after>>
  BY DEF OpObserved, Over
<1>2. dispatch' = [pc |-> "settle", confirmed |-> dispatch.confirmed,
                   aborting |-> dispatch.aborting, swept |-> dispatch.swept]
  BY DispatchIs DEF OpObserved
<1>3. /\ dispatch' \in Dispatches /\ dispatch'.swept = dispatch.swept /\ dispatch'.pc # "over"
  BY <1>2, DispatchIs DEF Dispatches, DispatchPCs
<1>4. op' = op /\ canceled' = canceled /\ report' = report /\ mode' = mode
  BY <1>1 DEF taskVars
<1>5. Dispatching'
  BY <1>1, <1>2, <1>4 DEF IInv, Dispatching, Over, OpOver
<1>6. canceled' \in BOOLEAN /\ (canceled => canceled')
  BY <1>4 DEF IInv, TypeOK
<1> QED BY <1>1, <1>3, <1>5, <1>6, WaitKeeps

\* As far as a sweep came: registered children ended, if all of them then no
\* registered child is left.
LEMMA SweepEnds ==
  ASSUME IInv, NEW ended \in SUBSET registry, Sweep(ended)
  PROVE  /\ child' \in [Steps -> ChildStates]
         /\ \A c \in Steps : child'[c] = child[c] \/ child'[c] \in {"ok", "bad"}
         /\ ended = registry => \A c \in Steps : child'[c] # "owned"
<1>1. child \in [Steps -> ChildStates] /\ \A c \in Steps : child[c] = "owned" => c \in registry
  BY DEF IInv, TypeOK, ChildrenOwned
<1>2. \A c \in Steps : child'[c] = IF child[c] = "owned" /\ c \in ended THEN "bad" ELSE child[c]
  BY DEF Sweep
<1>3. child' \in [Steps -> ChildStates]
  BY <1>1 DEF Sweep, ChildStates
<1> QED BY <1>1, <1>2, <1>3

LEMMA SweepStepKeeps ==
  ASSUME IInv, SweepStep
  PROVE  IInv'
<1>1. /\ dispatch.pc \in {"sweep", "resweep"} /\ mode.machine /\ ~Over /\ canceled
      /\ UNCHANGED <<mode, taskVars, record, registry, canceled, budget, report, after>>
  BY AtWork DEF SweepStep, IInv, Dispatching
<1>2. PICK ended \in SUBSET registry :
        /\ Sweep(ended)
        /\ dispatch' = [dispatch EXCEPT
             !.pc = IF @ = "sweep" THEN "drain" ELSE "settle",
             !.confirmed = @ /\ (ended = registry),
             !.swept = @ \/ (dispatch.pc = "sweep" /\ (ended = registry))]
  BY DEF SweepStep
<1>3. /\ dispatch'.pc = IF dispatch.pc = "sweep" THEN "drain" ELSE "settle"
      /\ dispatch'.confirmed => dispatch.confirmed
      /\ dispatch'.swept => dispatch.swept \/ ended = registry
      /\ dispatch'.aborting = dispatch.aborting
      /\ dispatch' \in Dispatches
  <2>1. dispatch' = [pc |-> IF dispatch.pc = "sweep" THEN "drain" ELSE "settle",
                     confirmed |-> dispatch.confirmed /\ ended = registry,
                     aborting |-> dispatch.aborting,
                     swept |-> dispatch.swept \/ (dispatch.pc = "sweep" /\ ended = registry)]
    BY <1>2, DispatchIs
  <2> QED BY <2>1, DispatchIs DEF Dispatches, DispatchPCs
<1>4. /\ child' \in [Steps -> ChildStates]
      /\ \A c \in Steps : child'[c] = child[c] \/ child'[c] \in {"ok", "bad"}
      /\ ended = registry => \A c \in Steps : child'[c] # "owned"
  BY <1>2, SweepEnds
<1>5. op' = op /\ canceled' = canceled /\ report' = report /\ mode' = mode /\ budget' = budget
  BY <1>1 DEF taskVars
<1>6. Dispatching'
  BY <1>1, <1>3, <1>5 DEF IInv, Dispatching, Over, OpOver
<1>7. ReportHonest'
  BY <1>1, <1>5 DEF IInv, ReportHonest, Dispatching
<1>8. /\ canceled' \in BOOLEAN /\ (canceled => canceled')
      /\ budget' \in {"left", "spent", "noted"} /\ (late => late')
      /\ report' \in [outcome : Outcomes, cleanup : Cleanups]
  BY <1>5 DEF IInv, TypeOK, late
<1>9. dispatch'.swept => dispatch.swept \/ \A c \in Steps : child'[c] # "owned"
  BY <1>3, <1>4
<1>10. UNCHANGED <<mode, taskVars, record, registry, after>>
  BY <1>1
<1> QED BY <1>1, <1>3, <1>4, <1>6, <1>7, <1>8, <1>9, <1>10, OutsideKeeps

\* An operation that ended well, and was not canceled, completed what it started.
LEMMA OkIsCompleted ==
  ASSUME IInv, op.pc = "ended", op.result = "ok", ~canceled
  PROVE  \A a \in Actions : lane[a].pc # "absent" => lane[a].result = "completed"
<1>1. /\ record = <<>> /\ failures = {} /\ Collected(Actions) /\ ~Triggered
  BY DEF IInv, Ended, Triggered
<1> SUFFICES ASSUME NEW a \in Actions, lane[a].pc # "absent"
             PROVE  lane[a].result = "completed"
  OBVIOUS
<1>2. /\ lane[a].result \in LaneResults /\ lane[a].result # "none"
      /\ lane[a].result \notin {"stopped", "error", "gone", "failed", "aborted"}
  BY <1>1, LaneIs DEF Lanes, Collected, LaneOver, Fatal, IInv, LaneResult
<1> QED BY <1>2 DEF LaneResults

LEMMA ReportKeeps ==
  ASSUME IInv, Report
  PROVE  IInv'
<1>1. /\ dispatch.pc = "settle" /\ mode.machine /\ ~Over
      /\ dispatch' = [pc |-> "over", confirmed |-> dispatch.confirmed,
                      aborting |-> dispatch.aborting, swept |-> dispatch.swept]
      /\ UNCHANGED <<mode, taskVars, record, registry, budget, after>>
  BY AtWork, DispatchIs DEF Report, processVars
<1>2. dispatch' \in Dispatches
  BY <1>1, DispatchIs DEF Dispatches, DispatchPCs
<1>3. op' = op /\ mode' = mode /\ budget' = budget /\ lane' = lane
  BY <1>1 DEF taskVars
<1>4. budget' \in {"left", "spent", "noted"} /\ (late => late')
  BY <1>3 DEF IInv, TypeOK, late
<1>5. CASE /\ ActiveLanes = {}
           /\ report' = [outcome |-> Outcome,
                         cleanup |-> CASE ~canceled -> "none"
                                       [] canceled /\ dispatch.confirmed -> "completed"
                                       [] OTHER -> "unconfirmed"]
           /\ UNCHANGED <<canceled, processVars>>
  <2>1. canceled' = canceled /\ child' = child
    BY <1>5 DEF processVars
  <2>2. /\ report'.outcome \in Outcomes /\ report'.cleanup \in Cleanups
        /\ report' \in [outcome : Outcomes, cleanup : Cleanups]
        /\ report'.outcome \in {"succeeded", "failed"} => ~canceled
        /\ report'.outcome = "succeeded" => op.result = "ok"
        /\ report'.cleanup = "completed" => canceled /\ dispatch.confirmed
    BY <1>5 DEF Outcome, Outcomes, Cleanups
  <2>3. report'.cleanup = "completed" \/ report'.outcome \in {"succeeded", "failed"} => OpOver
    BY <1>1, <2>2 DEF IInv, Dispatching, OpOver
  <2>4. OpOver => \A a \in Actions : LaneOver(a)
    BY <1>5 DEF IInv, OneAtATime, OpOver, ActiveLanes
  <2>5. (\A a \in Actions : LaneOver(a)) => \A c \in Steps : ~Running(c)
    BY StepsMember DEF IInv, ChildrenOwned, LaneOver
  <2>6. report'.outcome = "succeeded" =>
          \A a \in Actions : lane[a].pc # "absent" => lane[a].result = "completed"
    BY <1>1, <2>2, OkIsCompleted DEF IInv, Dispatching
  <2>7. ReportHonest'
    BY <1>3, <2>1, <2>3, <2>4, <2>5, <2>6 DEF ReportHonest, OpOver, LaneOver, Running
  <2>8. Dispatching'
    BY <1>1, <1>3, <2>1 DEF IInv, Dispatching, Over
  <2>9. canceled' \in BOOLEAN /\ child' \in [Steps -> ChildStates]
    BY <2>1 DEF IInv, TypeOK
  <2> QED BY <1>1, <1>2, <1>4, <2>1, <2>2, <2>7, <2>8, <2>9, OutsideKeeps
<1>6. CASE /\ canceled' = TRUE
           /\ \E ended \in SUBSET registry : Sweep(ended)
           /\ report' = [outcome |-> "incomplete", cleanup |-> "unconfirmed"]
  <2>1. /\ child' \in [Steps -> ChildStates]
        /\ \A c \in Steps : child'[c] = child[c] \/ child'[c] \in {"ok", "bad"}
    BY <1>6, SweepEnds
  <2>2. /\ report' \in [outcome : Outcomes, cleanup : Cleanups]
        /\ report'.outcome = "incomplete" /\ report'.cleanup = "unconfirmed"
    BY <1>6 DEF Outcomes, Cleanups
  <2>3. ReportHonest'
    BY <2>2 DEF ReportHonest
  <2>4. Dispatching'
    BY <1>1, <1>3, <1>6 DEF IInv, Dispatching, Over
  <2> QED BY <1>1, <1>2, <1>4, <1>6, <2>1, <2>2, <2>3, <2>4, OutsideKeeps
<1> QED BY <1>5, <1>6 DEF Report

LEMMA ExitKeeps ==
  ASSUME IInv, Exit
  PROVE  IInv'
<1>1. /\ ~mode.machine /\ ~Over /\ op.pc = "ended" /\ registry' = {} /\ ~canceled
      /\ dispatch' = [pc |-> "over", confirmed |-> dispatch.confirmed,
                      aborting |-> dispatch.aborting, swept |-> dispatch.swept]
      /\ report' = [outcome |-> IF op.result = "ok" THEN "succeeded" ELSE "failed",
                    cleanup |-> "none"]
      /\ mode' = mode /\ op' = op /\ doomed' = doomed /\ failures' = failures
      /\ record' = record /\ canceled' = canceled /\ budget' = budget /\ after' = after
  BY DispatchIs DEF Exit, Over, IInv, Interactive
<1>2. ASSUME NEW a \in Actions
      PROVE  /\ lane'[a] \in Lanes /\ lane'[a].step = lane[a].step
             /\ LaneOver(a) => lane'[a] = lane[a]
             /\ ~LaneOver(a) => lane'[a].pc = "ended" /\ lane'[a].result = "gone"
             /\ LaneOver(a)'
  <2>1. lane'[a] = IF LaneOver(a) THEN lane[a]
                   ELSE [lane[a] EXCEPT !.pc = "ended", !.result = "gone"]
    BY DEF Exit
  <2>2. lane[a] \in Lanes
    BY LaneIs
  <2>3. CASE LaneOver(a)
    BY <2>1, <2>2, <2>3 DEF LaneOver
  <2>4. CASE ~LaneOver(a)
    <3>1. lane'[a] = [pc |-> "ended", step |-> lane[a].step, result |-> "gone"]
      BY <2>1, <2>2, <2>4 DEF Lanes
    <3> QED BY <2>2, <2>4, <3>1 DEF Lanes, LanePCs, LaneResults, LaneOver
  <2> QED BY <2>3, <2>4
<1>3. lane' \in [Actions -> Lanes]
  <2>1. lane' = [a \in Actions |-> lane'[a]]
    BY DEF Exit
  <2> QED BY <1>2, <2>1
<1>4. \A a \in Actions : lane[a].result # "none" => lane'[a] = lane[a]
  BY <1>2, LaneIs DEF LaneOver
<1>5. \A c \in Steps :
        /\ child'[c] \in ChildStates /\ child'[c] \notin {"loose", "owned"}
        /\ child'[c] = "stray" => child[c] = "stray" \/ Running(c)
  BY DEF Exit, Dropped, Running, ChildStates, IInv, TypeOK
<1>6. child' \in [Steps -> ChildStates]
  <2>1. child' = [c \in Steps |-> Dropped(c)]
    BY DEF Exit
  <2>2. \A c \in Steps : Dropped(c) \in ChildStates
    BY <1>5, <2>1
  <2> QED BY <2>1, <2>2
<1>7. TypeOK'
  <2>1. \A a \in Actions :
          /\ lane'[a].step \in 1 .. NumSteps[a] + 1
          /\ lane'[a].pc \notin Busy
    BY <1>2, LaneIs DEF LaneOver, Busy
  <2>2. dispatch' \in Dispatches /\ report' \in [outcome : Outcomes, cleanup : Cleanups]
    BY <1>1, DispatchIs DEF Dispatches, DispatchPCs, Outcomes, Cleanups
  <2>3. /\ mode' \in Modes /\ op' \in [pc : OpPCs, at : 1 .. NumActions + 1, result : OpResults]
        /\ doomed' \subseteq Actions /\ failures' \subseteq Actions
        /\ record' = <<>> \/ \E a \in Actions : record' = <<a>>
        /\ canceled' \in BOOLEAN /\ budget' \in {"left", "spent", "noted"}
        /\ after' \subseteq Steps
    BY <1>1 DEF IInv, TypeOK
  <2>4. lane' \in [Actions -> [pc : LanePCs, step : Nat, result : LaneResults]]
    BY <1>3 DEF Lanes
  <2> QED BY <1>1, <1>6, <2>1, <2>2, <2>3, <2>4 DEF TypeOK, Busy, Dispatches
<1>8. \A a \in Actions : LaneResult(a)'
  BY <1>1, <1>2 DEF IInv, LaneResult, Triggered
<1>9. Interactive'
  BY <1>1 DEF IInv, Interactive, Over
<1>10. Walking' /\ RunningOne' /\ Collecting'
  BY <1>1 DEF Walking, RunningOne, Collecting
<1>11. Ended'
  <2>1. CASE op.result = "error"
    <3>1. \E a \in Actions : Fatal(a)'
      BY <1>1, <1>4, <2>1 DEF IInv, Ended, Fatal
    <3> QED BY <1>1, <2>1, <3>1 DEF Ended
  <2>2. CASE op.result # "error"
    <3>1. Collected(Actions)
      BY <1>1, <2>2 DEF IInv, Ended
    <3>2. \A a \in Actions : lane'[a] = lane[a]
      BY <1>2, <3>1 DEF Collected
    <3>3. Collected(Actions)'
      BY <1>1, <3>1, <3>2 DEF Collected, LaneOver, Fatal
    <3> QED BY <1>1, <2>2, <3>3 DEF IInv, Ended
  <2> QED BY <2>1, <2>2
<1>12. OneAtATime'
  BY <1>2 DEF OneAtATime
<1>13. Recorded'
  <2>1. \A a \in Actions : record' = <<a>> => lane'[a].result = "aborted"
    BY <1>1, <1>4 DEF IInv, Recorded
  <2>2. \A c \in after' : lane'[c[1]].pc \notin {"absent", "starting", "cleared"}
    <3> SUFFICES ASSUME NEW c \in after
                 PROVE  lane'[c[1]].pc \notin {"absent", "starting", "cleared"}
      BY <1>1
    <3>1. c[1] \in Actions /\ lane[c[1]].pc # "absent"
      BY StepsMember DEF IInv, TypeOK, Recorded
    <3> QED BY <1>2, <3>1 DEF LaneOver
  <2> QED BY <1>1, <1>2, <2>1, <2>2 DEF IInv, Recorded
<1>14. AbortStopsScheduling'
  BY <1>1 DEF IInv, AbortStopsScheduling
<1>15. ChildrenOwned'
  <2>1. ASSUME NEW c \in Steps, child'[c] = "stray"
        PROVE  late' \/ \E a \in Actions : lane'[a].result = "error"
    <3>1. CASE child[c] = "stray"
      <4>1. late \/ \E a \in Actions : lane[a].result = "error"
        BY <3>1 DEF IInv, ChildrenOwned
      <4> QED BY <1>1, <1>4, <4>1 DEF late
    <3>2. CASE Running(c)
      <4>1. c[1] \in Actions /\ ~LaneOver(c[1])
        BY <3>2, StepsMember DEF IInv, ChildrenOwned, LaneOver
      <4>2. \E a \in Actions : Fatal(a)
        BY <1>1, <4>1 DEF IInv, Ended, Collected
      <4>3. \E a \in Actions : lane[a].result = "error"
        BY <1>1, <4>2 DEF IInv, Interactive, Fatal
      <4> QED BY <1>4, <4>3
    <3> QED BY <1>5, <2>1, <3>1, <3>2
  <2> QED BY <1>1, <1>5, <2>1 DEF ChildrenOwned, Running
<1>16. SweepIsFinal'
  BY <1>5 DEF SweepIsFinal
<1>17. Dispatching'
  BY <1>1 DEF IInv, Dispatching, Over
<1>18. ReportHonest'
  <2>1. report'.outcome = "succeeded" =>
          \A a \in Actions : lane'[a].pc # "absent" => lane'[a].result = "completed"
    <3> SUFFICES ASSUME report'.outcome = "succeeded", NEW a \in Actions, lane'[a].pc # "absent"
                 PROVE  lane'[a].result = "completed"
      OBVIOUS
    <3>1. op.result = "ok"
      BY <1>1
    <3>2. lane'[a] = lane[a]
      BY <1>1, <1>2, <3>1 DEF IInv, Ended, Collected
    <3> QED BY <1>1, <3>1, <3>2, OkIsCompleted
  <2> QED BY <1>1, <2>1 DEF ReportHonest
<1> QED BY <1>7, <1>8, <1>9, <1>10, <1>11, <1>12, <1>13, <1>14, <1>15, <1>16, <1>17, <1>18
        DEF IInv

LEMMA ChildEndsKeeps ==
  ASSUME IInv, NEW c \in Steps, ChildEnds(c)
  PROVE  IInv'
<1>1. /\ UNCHANGED <<mode, taskVars, record, registry, machineVars, budget, report, after>>
      /\ \E s \in {"ok", "bad"} : child' = [child EXCEPT ![c] = s]
  BY DEF ChildEnds
<1>2. /\ child' \in [Steps -> ChildStates]
      /\ \A d \in Steps : child'[d] = child[d] \/ child'[d] \in {"ok", "bad"}
  BY <1>1 DEF IInv, TypeOK, ChildStates
<1>3. /\ mode' = mode /\ op' = op /\ lane' = lane /\ canceled' = canceled
      /\ dispatch' = dispatch /\ report' = report /\ budget' = budget
  BY <1>1 DEF machineVars, taskVars
<1>4. Dispatching'
  BY <1>3 DEF IInv, Dispatching, Over, OpOver
<1>5. ReportHonest'
  BY <1>2, <1>3 DEF IInv, ReportHonest, Running, LaneOver, OpOver
<1>6. /\ canceled' \in BOOLEAN /\ (canceled => canceled')
      /\ budget' \in {"left", "spent", "noted"} /\ (late => late')
      /\ dispatch' \in Dispatches /\ report' \in [outcome : Outcomes, cleanup : Cleanups]
      /\ ~mode.machine => ~canceled' /\ ~dispatch'.aborting /\ dispatch'.pc = dispatch.pc
  BY <1>3 DEF IInv, TypeOK, late, Dispatches, Interactive
<1>7. UNCHANGED <<mode, taskVars, record, registry, after>> /\ dispatch'.swept = dispatch.swept
  BY <1>1, <1>3
<1> QED BY <1>2, <1>4, <1>5, <1>6, <1>7, OutsideKeeps

LEMMA DeadlinePassesKeeps ==
  ASSUME IInv, DeadlinePasses
  PROVE  IInv'
<1>1. /\ UNCHANGED <<mode, taskVars, record, processVars, machineVars, report, after>>
      /\ budget' = "spent"
  BY DEF DeadlinePasses
<1>2. /\ mode' = mode /\ op' = op /\ lane' = lane /\ canceled' = canceled /\ child' = child
      /\ dispatch' = dispatch /\ report' = report /\ registry' = registry
  BY <1>1 DEF machineVars, taskVars, processVars
<1>3. Dispatching' /\ ReportHonest'
  BY <1>2 DEF IInv, Dispatching, Over, OpOver, ReportHonest, Running, LaneOver
<1>4. /\ canceled' \in BOOLEAN /\ (canceled => canceled') /\ (late => late')
      /\ child' \in [Steps -> ChildStates] /\ budget' \in {"left", "spent", "noted"}
      /\ dispatch' \in Dispatches /\ report' \in [outcome : Outcomes, cleanup : Cleanups]
      /\ ~mode.machine => ~canceled' /\ ~dispatch'.aborting /\ dispatch'.pc = dispatch.pc
  BY <1>1, <1>2 DEF IInv, TypeOK, late, Dispatches, Interactive
<1>5. UNCHANGED <<mode, taskVars, record, registry, after>>
  BY <1>1, <1>2
<1> QED BY <1>2, <1>3, <1>4, <1>5, OutsideKeeps

-----------------------------------------------------------------------------
LEMMA Initial ==
  ASSUME Init
  PROVE  IInv
<1>1. NumActions \in Nat /\ 1 \in 1 .. NumActions + 1
  BY NumTypes
<1>2. TypeOK
  <2>1. \A a \in Actions : 1 \in 1 .. NumSteps[a] + 1
    BY NumTypes
  <2>2. /\ op \in [pc : OpPCs, at : 1 .. NumActions + 1, result : OpResults]
        /\ dispatch \in [pc : DispatchPCs, confirmed : BOOLEAN, aborting : BOOLEAN,
                         swept : BOOLEAN]
        /\ report \in [outcome : Outcomes, cleanup : Cleanups]
    BY <1>1 DEF Init, OpPCs, OpResults, DispatchPCs, Outcomes, Cleanups
  <2>3. /\ lane \in [Actions -> [pc : LanePCs, step : Nat, result : LaneResults]]
        /\ child \in [Steps -> ChildStates]
    BY DEF Init, LanePCs, LaneResults, ChildStates
  <2> QED BY <2>1, <2>2, <2>3 DEF Init, TypeOK
<1>3. /\ \A a \in Actions : LaneResult(a)
      /\ Interactive /\ OneAtATime /\ Recorded /\ AbortStopsScheduling
  BY DEF Init, LaneResult, Interactive, OneAtATime, Recorded, AbortStopsScheduling, LaneOver
<1>4. /\ RunningOne /\ Collecting /\ Ended /\ SweepIsFinal /\ Dispatching /\ ReportHonest
  BY DEF Init, RunningOne, Collecting, Ended, SweepIsFinal, Dispatching, ReportHonest, Over, OpOver
<1>5. Walking
  <2>1. Before = {}
    BY DEF Init, Before, Actions
  <2> QED BY <2>1 DEF Init, Walking, Collected
<1>6. ChildrenOwned
  BY DEF Init, ChildrenOwned, Running
<1> QED BY <1>2, <1>3, <1>4, <1>5, <1>6 DEF IInv

LEMMA StepKeeps ==
  ASSUME IInv, [Next]_vars
  PROVE  IInv'
<1>1. CASE UNCHANGED vars
  BY <1>1 DEF vars, taskVars, processVars, machineVars, IInv, TypeOK, LaneResult, Interactive,
     Walking, RunningOne, Collecting, Ended, OneAtATime, Recorded, AbortStopsScheduling,
     ChildrenOwned, SweepIsFinal, Dispatching, ReportHonest, Collected, Before, LaneOver, Fatal,
     Triggered, Running, Here, late, Over, OpOver
<1>2. CASE Next
  <2>1. ASSUME ~Over, NEW a \in Actions, LaneStep(a) PROVE IInv'
    BY <2>1, LaneStepKeeps
  <2>2. ASSUME ~Over, OpStep PROVE IInv'
    BY <2>2, OpStepsKeep
  <2>3. ASSUME DispatchStep PROVE IInv'
    BY <2>3, SweepStepKeeps, DrainKeeps, SettleLanesKeeps, OpObservedKeeps, ReportKeeps,
       ExitKeeps DEF DispatchStep
  <2>4. ASSUME Cancel PROVE IInv'
    BY <2>4, CancelKeeps
  <2>5. ASSUME DeadlinePasses PROVE IInv'
    BY <2>5, DeadlinePassesKeeps
  <2>6. ASSUME NEW c \in Steps, ChildEnds(c) PROVE IInv'
    BY <2>6, ChildEndsKeeps
  <2> QED BY <1>2, <2>1, <2>2, <2>3, <2>4, <2>5, <2>6 DEF Next
<1> QED BY <1>1, <1>2

\* IInv holds throughout every run.
THEOREM Invariance == Spec => []IInv
<1>1. Init => IInv
  BY Initial
<1>2. IInv /\ [Next]_vars => IInv'
  BY StepKeeps
<1> QED BY <1>1, <1>2, PTL DEF Spec

\* Every variable stays in its domain.
THEOREM TypeCorrect == Spec => []TypeOK
<1>1. IInv => TypeOK
  BY DEF IInv
<1> QED BY <1>1, Invariance, PTL

\* No child of a run in machine mode outlives the lane that waits for it.
THEOREM Owned == Spec => []ChildrenOwned
<1>1. IInv => ChildrenOwned
  BY DEF IInv
<1> QED BY <1>1, Invariance, PTL

\* Once the sweep of a cancellation has worked out no registered child runs.
THEOREM Final == Spec => []SweepIsFinal
<1>1. IInv => SweepIsFinal
  BY DEF IInv
<1> QED BY <1>1, Invariance, PTL

\* A response never claims more than what has happened.
THEOREM Honest == Spec => []ReportHonest
<1>1. IInv => ReportHonest
  BY DEF IInv
<1> QED BY <1>1, Invariance, PTL

\* After a recorded abort every other lane starts at most the step it had
\* decided on, and the lane that aborted none.
THEOREM AbortHolds == Spec => []AbortStopsScheduling
<1>1. IInv => AbortStopsScheduling
  BY DEF IInv
<1> QED BY <1>1, Invariance, PTL

\* A failure stays that of its action, and every failure is told.
THEOREM Local == Spec => []FailuresStayLocal
<1>1. ASSUME IInv PROVE FailuresStayLocal
  <2> SUFFICES ASSUME op.pc = "ended" PROVE FailuresStayLocal
    BY DEF FailuresStayLocal
  <2>1. op.result \in OpResults
    BY <1>1, OpIs
  <2>2. Ended /\ \A a \in Actions : LaneResult(a)
    BY <1>1 DEF IInv
  <2> QED BY <2>1, <2>2 DEF Ended, LaneResult, Collected, Fatal, Triggered, FailuresStayLocal,
             OpResults
<1> QED BY <1>1, Invariance, PTL

=============================================================================
