----------------------------- MODULE RoleSession -----------------------------
(***************************************************************************)
(* Admission of effects in a role invocation that spans a chain of native  *)
(* child processes.  Process 0 is the host; process n was launched by      *)
(* process n-1 and talks to it over two pipes.  Every effect (a provider   *)
(* request, a tool, the launch of a child) needs a permit of its own       *)
(* process; below the host that permit is asked for at the parent, which   *)
(* asks its own parent, up to the host's gate.                             *)
(*                                                                         *)
(* An action is one critical section of a gate, one frame read from a pipe *)
(* or one step of a task; frames of a pipe keep their order.               *)
(***************************************************************************)
EXTENDS Integers, Sequences, FiniteSets

CONSTANTS
  Effects,   \* the effects of the invocation: each is asked for once
  Depth,     \* bound: native children below the host
  Level,     \* the process that performs an effect
  Parent,    \* the effect under whose permit it runs
  Launch,    \* for 1 .. Depth: the effect that launches the process
  NoEffect,
  Limit,     \* MAX_OUTSTANDING
  Abandon    \* TRUE: a task may be dropped while it waits for an admission

Levels == 0 .. Depth
Children == 1 .. Depth

ASSUME RoleAssumption ==
  /\ Depth \in Nat
  /\ NoEffect \notin Effects
  /\ Level \in [Effects -> Levels]
  /\ Parent \in [Effects -> Effects \union {NoEffect}]
  /\ \A e \in Effects : Level[e] > 0 => Parent[e] # NoEffect
  /\ Launch \in [Children -> Effects]
  /\ \A n \in Children : Level[Launch[n]] = n - 1
  /\ Limit \in Nat \ {0}
  /\ Abandon \in BOOLEAN

VARIABLES
  gate,      \* Gate of each process: closed, outstanding
  ask,       \* admissions under way at a process: Remote.waiting and its tasks
  effect,    \* what has become of each effect in the process that performs it
  alive,     \* running processes
  reader,    \* processes whose reader thread still takes replies
  serve,     \* for each child, the conversation `native` holds with it
  permits,   \* for each child, the permits `native` keeps for it
  up,        \* frames from a child to its parent
  down,      \* admission replies from a parent to a child
  outcome,   \* what the host's snapshot reports of an effect
  ack,       \* history: what the host's revocation acknowledged
  orphaned   \* history: admissions nobody waited for when they were granted

pipeVars == <<up, down>>
historyVars == <<outcome, ack, orphaned>>
vars == <<gate, ask, effect, alive, reader, serve, permits, pipeVars, historyVars>>

-----------------------------------------------------------------------------
Finals == {"completed", "dropped", "refused", "abandoned", "killed"}
EffectStates == {"idle", "asking", "running", "dropping"} \union Finals
\* waiting: in Remote.waiting; orphan: so, but its task is gone; cleared: the
\* sender was removed; granted, refused: answered, the task not yet run.
AskStates == {"none", "waiting", "orphan", "cleared", "granted", "refused"}
Outcomes == {"none", "completed", "completion_unknown", "not_dispatched"}

OpenGate == [closed |-> FALSE, outstanding |-> {}]
NoAsks == [e \in Effects |-> "none"]
Admit(e) == [type |-> "admit", e |-> e, state |-> "none"]
Settled(e, state) == [type |-> "settled", e |-> e, state |-> state]
Result == [type |-> "result", e |-> NoEffect, state |-> "none"]

\* The effects that run under a, directly or not: the least set with those whose
\* parent is a or in the set.
Enclosed == [a \in Effects |-> {e \in Effects :
  \A S \in SUBSET Effects :
    (\A f \in Effects : Parent[f] \in S \union {a} => f \in S) => e \in S}]

Under(e, a) == e \in Enclosed[a]

Launches(e) == {n \in Children : Launch[n] = e}

\* A frame of process n to its parent; the host has none.
SendUp(n, frame) == up' = IF n = 0 THEN up ELSE [up EXCEPT ![n] = Append(@, frame)]

\* Mutant: a permit that was dropped counts as completed.
DroppedState == "completed"

\* Drop of Permit.
DropState == "completion_unknown"

\* Permit::settle at process n: the gate forgets the permit, then the parent
\* is told.
Settle(n, e, state) ==
  /\ gate' = [gate EXCEPT ![n].outstanding = @ \ {e}]
  /\ outcome' = IF n = 0 THEN [outcome EXCEPT ![e] = state] ELSE outcome
  /\ SendUp(n, Settled(e, state))

\* close: the first reason stays; every waiting sender is dropped.
Close(n) ==
  /\ gate' = [gate EXCEPT ![n].closed = TRUE]
  /\ ask' = [ask EXCEPT ![n] = [e \in Effects |->
       CASE ask[n][e] = "waiting" -> "cleared"
         [] ask[n][e] = "orphan" -> "none"
         [] OTHER -> ask[n][e]]]

-----------------------------------------------------------------------------
(* Asking for a permit.                                                    *)

\* The part of `admit` before its await: without a remote parent it goes on
\* to the gate at once, else a request is registered and sent.
Request(n, e) ==
  /\ ask' = [ask EXCEPT ![n][e] = IF n = 0 THEN "granted" ELSE "waiting"]
  /\ SendUp(n, Admit(e))

\* A task begins an effect whose parent permit is in use.
Begin(e) ==
  /\ effect[e] = "idle"
  /\ Level[e] \in alive
  /\ \/ Parent[e] = NoEffect
     \/ \E f \in Effects : f = Parent[e] /\ Level[f] = Level[e] /\ effect[f] = "running"
     \/ Level[e] > 0 /\ Parent[e] = Launch[Level[e]]
  /\ IF gate[Level[e]].closed
     THEN effect' = [effect EXCEPT ![e] = "refused"] /\ UNCHANGED <<ask, up>>
     ELSE effect' = [effect EXCEPT ![e] = "asking"] /\ Request(Level[e], e)
  /\ UNCHANGED <<gate, alive, reader, serve, permits, down, historyVars>>

\* What a refused admission of e at process n leads to: its own effect does
\* not run, a forwarded one is answered with a refusal.
Refuse(n, e) ==
  IF Level[e] = n
  THEN effect' = [effect EXCEPT ![e] = "refused"] /\ UNCHANGED <<serve, down>>
  ELSE /\ serve' = [serve EXCEPT ![n + 1] = [pc |-> "reading", e |-> NoEffect]]
       /\ down' = [down EXCEPT ![n + 1] = Append(@, [e |-> e, allowed |-> FALSE])]
       /\ UNCHANGED effect

\* What a permit leads to: the effect runs (a launch starts the child and its
\* conversation), a forwarded one is kept for the child and answered.
Grant(n, e) ==
  IF Level[e] = n
  THEN /\ effect' = [effect EXCEPT ![e] = "running"]
       /\ alive' = alive \union Launches(e)
       /\ reader' = reader \union Launches(e)
       /\ serve' = [m \in Children |-> IF m \in Launches(e)
                      THEN [pc |-> "reading", e |-> NoEffect] ELSE serve[m]]
       /\ UNCHANGED <<permits, down>>
  ELSE /\ permits' = [permits EXCEPT ![n + 1] = @ \union {e}]
       /\ serve' = [serve EXCEPT ![n + 1] = [pc |-> "reading", e |-> NoEffect]]
       /\ down' = [down EXCEPT ![n + 1] = Append(@, [e |-> e, allowed |-> TRUE])]
       /\ UNCHANGED <<effect, alive, reader>>

\* Mutant: closure is looked at before the request only.
AlwaysOpen(n) == Cardinality(gate[n].outstanding) < Limit

\* The check under the gate's mutex.
MayEnter(n) == ~gate[n].closed /\ Cardinality(gate[n].outstanding) < Limit

\* Mutant: a forwarded permit is not counted by the gates it passes.
OwnOnly(n, e) == gate[n].outstanding \union (IF Level[e] = n THEN {e} ELSE {})

\* The permit joins the gate, whichever process asked for it.
Counted(n, e) == gate[n].outstanding \union {e}

\* The task goes on with a granted admission: a permit, or, when the gate was
\* closed meanwhile, its release to the parent.
Enter(n, e) ==
  /\ n \in alive
  /\ ask[n][e] = "granted"
  /\ ask' = [ask EXCEPT ![n][e] = "none"]
  /\ IF MayEnter(n)
     THEN /\ gate' = [gate EXCEPT ![n].outstanding = Counted(n, e)]
          /\ Grant(n, e)
          /\ UNCHANGED up
     ELSE /\ Refuse(n, e)
          /\ SendUp(n, Settled(e, "not_dispatched"))
          /\ UNCHANGED <<gate, alive, reader, permits>>
  /\ UNCHANGED historyVars

\* The task goes on with a refusal.
TakeRefusal(n, e) ==
  /\ n \in alive
  /\ ask[n][e] = "refused"
  /\ ask' = [ask EXCEPT ![n][e] = "none"]
  /\ Refuse(n, e)
  /\ UNCHANGED <<gate, alive, reader, permits, up, historyVars>>

\* No answer within 30 s, or its sender was dropped: control is lost.
ControlLost(n, e) ==
  /\ n \in alive
  /\ ask[n][e] \in {"waiting", "cleared"}
  /\ gate' = [gate EXCEPT ![n].closed = TRUE]
  /\ ask' = [ask EXCEPT ![n] = [f \in Effects |->
       CASE f = e -> "none"
         [] f # e /\ ask[n][f] = "waiting" -> "cleared"
         [] f # e /\ ask[n][f] = "orphan" -> "none"
         [] OTHER -> ask[n][f]]]
  /\ Refuse(n, e)
  /\ orphaned' = orphaned \union {e} \union {f \in Effects : ask[n][f] \in {"waiting", "orphan"}}
  /\ UNCHANGED <<alive, reader, permits, up, outcome, ack>>

\* The reader thread of a child: a reply to a request that no longer waits is
\* a broken channel; it closes the gate and reads no more.
TakeReply(n) ==
  /\ n \in reader \intersect alive
  /\ down[n] # <<>>
  /\ down' = [down EXCEPT ![n] = Tail(@)]
  /\ LET reply == Head(down[n])
         state == ask[n][reply.e]
     IN IF state \in {"waiting", "orphan"}
        THEN /\ ask' = [ask EXCEPT ![n][reply.e] =
                  IF state = "orphan" THEN "none"
                  ELSE IF reply.allowed THEN "granted" ELSE "refused"]
             /\ UNCHANGED <<gate, reader>>
        ELSE /\ Close(n)
             /\ reader' = reader \ {n}
  /\ UNCHANGED <<effect, alive, serve, permits, up, historyVars>>

-----------------------------------------------------------------------------
(* The conversation of `native` with the child it launched.                *)

\* validate_lineage: the launch itself or a permit kept for this child.
LineageOf(n, e) == Parent[e] = Launch[n] \/ Parent[e] \in permits[n]

ReadFrame(n, type) ==
  /\ serve[n].pc = "reading"
  /\ up[n] # <<>>
  /\ Head(up[n]).type = type

\* An admission request: checked, then asked for at the parent's own session.
ServeAdmit(n) ==
  /\ ReadFrame(n, "admit")
  /\ LET e == Head(up[n]).e
     IN /\ LineageOf(n, e)
        /\ IF gate[n - 1].closed
           THEN /\ down' = [down EXCEPT ![n] = Append(@, [e |-> e, allowed |-> FALSE])]
                /\ up' = [up EXCEPT ![n] = Tail(@)]
                /\ UNCHANGED <<ask, serve>>
           ELSE /\ serve' = [serve EXCEPT ![n] = [pc |-> "asking", e |-> e]]
                /\ ask' = [ask EXCEPT ![n - 1][e] = IF n = 1 THEN "granted" ELSE "waiting"]
                /\ up' = [m \in Children |->
                     CASE m = n -> Tail(up[n])
                       [] m = n - 1 -> Append(up[m], Admit(e))
                       [] OTHER -> up[m]]
                /\ UNCHANGED down
  /\ UNCHANGED <<gate, effect, alive, reader, permits, historyVars>>

\* A permit may be settled only after everything under it.
Settleable(n, e) ==
  /\ e \in permits[n]
  /\ \A f \in permits[n] : Parent[f] # e

ServeSettled(n) ==
  /\ ReadFrame(n, "settled")
  /\ LET frame == Head(up[n])
     IN /\ Settleable(n, frame.e)
        /\ permits' = [permits EXCEPT ![n] = @ \ {frame.e}]
        /\ gate' = [gate EXCEPT ![n - 1].outstanding = @ \ {frame.e}]
        /\ outcome' = IF n = 1 THEN [outcome EXCEPT ![frame.e] = frame.state] ELSE outcome
        /\ up' = [m \in Children |->
             CASE m = n -> Tail(up[n])
               [] m = n - 1 -> Append(up[m], frame)
               [] OTHER -> up[m]]
  /\ UNCHANGED <<ask, effect, alive, reader, serve, down, ack, orphaned>>

\* The result: nothing may follow it, and the child ends.
ServeResult(n) ==
  /\ ReadFrame(n, "result")
  /\ serve' = [serve EXCEPT ![n] = [pc |-> "result", e |-> NoEffect]]
  /\ up' = [up EXCEPT ![n] = Tail(@)]
  /\ UNCHANGED <<gate, ask, effect, alive, reader, permits, down, historyVars>>

\* A frame that breaks the rules of the channel.
Breach(n) ==
  /\ serve[n].pc = "reading"
  /\ up[n] # <<>>
  /\ \/ Head(up[n]).type = "admit" /\ ~LineageOf(n, Head(up[n]).e)
     \/ Head(up[n]).type = "settled" /\ ~Settleable(n, Head(up[n]).e)

-----------------------------------------------------------------------------
(* The end of effects.                                                     *)

\* Everything the processes from n on hold is gone with them.
Kill(n) ==
  /\ alive' = {m \in alive : m < n}
  /\ reader' = {m \in reader : m < n}
  /\ up' = [m \in Children |-> IF m >= n THEN <<>> ELSE up[m]]
  /\ down' = [m \in Children |-> IF m >= n THEN <<>> ELSE down[m]]
  /\ serve' = [m \in Children |-> IF m >= n THEN [pc |-> "off", e |-> NoEffect] ELSE serve[m]]
  /\ permits' = [m \in Children |-> IF m > n THEN {} ELSE permits[m]]
  /\ gate' = [m \in Levels |-> IF m >= n THEN OpenGate ELSE gate[m]]

\* Mutant: a result is enough, whatever is kept for the child.
ResultRead(e) == \A n \in Launches(e) : serve[n].pc = "result"

\* The child's result has been read and nothing is kept for it.
ChildDone(e) ==
  \A n \in Launches(e) : serve[n].pc = "result" /\ permits[n] = {}

\* A finished effect settles; one that encloses others does so after them, a
\* launch after the result of its child, with nothing kept for it.
Complete(e) ==
  /\ effect[e] = "running"
  /\ Level[e] \in alive
  /\ \A f \in Effects : Parent[f] = e /\ Level[f] = Level[e] =>
       effect[f] \in {"idle"} \union Finals
  /\ ChildDone(e)
  /\ effect' = [effect EXCEPT ![e] = "completed"]
  /\ Settle(Level[e], e, "completed")
  /\ serve' = [n \in Children |-> IF n \in Launches(e)
                 THEN [pc |-> "off", e |-> NoEffect] ELSE serve[n]]
  /\ UNCHANGED <<ask, alive, reader, permits, down, ack, orphaned>>

\* A child whose effects are over writes its result and exits.
Exit(n) ==
  /\ n \in alive \ {0}
  /\ \A e \in Effects : Level[e] = n => effect[e] \in {"idle"} \union Finals
  /\ \A e \in Effects : Level[e] >= n => ask[n][e] \in {"none", "orphan"}
  /\ alive' = alive \ {n}
  /\ reader' = reader \ {n}
  /\ SendUp(n, Result)
  /\ down' = [down EXCEPT ![n] = <<>>]
  /\ ask' = [ask EXCEPT ![n] = NoAsks]
  /\ gate' = [gate EXCEPT ![n] = OpenGate]
  /\ UNCHANGED <<effect, serve, permits, historyVars>>

\* The task of e ends early: its time is up, its session is canceled, or its
\* child broke the channel or left without a result.  What it awaited is
\* dropped with it and a child it launched is killed; the permits it holds are
\* settled next.
EndsEarly(e) ==
  LET n == Level[e]
      inner == {f \in Effects : Level[f] = n /\ (f = e \/ Under(f, e))}
      killed == UNION {Launches(f) : f \in {g \in inner : effect[g] = "running"}}
      gone == {f \in Effects : killed # {} /\ Level[f] > n}
      waits == {f \in Effects : ask[n][f] # "none" /\ (f \in inner \/ f \in gone)}
  IN /\ effect[e] = "running"
     /\ n \in alive
     /\ \A k \in Launches(e) : serve[k].pc = "result" => permits[k] # {}
     /\ \A f \in inner : effect[f] = "asking" => Abandon
     /\ waits = {} \/ Abandon
     /\ effect' = [f \in Effects |->
          CASE f \in inner /\ effect[f] = "running" -> "dropping"
            [] f \in inner /\ effect[f] = "asking" -> "abandoned"
            [] f \in gone /\ effect[f] \notin Finals \union {"idle"} -> "killed"
            [] OTHER -> effect[f]]
     /\ ask' = [m \in Levels |-> [f \in Effects |->
          IF m > n /\ killed # {} THEN "none"
          ELSE IF m = n /\ f \in waits
               THEN IF n > 0 /\ ask[m][f] = "waiting" THEN "orphan"
                    ELSE IF ask[m][f] = "orphan" THEN "orphan" ELSE "none"
               ELSE ask[m][f]]]
     /\ orphaned' = orphaned \union waits
     /\ IF killed = {}
        THEN UNCHANGED <<gate, alive, reader, serve, permits, pipeVars>>
        ELSE Kill(n + 1)
     /\ UNCHANGED <<outcome, ack>>

\* drop(permits): the map gives up its permits in the order of their random
\* identities.
DropKept(n, e) ==
  /\ n - 1 \in alive
  /\ effect[Launch[n]] = "dropping"
  /\ e \in permits[n]
  /\ permits' = [permits EXCEPT ![n] = @ \ {e}]
  /\ Settle(n - 1, e, DropState)
  /\ UNCHANGED <<ask, effect, alive, reader, serve, down, ack, orphaned>>

\* Mutant: the permits of nested effects are dropped in any order.
AnyOrder(e) == TRUE

\* Nested scopes are dropped before the scope they are in.
InnerDropped(e) ==
  \A f \in Effects : Under(f, e) /\ Level[f] = Level[e] => effect[f] # "dropping"

\* The permit of the effect itself follows what it encloses.
DropOwn(e) ==
  /\ effect[e] = "dropping"
  /\ Level[e] \in alive
  /\ InnerDropped(e)
  /\ \A n \in Launches(e) : permits[n] = {}
  /\ effect' = [effect EXCEPT ![e] = "dropped"]
  /\ Settle(Level[e], e, DropState)
  /\ UNCHANGED <<ask, alive, reader, serve, permits, down, ack, orphaned>>

\* A revocation or cancellation from the invocation's owner: the gate closes
\* and the acknowledgement lists what is outstanding.
Revoke ==
  /\ ~gate[0].closed
  /\ Close(0)
  /\ ack' = [sent |-> TRUE, outstanding |-> gate[0].outstanding]
  /\ UNCHANGED <<effect, alive, reader, serve, permits, pipeVars, outcome, orphaned>>

-----------------------------------------------------------------------------
Init ==
  /\ gate = [n \in Levels |-> OpenGate]
  /\ ask = [n \in Levels |-> NoAsks]
  /\ effect = [e \in Effects |-> "idle"]
  /\ alive = {0}
  /\ reader = {}
  /\ serve = [n \in Children |-> [pc |-> "off", e |-> NoEffect]]
  /\ permits = [n \in Children |-> {}]
  /\ up = [n \in Children |-> <<>>]
  /\ down = [n \in Children |-> <<>>]
  /\ outcome = [e \in Effects |-> "none"]
  /\ ack = [sent |-> FALSE, outstanding |-> {}]
  /\ orphaned = {}

Started(e) == Complete(e) \/ EndsEarly(e) \/ DropOwn(e)

Admissions(n, e) == Enter(n, e) \/ TakeRefusal(n, e) \/ ControlLost(n, e)

Conversation(n) ==
  \/ ServeAdmit(n) \/ ServeSettled(n) \/ ServeResult(n) \/ TakeReply(n) \/ Exit(n)

\* What goes on without a new effect or a revocation.
Running ==
  \/ \E e \in Effects : Started(e)
  \/ \E n \in Levels, e \in Effects : Admissions(n, e)
  \/ \E n \in Children : Conversation(n)
  \/ \E n \in Children, e \in Effects : DropKept(n, e)

Next ==
  \/ \E e \in Effects : Begin(e)
  \/ Running
  \/ Revoke

Spec == Init /\ [][Next]_vars

\* Tasks run on, readers read what has arrived, and every effect has a time
\* limit (`remaining`).  An effect is asked for once, so no behaviour runs for
\* ever and this one condition is as strong as one for each action.
FairSpec == Spec /\ WF_vars(Running)

-----------------------------------------------------------------------------
(* Correctness.                                                            *)

Frames == [type : {"admit", "settled"}, e : Effects, state : Outcomes] \union {Result}
Replies == [e : Effects, allowed : BOOLEAN]
Talks == [pc : {"off", "reading", "asking", "result"}, e : Effects \union {NoEffect}]

\* The variables stay in their domains, and permits are kept for a child only
\* while its launch holds its own.
TypeOK ==
  /\ gate \in [Levels -> [closed : BOOLEAN, outstanding : SUBSET Effects]]
  /\ ask \in [Levels -> [Effects -> AskStates]]
  /\ effect \in [Effects -> EffectStates]
  /\ alive \subseteq Levels /\ 0 \in alive /\ reader \subseteq alive
  /\ serve \in [Children -> Talks]
  /\ permits \in [Children -> SUBSET Effects]
  /\ \A n \in Children : permits[n] # {} => effect[Launch[n]] \in {"running", "dropping"}
  /\ up \in [Children -> Seq(Frames)] /\ down \in [Children -> Seq(Replies)]
  /\ outcome \in [Effects -> Outcomes]
  /\ ack \in [sent : BOOLEAN, outstanding : SUBSET Effects]
  /\ orphaned \subseteq Effects

InProgress(e) == effect[e] \in {"running", "dropping"} /\ Level[e] \in alive

\* role_session.rs: "A revocation acknowledgement therefore describes every
\* effect that can still settle".  No effect of any process of the chain is in
\* progress that the acknowledgement did not list, whatever was in the pipes
\* when the gate closed.
AckCoversEffects ==
  ack.sent => \A e \in Effects : InProgress(e) => e \in ack.outstanding

\* An effect in progress is counted by every gate between the host and its
\* process: a snapshot that says `complete` means that nothing runs.
EveryGateCounts ==
  \A e \in Effects : InProgress(e) =>
    \A n \in 0 .. Level[e] : e \in gate[n].outstanding

\* The host reports an effect completed only when it completed in its process,
\* and not dispatched only when it never ran.
OutcomesHonest ==
  \A e \in Effects :
    /\ outcome[e] = "completed" => effect[e] = "completed"
    /\ outcome[e] = "not_dispatched" => effect[e] \in {"refused", "asking", "abandoned", "killed"}

\* A channel is broken only after an admission lost the task that asked for it,
\* or a conversation with a child was dropped with permits under way.
BreachExplained ==
  \A n \in alive \ {0} : Breach(n) =>
    \/ orphaned # {}
    \/ \E e \in Effects : Launches(e) # {} /\ effect[e] \in {"dropping", "dropped"}

\* role_session.rs: "For a remote session the parent has already counted this
\* permit as admitted. Local closure may refuse to use it, but must still
\* release it."  A permit a parent keeps for a running child is waited for,
\* counted or about to be settled there.
GrantsReleased ==
  \A n \in alive \ {0} : \A e \in permits[n] :
    \/ e \in gate[n].outstanding
    \/ ask[n][e] \in {"waiting", "granted"}
    \/ n \in reader /\ \E i \in 1 .. Len(down[n]) : down[n][i].e = e
    \/ \E i \in 1 .. Len(up[n]) : up[n][i].type = "settled" /\ up[n][i].e = e

\* Whatever is dropped, killed, refused or lost, in the end no process of the
\* chain is left and every permit of the host's gate is settled: no permit is
\* forgotten between two processes.
PermitsSettle == <>[](alive = {0} /\ gate[0].outstanding = {})

=============================================================================
