--------------------------- MODULE BuildCacheProofs ---------------------------
(***************************************************************************)
(* What one build keeps to itself in BuildCache, for any builds, agents    *)
(* and templates.  ExportIsOwn and EndsClean are not inductive: Inv adds   *)
(* who holds a lock, whose definition a workspace has, and where the       *)
(* binary of a build is between its compilation and its export.            *)
(***************************************************************************)
EXTENDS BuildCache, TLAPS

\* The places at which a build has the lock of its agent.
Holding == {"replace", "check", "create", "warm", "recheck", "copy", "rewrite", "build",
            "export", "tidy", "leave", "reset", "scrap", "prune", "clear", "warming", "building"}

\* What is left to do is of the kind the place asks for.
Todo(b) ==
  /\ At(b, {"create", "copy"}) => run[b].todo \subseteq Source
  /\ At(b, {"prune", "clear"}) => run[b].todo \subseteq Keys

\* A build at work has the lock of its agent, so no other build of the agent is.
HoldsLock(b) == At(b, Holding) => lock[Cmd(b).agent] = b

\* A lock file of the build is that of its agent, and the build is at work or
\* was killed.
LockIsOf(b) ==
  \A a \in Agents : lock[a] = b => Cmd(b).agent = a /\ At(b, Holding \cup {"killed"})

\* A workspace with the definition of the build is that of its agent, and the
\* build has not tidied up, or will not.
WorkspaceIsOf(b) ==
  \A a \in Agents : workspace[a].by = b =>
    /\ Cmd(b).agent = a
    /\ \/ At(b, {"build", "building", "export", "tidy", "killed"})
       \/ At(b, {"leave", "over"}) /\ (Cmd(b).keep \/ run[b].result = "copy")

\* The build compiles its own definition.
CompilesOwn(b) == At(b, {"build", "building"}) => workspace[Cmd(b).agent].by = b

\* Before the export the binary of the agent is the build's own, or was removed.
BuiltIsOwn(b) ==
  At(b, {"export"}) => template[Key(b)].built[Cmd(b).agent] \in {b, Nobody}

\* Success is known only once the binary is out or the check is done.
SuccessIsLate(b) == run[b].result = "ok" => At(b, {"tidy", "leave", "over", "killed"})

\* ExportIsOwn for one build.
Exported(b) ==
  At(b, {"tidy", "leave"}) /\ run[b].result = "ok" /\ Cmd(b).kind # "check" =>
    output[Cmd(b).agent] = b

Own(b) ==
  /\ Todo(b)
  /\ HoldsLock(b)
  /\ LockIsOf(b)
  /\ WorkspaceIsOf(b)
  /\ CompilesOwn(b)
  /\ BuiltIsOwn(b)
  /\ SuccessIsLate(b)
  /\ Exported(b)

Inv == TypeOK /\ \A b \in Builds : Own(b)

-----------------------------------------------------------------------------
LEMMA InitInv == Init => Inv
  <1> SUFFICES ASSUME Init PROVE Inv
      OBVIOUS
  <1> USE BuildAssumption
  <1>1. TypeOK
    <2>1. run \in [Builds -> [pc : Places, cmd : Command,
                              todo : (SUBSET Source) \cup (SUBSET Keys), victim : Keys,
                              result : Results, hurt : BOOLEAN]]
      BY DEF Init, Places, Results, Command
    <2>2. template \in [Keys -> [parts : SUBSET Parts, built : [Agents -> Owners]]]
      BY DEF Init, Owners
    <2> QED BY <2>1, <2>2 DEF Init, TypeOK, Owners, Absent
  <1>2. \A b \in Builds : run[b].pc = "new" /\ run[b].result = "none"
    BY DEF Init
  <1>3. \A a \in Agents : lock[a] \notin Builds /\ workspace[a].by \notin Builds
    BY DEF Init, Absent
  <1>4. ASSUME NEW b \in Builds PROVE Own(b)
    <2>1. Todo(b) /\ HoldsLock(b) /\ LockIsOf(b)
      BY <1>2, <1>3 DEF Todo, HoldsLock, LockIsOf, At, Holding
    <2>2. WorkspaceIsOf(b) /\ CompilesOwn(b) /\ BuiltIsOwn(b)
      BY <1>2, <1>3 DEF WorkspaceIsOf, CompilesOwn, BuiltIsOwn, At
    <2>3. SuccessIsLate(b) /\ Exported(b)
      BY <1>2 DEF SuccessIsLate, Exported, At
    <2> QED BY <2>1, <2>2, <2>3 DEF Own
  <1> QED BY <1>1, <1>4 DEF Inv

-----------------------------------------------------------------------------
Runs == [pc : Places, cmd : Command, todo : (SUBSET Source) \cup (SUBSET Keys),
         victim : Keys, result : Results, hurt : BOOLEAN]

\* What a step of b does to the invocations: only b moves, and keeps its command.
Moved(b, pc, todo, result) ==
  /\ run' \in [Builds -> Runs]
  /\ \A c \in Builds \ {b} :
       /\ run'[c].pc = run[c].pc
       /\ run'[c].cmd = run[c].cmd
       /\ run'[c].todo = run[c].todo
       /\ run'[c].victim = run[c].victim
       /\ run'[c].result = run[c].result
  /\ run'[b].cmd = run[b].cmd
  /\ run'[b].pc = pc
  /\ run'[b].todo = todo
  /\ run'[b].result = result

LEMMA GoMoves ==
  ASSUME TypeOK, NEW b \in Builds, NEW pc \in Places, Go(b, pc)
  PROVE  Moved(b, pc, run[b].todo, run[b].result)
  BY DEF TypeOK, Go, Moved, Runs

\* The step of b that leaves the record r.
LEMMA RecordMoves ==
  ASSUME TypeOK, NEW b \in Builds, NEW r \in Runs, r.cmd = run[b].cmd,
         run' = [run EXCEPT ![b] = r]
  PROVE  Moved(b, r.pc, r.todo, r.result)
  BY DEF TypeOK, Moved, Runs

LEMMA GoWithMoves ==
  ASSUME TypeOK, NEW b \in Builds, NEW pc \in Places,
         NEW todo, todo \subseteq Source \/ todo \subseteq Keys, GoWith(b, pc, todo)
  PROVE  Moved(b, pc, todo, run[b].result)
  <1>1. run[b] \in Runs /\ pc \in Places /\ (todo \subseteq Source \/ todo \subseteq Keys)
    BY DEF TypeOK, Runs
  <1>2. PICK r : r = [run[b] EXCEPT !.pc = pc, !.todo = todo]
    OBVIOUS
  <1>3. /\ r \in Runs /\ r.pc = pc /\ r.todo = todo
        /\ r.cmd = run[b].cmd /\ r.result = run[b].result
    BY ONLY <1>1, <1>2 DEF Runs
  <1>4. run' = [run EXCEPT ![b] = r]
    <2>1. run' = [run EXCEPT ![b] = [run[b] EXCEPT !.pc = pc, !.todo = todo]]
      BY DEF GoWith
    <2> QED BY ONLY <1>2, <2>1
  <1>5. Moved(b, r.pc, r.todo, r.result)
    BY <1>3, <1>4, RecordMoves
  <1> QED BY <1>3, <1>5

LEMMA ConcludeMoves ==
  ASSUME TypeOK, NEW b \in Builds, NEW pc \in Places, NEW why \in Results,
         Conclude(b, pc, why)
  PROVE  Moved(b, pc, run[b].todo, why)
  <1>1. run[b] \in Runs /\ pc \in Places /\ why \in Results
    BY DEF TypeOK, Runs
  <1>2. PICK r : r = [run[b] EXCEPT !.pc = pc, !.result = why]
    OBVIOUS
  <1>3. /\ r \in Runs /\ r.pc = pc /\ r.todo = run[b].todo
        /\ r.cmd = run[b].cmd /\ r.result = why
    BY ONLY <1>1, <1>2 DEF Runs
  <1>4. run' = [run EXCEPT ![b] = r]
    <2>1. run' = [run EXCEPT ![b] = [run[b] EXCEPT !.pc = pc, !.result = why]]
      BY DEF Conclude
    <2> QED BY ONLY <1>2, <2>1
  <1>5. Moved(b, r.pc, r.todo, r.result)
    BY <1>3, <1>4, RecordMoves
  <1> QED BY <1>3, <1>5

LEMMA Commands ==
  ASSUME TypeOK, NEW b \in Builds
  PROVE  Cmd(b).agent \in Agents /\ Key(b) \in Keys /\ Cmd(b) \in Command
  BY DEF TypeOK, Cmd, Key, Command

\* Two builds at work are of different agents.
LEMMA OneAtWork ==
  ASSUME Inv, NEW b \in Builds, NEW c \in Builds, b # c, At(b, Holding), At(c, Holding)
  PROVE  Cmd(b).agent # Cmd(c).agent
  BY DEF Inv, Own, HoldsLock

\* What a step of b leaves alone when b is at work: the lock, the workspace,
\* the binaries and the output of any other agent.
LeavesOthers(b) ==
  \A a \in Agents : a # Cmd(b).agent =>
    /\ lock'[a] = lock[a]
    /\ workspace'[a] = workspace[a]
    /\ \A k \in Keys : template'[k].built[a] \in {template[k].built[a], Nobody}
    /\ output'[a] = output[a]

\* The workspace and the lock of its own agent b takes, gives up or keeps.
TakesOwn(b) ==
  /\ lock'[Cmd(b).agent] \in {lock[Cmd(b).agent], b, Nobody}
  /\ workspace'[Cmd(b).agent].by \in {workspace[Cmd(b).agent].by, b, Nobody}

LEMMA OthersKeep ==
  ASSUME Inv, NEW b \in Builds, At(b, Holding),
         NEW pc, NEW todo, NEW result, Moved(b, pc, todo, result),
         LeavesOthers(b), TakesOwn(b), NEW c \in Builds, c # b
  PROVE  Own(c)'
  <1> USE DEF At
  <1>1. /\ \A s : At(c, s)' <=> At(c, s)
        /\ run'[c].todo = run[c].todo /\ run'[c].result = run[c].result
        /\ Cmd(c)' = Cmd(c) /\ Key(c)' = Key(c)
    BY DEF Moved, Cmd, Key
  <1>2. Cmd(c).agent \in Agents /\ Key(c) \in Keys /\ Cmd(b).agent \in Agents
    BY Commands DEF Inv
  <1>3. At(c, Holding) => Cmd(c).agent # Cmd(b).agent
    BY OneAtWork
  <1>4. Own(c)
    BY DEF Inv
  <1>5. Todo(c)'
    BY <1>1, <1>4 DEF Own, Todo
  <1>6. HoldsLock(c)'
    BY <1>1, <1>2, <1>3, <1>4 DEF Own, HoldsLock, LeavesOthers
  <1>7. LockIsOf(c)'
    <2> SUFFICES ASSUME NEW a \in Agents, lock'[a] = c
                 PROVE  Cmd(c).agent = a /\ At(c, Holding \cup {"killed"})
        BY <1>1 DEF LockIsOf
    <2>1. lock[a] = c
      BY BuildAssumption DEF LeavesOthers, TakesOwn
    <2> QED BY <1>4, <2>1 DEF Own, LockIsOf
  <1>8. WorkspaceIsOf(c)'
    <2> SUFFICES ASSUME NEW a \in Agents, workspace'[a].by = c
                 PROVE  /\ Cmd(c).agent = a
                        /\ \/ At(c, {"build", "building", "export", "tidy", "killed"})
                           \/ /\ At(c, {"leave", "over"})
                              /\ Cmd(c).keep \/ run[c].result = "copy"
        BY <1>1 DEF WorkspaceIsOf
    <2>1. workspace[a].by = c
      BY BuildAssumption DEF LeavesOthers, TakesOwn
    <2> QED BY <1>4, <2>1 DEF Own, WorkspaceIsOf
  <1>9. CompilesOwn(c)'
    BY <1>1, <1>2, <1>3, <1>4 DEF Own, CompilesOwn, LeavesOthers, Holding
  <1>10. BuiltIsOwn(c)'
    <2> SUFFICES ASSUME At(c, {"export"})
                 PROVE  template'[Key(c)].built[Cmd(c).agent] \in {c, Nobody}
        BY <1>1 DEF BuiltIsOwn
    <2>1. template[Key(c)].built[Cmd(c).agent] \in {c, Nobody}
      BY <1>4 DEF Own, BuiltIsOwn
    <2>2. Cmd(c).agent # Cmd(b).agent
      BY <1>3 DEF Holding
    <2>3. template'[Key(c)].built[Cmd(c).agent]
            \in {template[Key(c)].built[Cmd(c).agent], Nobody}
      BY <1>2, <2>2 DEF LeavesOthers
    <2> QED BY <2>1, <2>3
  <1>11. SuccessIsLate(c)'
    BY <1>1, <1>4 DEF Own, SuccessIsLate
  <1>12. Exported(c)'
    <2> SUFFICES ASSUME At(c, {"tidy", "leave"}), run[c].result = "ok",
                        Cmd(c).kind # "check"
                 PROVE  output'[Cmd(c).agent] = c
        BY <1>1 DEF Exported
    <2>1. output[Cmd(c).agent] = c
      BY <1>4 DEF Own, Exported
    <2>2. Cmd(c).agent # Cmd(b).agent
      BY <1>3 DEF Holding
    <2> QED BY <1>2, <2>1, <2>2 DEF LeavesOthers
  <1> QED BY <1>5, <1>6, <1>7, <1>8, <1>9, <1>10, <1>11, <1>12 DEF Own

\* Places before the workspace has the build's definition.
Early == {"replace", "check", "create", "warm", "recheck", "copy", "rewrite", "reset",
          "scrap", "prune", "clear", "warming"}

\* The variables other than run, lock and output have their types after the
\* step, and what others rely on is as it was.
Spares(b) ==
  /\ workspace' \in [Agents -> [there : BOOLEAN, parts : SUBSET Source, by : Owners]]
  /\ \A a \in Agents : a # Cmd(b).agent => workspace'[a] = workspace[a]
  /\ workspace'[Cmd(b).agent].by \in {workspace[Cmd(b).agent].by, Nobody}
  /\ template' \in [Keys -> [parts : SUBSET Parts, built : [Agents -> Owners]]]
  /\ \A k \in Keys : \A a \in Agents :
       template'[k].built[a] \in {template[k].built[a], Nobody}
  /\ cut' \subseteq Keys
  /\ crossed' \subseteq Builds

\* A step of b between the lock and the compilation of the agent.
LEMMA EarlyStep ==
  ASSUME Inv, NEW b \in Builds, At(b, Early),
         NEW pc \in Early \cup {"tidy", "leave"}, NEW todo, NEW result,
         Moved(b, pc, todo, result),
         pc \in {"create", "copy"} => todo \subseteq Source,
         pc \in {"prune", "clear"} => todo \subseteq Keys,
         result # "ok",
         UNCHANGED <<lock, output>>, Spares(b)
  PROVE  Inv'
  <1>1. TypeOK'
    BY DEF Inv, TypeOK, Spares, Moved, Runs
  <1>2. ASSUME NEW c \in Builds, c # b PROVE Own(c)'
    <2>1. At(b, Holding)
      BY DEF At, Holding, Early
    <2>2. LeavesOthers(b) /\ TakesOwn(b)
      BY DEF LeavesOthers, TakesOwn, Spares
    <2> QED BY <1>2, <2>1, <2>2, OthersKeep
  <1>3. Own(b)'
    <2> USE DEF At, Moved
    <2>1. Own(b) /\ Cmd(b)' = Cmd(b) /\ Cmd(b).agent \in Agents
      BY Commands DEF Inv, Cmd
    <2>2. Todo(b)'
      BY DEF Todo
    <2>3. HoldsLock(b)' /\ LockIsOf(b)'
      BY <2>1 DEF Own, HoldsLock, LockIsOf, Holding, Early
    <2>4. \A a \in Agents : workspace'[a].by # b
      BY <2>1, BuildAssumption DEF Own, WorkspaceIsOf, Spares, Early
    <2>5. WorkspaceIsOf(b)' /\ CompilesOwn(b)' /\ BuiltIsOwn(b)'
      BY <2>1, <2>4 DEF WorkspaceIsOf, CompilesOwn, BuiltIsOwn, Early
    <2>6. SuccessIsLate(b)' /\ Exported(b)'
      BY DEF SuccessIsLate, Exported
    <2> QED BY <2>2, <2>3, <2>5, <2>6 DEF Own
  <1> QED BY <1>1, <1>2, <1>3 DEF Inv

LEMMA EarlyIsNotOk ==
  ASSUME Inv, NEW b \in Builds, At(b, Early)
  PROVE  run[b].result # "ok" /\ run[b].result \in Results
  BY DEF Inv, Own, SuccessIsLate, At, Early, TypeOK

LEMMA SparesUnchanged ==
  ASSUME TypeOK, NEW b \in Builds, UNCHANGED <<workspace, template, cut>>,
         crossed' \subseteq Builds
  PROVE  Spares(b)
  BY DEF TypeOK, Spares

LEMMA CompilerMoves ==
  ASSUME TypeOK, NEW b \in Builds, NEW pc \in Places,
         run' = [run EXCEPT ![b].pc = pc, ![b].hurt = FALSE]
  PROVE  Moved(b, pc, run[b].todo, run[b].result)
  <1>1. run[b] \in Runs /\ pc \in Places
    BY DEF TypeOK, Runs
  <1>2. PICK r : r = [run[b] EXCEPT !.pc = pc, !.hurt = FALSE]
    OBVIOUS
  <1>3. /\ r \in Runs /\ r.pc = pc /\ r.todo = run[b].todo
        /\ r.cmd = run[b].cmd /\ r.result = run[b].result
    BY ONLY <1>1, <1>2 DEF Runs
  <1>4. run' = [run EXCEPT ![b] = r]
    <2>1. run' = [run EXCEPT ![b] = [run[b] EXCEPT !.pc = pc, !.hurt = FALSE]]
      OBVIOUS
    <2> QED BY ONLY <1>2, <2>1
  <1>5. Moved(b, r.pc, r.todo, r.result)
    BY <1>3, <1>4, RecordMoves
  <1> QED BY <1>3, <1>5

LEMMA CheckInv == ASSUME Inv, NEW b \in Builds, Check(b) PROVE Inv'
  <1>1. /\ At(b, Early) /\ TypeOK /\ Spares(b)
        /\ UNCHANGED <<lock, output>>
    BY SparesUnchanged DEF Inv, Check, At, Early, TypeOK
  <1>2. CASE GoWith(b, "prune", Stale(Key(b)))
    <2>1. Stale(Key(b)) \subseteq Keys
      BY DEF Stale
    <2>2. Moved(b, "prune", Stale(Key(b)), run[b].result)
      BY <1>1, <1>2, <2>1, GoWithMoves DEF Places, Removing
    <2> QED BY <1>1, <2>1, <2>2, EarlyStep, EarlyIsNotOk DEF Early
  <1>3. CASE Go(b, "reset")
    <2>1. Moved(b, "reset", run[b].todo, run[b].result)
      BY <1>1, <1>3, GoMoves DEF Places, Removing
    <2> QED BY <1>1, <2>1, EarlyStep, EarlyIsNotOk DEF Early
  <1> QED BY <1>2, <1>3 DEF Check

LEMMA PruneInv == ASSUME Inv, NEW b \in Builds, Prune(b) PROVE Inv'
  <1>1. /\ At(b, Early) /\ TypeOK /\ Spares(b)
        /\ UNCHANGED <<lock, output>> /\ run[b].todo \subseteq Keys
    BY SparesUnchanged DEF Inv, Own, Todo, Prune, At, Early, TypeOK
  <1>2. PICK k \in run[b].todo : run' = [run EXCEPT ![b].pc = "clear", ![b].victim = k]
    BY DEF Prune
  <1>3. Moved(b, "clear", run[b].todo, run[b].result)
    <2>1. run[b] \in Runs /\ k \in Keys
      BY <1>1 DEF TypeOK, Runs
    <2>2. PICK r : r = [run[b] EXCEPT !.pc = "clear", !.victim = k]
      OBVIOUS
    <2>3. /\ r \in Runs /\ r.pc = "clear" /\ r.todo = run[b].todo
          /\ r.cmd = run[b].cmd /\ r.result = run[b].result
      BY ONLY <2>1, <2>2 DEF Runs, Places, Removing
    <2>4. run' = [run EXCEPT ![b] = r]
      BY ONLY <1>2, <2>2
    <2>5. Moved(b, r.pc, r.todo, r.result)
      BY <1>1, <2>3, <2>4, RecordMoves
    <2> QED BY <2>3, <2>5
  <1> QED BY <1>1, <1>3, EarlyStep, EarlyIsNotOk DEF Early

LEMMA PrunedInv == ASSUME Inv, NEW b \in Builds, Pruned(b) PROVE Inv'
  <1>1. /\ At(b, Early) /\ TypeOK /\ Spares(b)
        /\ UNCHANGED <<lock, output>>
    BY SparesUnchanged DEF Inv, Pruned, At, Early, TypeOK
  <1>2. Moved(b, "copy", Source, run[b].result)
    BY <1>1, GoWithMoves DEF Pruned, Places
  <1> QED BY <1>1, <1>2, EarlyStep, EarlyIsNotOk DEF Early

LEMMA CreateInv == ASSUME Inv, NEW b \in Builds, Create(b) PROVE Inv'
  <1>1. PICK part \in run[b].todo :
          /\ template' = [template EXCEPT ![Key(b)].parts = @ \cup {part}]
          /\ GoWith(b, IF run[b].todo = {part} THEN "warm" ELSE "create",
                    run[b].todo \ {part})
    BY DEF Create
  <1>2. At(b, Early) /\ TypeOK /\ run[b].todo \subseteq Source /\ part \in Parts
    BY DEF Inv, Own, Todo, Create, At, Early, Parts
  <1>3. Key(b) \in Keys
    BY <1>2, Commands
  <1>4. /\ Spares(b)
        /\ UNCHANGED <<lock, output>>
    BY <1>1, <1>2, <1>3 DEF Create, TypeOK, Spares
  <1>5. CASE run[b].todo = {part}
    <2>1. Moved(b, "warm", run[b].todo \ {part}, run[b].result)
      BY <1>1, <1>2, <1>5, GoWithMoves DEF Places
    <2> QED BY <1>2, <1>4, <2>1, EarlyStep, EarlyIsNotOk DEF Early
  <1>6. CASE run[b].todo # {part}
    <2>1. Moved(b, "create", run[b].todo \ {part}, run[b].result)
      BY <1>1, <1>2, <1>6, GoWithMoves DEF Places
    <2> QED BY <1>2, <1>4, <2>1, EarlyStep, EarlyIsNotOk DEF Early
  <1> QED BY <1>5, <1>6

LEMMA CreateFailsInv == ASSUME Inv, NEW b \in Builds, CreateFails(b) PROVE Inv'
  <1>1. /\ At(b, Early) /\ TypeOK /\ Spares(b)
        /\ UNCHANGED <<lock, output>>
    BY SparesUnchanged DEF Inv, CreateFails, At, Early, TypeOK
  <1>2. Moved(b, "scrap", run[b].todo, "template")
    BY <1>1, ConcludeMoves DEF CreateFails, Places, Results, Removing
  <1> QED BY <1>1, <1>2, EarlyStep DEF Early

LEMMA WarmStartsInv == ASSUME Inv, NEW b \in Builds, WarmStarts(b) PROVE Inv'
  <1>1. /\ At(b, Early) /\ TypeOK /\ Spares(b)
        /\ UNCHANGED <<lock, output>>
    BY SparesUnchanged DEF Inv, WarmStarts, At, Early, TypeOK
  <1>2. CASE run' = [run EXCEPT ![b].pc = "warming", ![b].hurt = FALSE]
    <2>1. Moved(b, "warming", run[b].todo, run[b].result)
      BY <1>1, <1>2, CompilerMoves DEF Places, Compiling
    <2> QED BY <1>1, <2>1, EarlyStep, EarlyIsNotOk DEF Early
  <1>3. CASE Conclude(b, "scrap", "template")
    <2>1. Moved(b, "scrap", run[b].todo, "template")
      BY <1>1, <1>3, ConcludeMoves DEF Places, Results, Removing
    <2> QED BY <1>1, <2>1, EarlyStep DEF Early
  <1> QED BY <1>2, <1>3 DEF WarmStarts

LEMMA WarmEndsInv == ASSUME Inv, NEW b \in Builds, WarmEnds(b) PROVE Inv'
  <1>1. At(b, Early) /\ TypeOK /\ Key(b) \in Keys /\ UNCHANGED <<lock, output>>
    BY Commands DEF Inv, WarmEnds, At, Early
  <1>2. CASE /\ template' = [template EXCEPT ![Key(b)].parts = @ \cup {"seed"}]
             /\ Go(b, "recheck")
    <2>1. Spares(b)
      BY <1>1, <1>2 DEF WarmEnds, TypeOK, Spares, Parts
    <2>2. Moved(b, "recheck", run[b].todo, run[b].result)
      BY <1>1, <1>2, GoMoves DEF Places
    <2> QED BY <1>1, <2>1, <2>2, EarlyStep, EarlyIsNotOk DEF Early
  <1>3. CASE Conclude(b, "scrap", "template") /\ UNCHANGED template
    <2>1. Spares(b)
      BY <1>1, <1>3, SparesUnchanged DEF WarmEnds, TypeOK
    <2>2. Moved(b, "scrap", run[b].todo, "template")
      BY <1>1, <1>3, ConcludeMoves DEF Places, Results, Removing
    <2> QED BY <1>1, <2>1, <2>2, EarlyStep DEF Early
  <1> QED BY <1>2, <1>3 DEF WarmEnds

LEMMA RecheckInv == ASSUME Inv, NEW b \in Builds, Recheck(b) PROVE Inv'
  <1>1. /\ At(b, Early) /\ TypeOK /\ Spares(b)
        /\ UNCHANGED <<lock, output>>
    BY SparesUnchanged DEF Inv, Recheck, At, Early, TypeOK
  <1>2. CASE GoWith(b, "prune", Stale(Key(b)))
    <2>1. Stale(Key(b)) \subseteq Keys
      BY DEF Stale
    <2>2. Moved(b, "prune", Stale(Key(b)), run[b].result)
      BY <1>1, <1>2, <2>1, GoWithMoves DEF Places, Removing
    <2> QED BY <1>1, <2>1, <2>2, EarlyStep, EarlyIsNotOk DEF Early
  <1>3. CASE Conclude(b, "scrap", "template")
    <2>1. Moved(b, "scrap", run[b].todo, "template")
      BY <1>1, <1>3, ConcludeMoves DEF Places, Results, Removing
    <2> QED BY <1>1, <2>1, EarlyStep DEF Early
  <1> QED BY <1>2, <1>3 DEF Recheck

LEMMA ReplaceInv == ASSUME Inv, NEW b \in Builds, Replace(b) PROVE Inv'
  <1>1. /\ At(b, Early) /\ TypeOK /\ Cmd(b).agent \in Agents
        /\ UNCHANGED <<lock, template, output, cut, crossed>>
    BY Commands DEF Inv, Replace, At, Early
  <1>2. CASE /\ workspace' = [workspace EXCEPT ![Cmd(b).agent] = Absent]
             /\ Go(b, "check")
    <2>1. Spares(b)
      BY <1>1, <1>2 DEF TypeOK, Spares, Absent, Owners
    <2>2. Moved(b, "check", run[b].todo, run[b].result)
      BY <1>1, <1>2, GoMoves DEF Places
    <2> QED BY <1>1, <2>1, <2>2, EarlyStep, EarlyIsNotOk DEF Early
  <1>3. CASE Conclude(b, "leave", "leftover") /\ UNCHANGED workspace
    <2>1. Spares(b)
      BY <1>1, <1>3, SparesUnchanged DEF TypeOK
    <2>2. Moved(b, "leave", run[b].todo, "leftover")
      BY <1>1, <1>3, ConcludeMoves DEF Places, Results
    <2> QED BY <1>1, <2>1, <2>2, EarlyStep DEF Early
  <1> QED BY <1>2, <1>3 DEF Replace

LEMMA CopyInv == ASSUME Inv, NEW b \in Builds, Copy(b) PROVE Inv'
  <1>1. PICK part \in run[b].todo :
          /\ workspace' = [workspace EXCEPT ![Cmd(b).agent] =
               [there |-> TRUE, parts |-> @.parts \cup ({part} \cap template[Key(b)].parts),
                by |-> @.by]]
          /\ \/ GoWith(b, IF run[b].todo = {part} THEN "rewrite" ELSE "copy",
                       run[b].todo \ {part})
             \/ Conclude(b, AfterCopy(b), "copy")
    BY DEF Copy
  <1>2. /\ At(b, Early) /\ TypeOK /\ run[b].todo \subseteq Source /\ Cmd(b).agent \in Agents
        /\ UNCHANGED <<lock, template, output, cut, crossed>>
    BY Commands DEF Inv, Own, Todo, Copy, At, Early
  <1>3. Spares(b)
    <2>1. workspace[Cmd(b).agent].parts \cup ({part} \cap template[Key(b)].parts) \subseteq Source
      BY <1>2 DEF TypeOK
    <2>2. /\ workspace'[Cmd(b).agent].parts \subseteq Source
          /\ workspace'[Cmd(b).agent].there = TRUE
          /\ workspace'[Cmd(b).agent].by = workspace[Cmd(b).agent].by
          /\ workspace'[Cmd(b).agent] \in [there : BOOLEAN, parts : SUBSET Source, by : Owners]
      BY <1>1, <1>2, <2>1 DEF TypeOK
    <2>3. \A a \in Agents : a # Cmd(b).agent => workspace'[a] = workspace[a]
      BY <1>1, <1>2 DEF TypeOK
    <2>4. workspace' \in [Agents -> [there : BOOLEAN, parts : SUBSET Source, by : Owners]]
      BY <1>1, <1>2, <2>2, <2>3 DEF TypeOK
    <2> QED BY <1>2, <2>2, <2>3, <2>4 DEF TypeOK, Spares
  <1>4. CASE GoWith(b, "rewrite", run[b].todo \ {part})
    <2>1. Moved(b, "rewrite", run[b].todo \ {part}, run[b].result)
      BY <1>2, <1>4, GoWithMoves DEF Places
    <2> QED BY <1>2, <1>3, <2>1, EarlyStep, EarlyIsNotOk DEF Early
  <1>5. CASE GoWith(b, "copy", run[b].todo \ {part})
    <2>1. Moved(b, "copy", run[b].todo \ {part}, run[b].result)
      BY <1>2, <1>5, GoWithMoves DEF Places
    <2> QED BY <1>2, <1>3, <2>1, EarlyStep, EarlyIsNotOk DEF Early
  <1>6. CASE Conclude(b, AfterCopy(b), "copy")
    <2>1. AfterCopy(b) \in {"leave", "tidy"}
      BY DEF AfterCopy
    <2>2. Moved(b, AfterCopy(b), run[b].todo, "copy")
      BY <1>2, <1>6, <2>1, ConcludeMoves DEF Places, Results
    <2> QED BY <1>2, <1>3, <2>1, <2>2, EarlyStep DEF Early
  <1> QED BY <1>1, <1>4, <1>5, <1>6

LEMMA RemoveInv == ASSUME Inv, NEW b \in Builds, Remove(b) PROVE Inv'
  <1>1. /\ At(b, Early) /\ At(b, Removing) /\ TypeOK /\ Key(b) \in Keys
        /\ UNCHANGED <<lock, workspace, output>>
    BY Commands DEF Inv, Remove, At, Early, Removing
  <1> DEFINE k == Victim(b)
  <1>2. k \in Keys
    BY <1>1 DEF Victim, TypeOK
  <1>3.   \/ \E part \in Parts :
               /\ template[k] # Without(template[k], part)
               /\ template' = [template EXCEPT ![k] = Without(@, part)]
               /\ crossed' = crossed \cup Robbed(b, k)
               /\ run' = [c \in Builds |->
                    IF c # b /\ At(c, Compiling) /\ Key(c) = k
                    THEN [run[c] EXCEPT !.hurt = TRUE] ELSE run[c]]
               /\ UNCHANGED cut
          \/ Emptied(b, k) /\ cut' \in {cut \cup {k}, cut \ {k}} /\ UNCHANGED <<template, crossed>>
          \/ /\ Obstructed(b)
             /\ cut' = cut \cup {k}
             /\ crossed' = crossed \cup (IF At(b, {"reset"}) THEN {b} ELSE {})
             /\ UNCHANGED template
    BY DEF Remove
  <1> HIDE DEF k
  <1>4. ASSUME NEW part \in Parts,
               template' = [template EXCEPT ![k] = Without(@, part)],
               crossed' = crossed \cup Robbed(b, k),
               run' = [c \in Builds |->
                  IF c # b /\ At(c, Compiling) /\ Key(c) = k
                  THEN [run[c] EXCEPT !.hurt = TRUE] ELSE run[c]],
               UNCHANGED cut
        PROVE  Inv'
    <2>1. Without(template[k], part) \in [parts : SUBSET Parts, built : [Agents -> Owners]]
      BY <1>1, <1>2 DEF TypeOK, Without, Owners
    <2>2. \A a \in Agents : Without(template[k], part).built[a] \in {template[k].built[a], Nobody}
      BY <1>1, <1>2 DEF Without
    <2>3. crossed' \subseteq Builds
      BY <1>1, <1>4 DEF TypeOK, Robbed
    <2>4. Spares(b)
      BY <1>1, <1>2, <1>4, <2>1, <2>2, <2>3 DEF TypeOK, Spares
    <2>5. Moved(b, run[b].pc, run[b].todo, run[b].result)
      <3>1. \A c \in Builds : [run[c] EXCEPT !.hurt = TRUE] \in Runs /\ run[c] \in Runs
        BY <1>1 DEF TypeOK, Runs
      <3>2. \A c \in Builds : [run[c] EXCEPT !.hurt = TRUE].pc = run[c].pc
                              /\ [run[c] EXCEPT !.hurt = TRUE].cmd = run[c].cmd
                              /\ [run[c] EXCEPT !.hurt = TRUE].todo = run[c].todo
                              /\ [run[c] EXCEPT !.hurt = TRUE].victim = run[c].victim
                              /\ [run[c] EXCEPT !.hurt = TRUE].result = run[c].result
        BY <1>1 DEF TypeOK
      <3>3. \A c \in Builds : run'[c] \in Runs /\ run'[c].pc = run[c].pc
              /\ run'[c].cmd = run[c].cmd /\ run'[c].todo = run[c].todo
              /\ run'[c].victim = run[c].victim
              /\ run'[c].result = run[c].result
        BY <1>4, <3>1, <3>2
      <3>4. run' \in [Builds -> Runs]
        BY <1>4, <3>3
      <3> QED BY <3>3, <3>4 DEF Moved
    <2>6. /\ run[b].pc \in Early
          /\ run[b].pc \in {"create", "copy"} => run[b].todo \subseteq Source
          /\ run[b].pc \in {"prune", "clear"} => run[b].todo \subseteq Keys
      BY <1>1 DEF Inv, Own, Todo, At
    <2> QED BY <1>1, <2>4, <2>5, <2>6, EarlyStep, EarlyIsNotOk
  <1>5. ASSUME Emptied(b, k), cut' \in {cut \cup {k}, cut \ {k}},
               UNCHANGED <<template, crossed>>
        PROVE  Inv'
    <2>1. Spares(b)
      BY <1>1, <1>2, <1>5 DEF TypeOK, Spares
    <2>2. CASE At(b, {"reset"})
      <3>1. Moved(b, "create", Source, run[b].result)
        BY <1>1, <1>5, <2>2, GoWithMoves DEF Emptied, Places, At
      <3> QED BY <1>1, <2>1, <3>1, EarlyStep, EarlyIsNotOk DEF Early
    <2>3. CASE At(b, {"scrap"})
      <3>1. Moved(b, "leave", run[b].todo, run[b].result)
        BY <1>1, <1>5, <2>3, GoMoves DEF Emptied, Places, At
      <3> QED BY <1>1, <2>1, <3>1, EarlyStep, EarlyIsNotOk DEF Early
    <2>4. CASE At(b, {"clear"})
      <3>1. run[b].todo \ {k} \in SUBSET Keys
        BY <2>4 DEF Inv, Own, Todo, At
      <3>2. Moved(b, "prune", run[b].todo \ {k}, run[b].result)
        BY <1>1, <1>5, <2>4, <3>1, GoWithMoves DEF Emptied, Places, Removing, At
      <3> QED BY <1>1, <2>1, <3>1, <3>2, EarlyStep, EarlyIsNotOk DEF Early
    <2> QED BY <1>1, <2>2, <2>3, <2>4 DEF At, Removing
  <1>6. ASSUME Obstructed(b), cut' = cut \cup {k}, UNCHANGED template,
               crossed' = crossed \cup (IF At(b, {"reset"}) THEN {b} ELSE {})
        PROVE  Inv'
    <2>1. Spares(b)
      BY <1>1, <1>2, <1>6 DEF TypeOK, Spares
    <2>2. CASE At(b, {"reset"})
      <3>1. Moved(b, "leave", run[b].todo, "template")
        BY <1>1, <1>6, <2>2, ConcludeMoves DEF Obstructed, Places, Results, At
      <3> QED BY <1>1, <2>1, <3>1, EarlyStep DEF Early
    <2>3. CASE At(b, {"scrap"})
      <3>1. Moved(b, "leave", run[b].todo, run[b].result)
        BY <1>1, <1>6, <2>3, GoMoves DEF Obstructed, Places, At
      <3> QED BY <1>1, <2>1, <3>1, EarlyStep, EarlyIsNotOk DEF Early
    <2>4. CASE At(b, {"clear"})
      <3>1. Moved(b, "copy", Source, run[b].result)
        BY <1>1, <1>6, <2>4, GoWithMoves DEF Obstructed, Places, At
      <3> QED BY <1>1, <2>1, <3>1, EarlyStep, EarlyIsNotOk DEF Early
    <2> QED BY <1>1, <2>2, <2>3, <2>4 DEF At, Removing
  <1> QED BY <1>3, <1>4, <1>5, <1>6

-----------------------------------------------------------------------------
\* Steps outside: before the lock, and after the process is over.
\* A step of b that leaves every file alone and leads out of the work.
LEMMA PassingStep ==
  ASSUME Inv, NEW b \in Builds, NEW pc, NEW todo, NEW result,
         Moved(b, pc, todo, result),
         \/ pc = "killed" /\ Live(b) /\ result = run[b].result
         \/ pc = "over" /\ At(b, {"lock"}) /\ result = "refused"
         \/ pc = "lock" /\ At(b, {"new"}) /\ result = run[b].result,
         UNCHANGED <<lock, workspace, template, output>>,
         cut' \subseteq Keys, UNCHANGED crossed
  PROVE  Inv'
  <1>1. TypeOK'
    BY DEF Inv, TypeOK, Moved, Runs
  <1>2. ASSUME NEW c \in Builds PROVE Own(c)'
    <2> USE DEF At, Moved
    <2>1. Own(c) /\ Cmd(c)' = Cmd(c) /\ Key(c)' = Key(c)
      BY DEF Inv, Cmd, Key
    <2>2. Todo(c)' /\ HoldsLock(c)'
      BY <2>1 DEF Own, Todo, HoldsLock, Holding
    <2>3. LockIsOf(c)'
      BY <2>1 DEF Own, LockIsOf, Holding, Live
    <2>4. WorkspaceIsOf(c)'
      BY <2>1 DEF Own, WorkspaceIsOf, Live
    <2>5. CompilesOwn(c)' /\ BuiltIsOwn(c)'
      BY <2>1 DEF Own, CompilesOwn, BuiltIsOwn
    <2>6. SuccessIsLate(c)' /\ Exported(c)'
      BY <2>1 DEF Own, SuccessIsLate, Exported
    <2> QED BY <2>2, <2>3, <2>4, <2>5, <2>6 DEF Own
  <1> QED BY <1>1, <1>2 DEF Inv

LEMMA StartInv == ASSUME Inv, NEW b \in Builds, Start(b) PROVE Inv'
  <1>1. TypeOK /\ Moved(b, "lock", run[b].todo, run[b].result)
    BY GoMoves DEF Inv, Start, Places
  <1>2. UNCHANGED <<lock, workspace, template, output, cut, crossed>>
    BY DEF Start
  <1> QED BY <1>1, <1>2, PassingStep DEF Start, TypeOK

LEMMA AcquireInv == ASSUME Inv, NEW b \in Builds, Acquire(b) PROVE Inv'
  <1>1. /\ TypeOK /\ At(b, {"lock"}) /\ Cmd(b).agent \in Agents
        /\ UNCHANGED <<workspace, template, output, cut, crossed>>
    BY Commands DEF Inv, Acquire
  <1>2. CASE /\ Unlocked(Cmd(b).agent)
             /\ lock' = [lock EXCEPT ![Cmd(b).agent] = b]
             /\ Go(b, "replace")
    <2>1. Moved(b, "replace", run[b].todo, run[b].result)
      BY <1>1, <1>2, GoMoves DEF Places
    <2>2. TypeOK'
      BY <1>1, <1>2, <2>1 DEF TypeOK, Moved, Runs, Owners
    <2>3. ASSUME NEW c \in Builds PROVE Own(c)'
      <3> USE DEF At, Moved
      <3>1. /\ Own(c) /\ Cmd(c)' = Cmd(c) /\ Key(c)' = Key(c)
            /\ Cmd(c).agent \in Agents /\ run'[c].result = run[c].result
        BY <2>1, Commands DEF Inv, Cmd, Key
      <3>2. At(c, Holding) => Cmd(c).agent # Cmd(b).agent
        BY <1>2, <3>1, BuildAssumption DEF Own, HoldsLock, Unlocked
      <3>3. Todo(c)' /\ SuccessIsLate(c)' /\ Exported(c)'
        BY <1>1, <2>1, <3>1 DEF Own, Todo, SuccessIsLate, Exported
      <3>4. HoldsLock(c)'
        BY <1>1, <1>2, <2>1, <3>1, <3>2 DEF TypeOK, Own, HoldsLock
      <3>5. LockIsOf(c)'
        BY <1>1, <1>2, <2>1, <3>1 DEF TypeOK, Own, LockIsOf, Holding
      <3>6. WorkspaceIsOf(c)' /\ CompilesOwn(c)' /\ BuiltIsOwn(c)'
        BY <1>1, <2>1, <3>1 DEF Own, WorkspaceIsOf, CompilesOwn, BuiltIsOwn
      <3> QED BY <3>3, <3>4, <3>5, <3>6 DEF Own
    <2> QED BY <2>2, <2>3 DEF Inv
  <1>3. CASE Conclude(b, "over", "refused") /\ UNCHANGED lock
    <2>1. Moved(b, "over", run[b].todo, "refused")
      BY <1>1, <1>3, ConcludeMoves DEF Places, Results
    <2> QED BY <1>1, <1>3, <2>1, PassingStep DEF TypeOK
  <1> QED BY <1>2, <1>3 DEF Acquire

LEMMA KilledInv == ASSUME Inv, NEW b \in Builds, Killed(b) PROVE Inv'
  <1>1. TypeOK /\ Moved(b, "killed", run[b].todo, run[b].result)
    BY GoMoves DEF Inv, Killed, Places
  <1>2. UNCHANGED <<lock, workspace, template, output, crossed>>
    BY DEF Killed
  <1>3. Victim(b) \in Keys
    BY <1>1, Commands DEF TypeOK, Victim
  <1>4. cut' \subseteq Keys
    BY <1>1, <1>3 DEF Killed, TypeOK
  <1> QED BY <1>1, <1>2, <1>4, PassingStep DEF Killed

-----------------------------------------------------------------------------
\* Steps with the build's own definition in the workspace.
LEMMA RewriteInv == ASSUME Inv, NEW b \in Builds, Rewrite(b) PROVE Inv'
  <1>1. /\ TypeOK /\ At(b, {"rewrite"}) /\ Cmd(b).agent \in Agents
        /\ UNCHANGED <<lock, template, output, cut, crossed>>
    BY Commands DEF Inv, Rewrite
  <1>2. CASE /\ workspace' = [workspace EXCEPT ![Cmd(b).agent].by = b]
             /\ Go(b, "build")
    <2>1. Moved(b, "build", run[b].todo, run[b].result)
      BY <1>1, <1>2, GoMoves DEF Places
    <2>2. TypeOK'
      <3>1. workspace' \in [Agents -> [there : BOOLEAN, parts : SUBSET Source, by : Owners]]
        <4> DEFINE a == Cmd(b).agent
                   w == [workspace[a] EXCEPT !.by = b]
        <4>1. w \in [there : BOOLEAN, parts : SUBSET Source, by : Owners]
          <5>1. workspace[a] \in [there : BOOLEAN, parts : SUBSET Source, by : Owners]
            BY <1>1 DEF TypeOK
          <5> HIDE DEF a
          <5> QED BY <5>1 DEF Owners
        <4>2. workspace' = [workspace EXCEPT ![a] = w]
          BY <1>2
        <4> HIDE DEF a, w
        <4> QED BY <1>1, <4>1, <4>2 DEF TypeOK
      <3> QED BY <1>1, <2>1, <3>1 DEF TypeOK, Moved, Runs
    <2>3. ASSUME NEW c \in Builds, c # b PROVE Own(c)'
      <3>1. At(b, Holding)
        BY <1>1 DEF At, Holding
      <3>2. LeavesOthers(b) /\ TakesOwn(b)
        BY <1>1, <1>2 DEF LeavesOthers, TakesOwn, TypeOK
      <3> QED BY <2>1, <2>3, <3>1, <3>2, OthersKeep
    <2>4. Own(b)'
      <3> USE DEF At, Moved
      <3>1. Own(b) /\ Cmd(b)' = Cmd(b) /\ run[b].result # "ok"
        BY <1>1, <2>1 DEF Inv, Own, SuccessIsLate, Cmd
      <3>2. Todo(b)' /\ HoldsLock(b)' /\ LockIsOf(b)'
        BY <1>1, <2>1, <3>1 DEF Own, Todo, HoldsLock, LockIsOf, Holding
      <3>3. WorkspaceIsOf(b)' /\ CompilesOwn(b)'
        BY <1>1, <1>2, <2>1, <3>1 DEF Own, WorkspaceIsOf, CompilesOwn, TypeOK
      <3>4. BuiltIsOwn(b)' /\ SuccessIsLate(b)' /\ Exported(b)'
        BY <2>1, <3>1 DEF BuiltIsOwn, SuccessIsLate, Exported
      <3> QED BY <3>2, <3>3, <3>4 DEF Own
    <2> QED BY <2>2, <2>3, <2>4 DEF Inv
  <1>3. CASE Conclude(b, AfterCopy(b), "copy") /\ UNCHANGED workspace
    <2>1. AfterCopy(b) \in {"leave", "tidy"}
      BY DEF AfterCopy
    <2>2. Moved(b, AfterCopy(b), run[b].todo, "copy")
      BY <1>1, <1>3, <2>1, ConcludeMoves DEF Places, Results
    <2>3. At(b, Early) /\ Spares(b)
      BY <1>1, <1>3, SparesUnchanged DEF At, Early, TypeOK
    <2> QED BY <1>1, <2>1, <2>2, <2>3, EarlyStep DEF Early
  <1> QED BY <1>2, <1>3 DEF Rewrite

\* A step of b at work that changes only the template and the output, with
\* the facts about b to be shown.
LEMMA LateStep ==
  ASSUME Inv, NEW b \in Builds, At(b, Holding),
         NEW pc \in Holding \cup {"over"}, NEW todo, NEW result,
         Moved(b, pc, todo, result),
         LeavesOthers(b), TakesOwn(b), TypeOK', Own(b)'
  PROVE  Inv'
  <1>1. ASSUME NEW c \in Builds, c # b PROVE Own(c)'
    BY <1>1, OthersKeep
  <1> QED BY <1>1 DEF Inv

LEMMA BuildStartsInv == ASSUME Inv, NEW b \in Builds, BuildStarts(b) PROVE Inv'
  <1>1. /\ TypeOK /\ At(b, {"build"}) /\ At(b, Holding)
        /\ UNCHANGED <<lock, workspace, template, output, cut, crossed>>
    BY DEF Inv, BuildStarts, At, Holding
  <1>2. LeavesOthers(b) /\ TakesOwn(b)
    BY <1>1 DEF LeavesOthers, TakesOwn
  <1>3. ASSUME NEW pc \in {"building", "tidy"}, NEW result, result # "ok",
               Moved(b, pc, run[b].todo, result)
        PROVE  Inv'
    <2>1. TypeOK'
      BY <1>1, <1>3 DEF TypeOK, Moved, Runs
    <2> USE DEF At, Moved
    <2>2. Own(b) /\ Cmd(b)' = Cmd(b)
      BY <1>3 DEF Inv, Cmd
    <2>3. Todo(b)' /\ HoldsLock(b)' /\ LockIsOf(b)'
      BY <1>1, <1>3, <2>2 DEF Own, Todo, HoldsLock, LockIsOf, Holding
    <2>4. WorkspaceIsOf(b)' /\ CompilesOwn(b)' /\ BuiltIsOwn(b)'
      BY <1>1, <1>3, <2>2 DEF Own, WorkspaceIsOf, CompilesOwn, BuiltIsOwn
    <2>5. SuccessIsLate(b)' /\ Exported(b)'
      BY <1>3 DEF SuccessIsLate, Exported
    <2>6. Own(b)'
      BY <2>3, <2>4, <2>5 DEF Own
    <2> QED BY <1>1, <1>2, <1>3, <2>1, <2>6, LateStep DEF Holding
  <1>4. CASE run' = [run EXCEPT ![b].pc = "building", ![b].hurt = FALSE]
    <2>1. Moved(b, "building", run[b].todo, run[b].result)
      BY <1>1, <1>4, CompilerMoves DEF Places, Compiling
    <2>2. run[b].result # "ok"
      BY <1>1 DEF Inv, Own, SuccessIsLate, At
    <2> QED BY <1>3, <2>1, <2>2
  <1>5. CASE Conclude(b, "tidy", "build")
    <2>1. Moved(b, "tidy", run[b].todo, "build")
      BY <1>1, <1>5, ConcludeMoves DEF Places, Results
    <2> QED BY <1>3, <2>1
  <1> QED BY <1>4, <1>5 DEF BuildStarts

LEMMA BuildEndsInv == ASSUME Inv, NEW b \in Builds, BuildEnds(b) PROVE Inv'
  <1>1. /\ TypeOK /\ At(b, {"building"}) /\ At(b, Holding)
        /\ Cmd(b).agent \in Agents /\ Key(b) \in Keys
        /\ UNCHANGED <<lock, workspace, output, cut, crossed>>
    BY Commands DEF Inv, BuildEnds, At, Holding
  <1>2. Own(b) /\ workspace[Cmd(b).agent].by = b
    BY <1>1 DEF Inv, Own, CompilesOwn, At
  <1>3. ASSUME NEW result \in Results, Conclude(b, "tidy", result), UNCHANGED template,
               result = "ok" => Cmd(b).kind = "check"
        PROVE  Inv'
    <2>1. Moved(b, "tidy", run[b].todo, result)
      BY <1>1, <1>3, ConcludeMoves DEF Places
    <2>2. TypeOK'
      BY <1>1, <1>3, <2>1 DEF TypeOK, Moved, Runs
    <2>3. LeavesOthers(b) /\ TakesOwn(b)
      BY <1>1, <1>3 DEF LeavesOthers, TakesOwn
    <2>4. Own(b)'
      <3> USE DEF At, Moved
      <3>1. Cmd(b)' = Cmd(b)
        BY <2>1 DEF Cmd
      <3>2. Todo(b)' /\ HoldsLock(b)' /\ LockIsOf(b)'
        BY <1>1, <1>2, <2>1, <3>1 DEF Own, Todo, HoldsLock, LockIsOf, Holding
      <3>3. WorkspaceIsOf(b)' /\ CompilesOwn(b)' /\ BuiltIsOwn(b)'
        BY <1>1, <1>2, <2>1, <3>1 DEF Own, WorkspaceIsOf, CompilesOwn, BuiltIsOwn
      <3>4. SuccessIsLate(b)' /\ Exported(b)'
        BY <1>3, <2>1, <3>1 DEF SuccessIsLate, Exported
      <3> QED BY <3>2, <3>3, <3>4 DEF Own
    <2> QED BY <1>1, <2>1, <2>2, <2>3, <2>4, LateStep DEF Holding
  <1>4. ASSUME template' = [template EXCEPT
                 ![Key(b)].built[Cmd(b).agent] = workspace[Cmd(b).agent].by],
               Go(b, "export")
        PROVE  Inv'
    <2>1. Moved(b, "export", run[b].todo, run[b].result)
      BY <1>1, <1>4, GoMoves DEF Places
    <2>2. /\ template' \in [Keys -> [parts : SUBSET Parts, built : [Agents -> Owners]]]
          /\ template'[Key(b)].built[Cmd(b).agent] = b
          /\ \A k \in Keys : \A a \in Agents :
               a # Cmd(b).agent => template'[k].built[a] = template[k].built[a]
      <3>1. [template[Key(b)].built EXCEPT ![Cmd(b).agent] = b] \in [Agents -> Owners]
        BY <1>1 DEF TypeOK, Owners
      <3>2. template' = [template EXCEPT ![Key(b)].built =
                           [template[Key(b)].built EXCEPT ![Cmd(b).agent] = b]]
        BY <1>1, <1>2, <1>4 DEF TypeOK
      <3>3. Key(b) \in Keys /\ Cmd(b).agent \in Agents
            /\ template \in [Keys -> [parts : SUBSET Parts, built : [Agents -> Owners]]]
        BY <1>1, Commands DEF Inv, TypeOK
      <3> QED BY ONLY <3>1, <3>2, <3>3
    <2>3. TypeOK'
      BY <1>1, <2>1, <2>2 DEF TypeOK, Moved, Runs
    <2>4. LeavesOthers(b) /\ TakesOwn(b)
      BY <1>1, <2>2 DEF LeavesOthers, TakesOwn
    <2>5. Own(b)'
      <3> USE DEF At, Moved
      <3>1. Cmd(b)' = Cmd(b) /\ Key(b)' = Key(b) /\ run[b].result # "ok"
        BY <1>1, <1>2, <2>1 DEF Cmd, Key, Own, SuccessIsLate
      <3>2. Todo(b)' /\ HoldsLock(b)' /\ LockIsOf(b)'
        BY <1>1, <1>2, <2>1, <3>1 DEF Own, Todo, HoldsLock, LockIsOf, Holding
      <3>3. WorkspaceIsOf(b)' /\ CompilesOwn(b)'
        BY <1>1, <1>2, <2>1, <3>1 DEF Own, WorkspaceIsOf, CompilesOwn
      <3>4. BuiltIsOwn(b)' /\ SuccessIsLate(b)' /\ Exported(b)'
        BY <2>1, <2>2, <3>1 DEF BuiltIsOwn, SuccessIsLate, Exported
      <3> QED BY <3>2, <3>3, <3>4 DEF Own
    <2> QED BY <1>1, <2>1, <2>3, <2>4, <2>5, LateStep DEF Holding
  <1> QED BY <1>3, <1>4 DEF BuildEnds, Results

LEMMA ExportInv == ASSUME Inv, NEW b \in Builds, Export(b) PROVE Inv'
  <1>1. /\ TypeOK /\ At(b, {"export"}) /\ At(b, Holding)
        /\ Cmd(b).agent \in Agents /\ Key(b) \in Keys
        /\ UNCHANGED <<lock, workspace, template, cut, crossed>>
    BY Commands DEF Inv, Export, At, Holding
  <1>2. Own(b)
    BY DEF Inv
  <1>3. ASSUME NEW result \in Results, Conclude(b, "tidy", result),
               output' \in [Agents -> Owners],
               \A a \in Agents : a # Cmd(b).agent => output'[a] = output[a],
               result = "ok" => output'[Cmd(b).agent] = b
        PROVE  Inv'
    <2>1. Moved(b, "tidy", run[b].todo, result)
      BY <1>1, <1>3, ConcludeMoves DEF Places
    <2>2. TypeOK'
      BY <1>1, <1>3, <2>1 DEF TypeOK, Moved, Runs
    <2>3. LeavesOthers(b) /\ TakesOwn(b)
      BY <1>1, <1>3 DEF LeavesOthers, TakesOwn
    <2>4. Own(b)'
      <3> USE DEF At, Moved
      <3>1. Cmd(b)' = Cmd(b)
        BY <2>1 DEF Cmd
      <3>2. Todo(b)' /\ HoldsLock(b)' /\ LockIsOf(b)'
        BY <1>1, <1>2, <2>1, <3>1 DEF Own, Todo, HoldsLock, LockIsOf, Holding
      <3>3. WorkspaceIsOf(b)' /\ CompilesOwn(b)' /\ BuiltIsOwn(b)'
        BY <1>1, <1>2, <2>1, <3>1 DEF Own, WorkspaceIsOf, CompilesOwn, BuiltIsOwn
      <3>4. SuccessIsLate(b)' /\ Exported(b)'
        BY <1>3, <2>1, <3>1 DEF SuccessIsLate, Exported
      <3> QED BY <3>2, <3>3, <3>4 DEF Own
    <2> QED BY <1>1, <2>1, <2>2, <2>3, <2>4, LateStep DEF Holding
  <1>4. CASE UNCHANGED output /\ \E why \in {"missing", "taken"} : Conclude(b, "tidy", why)
    BY <1>1, <1>3, <1>4 DEF TypeOK, Results
  <1>5. CASE /\ template[Key(b)].built[Cmd(b).agent] # Nobody
             /\ output' = [output EXCEPT ![Cmd(b).agent] =
                             template[Key(b)].built[Cmd(b).agent]]
             /\ Conclude(b, "tidy", "ok")
    <2>1. template[Key(b)].built[Cmd(b).agent] = b
      BY <1>1, <1>2, <1>5 DEF Own, BuiltIsOwn, At
    <2>2. output' \in [Agents -> Owners] /\ output'[Cmd(b).agent] = b
      BY <1>1, <1>5, <2>1 DEF TypeOK, Owners
    <2>3. \A a \in Agents : a # Cmd(b).agent => output'[a] = output[a]
      BY <1>1, <1>5 DEF TypeOK
    <2> QED BY <1>3, <1>5, <2>2, <2>3 DEF Results
  <1> QED BY <1>4, <1>5 DEF Export

LEMMA TidyInv == ASSUME Inv, NEW b \in Builds, Tidy(b) PROVE Inv'
  <1>1. /\ TypeOK /\ At(b, {"tidy"}) /\ At(b, Holding) /\ Cmd(b).agent \in Agents
        /\ UNCHANGED <<lock, template, output, cut, crossed>>
    BY Commands DEF Inv, Tidy, At, Holding
  <1>2. Own(b)
    BY DEF Inv
  <1>3. Moved(b, "leave", run[b].todo, run[b].result)
    BY <1>1, GoMoves DEF Tidy, Places
  <1>4. TypeOK'
    BY <1>1, <1>3 DEF Tidy, TypeOK, Moved, Runs, Absent, Owners
  <1>5. /\ LeavesOthers(b) /\ TakesOwn(b)
        /\ Cmd(b).keep \/ workspace'[Cmd(b).agent].by = Nobody
    BY <1>1 DEF Tidy, TypeOK, LeavesOthers, TakesOwn, Absent
  <1>6. Own(b)'
    <2> USE DEF At, Moved
    <2>1. Cmd(b)' = Cmd(b)
      BY <1>3 DEF Cmd
    <2>2. Todo(b)' /\ HoldsLock(b)' /\ LockIsOf(b)'
      BY <1>1, <1>2, <1>3, <2>1 DEF Own, Todo, HoldsLock, LockIsOf, Holding
    <2>3. WorkspaceIsOf(b)'
      <3>1. \A a \in Agents : workspace'[a].by = b => Cmd(b).agent = a
        BY <1>1, <1>2, <1>5 DEF Own, WorkspaceIsOf, LeavesOthers
      <3>2. \A a \in Agents : workspace'[a].by = b => Cmd(b).keep
        BY <1>5, <3>1, BuildAssumption
      <3> QED BY <1>3, <2>1, <3>1, <3>2 DEF WorkspaceIsOf
    <2>4. CompilesOwn(b)' /\ BuiltIsOwn(b)' /\ SuccessIsLate(b)' /\ Exported(b)'
      BY <1>1, <1>2, <1>3, <2>1 DEF Own, CompilesOwn, BuiltIsOwn, SuccessIsLate, Exported
    <2> QED BY <2>2, <2>3, <2>4 DEF Own
  <1> QED BY <1>1, <1>3, <1>4, <1>5, <1>6, LateStep DEF Holding

LEMMA LeaveInv == ASSUME Inv, NEW b \in Builds, Leave(b) PROVE Inv'
  <1>1. /\ TypeOK /\ At(b, {"leave"}) /\ At(b, Holding) /\ Cmd(b).agent \in Agents
        /\ lock' = [lock EXCEPT ![Cmd(b).agent] = Nobody]
        /\ UNCHANGED <<workspace, template, output, cut, crossed>>
    BY Commands DEF Inv, Leave, At, Holding
  <1>2. Own(b)
    BY DEF Inv
  <1>3. Moved(b, "over", run[b].todo, run[b].result)
    BY <1>1, GoMoves DEF Leave, Places
  <1>4. TypeOK'
    BY <1>1, <1>3 DEF TypeOK, Moved, Runs, Owners
  <1>5. LeavesOthers(b) /\ TakesOwn(b)
    BY <1>1 DEF TypeOK, LeavesOthers, TakesOwn
  <1>6. Own(b)'
    <2> USE DEF At, Moved
    <2>1. Cmd(b)' = Cmd(b)
      BY <1>3 DEF Cmd
    <2>2. \A a \in Agents : lock'[a] # b
      BY <1>1, <1>2, BuildAssumption DEF TypeOK, Own, LockIsOf
    <2>3. Todo(b)' /\ HoldsLock(b)' /\ LockIsOf(b)'
      BY <1>3, <2>2 DEF Todo, HoldsLock, LockIsOf, Holding
    <2>4. WorkspaceIsOf(b)' /\ CompilesOwn(b)'
      BY <1>1, <1>2, <1>3, <2>1 DEF Own, WorkspaceIsOf, CompilesOwn
    <2>5. BuiltIsOwn(b)' /\ SuccessIsLate(b)' /\ Exported(b)'
      BY <1>1, <1>2, <1>3, <2>1 DEF Own, BuiltIsOwn, SuccessIsLate, Exported
    <2> QED BY <2>3, <2>4, <2>5 DEF Own
  <1> QED BY <1>1, <1>3, <1>4, <1>5, <1>6, LateStep DEF Holding

-----------------------------------------------------------------------------
LEMMA StepInv == ASSUME Inv, [Next]_vars PROVE Inv'
  <1>1. CASE UNCHANGED vars
    BY <1>1 DEF vars, Inv, Own, TypeOK, Todo, HoldsLock, LockIsOf, WorkspaceIsOf,
       CompilesOwn, BuiltIsOwn, SuccessIsLate, Exported, At, Cmd, Key
  <1>2. ASSUME NEW b \in Builds, Start(b) \/ Step(b) \/ Killed(b) PROVE Inv'
    BY <1>2, StartInv, KilledInv, AcquireInv, ReplaceInv, CheckInv, RemoveInv, PruneInv, PrunedInv,
       CreateInv, CreateFailsInv, WarmStartsInv, WarmEndsInv, RecheckInv, CopyInv,
       RewriteInv, BuildStartsInv, BuildEndsInv, ExportInv, TidyInv, LeaveInv DEF Step
  <1> QED BY <1>1, <1>2 DEF Next

\* Inv is inductive, for any number of builds, agents and templates: who holds a
\* lock, which build a workspace belongs to and with whose definition, where
\* the binary is between compile and export, and what each place still has to do.
THEOREM Invariance == Spec => []Inv
  BY InitInv, StepInv, PTL DEF Spec

\* Every variable has its type, and the parts left to write or remove are of
\* the kind the place asks for: no step of a build leads outside its states.
THEOREM TypeCorrect == Spec => []TypeOK
  <1>1. Inv => TypeOK
    BY DEF Inv
  <1> QED BY <1>1, Invariance, PTL

\* A build that reports success has left its own binary at the output, for
\* any number of builds of any agents that share templates (export_binary,
\* hatch_pipeline.rs).
THEOREM ExportOwn == Spec => []ExportIsOwn
  <1>1. Inv => ExportIsOwn
    BY DEF Inv, Own, Exported, ExportIsOwn
  <1> QED BY <1>1, Invariance, PTL

\* A build that ended has removed its lock and tidied its workspace, unless
\* told to keep it or its project build could not copy the template
\* (AgentLockGuard, finalize_workspace).
THEOREM EndClean == Spec => []EndsClean
  <1>1. Inv => EndsClean
    <2> SUFFICES ASSUME Inv, NEW b \in Builds, At(b, {"over"})
                 PROVE  /\ lock[Cmd(b).agent] # b
                        /\ workspace[Cmd(b).agent].by = b => Cmd(b).keep \/ run[b].result = "copy"
        BY DEF EndsClean
    <2>1. Cmd(b).agent \in Agents /\ Own(b)
      BY Commands DEF Inv
    <2> QED BY <2>1 DEF Own, LockIsOf, WorkspaceIsOf, At, Holding
  <1> QED BY <1>1, Invariance, PTL

-----------------------------------------------------------------------------
(***************************************************************************)
(* What builds do to each other's templates.  ReadyIsWhole and             *)
(* FailuresExplained are not inductive.  Shared adds that a seed stands on *)
(* the whole source of its template and a compiler works on it, but for a  *)
(* template that is being removed or was cut short, and for each build     *)
(* what it has written, found and copied, unless another one crossed it.   *)
(***************************************************************************)

\* A seed binary is there only with the files it was compiled from.
SeedIsWhole(k) ==
  "seed" \in template[k].parts =>
    Whole(k) \/ k \in cut \/ \E b \in Builds : Removes(b, k)

\* A compiler at work in a template has its files.
WarmsWhole(b) ==
  At(b, {"warming"}) =>
    \/ Source \subseteq template[Key(b)].parts
    \/ Key(b) \in cut
    \/ \E c \in Builds : Removes(c, Key(b))

\* The build may fail through no fault of its own: another one took parts of
\* its template, or the template looks ready and was cut short or is going.
Excused(b) ==
  \/ b \in crossed
  \/ /\ Ready(Key(b))
     /\ Key(b) \in cut \/ \E c \in Builds \ {b} : Removes(c, Key(b))

\* What is pruned is of another compiler or binary.
PrunesStale(b) ==
  /\ At(b, {"prune", "clear"}) => run[b].todo \subseteq Stale(Key(b))
  /\ At(b, {"clear"}) => run[b].victim \in Stale(Key(b))

\* What the build has written into its template is there.
Made(b) ==
  \/ b \in crossed
  \/ /\ At(b, {"create"}) => Source \ run[b].todo \subseteq template[Key(b)].parts
     /\ At(b, {"warm", "warming", "recheck"}) => Source \subseteq template[Key(b)].parts
     /\ At(b, {"recheck"}) => "seed" \in template[Key(b)].parts

\* A compiler lost files only to another build.
HurtByOthers(b) == At(b, Compiling) /\ run[b].hurt => b \in crossed

\* The template that the build goes on to use is whole.
Served(b) == At(b, {"prune", "clear", "copy"}) => Excused(b) \/ Whole(Key(b))

\* What the build has copied into its workspace is there.
Copied(b) ==
  \/ Excused(b)
  \/ /\ At(b, {"copy"}) => Source \ run[b].todo \subseteq workspace[Cmd(b).agent].parts
     /\ At(b, {"rewrite", "build"}) => Source \subseteq workspace[Cmd(b).agent].parts

\* The compiled binary stays until it is exported.
BuiltStays(b) ==
  At(b, {"export"}) => b \in crossed \/ template[Key(b)].built[Cmd(b).agent] = b

\* How a build has failed, and whose fault it is.
Failed(b) ==
  /\ At(b, {"scrap"}) => run[b].result = "template"
  /\ ~At(b, {"scrap", "tidy", "leave", "over", "killed"}) => run[b].result = "none"
  /\ Live(b) /\ run[b].result \in {"template", "missing"} => b \in crossed
  /\ Live(b) /\ run[b].result \in {"copy", "build"} => Excused(b)

Told(b) ==
  /\ PrunesStale(b)
  /\ Made(b)
  /\ HurtByOthers(b)
  /\ Served(b)
  /\ Copied(b)
  /\ BuiltStays(b)
  /\ Failed(b)

Shared ==
  /\ Inv
  /\ \A k \in Keys : SeedIsWhole(k)
  /\ \A b \in Builds : WarmsWhole(b) /\ Told(b)

LEMMA InitShared == Init => Shared
  <1> SUFFICES ASSUME Init PROVE Shared
      OBVIOUS
  <1>1. \A b \in Builds : run[b].pc = "new" /\ run[b].result = "none"
    BY DEF Init
  <1>2. \A k \in Keys : template[k].parts \in {{}, Parts}
    BY DEF Init
  <1>3. \A k \in Keys : SeedIsWhole(k)
    BY <1>2 DEF SeedIsWhole, Whole
  <1>4. \A b \in Builds : WarmsWhole(b) /\ Told(b)
    BY <1>1 DEF WarmsWhole, Told, PrunesStale, Made, HurtByOthers, Served, Copied,
       BuiltStays, Failed, At, Compiling, Live
  <1> QED BY <1>3, <1>4, InitInv DEF Shared

-----------------------------------------------------------------------------
\* A build that a step leaves where it was.
Stays(c) ==
  /\ run'[c].pc = run[c].pc
  /\ run'[c].cmd = run[c].cmd
  /\ run'[c].todo = run[c].todo
  /\ run'[c].victim = run[c].victim
  /\ run'[c].result = run[c].result

LEMMA StaysPut ==
  ASSUME NEW c \in Builds, Stays(c)
  PROVE  /\ \A places : At(c, places)' <=> At(c, places)
         /\ Cmd(c)' = Cmd(c) /\ Key(c)' = Key(c) /\ Live(c)' = Live(c)
         /\ \A k : Removes(c, k)' <=> Removes(c, k)
  BY DEF Stays, At, Cmd, Key, Live, Removes, Victim

\* What a step of b does to the template of k: it only adds to it and is not
\* leaving it half removed,
Keeps(b, k) ==
  /\ template[k].parts \subseteq template'[k].parts
  /\ "seed" \in template'[k].parts =>
       "seed" \in template[k].parts \/ (At(b, {"warming"}) /\ Key(b) = k)
  /\ \A a \in Agents :
       \/ template'[k].built[a] = template[k].built[a]
       \/ At(b, {"building"}) /\ a = Cmd(b).agent
  /\ k \in cut => k \in cut'
  /\ Removes(b, k) => k \in cut' \/ Removes(b, k)'

\* takes something of it away and goes on,
Takes(b, k) ==
  /\ Removes(b, k) /\ Removes(b, k)'
  /\ Robbed(b, k) \subseteq crossed'

\* or finds that nothing is left.
Clears(b, k) ==
  /\ Removes(b, k)
  /\ template[k].parts = {} /\ template'[k] = template[k]
  /\ Contended(b, k) => k \in cut'

\* What a step of b is to the other builds.
Frame(b) ==
  /\ \A c \in Builds \ {b} :
       /\ Stays(c)
       /\ run'[c].hurt => run[c].hurt \/ c \in crossed'
       /\ At(c, Holding) => workspace'[Cmd(c).agent] = workspace[Cmd(c).agent]
  /\ crossed \subseteq crossed'
  /\ \A k \in Keys : Keeps(b, k) \/ Takes(b, k) \/ Clears(b, k)

\* A step of b that moves only b.
LEMMA MovesAlone ==
  ASSUME TypeOK, NEW b \in Builds, NEW r, run' = [run EXCEPT ![b] = r],
         NEW c \in Builds, c # b
  PROVE  Stays(c) /\ run'[c].hurt = run[c].hurt
  BY DEF TypeOK, Stays

\* The steps of a build that removes nothing.
LEMMA QuietMoves ==
  ASSUME TypeOK, NEW b \in Builds, Start(b) \/ Step(b) \/ Killed(b), ~Remove(b)
  PROVE  \E r : run' = [run EXCEPT ![b] = r]
  <1>1. ASSUME NEW pc, Go(b, pc) PROVE \E r : run' = [run EXCEPT ![b] = r]
    <2>1. run' = [run EXCEPT ![b] = [run[b] EXCEPT !.pc = pc]]
      BY <1>1 DEF Go
    <2> QED BY <2>1
  <1>2. ASSUME NEW pc, NEW todo, GoWith(b, pc, todo)
        PROVE  \E r : run' = [run EXCEPT ![b] = r]
    <2>1. run' = [run EXCEPT ![b] = [run[b] EXCEPT !.pc = pc, !.todo = todo]]
      BY <1>2 DEF GoWith
    <2> QED BY <2>1
  <1>3. ASSUME NEW pc, NEW why, Conclude(b, pc, why)
        PROVE  \E r : run' = [run EXCEPT ![b] = r]
    <2>1. run' = [run EXCEPT ![b] = [run[b] EXCEPT !.pc = pc, !.result = why]]
      BY <1>3 DEF Conclude
    <2> QED BY <2>1
  <1>4. ASSUME NEW pc, run' = [run EXCEPT ![b].pc = pc, ![b].hurt = FALSE]
        PROVE  \E r : run' = [run EXCEPT ![b] = r]
    <2>1. run' = [run EXCEPT ![b] = [run[b] EXCEPT !.pc = pc, !.hurt = FALSE]]
      BY <1>4
    <2> QED BY <2>1
  <1>5. ASSUME NEW k, run' = [run EXCEPT ![b].pc = "clear", ![b].victim = k]
        PROVE  \E r : run' = [run EXCEPT ![b] = r]
    <2>1. run' = [run EXCEPT ![b] = [run[b] EXCEPT !.pc = "clear", !.victim = k]]
      BY <1>5
    <2> QED BY <2>1
  <1>6. CASE Start(b) \/ Acquire(b) \/ Replace(b) \/ Check(b) \/ Killed(b)
    BY <1>1, <1>2, <1>3, <1>6 DEF Start, Acquire, Replace, Check, Killed
  <1>7. CASE Prune(b) \/ Pruned(b) \/ Create(b) \/ CreateFails(b)
    BY <1>2, <1>3, <1>5, <1>7 DEF Prune, Pruned, Create, CreateFails
  <1>8. CASE WarmStarts(b) \/ WarmEnds(b) \/ Recheck(b)
    BY <1>1, <1>2, <1>3, <1>4, <1>8 DEF WarmStarts, WarmEnds, Recheck
  <1>9. CASE Copy(b) \/ Rewrite(b) \/ BuildStarts(b) \/ BuildEnds(b)
    BY <1>1, <1>2, <1>3, <1>4, <1>9 DEF Copy, Rewrite, BuildStarts, BuildEnds
  <1>10. CASE Export(b) \/ Tidy(b) \/ Leave(b)
    BY <1>1, <1>3, <1>10 DEF Export, Tidy, Leave
  <1> QED BY <1>6, <1>7, <1>8, <1>9, <1>10 DEF Step

\* The workspace of another build at work is left alone.
LEMMA WorkspaceStays ==
  ASSUME Inv, NEW b \in Builds, Start(b) \/ Step(b) \/ Killed(b),
         NEW c \in Builds \ {b}, At(c, Holding)
  PROVE  workspace'[Cmd(c).agent] = workspace[Cmd(c).agent]
  <1>1. TypeOK /\ Cmd(b).agent \in Agents
    BY Commands DEF Inv
  <1>2. CASE UNCHANGED workspace
    BY <1>2
  <1>3. ASSUME Replace(b) \/ Copy(b) \/ Rewrite(b) \/ Tidy(b)
        PROVE  workspace'[Cmd(c).agent] = workspace[Cmd(c).agent]
    <2>1. At(b, Holding)
      BY <1>3 DEF Replace, Copy, Rewrite, Tidy, At, Holding
    <2>2. Cmd(c).agent # Cmd(b).agent
      BY <2>1, OneAtWork
    <2>3. \/ UNCHANGED workspace
          \/ \E w : workspace' = [workspace EXCEPT ![Cmd(b).agent] = w]
      <3>1. CASE Replace(b) \/ Tidy(b)
        BY <3>1 DEF Replace, Tidy
      <3>2. CASE Copy(b)
        BY <3>2 DEF Copy
      <3>3. CASE Rewrite(b)
        <4>1. CASE UNCHANGED workspace
          BY <4>1
        <4>2. CASE workspace' = [workspace EXCEPT ![Cmd(b).agent].by = b]
          <5>1. workspace' = [workspace EXCEPT ![Cmd(b).agent] =
                                [workspace[Cmd(b).agent] EXCEPT !.by = b]]
            BY <4>2
          <5> QED BY <5>1
        <4> QED BY <3>3, <4>1, <4>2 DEF Rewrite
      <3> QED BY <1>3, <3>1, <3>2, <3>3
    <2> QED BY <1>1, <2>2, <2>3, Commands DEF TypeOK
  <1>4. ASSUME \/ Start(b) \/ Acquire(b) \/ Check(b) \/ Remove(b) \/ Prune(b) \/ Pruned(b)
               \/ Create(b) \/ CreateFails(b) \/ WarmStarts(b) \/ WarmEnds(b) \/ Recheck(b)
        PROVE  UNCHANGED workspace
    BY <1>4 DEF Start, Acquire, Check, Remove, Prune, Pruned, Create, CreateFails,
       WarmStarts, WarmEnds, Recheck
  <1>5. ASSUME BuildStarts(b) \/ BuildEnds(b) \/ Export(b) \/ Leave(b) \/ Killed(b)
        PROVE  UNCHANGED workspace
    BY <1>5 DEF BuildStarts, BuildEnds, Export, Leave, Killed
  <1> QED BY <1>2, <1>3, <1>4, <1>5 DEF Step

\* Steps that leave the templates alone.
LEMMA KeepsAll ==
  ASSUME NEW b \in Builds, UNCHANGED <<template, cut>>, ~At(b, Removing), NEW k \in Keys
  PROVE  Keeps(b, k)
  BY DEF Keeps, Removes

\* What a removal does to the templates and to the builds at work there.
LEMMA RemoveFrame ==
  ASSUME Inv, NEW b \in Builds, Remove(b), PrunesStale(b)
  PROVE  /\ \A c \in Builds \ {b} :
              Stays(c) /\ (run'[c].hurt => run[c].hurt \/ c \in crossed')
         /\ crossed \subseteq crossed'
         /\ \A k \in Keys : Keeps(b, k) \/ Takes(b, k) \/ Clears(b, k)
  <1>0. PICK v \in Keys : v = Victim(b)
    BY Commands DEF Inv, TypeOK, Victim
  <1>1. /\ TypeOK /\ Removes(b, v) /\ At(b, Removing)
        /\ \A k : Removes(b, k) => k = v
    BY <1>0 DEF Inv, Remove, Removes
  <1>2. \/ \E part \in Parts :
             /\ template' = [template EXCEPT ![v] = Without(@, part)]
             /\ crossed' = crossed \cup Robbed(b, v)
             /\ run' = [c \in Builds |->
                  IF c # b /\ At(c, Compiling) /\ Key(c) = v
                  THEN [run[c] EXCEPT !.hurt = TRUE] ELSE run[c]]
             /\ UNCHANGED cut
        \/ /\ Empty(v)
           /\ Emptied(b, v)
           /\ cut' = IF Contended(b, v) THEN cut \cup {v} ELSE cut \ {v}
           /\ UNCHANGED <<template, crossed>>
        \/ /\ Obstructed(b)
           /\ cut' = cut \cup {v}
           /\ crossed' = crossed \cup (IF At(b, {"reset"}) THEN {b} ELSE {})
           /\ UNCHANGED template
    BY <1>0 DEF Remove
  <1>3. ASSUME NEW r, run' = [run EXCEPT ![b] = r], NEW c \in Builds \ {b}
        PROVE  Stays(c) /\ (run'[c].hurt => run[c].hurt \/ c \in crossed')
    BY <1>1, <1>3, MovesAlone
  <1>4. ASSUME NEW part \in Parts,
               template' = [template EXCEPT ![v] = Without(@, part)],
               crossed' = crossed \cup Robbed(b, v),
               run' = [c \in Builds |->
                 IF c # b /\ At(c, Compiling) /\ Key(c) = v
                 THEN [run[c] EXCEPT !.hurt = TRUE] ELSE run[c]],
               UNCHANGED cut
        PROVE  /\ \A c \in Builds \ {b} :
                    Stays(c) /\ (run'[c].hurt => run[c].hurt \/ c \in crossed')
               /\ crossed \subseteq crossed'
               /\ \A k \in Keys : Keeps(b, k) \/ Takes(b, k) \/ Clears(b, k)
    <2>1. ASSUME NEW c \in Builds \ {b} PROVE Stays(c)
      <3>1. run'[c] \in {run[c], [run[c] EXCEPT !.hurt = TRUE]}
        BY <1>4
      <3>2. run[c] \in Runs
        BY <1>1 DEF TypeOK, Runs
      <3> QED BY <3>1, <3>2 DEF Stays, Runs
    <2>2. ASSUME NEW c \in Builds \ {b}, run'[c].hurt
          PROVE  run[c].hurt \/ c \in crossed'
      <3>1. CASE At(c, Compiling) /\ Key(c) = v
        <4>1. At(c, Compiling) => Live(c)
          BY DEF At, Compiling, Live
        <4>2. Key(b) = v \/ Parent[Key(b)] # Parent[v]
          BY <1>0, <1>1 DEF Victim, PrunesStale, Stale
        <4> QED BY <1>4, <3>1, <4>1, <4>2 DEF Robbed
      <3>2. CASE ~(At(c, Compiling) /\ Key(c) = v)
        BY <1>4, <2>2, <3>2
      <3> QED BY <3>1, <3>2
    <2>3. Removes(b, v)'
      <3>1. run'[b] = run[b]
        BY <1>4
      <3> QED BY <1>0, <1>1, <3>1 DEF Removes, Victim, At, Key, Cmd
    <2>4. Takes(b, v)
      BY <1>1, <1>4, <2>3 DEF Takes
    <2>5. ASSUME NEW k \in Keys, k # v PROVE Keeps(b, k)
      <3>1. template'[k] = template[k] /\ ~Removes(b, k)
        BY <1>1, <1>4, <2>5 DEF TypeOK
      <3> QED BY <1>4, <3>1 DEF Keeps
    <2> QED BY <1>4, <2>1, <2>2, <2>4, <2>5
  <1>5. ASSUME Empty(v), Emptied(b, v), UNCHANGED <<template, crossed>>,
               cut' = IF Contended(b, v) THEN cut \cup {v} ELSE cut \ {v}
        PROVE  /\ \E r : run' = [run EXCEPT ![b] = r]
               /\ crossed \subseteq crossed'
               /\ \A k \in Keys : Keeps(b, k) \/ Takes(b, k) \/ Clears(b, k)
    <2>1. \E r : run' = [run EXCEPT ![b] = r]
      <3>1. \/ run' = [run EXCEPT ![b] = [run[b] EXCEPT !.pc = "create", !.todo = Source]]
            \/ run' = [run EXCEPT ![b] = [run[b] EXCEPT !.pc = "leave"]]
            \/ run' = [run EXCEPT ![b] =
                         [run[b] EXCEPT !.pc = "prune", !.todo = run[b].todo \ {v}]]
        BY <1>5 DEF Emptied, Go, GoWith
      <3> QED BY <3>1
    <2>2. Clears(b, v)
      BY <1>1, <1>5 DEF Clears, Empty
    <2>3. ASSUME NEW k \in Keys, k # v PROVE Keeps(b, k)
      BY <1>1, <1>5, <2>3 DEF Keeps
    <2> QED BY <1>5, <2>1, <2>2, <2>3
  <1>6. ASSUME Obstructed(b), cut' = cut \cup {v}, UNCHANGED template,
               crossed' = crossed \cup (IF At(b, {"reset"}) THEN {b} ELSE {})
        PROVE  /\ \E r : run' = [run EXCEPT ![b] = r]
               /\ crossed \subseteq crossed'
               /\ \A k \in Keys : Keeps(b, k) \/ Takes(b, k) \/ Clears(b, k)
    <2>1. \E r : run' = [run EXCEPT ![b] = r]
      <3>1. \/ run' = [run EXCEPT ![b] =
                         [run[b] EXCEPT !.pc = "leave", !.result = "template"]]
            \/ run' = [run EXCEPT ![b] = [run[b] EXCEPT !.pc = "leave"]]
            \/ run' = [run EXCEPT ![b] = [run[b] EXCEPT !.pc = "copy", !.todo = Source]]
        BY <1>6 DEF Obstructed, Go, GoWith, Conclude
      <3> QED BY <3>1
    <2>2. ASSUME NEW k \in Keys PROVE Keeps(b, k)
      BY <1>1, <1>6, <2>2 DEF Keeps
    <2> QED BY <1>6, <2>1, <2>2
  <1> QED BY <1>2, <1>3, <1>4, <1>5, <1>6

LEMMA StepFrame ==
  ASSUME Inv, NEW b \in Builds, PrunesStale(b), Start(b) \/ Step(b) \/ Killed(b)
  PROVE  Frame(b)
  <1>1. TypeOK /\ Key(b) \in Keys /\ Cmd(b).agent \in Agents
    BY Commands DEF Inv
  <1>2. CASE Remove(b)
    BY <1>2, RemoveFrame, WorkspaceStays DEF Frame, Step
  <1>3. CASE ~Remove(b)
    <2>1. ASSUME NEW c \in Builds \ {b} PROVE Stays(c) /\ run'[c].hurt = run[c].hurt
      BY <1>1, <1>3, QuietMoves, MovesAlone
    <2>2. crossed \subseteq crossed' /\ \A k \in Keys : Keeps(b, k)
      <3>1. ASSUME \/ Start(b) \/ Acquire(b) \/ Replace(b) \/ Check(b) \/ Prune(b)
                   \/ Pruned(b) \/ WarmStarts(b)
            PROVE  ~At(b, Removing) /\ UNCHANGED <<template, cut, crossed>>
        BY <3>1 DEF Start, Acquire, Replace, Check, Prune, Pruned, WarmStarts, At, Removing
      <3>2. ASSUME \/ Recheck(b) \/ Copy(b) \/ Rewrite(b) \/ BuildStarts(b)
                   \/ Export(b) \/ Tidy(b) \/ Leave(b)
            PROVE  ~At(b, Removing) /\ UNCHANGED <<template, cut, crossed>>
        BY <3>2 DEF Recheck, Copy, Rewrite, BuildStarts, Export, Tidy, Leave, At, Removing
      <3>3. CASE CreateFails(b)
        BY <3>3, KeepsAll DEF CreateFails, At, Removing
      <3>4. CASE Killed(b)
        BY <3>4 DEF Killed, Keeps, Removes
      <3>5. CASE Create(b) \/ WarmEnds(b)
        <4>1. /\ At(b, {"create", "warming"}) /\ ~At(b, Removing)
              /\ UNCHANGED <<cut, crossed>>
          BY <3>5 DEF Create, WarmEnds, At, Removing
        <4>2. \/ UNCHANGED template
              \/ \E part \in run[b].todo :
                    /\ template' = [template EXCEPT ![Key(b)].parts = @ \cup {part}]
                    /\ At(b, {"create"})
              \/ /\ template' = [template EXCEPT ![Key(b)].parts = @ \cup {"seed"}]
                 /\ At(b, {"warming"})
          BY <3>5 DEF Create, WarmEnds
        <4>3. At(b, {"create"}) => "seed" \notin run[b].todo
          BY DEF Inv, Own, Todo, At, Source
        <4>4. \/ UNCHANGED template
              \/ \E part : /\ template' = [template EXCEPT ![Key(b)].parts = @ \cup {part}]
                           /\ part = "seed" => At(b, {"warming"})
          BY <4>2, <4>3
        <4>5. ASSUME NEW k \in Keys PROVE Keeps(b, k)
          <5>1. CASE UNCHANGED template
            BY <4>1, <5>1, KeepsAll
          <5>2. ASSUME NEW part, part = "seed" => At(b, {"warming"}),
                       template' = [template EXCEPT ![Key(b)].parts = @ \cup {part}]
                PROVE  Keeps(b, k)
            <6>1. /\ template'[k].built = template[k].built
                  /\ k # Key(b) => template'[k].parts = template[k].parts
                  /\ k = Key(b) => template'[k].parts = template[k].parts \cup {part}
              BY <1>1, <5>2 DEF TypeOK
            <6> QED BY <4>1, <5>2, <6>1 DEF Keeps, Removes
          <5> QED BY <4>4, <5>1, <5>2
        <4> QED BY <4>1, <4>5
      <3>6. CASE BuildEnds(b)
        <4>1. /\ ~At(b, Removing) /\ UNCHANGED <<cut, crossed>> /\ At(b, {"building"})
          BY <3>6 DEF BuildEnds, At, Removing
        <4>2. \/ UNCHANGED template
              \/ \E w : template' = [template EXCEPT ![Key(b)].built[Cmd(b).agent] = w]
          BY <3>6 DEF BuildEnds
        <4>3. ASSUME NEW k \in Keys PROVE Keeps(b, k)
          <5>1. CASE UNCHANGED template
            BY <4>1, <5>1, KeepsAll
          <5>2. ASSUME NEW w,
                       template' = [template EXCEPT ![Key(b)].built[Cmd(b).agent] = w]
                PROVE  Keeps(b, k)
            <6>1. /\ template'[k].parts = template[k].parts
                  /\ \A a \in Agents :
                       a # Cmd(b).agent => template'[k].built[a] = template[k].built[a]
              BY <1>1, <5>2 DEF TypeOK
            <6> QED BY <4>1, <6>1 DEF Keeps, Removes
          <5> QED BY <4>2, <5>1, <5>2
        <4> QED BY <4>1, <4>3
      <3> QED BY <1>3, <3>1, <3>2, <3>3, <3>4, <3>5, <3>6, KeepsAll DEF Step
    <2> QED BY <2>1, <2>2, WorkspaceStays DEF Frame
  <1> QED BY <1>2, <1>3

-----------------------------------------------------------------------------
LEMMA SeedStep ==
  ASSUME Inv, NEW b \in Builds, Frame(b), NEW k \in Keys, SeedIsWhole(k), WarmsWhole(b)
  PROVE  SeedIsWhole(k)'
  <1> SUFFICES ASSUME "seed" \in template'[k].parts
               PROVE  Whole(k)' \/ k \in cut' \/ \E c \in Builds : Removes(c, k)'
      BY DEF SeedIsWhole
  <1>1. CASE Takes(b, k)
    BY <1>1 DEF Takes
  <1>2. CASE Clears(b, k)
    BY <1>2 DEF Clears
  <1>3. CASE Keeps(b, k)
    <2>1. Whole(k) \/ k \in cut \/ (\E c \in Builds : Removes(c, k))
            \/ Source \subseteq template[k].parts
      BY <1>3 DEF Keeps, SeedIsWhole, WarmsWhole
    <2>2. Whole(k) \/ Source \subseteq template[k].parts => Whole(k)'
      BY <1>3 DEF Keeps, Whole, Parts
    <2>3. ASSUME NEW c \in Builds, Removes(c, k)
          PROVE  k \in cut' \/ Removes(c, k)'
      BY <1>3, <2>3, StaysPut DEF Keeps, Frame
    <2> QED BY <1>3, <2>1, <2>2, <2>3 DEF Keeps
  <1> QED BY <1>1, <1>2, <1>3 DEF Frame

LEMMA WarmStep ==
  ASSUME Inv, NEW b \in Builds, Frame(b), NEW c \in Builds \ {b}, WarmsWhole(c)
  PROVE  WarmsWhole(c)'
  <1>1. PICK k \in Keys : k = Key(c)
    BY Commands DEF Inv
  <1> SUFFICES ASSUME At(c, {"warming"})
               PROVE  \/ Source \subseteq template'[k].parts
                      \/ k \in cut'
                      \/ \E d \in Builds : Removes(d, k)'
    <2>1. Key(c)' = k /\ (At(c, {"warming"})' => At(c, {"warming"}))
      BY <1>1, StaysPut DEF Frame
    <2> QED BY <2>1 DEF WarmsWhole
  <1>2. \/ Source \subseteq template[k].parts
        \/ k \in cut
        \/ \E d \in Builds : Removes(d, k)
    BY <1>1 DEF WarmsWhole
  <1>3. CASE Takes(b, k)
    BY <1>1, <1>3 DEF Takes
  <1>4. CASE Clears(b, k)
    BY <1>1, <1>4 DEF Clears, Contended, At
  <1>5. CASE Keeps(b, k)
    <2>1. ASSUME NEW d \in Builds, Removes(d, k)
          PROVE  k \in cut' \/ Removes(d, k)'
      BY <1>5, <2>1, StaysPut DEF Keeps, Frame
    <2> QED BY <1>1, <1>2, <1>5, <2>1 DEF Keeps
  <1> QED BY <1>3, <1>4, <1>5 DEF Frame

\* A build whose template loses a part to another one is told so.
LEMMA TakesRobs ==
  ASSUME Inv, NEW b \in Builds, PrunesStale(b), NEW k \in Keys, Takes(b, k),
         NEW c \in Builds \ {b}, Live(c), Key(c) = k
  PROVE  c \in crossed'
  <1>1. Key(b) = k \/ Parent[Key(b)] # Parent[k]
    BY DEF Takes, Removes, Victim, PrunesStale, Stale
  <1> QED BY <1>1 DEF Takes, Robbed

\* What excuses another build goes on excusing it.
LEMMA ExcusedStays ==
  ASSUME Inv, NEW b \in Builds, Frame(b), PrunesStale(b),
         NEW c \in Builds \ {b}, Live(c), Excused(c)
  PROVE  Excused(c)'
  <1>1. PICK k \in Keys : k = Key(c)
    BY Commands DEF Inv
  <1>2. Stays(c) /\ Key(c)' = k
    BY <1>1, StaysPut DEF Frame
  <1>3. CASE c \in crossed
    BY <1>3 DEF Frame, Excused
  <1>4. ASSUME Ready(k), k \in cut \/ \E d \in Builds \ {c} : Removes(d, k)
        PROVE  Excused(c)'
    <2>1. CASE Takes(b, k)
      <3>1. c \in crossed'
        BY <1>1, <2>1, TakesRobs
      <3> QED BY <3>1 DEF Excused
    <2>2. CASE Clears(b, k)
      BY <1>4, <2>2 DEF Clears, Ready
    <2>3. CASE Keeps(b, k)
      <3>1. Ready(k)'
        BY <1>4, <2>3 DEF Keeps, Ready
      <3>2. ASSUME NEW d \in Builds \ {c}, Removes(d, k)
            PROVE  k \in cut' \/ Removes(d, k)'
        BY <2>3, <3>2, StaysPut DEF Keeps, Frame
      <3>3. k \in cut' \/ \E d \in Builds \ {c} : Removes(d, k)'
        BY <1>4, <2>3, <3>2 DEF Keeps
      <3> QED BY <1>2, <3>1, <3>3 DEF Excused
    <2> QED BY <2>1, <2>2, <2>3 DEF Frame
  <1> QED BY <1>1, <1>3, <1>4 DEF Excused

LEMMA OtherTold ==
  ASSUME Inv, NEW b \in Builds, Frame(b), PrunesStale(b), NEW c \in Builds \ {b}, Told(c)
  PROVE  Told(c)'
  <1>1. /\ \A places : At(c, places)' <=> At(c, places)
        /\ Cmd(c)' = Cmd(c) /\ Key(c)' = Key(c) /\ Live(c)' = Live(c) /\ Stays(c)
    BY StaysPut DEF Frame
  <1>2. PICK k \in Keys : k = Key(c)
    BY Commands DEF Inv
  <1>3. c \in crossed => c \in crossed'
    BY DEF Frame
  <1>4. Live(c) /\ Excused(c) => Excused(c)'
    BY ExcusedStays
  <1>5. ~Live(c) \/ c \in crossed' \/ Keeps(b, k) \/ Clears(b, k)
    BY <1>2, TakesRobs DEF Frame
  <1>6. ~Live(c) \/ c \in crossed' \/ template[k].parts \subseteq template'[k].parts
    BY <1>5 DEF Keeps, Clears
  <1>7. PrunesStale(c)'
    BY <1>1 DEF Told, PrunesStale, Stays, Stale
  <1>8. Made(c)'
    BY <1>1, <1>2, <1>3, <1>6 DEF Told, Made, Stays, At, Live
  <1>9. HurtByOthers(c)'
    BY <1>1, <1>3 DEF Told, HurtByOthers, Frame
  <1>10. Served(c)'
    <2>1. At(c, {"prune", "clear", "copy"}) => Live(c) /\ (Excused(c) \/ Whole(k))
      BY <1>2 DEF Told, Served, At, Live
    <2>2. Live(c) /\ Whole(k) => c \in crossed' \/ Whole(k)'
      BY <1>6 DEF Whole
    <2>3. c \in crossed' => Excused(c)'
      BY DEF Excused
    <2> QED BY <1>1, <1>2, <1>4, <2>1, <2>2, <2>3 DEF Served
  <1>11. Copied(c)'
    <2>1. CASE At(c, {"copy", "rewrite", "build"})
      <3>1. Live(c) /\ At(c, Holding)
        BY <2>1 DEF At, Live, Holding
      <3>2. workspace'[Cmd(c).agent] = workspace[Cmd(c).agent]
        BY <3>1 DEF Frame
      <3> QED BY <1>1, <1>4, <3>1, <3>2 DEF Told, Copied, Stays
    <2>2. CASE ~At(c, {"copy", "rewrite", "build"})
      BY <1>1, <2>2 DEF Copied, At
    <2> QED BY <2>1, <2>2
  <1>12. BuiltStays(c)'
    <2> SUFFICES ASSUME At(c, {"export"}), c \notin crossed'
                 PROVE  template'[k].built[Cmd(c).agent] = c
        BY <1>1, <1>2 DEF BuiltStays
    <2>1. Live(c) /\ template[k].built[Cmd(c).agent] = c
      BY <1>2, <1>3 DEF Told, BuiltStays, At, Live
    <2>2. Cmd(c).agent \in Agents
      BY Commands DEF Inv
    <2>3. CASE Clears(b, k)
      BY <2>1, <2>3 DEF Clears
    <2>4. CASE Keeps(b, k)
      <3>1. At(b, {"building"}) => Cmd(c).agent # Cmd(b).agent
        BY OneAtWork DEF At, Holding
      <3> QED BY <2>1, <2>2, <2>4, <3>1 DEF Keeps
    <2> QED BY <1>5, <2>1, <2>3, <2>4
  <1>13. Failed(c)'
    <2>1. Failed(c)
      BY DEF Told
    <2> QED BY <1>1, <1>3, <1>4, <2>1 DEF Failed, Stays
  <1> QED BY <1>7, <1>8, <1>9, <1>10, <1>11, <1>12, <1>13 DEF Told

-----------------------------------------------------------------------------
\* What a step of b is to b itself.
Mine(b) == WarmsWhole(b) /\ Told(b)

\* The template of a build that is not making it only grows by its own steps.
LEMMA OwnKeeps ==
  ASSUME Inv, NEW b \in Builds, Frame(b), PrunesStale(b), ~At(b, {"reset", "scrap"}),
         NEW k \in Keys, k = Key(b)
  PROVE  Keeps(b, k)
  <1>1. ~Removes(b, k)
    BY DEF Removes, Removing, Victim, PrunesStale, Stale, At
  <1> QED BY <1>1 DEF Frame, Takes, Clears

LEMMA OwnExcuse ==
  ASSUME Inv, NEW b \in Builds, Frame(b), PrunesStale(b), ~At(b, {"reset", "scrap"}),
         Key(b)' = Key(b), Excused(b)
  PROVE  Excused(b)'
  <1>1. PICK k \in Keys : k = Key(b)
    BY Commands DEF Inv
  <1>2. Keeps(b, k)
    BY <1>1, OwnKeeps
  <1>3. CASE b \in crossed
    BY <1>3 DEF Frame, Excused
  <1>4. ASSUME Ready(k), k \in cut \/ \E d \in Builds \ {b} : Removes(d, k)
        PROVE  Excused(b)'
    <2>1. Ready(k)'
      BY <1>2, <1>4 DEF Keeps, Ready
    <2>2. k \in cut' \/ \E d \in Builds \ {b} : Removes(d, k)'
      BY <1>2, <1>4, StaysPut DEF Keeps, Frame
    <2>3. Key(b)' = k
      BY <1>1
    <2> QED BY <2>1, <2>2, <2>3 DEF Excused
  <1> QED BY <1>1, <1>3, <1>4 DEF Excused

LEMMA OwnWhole ==
  ASSUME Inv, NEW b \in Builds, Frame(b), PrunesStale(b), ~At(b, {"reset", "scrap"}),
         Key(b)' = Key(b)
  PROVE  /\ Whole(Key(b)) => Whole(Key(b))'
         /\ template[Key(b)].parts \subseteq template'[Key(b)].parts
  <1>1. PICK k \in Keys : k = Key(b)
    BY Commands DEF Inv
  <1>2. Keeps(b, k) /\ Key(b)' = k
    BY <1>1, OwnKeeps
  <1>3. template[k].parts \subseteq template'[k].parts /\ (Whole(k) => Whole(k)')
    BY <1>2 DEF Keeps, Whole
  <1> QED BY <1>1, <1>2, <1>3 DEF Whole

\* A build that makes no claims on its template: it has not begun, it is at
\* the end, or it is about to empty it.
LEMMA Rests ==
  ASSUME NEW b \in Builds,
         NEW pc \in {"lock", "replace", "check", "reset", "tidy", "leave", "over", "killed"},
         NEW todo, NEW result, Moved(b, pc, todo, result),
         pc \in {"tidy", "leave", "over", "killed"} \/ result = "none",
         pc \in {"tidy", "leave"} =>
           /\ result \in {"template", "missing"} => b \in crossed'
           /\ result \in {"copy", "build"} => Excused(b)'
  PROVE  Mine(b)'
  BY DEF Moved, Mine, WarmsWhole, Told, PrunesStale, Made, HurtByOthers, Served, Copied,
     BuiltStays, Failed, At, Live, Compiling

\* A build that gives up its template.
LEMMA Falls ==
  ASSUME NEW b \in Builds, NEW todo, Moved(b, "scrap", todo, "template"), b \in crossed'
  PROVE  Mine(b)'
  BY DEF Moved, Mine, WarmsWhole, Told, PrunesStale, Made, HurtByOthers, Served, Copied,
     BuiltStays, Failed, At, Live, Compiling

\* A build that writes or reads its template.
LEMMA Works ==
  ASSUME NEW b \in Builds,
         NEW pc \in {"prune", "clear", "create", "warm", "recheck", "copy", "rewrite",
                     "build", "export"},
         NEW todo, Moved(b, pc, todo, "none"),
         PrunesStale(b)', Made(b)', Served(b)', Copied(b)', BuiltStays(b)'
  PROVE  Mine(b)'
  BY DEF Moved, Mine, WarmsWhole, Told, HurtByOthers, Failed, At, Live, Compiling

\* A template found ready is whole, or excuses what will be missing.
LEMMA FoundReady ==
  ASSUME Shared, NEW b \in Builds, Frame(b), ~At(b, Removing),
         Key(b)' = Key(b), Ready(Key(b))
  PROVE  Excused(b)' \/ Whole(Key(b))'
  <1>1. PICK k \in Keys : k = Key(b)
    BY Commands DEF Shared, Inv
  <1>2. Inv /\ SeedIsWhole(k) /\ PrunesStale(b) /\ ~At(b, {"reset", "scrap"})
    BY DEF Shared, Told, At, Removing
  <1>3. Whole(k) \/ k \in cut \/ \E c \in Builds \ {b} : Removes(c, k)
    BY <1>1, <1>2 DEF SeedIsWhole, Ready, Removes
  <1>4. Whole(Key(b)) \/ Excused(b)
    BY <1>1, <1>3 DEF Excused
  <1> QED BY <1>2, <1>4, OwnExcuse, OwnWhole

\* A step of b in the early places, with its command kept.
LEMMA KeepsCommand ==
  ASSUME NEW b, NEW pc, NEW todo, NEW result, Moved(b, pc, todo, result)
  PROVE  /\ Cmd(b)' = Cmd(b) /\ Key(b)' = Key(b)
         /\ \A places : At(b, places)' <=> pc \in places
         /\ run'[b].todo = todo /\ run'[b].result = result
  BY DEF Moved, Cmd, Key, At

\* The result of a build that is still at work is open.
LEMMA OpenResult ==
  ASSUME Shared, NEW b \in Builds,
         ~At(b, {"scrap", "tidy", "leave", "over", "killed"})
  PROVE  run[b].result = "none"
  BY DEF Shared, Told, Failed

\* The removal of stale templates begins.
LEMMA BeginsPrune ==
  ASSUME Shared, NEW b \in Builds, Frame(b), At(b, {"check", "recheck"}),
         Ready(Key(b)), GoWith(b, "prune", Stale(Key(b)))
  PROVE  Mine(b)'
  <1>1. TypeOK /\ ~At(b, Removing) /\ run[b].result = "none" /\ Stale(Key(b)) \subseteq Keys
    BY OpenResult DEF Shared, Inv, At, Removing, Stale
  <1>2. Moved(b, "prune", Stale(Key(b)), "none")
    BY <1>1, GoWithMoves DEF Places
  <1>3. /\ Key(b)' = Key(b) /\ run'[b].todo = Stale(Key(b))
        /\ \A places : At(b, places)' <=> "prune" \in places
    BY <1>2, KeepsCommand
  <1>4. PrunesStale(b)' /\ Made(b)' /\ Copied(b)' /\ BuiltStays(b)'
    BY <1>3 DEF PrunesStale, Stale, Made, Copied, BuiltStays
  <1>5. Served(b)'
    BY <1>1, <1>3, FoundReady DEF Served
  <1> QED BY <1>2, <1>4, <1>5, Works

LEMMA CheckTold == ASSUME Shared, NEW b \in Builds, Frame(b), Check(b) PROVE Mine(b)'
  <1>1. TypeOK /\ At(b, {"check"}) /\ run[b].result = "none"
    BY OpenResult DEF Shared, Inv, Check, At
  <1>2. CASE Ready(Key(b))
    BY <1>1, <1>2, BeginsPrune DEF Check, At
  <1>3. CASE ~Ready(Key(b))
    <2>1. Moved(b, "reset", run[b].todo, "none")
      BY <1>1, <1>3, GoMoves DEF Check, Places, Removing
    <2> QED BY <2>1, Rests
  <1> QED BY <1>2, <1>3

LEMMA RecheckTold == ASSUME Shared, NEW b \in Builds, Frame(b), Recheck(b) PROVE Mine(b)'
  <1>1. TypeOK /\ At(b, {"recheck"})
    BY DEF Shared, Inv, Recheck
  <1>2. CASE Ready(Key(b))
    BY <1>1, <1>2, BeginsPrune DEF Recheck, At
  <1>3. CASE ~Ready(Key(b))
    <2>1. Moved(b, "scrap", run[b].todo, "template")
      BY <1>1, <1>3, ConcludeMoves DEF Recheck, Places, Results, Removing
    <2>2. b \in crossed
      BY <1>1, <1>3 DEF Shared, Told, Made, At, Ready, Source
    <2> QED BY <2>1, <2>2, Falls DEF Frame
  <1> QED BY <1>2, <1>3

\* Between the lock and the template, and from the end of the compilation on.
LEMMA StartTold ==
  ASSUME Shared, NEW b \in Builds, Start(b) \/ Acquire(b) \/ Replace(b)
  PROVE  Mine(b)'
  <1>1. TypeOK /\ At(b, {"new", "lock", "replace"}) /\ run[b].result = "none"
    BY OpenResult DEF Shared, Inv, Start, Acquire, Replace, At
  <1>2. \/ \E pc \in {"lock", "replace", "check"} : Go(b, pc)
        \/ Conclude(b, "over", "refused") \/ Conclude(b, "leave", "leftover")
    BY DEF Start, Acquire, Replace
  <1>3. \/ \E pc \in {"lock", "replace", "check"} : Moved(b, pc, run[b].todo, "none")
        \/ Moved(b, "over", run[b].todo, "refused") \/ Moved(b, "leave", run[b].todo, "leftover")
    BY <1>1, <1>2, GoMoves, ConcludeMoves DEF Places, Results
  <1> QED BY <1>3, Rests

LEMMA KilledTold == ASSUME Shared, NEW b \in Builds, Killed(b) PROVE Mine(b)'
  <1>1. Moved(b, "killed", run[b].todo, run[b].result)
    BY GoMoves DEF Shared, Inv, Killed, Places
  <1> QED BY <1>1, Rests

LEMMA PruneTold == ASSUME Shared, NEW b \in Builds, Frame(b), Prune(b) PROVE Mine(b)'
  <1>1. /\ TypeOK /\ At(b, {"prune"}) /\ run[b].result = "none" /\ ~At(b, {"reset", "scrap"})
        /\ run[b].todo \subseteq Stale(Key(b)) /\ Inv /\ PrunesStale(b)
    BY OpenResult DEF Shared, Inv, Told, PrunesStale, Prune, At
  <1>2. PICK k \in run[b].todo : run' = [run EXCEPT ![b].pc = "clear", ![b].victim = k]
    BY DEF Prune
  <1>3. Moved(b, "clear", run[b].todo, "none") /\ run'[b].victim = k
    <2>1. run[b] \in Runs /\ k \in Keys
      BY <1>1 DEF TypeOK, Runs, Stale
    <2>2. PICK r : r = [run[b] EXCEPT !.pc = "clear", !.victim = k]
      OBVIOUS
    <2>3. /\ r \in Runs /\ r.pc = "clear" /\ r.todo = run[b].todo /\ r.victim = k
          /\ r.cmd = run[b].cmd /\ r.result = run[b].result
      BY ONLY <2>1, <2>2 DEF Runs, Places, Removing
    <2>4. run' = [run EXCEPT ![b] = r]
      BY ONLY <1>2, <2>2
    <2>5. Moved(b, r.pc, r.todo, r.result)
      BY <1>1, <2>3, <2>4, RecordMoves
    <2>6. run'[b] = r
      BY <1>1, <2>4 DEF TypeOK
    <2> QED BY <1>1, <2>3, <2>5, <2>6
  <1>4. /\ Key(b)' = Key(b) /\ run'[b].todo = run[b].todo
        /\ \A places : At(b, places)' <=> "clear" \in places
    BY <1>3, KeepsCommand
  <1>5. PrunesStale(b)' /\ Made(b)' /\ Copied(b)' /\ BuiltStays(b)'
    BY <1>1, <1>3, <1>4 DEF PrunesStale, Stale, Made, Copied, BuiltStays
  <1>6. Excused(b) \/ Whole(Key(b))
    BY <1>1 DEF Shared, Told, Served, At
  <1>7. Served(b)'
    BY <1>1, <1>4, <1>6, OwnExcuse, OwnWhole DEF Served
  <1> QED BY <1>3, <1>5, <1>7, Works

\* The copying of the template begins.
LEMMA BeginsCopy ==
  ASSUME Shared, NEW b \in Builds, Frame(b), At(b, {"prune", "clear"}),
         GoWith(b, "copy", Source)
  PROVE  Mine(b)'
  <1>1. /\ TypeOK /\ run[b].result = "none" /\ ~At(b, {"reset", "scrap"})
        /\ Inv /\ PrunesStale(b)
    BY OpenResult DEF Shared, Inv, Told, At
  <1>2. Moved(b, "copy", Source, "none")
    BY <1>1, GoWithMoves DEF Places
  <1>3. /\ Key(b)' = Key(b) /\ run'[b].todo = Source
        /\ \A places : At(b, places)' <=> "copy" \in places
    BY <1>2, KeepsCommand
  <1>4. PrunesStale(b)' /\ Made(b)' /\ Copied(b)' /\ BuiltStays(b)'
    BY <1>3 DEF PrunesStale, Made, Copied, BuiltStays
  <1>5. Excused(b) \/ Whole(Key(b))
    BY DEF Shared, Told, Served, At
  <1>6. Served(b)'
    BY <1>1, <1>3, <1>5, OwnExcuse, OwnWhole DEF Served
  <1> QED BY <1>2, <1>4, <1>6, Works

LEMMA RemoveTold == ASSUME Shared, NEW b \in Builds, Frame(b), Remove(b) PROVE Mine(b)'
  <1>1. Inv /\ TypeOK /\ At(b, Removing) /\ Told(b) /\ PrunesStale(b)
    BY DEF Shared, Inv, Told, Remove
  <1>2. PICK v \in Keys : v = Victim(b)
    BY <1>1, Commands DEF TypeOK, Victim
  <1>3. \/ run'[b] = run[b]
        \/ Emptied(b, v)
        \/ Obstructed(b) /\ (At(b, {"reset"}) => b \in crossed')
    BY <1>2 DEF Remove
  <1>4. CASE At(b, {"reset"})
    <2>1. run[b].result = "none"
      BY <1>4, OpenResult DEF At
    <2>2. CASE run'[b] = run[b]
      BY <1>4, <2>1, <2>2 DEF At, Mine, WarmsWhole, Told, PrunesStale, Made, HurtByOthers,
         Served, Copied, BuiltStays, Failed, Live, Compiling
    <2>3. CASE Emptied(b, v)
      <3>1. Moved(b, "create", Source, "none")
        <4>1. GoWith(b, "create", Source)
          BY <1>4, <2>3 DEF Emptied, At
        <4> QED BY <1>1, <2>1, <4>1, GoWithMoves DEF Places
      <3>2. run'[b].todo = Source /\ \A places : At(b, places)' <=> "create" \in places
        BY <3>1, KeepsCommand
      <3>3. PrunesStale(b)' /\ Made(b)' /\ Served(b)' /\ Copied(b)' /\ BuiltStays(b)'
        BY <3>2 DEF PrunesStale, Made, Served, Copied, BuiltStays
      <3> QED BY <3>1, <3>3, Works
    <2>4. CASE Obstructed(b) /\ b \in crossed'
      <3>1. Moved(b, "leave", run[b].todo, "template")
        <4>1. Conclude(b, "leave", "template")
          BY <1>4, <2>4 DEF Obstructed, At
        <4> QED BY <1>1, <4>1, ConcludeMoves DEF Places, Results
      <3> QED BY <2>4, <3>1, Rests
    <2> QED BY <1>3, <1>4, <2>2, <2>3, <2>4
  <1>5. CASE At(b, {"scrap"})
    <2>1. run[b].result = "template" /\ b \in crossed'
      BY <1>1, <1>5 DEF Told, Failed, At, Live, Frame
    <2>2. CASE run'[b] = run[b]
      BY <1>5, <2>1, <2>2 DEF At, Mine, WarmsWhole, Told, PrunesStale, Made, HurtByOthers,
         Served, Copied, BuiltStays, Failed, Live, Compiling
    <2>3. CASE Emptied(b, v) \/ Obstructed(b)
      <3>1. Go(b, "leave")
        BY <1>5, <2>3 DEF Emptied, Obstructed, At
      <3>2. Moved(b, "leave", run[b].todo, "template")
        BY <1>1, <2>1, <3>1, GoMoves DEF Places
      <3> QED BY <2>1, <3>2, Rests
    <2> QED BY <1>3, <2>2, <2>3
  <1>6. CASE At(b, {"clear"})
    <2>1. /\ run[b].result = "none" /\ ~At(b, {"reset", "scrap"})
          /\ run[b].todo \subseteq Stale(Key(b)) /\ Stale(Key(b)) \subseteq Keys
      BY <1>1, <1>6, OpenResult DEF At, PrunesStale, Stale
    <2>2. Excused(b) \/ Whole(Key(b))
      BY <1>1, <1>6 DEF Told, Served, At
    <2>3. ASSUME Key(b)' = Key(b) PROVE Excused(b)' \/ Whole(Key(b))'
      BY <1>1, <2>1, <2>2, <2>3, OwnExcuse, OwnWhole
    <2>4. CASE run'[b] = run[b]
      <3>1. Key(b)' = Key(b) /\ run'[b].pc = "clear" /\ run'[b].result = "none"
        BY <1>6, <2>1, <2>4 DEF Key, Cmd, At
      <3>2. PrunesStale(b)'
        BY <1>1, <2>4, <3>1 DEF PrunesStale, Stale, At
      <3>3. Served(b)'
        BY <2>3, <3>1 DEF Served
      <3> QED BY <3>1, <3>2, <3>3 DEF At, Mine, WarmsWhole, Told, Made, HurtByOthers,
              Copied, BuiltStays, Failed, Live, Compiling
    <2>5. CASE Emptied(b, v)
      <3>1. Moved(b, "prune", run[b].todo \ {v}, "none")
        <4>1. GoWith(b, "prune", run[b].todo \ {v})
          BY <1>6, <2>5 DEF Emptied, At
        <4>2. run[b].todo \ {v} \subseteq Keys
          BY <2>1
        <4> QED BY <1>1, <2>1, <4>1, <4>2, GoWithMoves DEF Places
      <3>2. /\ Key(b)' = Key(b) /\ run'[b].todo = run[b].todo \ {v}
            /\ \A places : At(b, places)' <=> "prune" \in places
        BY <3>1, KeepsCommand
      <3>3. PrunesStale(b)' /\ Made(b)' /\ Copied(b)' /\ BuiltStays(b)'
        BY <2>1, <3>2 DEF PrunesStale, Stale, Made, Copied, BuiltStays
      <3>4. Served(b)'
        BY <2>3, <3>2 DEF Served
      <3> QED BY <3>1, <3>3, <3>4, Works
    <2>6. CASE Obstructed(b)
      <3>1. GoWith(b, "copy", Source)
        BY <1>6, <2>6 DEF Obstructed, At
      <3> QED BY <1>6, <3>1, BeginsCopy DEF At
    <2> QED BY <1>3, <2>4, <2>5, <2>6
  <1> QED BY <1>1, <1>4, <1>5, <1>6 DEF At, Removing

LEMMA PrunedTold == ASSUME Shared, NEW b \in Builds, Frame(b), Pruned(b) PROVE Mine(b)'
  BY BeginsCopy DEF Pruned, At

LEMMA CreateTold == ASSUME Shared, NEW b \in Builds, Frame(b), Create(b) PROVE Mine(b)'
  <1>1. /\ Inv /\ TypeOK /\ At(b, {"create"}) /\ run[b].result = "none" /\ Made(b)
        /\ run[b].todo \subseteq Source
    BY OpenResult DEF Shared, Inv, Own, Todo, Told, Create, At
  <1>2. PICK part \in run[b].todo :
          /\ template' = [template EXCEPT ![Key(b)].parts = @ \cup {part}]
          /\ GoWith(b, IF run[b].todo = {part} THEN "warm" ELSE "create",
                    run[b].todo \ {part})
    BY DEF Create
  <1>3. PICK pc \in {"warm", "create"} :
          /\ pc = "warm" => run[b].todo = {part}
          /\ GoWith(b, pc, run[b].todo \ {part})
    BY <1>2
  <1>4. Moved(b, pc, run[b].todo \ {part}, "none")
    BY <1>1, <1>3, GoWithMoves DEF Places
  <1>5. /\ Key(b)' = Key(b) /\ run'[b].todo = run[b].todo \ {part}
        /\ \A places : At(b, places)' <=> pc \in places
    BY <1>4, KeepsCommand
  <1>6. Made(b)'
    <2>1. template'[Key(b)].parts = template[Key(b)].parts \cup {part}
      BY <1>1, <1>2, Commands DEF TypeOK
    <2>2. b \in crossed \/ Source \ run[b].todo \subseteq template[Key(b)].parts
      BY <1>1 DEF Made, At
    <2>3. CASE b \in crossed
      BY <2>3 DEF Frame, Made
    <2>4. CASE Source \ run[b].todo \subseteq template[Key(b)].parts
      BY <1>3, <1>5, <2>1, <2>4 DEF Made
    <2> QED BY <2>2, <2>3, <2>4
  <1>7. PrunesStale(b)' /\ Served(b)' /\ Copied(b)' /\ BuiltStays(b)'
    BY <1>5 DEF PrunesStale, Served, Copied, BuiltStays
  <1> QED BY <1>4, <1>6, <1>7, Works

LEMMA CreateFailsTold == ASSUME Shared, NEW b \in Builds, CreateFails(b) PROVE Mine(b)'
  <1>1. Moved(b, "scrap", run[b].todo, "template") /\ b \in crossed'
    BY ConcludeMoves DEF Shared, Inv, CreateFails, Places, Results, Removing
  <1> QED BY <1>1, Falls

\* The compiler begins.
LEMMA BeginsCompile ==
  ASSUME TypeOK, NEW b \in Builds, NEW pc \in Compiling,
         run' = [run EXCEPT ![b].pc = pc, ![b].hurt = FALSE]
  PROVE  run'[b].hurt = FALSE
  <1>1. run' = [run EXCEPT ![b] = [run[b] EXCEPT !.pc = pc, !.hurt = FALSE]]
    OBVIOUS
  <1>2. run'[b] = [run[b] EXCEPT !.pc = pc, !.hurt = FALSE]
    BY <1>1 DEF TypeOK
  <1>3. [run[b] EXCEPT !.pc = pc, !.hurt = FALSE].hurt = FALSE
    BY DEF TypeOK
  <1> QED BY <1>2, <1>3

LEMMA WarmStartsTold ==
  ASSUME Shared, NEW b \in Builds, Frame(b), WarmStarts(b) PROVE Mine(b)'
  <1>1. /\ Inv /\ TypeOK /\ At(b, {"warm"}) /\ run[b].result = "none" /\ Made(b)
        /\ UNCHANGED template
    BY OpenResult DEF Shared, Inv, Told, WarmStarts, At
  <1>2. CASE Source \subseteq template[Key(b)].parts
    <2>1. run' = [run EXCEPT ![b].pc = "warming", ![b].hurt = FALSE]
      BY <1>2 DEF WarmStarts
    <2>2. Moved(b, "warming", run[b].todo, "none") /\ run'[b].hurt = FALSE
      BY <1>1, <2>1, CompilerMoves, BeginsCompile DEF Places, Compiling
    <2>3. /\ Key(b)' = Key(b) /\ run'[b].result = "none"
          /\ \A places : At(b, places)' <=> "warming" \in places
      BY <2>2, KeepsCommand
    <2>4. Source \subseteq template'[Key(b)'].parts
      BY <1>1, <1>2, <2>3
    <2> QED BY <2>2, <2>3, <2>4 DEF Mine, WarmsWhole, Told, PrunesStale, Made,
            HurtByOthers, Served, Copied, BuiltStays, Failed, Live
  <1>3. CASE ~(Source \subseteq template[Key(b)].parts)
    <2>1. Moved(b, "scrap", run[b].todo, "template")
      BY <1>1, <1>3, ConcludeMoves DEF WarmStarts, Places, Results, Removing
    <2>2. b \in crossed
      BY <1>1, <1>3 DEF Made, At
    <2> QED BY <2>1, <2>2, Falls DEF Frame
  <1> QED BY <1>2, <1>3

LEMMA WarmEndsTold ==
  ASSUME Shared, NEW b \in Builds, Frame(b), WarmEnds(b) PROVE Mine(b)'
  <1>1. /\ Inv /\ TypeOK /\ At(b, {"warming"}) /\ run[b].result = "none" /\ Told(b)
        /\ Key(b) \in Keys
    BY OpenResult, Commands DEF Shared, Inv, WarmEnds, At
  <1>2. CASE /\ template' = [template EXCEPT ![Key(b)].parts = @ \cup {"seed"}]
             /\ Go(b, "recheck")
    <2>1. Moved(b, "recheck", run[b].todo, "none")
      BY <1>1, <1>2, GoMoves DEF Places
    <2>2. Key(b)' = Key(b) /\ \A places : At(b, places)' <=> "recheck" \in places
      BY <2>1, KeepsCommand
    <2>3. template'[Key(b)].parts = template[Key(b)].parts \cup {"seed"}
      BY <1>1, <1>2 DEF TypeOK
    <2>4. Made(b)'
      BY <1>1, <2>2, <2>3 DEF Told, Made, At, Frame
    <2>5. PrunesStale(b)' /\ Served(b)' /\ Copied(b)' /\ BuiltStays(b)'
      BY <2>2 DEF PrunesStale, Served, Copied, BuiltStays
    <2> QED BY <2>1, <2>4, <2>5, Works
  <1>3. CASE run[b].hurt /\ Conclude(b, "scrap", "template")
    <2>1. Moved(b, "scrap", run[b].todo, "template")
      BY <1>1, <1>3, ConcludeMoves DEF Places, Results, Removing
    <2>2. b \in crossed
      BY <1>1, <1>3 DEF Told, HurtByOthers, At, Compiling
    <2> QED BY <2>1, <2>2, Falls DEF Frame
  <1> QED BY <1>2, <1>3 DEF WarmEnds

\* The copy has failed, and the workspace is tidied or left.
LEMMA FailsInCopy ==
  ASSUME Shared, NEW b \in Builds, Frame(b), At(b, {"copy", "rewrite"}), Excused(b),
         Conclude(b, AfterCopy(b), "copy")
  PROVE  Mine(b)'
  <1>1. /\ Inv /\ TypeOK /\ ~At(b, {"reset", "scrap"}) /\ PrunesStale(b)
        /\ AfterCopy(b) \in {"leave", "tidy"}
    BY DEF Shared, Inv, Told, At, AfterCopy
  <1>2. PICK pc \in {"leave", "tidy"} : pc = AfterCopy(b)
    BY <1>1
  <1>3. Moved(b, pc, run[b].todo, "copy")
    BY <1>1, <1>2, ConcludeMoves DEF Places, Results
  <1>4. Excused(b)'
    BY <1>1, <1>3, KeepsCommand, OwnExcuse
  <1> QED BY <1>3, <1>4, Rests

LEMMA CopyTold == ASSUME Shared, NEW b \in Builds, Frame(b), Copy(b) PROVE Mine(b)'
  <1>1. /\ Inv /\ TypeOK /\ At(b, {"copy"}) /\ run[b].result = "none" /\ Told(b)
        /\ Cmd(b).agent \in Agents /\ ~At(b, {"reset", "scrap"}) /\ PrunesStale(b)
        /\ run[b].todo \subseteq Source /\ UNCHANGED template
    BY OpenResult, Commands DEF Shared, Inv, Own, Todo, Told, Copy, At
  <1>2. PICK part \in run[b].todo :
          /\ workspace' = [workspace EXCEPT ![Cmd(b).agent] =
               [there |-> TRUE, parts |-> @.parts \cup ({part} \cap template[Key(b)].parts),
                by |-> @.by]]
          /\ \/ GoWith(b, IF run[b].todo = {part} THEN "rewrite" ELSE "copy",
                       run[b].todo \ {part})
             \/ part \notin template[Key(b)].parts /\ Conclude(b, AfterCopy(b), "copy")
    BY DEF Copy
  <1>3. Excused(b) \/ (/\ Whole(Key(b)) /\ part \in template[Key(b)].parts
                       /\ Source \ run[b].todo \subseteq workspace[Cmd(b).agent].parts)
    <2>1. Excused(b) \/ Source \ run[b].todo \subseteq workspace[Cmd(b).agent].parts
      BY <1>1 DEF Told, Copied, At
    <2>2. Excused(b) \/ Whole(Key(b))
      BY <1>1 DEF Told, Served, At
    <2> QED BY <1>1, <2>1, <2>2 DEF Whole, Parts
  <1>4. ASSUME NEW pc \in {"rewrite", "copy"}, pc = "rewrite" => run[b].todo = {part},
               GoWith(b, pc, run[b].todo \ {part})
        PROVE  Mine(b)'
    <2>1. Moved(b, pc, run[b].todo \ {part}, "none")
      BY <1>1, <1>4, GoWithMoves DEF Places
    <2>2. /\ Key(b)' = Key(b) /\ Cmd(b)' = Cmd(b) /\ run'[b].todo = run[b].todo \ {part}
          /\ \A places : At(b, places)' <=> pc \in places
      BY <2>1, KeepsCommand
    <2>3. workspace'[Cmd(b).agent].parts =
            workspace[Cmd(b).agent].parts \cup ({part} \cap template[Key(b)].parts)
      BY <1>1, <1>2 DEF TypeOK
    <2>4. Excused(b) => Excused(b)'
      BY <1>1, <2>2, OwnExcuse
    <2>5. Served(b)'
      BY <1>1, <1>3, <2>2, <2>4, OwnWhole DEF Served
    <2>6. Copied(b)'
      <3>1. CASE Excused(b)
        BY <2>4, <3>1 DEF Copied
      <3>2. CASE ~Excused(b)
        BY <1>3, <1>4, <2>2, <2>3, <3>2 DEF Copied
      <3> QED BY <3>1, <3>2
    <2>7. PrunesStale(b)' /\ Made(b)' /\ BuiltStays(b)'
      BY <2>2 DEF PrunesStale, Made, BuiltStays
    <2> QED BY <2>1, <2>5, <2>6, <2>7, Works
  <1>5. ASSUME part \notin template[Key(b)].parts, Conclude(b, AfterCopy(b), "copy")
        PROVE  Mine(b)'
    BY <1>1, <1>3, <1>5, FailsInCopy DEF At
  <1> QED BY <1>2, <1>4, <1>5

LEMMA RewriteTold == ASSUME Shared, NEW b \in Builds, Frame(b), Rewrite(b) PROVE Mine(b)'
  <1>1. /\ Inv /\ TypeOK /\ At(b, {"rewrite"}) /\ run[b].result = "none" /\ Told(b)
        /\ Cmd(b).agent \in Agents /\ ~At(b, {"reset", "scrap"}) /\ PrunesStale(b)
    BY OpenResult, Commands DEF Shared, Inv, Told, Rewrite, At
  <1>2. Excused(b) \/ Source \subseteq workspace[Cmd(b).agent].parts
    BY <1>1 DEF Told, Copied, At
  <1>3. CASE workspace' = [workspace EXCEPT ![Cmd(b).agent].by = b] /\ Go(b, "build")
    <2>1. Moved(b, "build", run[b].todo, "none")
      BY <1>1, <1>3, GoMoves DEF Places
    <2>2. /\ Key(b)' = Key(b) /\ Cmd(b)' = Cmd(b)
          /\ \A places : At(b, places)' <=> "build" \in places
      BY <2>1, KeepsCommand
    <2>3. workspace'[Cmd(b).agent].parts = workspace[Cmd(b).agent].parts
      BY <1>1, <1>3 DEF TypeOK
    <2>4. Excused(b) => Excused(b)'
      BY <1>1, <2>2, OwnExcuse
    <2>5. Copied(b)'
      BY <1>2, <2>2, <2>3, <2>4 DEF Copied
    <2>6. PrunesStale(b)' /\ Made(b)' /\ Served(b)' /\ BuiltStays(b)'
      BY <2>2 DEF PrunesStale, Made, Served, BuiltStays
    <2> QED BY <2>1, <2>5, <2>6, Works
  <1>4. CASE /\ ~(Source \subseteq workspace[Cmd(b).agent].parts)
             /\ Conclude(b, AfterCopy(b), "copy")
    BY <1>1, <1>2, <1>4, FailsInCopy DEF At
  <1> QED BY <1>3, <1>4 DEF Rewrite

LEMMA BuildStartsTold ==
  ASSUME Shared, NEW b \in Builds, Frame(b), BuildStarts(b) PROVE Mine(b)'
  <1>1. /\ Inv /\ TypeOK /\ At(b, {"build"}) /\ run[b].result = "none" /\ Told(b)
        /\ ~At(b, {"reset", "scrap"}) /\ PrunesStale(b)
    BY OpenResult DEF Shared, Inv, Told, BuildStarts, At
  <1>2. CASE run' = [run EXCEPT ![b].pc = "building", ![b].hurt = FALSE]
    <2>1. Moved(b, "building", run[b].todo, "none") /\ run'[b].hurt = FALSE
      BY <1>1, <1>2, CompilerMoves, BeginsCompile DEF Places, Compiling
    <2>2. run'[b].result = "none" /\ \A places : At(b, places)' <=> "building" \in places
      BY <2>1, KeepsCommand
    <2> QED BY <2>1, <2>2 DEF Mine, WarmsWhole, Told, PrunesStale, Made,
            HurtByOthers, Served, Copied, BuiltStays, Failed, Live
  <1>3. CASE /\ ~(Source \subseteq workspace[Cmd(b).agent].parts)
             /\ Conclude(b, "tidy", "build")
    <2>1. Excused(b)
      BY <1>1, <1>3 DEF Told, Copied, At
    <2>2. Moved(b, "tidy", run[b].todo, "build")
      BY <1>1, <1>3, ConcludeMoves DEF Places, Results
    <2>3. Excused(b)'
      BY <1>1, <2>1, <2>2, KeepsCommand, OwnExcuse
    <2> QED BY <2>2, <2>3, Rests
  <1> QED BY <1>2, <1>3 DEF BuildStarts

LEMMA BuildEndsTold ==
  ASSUME Shared, NEW b \in Builds, Frame(b), BuildEnds(b) PROVE Mine(b)'
  <1>1. /\ Inv /\ TypeOK /\ At(b, {"building"}) /\ run[b].result = "none" /\ Told(b)
        /\ Key(b) \in Keys /\ Cmd(b).agent \in Agents
    BY OpenResult, Commands DEF Shared, Inv, BuildEnds, At
  <1>2. ASSUME Go(b, "export"),
               template' = [template EXCEPT
                 ![Key(b)].built[Cmd(b).agent] = workspace[Cmd(b).agent].by]
        PROVE  Mine(b)'
    <2>1. Moved(b, "export", run[b].todo, "none")
      BY <1>1, <1>2, GoMoves DEF Places
    <2>2. /\ Key(b)' = Key(b) /\ Cmd(b)' = Cmd(b)
          /\ \A places : At(b, places)' <=> "export" \in places
      BY <2>1, KeepsCommand
    <2>3. workspace[Cmd(b).agent].by = b
      BY <1>1 DEF Inv, Own, CompilesOwn, At
    <2>4. template'[Key(b)].built[Cmd(b).agent] = b
      BY <1>1, <1>2, <2>3 DEF TypeOK
    <2>5. PrunesStale(b)' /\ Made(b)' /\ Served(b)' /\ Copied(b)' /\ BuiltStays(b)'
      BY <2>2, <2>4 DEF PrunesStale, Made, Served, Copied, BuiltStays
    <2> QED BY <2>1, <2>5, Works
  <1>3. ASSUME NEW why \in {"ok", "flawed", "build"}, Conclude(b, "tidy", why),
               why = "build" => run[b].hurt
        PROVE  Mine(b)'
    <2>1. Moved(b, "tidy", run[b].todo, why)
      BY <1>1, <1>3, ConcludeMoves DEF Places, Results
    <2>2. why = "build" => Excused(b)'
      BY <1>1, <1>3 DEF Told, HurtByOthers, At, Compiling, Frame, Excused
    <2> QED BY <2>1, <2>2, Rests
  <1> QED BY <1>2, <1>3 DEF BuildEnds

LEMMA ExportTold == ASSUME Shared, NEW b \in Builds, Frame(b), Export(b) PROVE Mine(b)'
  <1>1. TypeOK /\ At(b, {"export"}) /\ Told(b)
    BY DEF Shared, Inv, Export
  <1>2. PICK why \in {"missing", "taken", "ok"} :
          /\ Conclude(b, "tidy", why)
          /\ why = "missing" => template[Key(b)].built[Cmd(b).agent] = Nobody
    BY DEF Export
  <1>3. Moved(b, "tidy", run[b].todo, why)
    BY <1>1, <1>2, ConcludeMoves DEF Places, Results
  <1>4. why = "missing" => b \in crossed'
    BY <1>1, <1>2, BuildAssumption DEF Told, BuiltStays, Frame
  <1> QED BY <1>3, <1>4, Rests

LEMMA EndTold ==
  ASSUME Shared, NEW b \in Builds, Frame(b), Tidy(b) \/ Leave(b)
  PROVE  Mine(b)'
  <1>1. /\ Inv /\ TypeOK /\ Told(b) /\ PrunesStale(b) /\ Live(b) /\ ~At(b, {"reset", "scrap"})
    BY DEF Shared, Inv, Told, Tidy, Leave, At, Live
  <1>2. PICK pc \in {"leave", "over"} : Go(b, pc)
    BY DEF Tidy, Leave
  <1>3. Moved(b, pc, run[b].todo, run[b].result)
    BY <1>1, <1>2, GoMoves DEF Places
  <1>4. Excused(b) => Excused(b)'
    BY <1>1, <1>3, KeepsCommand, OwnExcuse
  <1>5. run[b].result \in {"template", "missing"} => b \in crossed'
    BY <1>1 DEF Told, Failed, Frame
  <1>6. run[b].result \in {"copy", "build"} => Excused(b)'
    BY <1>1, <1>4 DEF Told, Failed
  <1> QED BY <1>3, <1>5, <1>6, Rests

-----------------------------------------------------------------------------
LEMMA StepShared == ASSUME Shared, [Next]_vars PROVE Shared'
  <1>1. Inv'
    BY StepInv DEF Shared
  <1>2. CASE UNCHANGED vars
    BY <1>1, <1>2 DEF vars, Shared, SeedIsWhole, Whole, WarmsWhole, Told, PrunesStale, Stale,
       Made, HurtByOthers, Served, Copied, Excused, Ready, BuiltStays, Failed, Removes,
       Victim, At, Live, Cmd, Key
  <1>3. ASSUME NEW b \in Builds, Start(b) \/ Step(b) \/ Killed(b) PROVE Shared'
    <2>1. Inv /\ Frame(b) /\ PrunesStale(b) /\ WarmsWhole(b)
      BY <1>3, StepFrame DEF Shared, Told
    <2>2. \A k \in Keys : SeedIsWhole(k)'
      BY <2>1, SeedStep DEF Shared
    <2>3. ASSUME NEW c \in Builds \ {b} PROVE WarmsWhole(c)' /\ Told(c)'
      BY <2>1, WarmStep, OtherTold DEF Shared
    <2>4. Mine(b)'
      BY <1>3, <2>1, StartTold, KilledTold, CheckTold, RemoveTold, PruneTold, PrunedTold,
         CreateTold, CreateFailsTold, WarmStartsTold, WarmEndsTold, RecheckTold, CopyTold,
         RewriteTold, BuildStartsTold, BuildEndsTold, ExportTold, EndTold DEF Step
    <2> QED BY <1>1, <2>2, <2>3, <2>4 DEF Shared, Mine
  <1> QED BY <1>2, <1>3 DEF Next

\* Shared is inductive, for any number of builds, agents, keys and compilers:
\* what stands in a template that others build and remove part by part, and
\* what each build may count on there.
THEOREM SharedInvariance == Spec => []Shared
  BY InitShared, StepShared, PTL DEF Spec

\* A template that template_workspace_ready accepts is whole, unless it is being
\* removed or its removal was cut short or met another build, for any number
\* of builds that are killed at any point (template_cache/prepare.rs).
THEOREM ReadyWhole == Spec => []ReadyIsWhole
  <1>1. Shared => ReadyIsWhole
    BY DEF Shared, SeedIsWhole, ReadyIsWhole, Ready
  <1> QED BY <1>1, SharedInvariance, PTL

\* A build of a sound definition fails in the template only because another
\* build took parts of it away or left it incomplete, for any number of
\* builds (ensure_warmed_template, run_hatch_pipeline_with_lock).
THEOREM FailureExplained == Spec => []FailuresExplained
  <1>1. Shared => FailuresExplained
    <2> SUFFICES ASSUME Shared, NEW b \in Builds, Live(b),
                        run[b].result \in {"template", "copy", "build", "missing"}
                 PROVE  \/ b \in crossed
                        \/ Key(b) \in cut
                        \/ \E c \in Builds \ {b} :
                              Removes(c, Key(b)) /\ b \in Robbed(c, Key(b))
        BY DEF FailuresExplained
    <2>1. Excused(b)
      BY DEF Shared, Told, Failed, Excused
    <2>2. ASSUME NEW c \in Builds \ {b}, Removes(c, Key(b)) PROVE b \in Robbed(c, Key(b))
      BY <2>2 DEF Shared, Told, PrunesStale, Stale, Robbed, Removes, Victim
    <2> QED BY <2>1, <2>2 DEF Excused
  <1> QED BY <1>1, SharedInvariance, PTL

=============================================================================
