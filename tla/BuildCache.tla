------------------------------ MODULE BuildCache ------------------------------
(***************************************************************************)
(* Invocations of `hatch`, `check` and `project build` on one machine.     *)
(* Each takes the lock file of its agent, replaces the agent's workspace,  *)
(* makes sure the build template of its key is warm, prunes the templates  *)
(* of other compilers and other cargo-ai binaries, copies the template     *)
(* into the workspace, compiles into the template's target directory and   *)
(* copies the binary out.  The lock covers an agent; nothing covers the    *)
(* templates, which every invocation of any agent reads, rebuilds and      *)
(* removes.                                                                *)
(*                                                                         *)
(* A directory tree is the set of its parts, written and removed one at a  *)
(* time.  An invocation runs once: it ends, or it is killed at any step.   *)
(***************************************************************************)
EXTENDS Integers, FiniteSets

CONSTANTS
  Builds,   \* the invocations, bounded by their number
  Agents,   \* agent names
  Keys,     \* template cache keys
  Parent,   \* the cargo-ai binary and the rustc version of a key
  Menu,     \* the commands an invocation may be given
  Mortal,   \* the invocations that may be killed
  Warm,     \* the sets of templates that earlier runs may have left
  Nobody

Source == {"checked", "other"}
Parts == Source \cup {"seed"}
Owners == Builds \cup {Nobody}

\* A command: HatchRequest, or an agent of a project build, which forces
\* replacement and keeps nothing.  sound says that the definition compiles.
Command == [kind : {"hatch", "check", "project"}, agent : Agents, key : Keys,
            force : BOOLEAN, keep : BOOLEAN, sound : BOOLEAN]

ASSUME BuildAssumption ==
  /\ Nobody \notin Builds
  /\ DOMAIN Parent = Keys
  /\ Menu \subseteq Command
  /\ Mortal \subseteq Builds
  /\ Warm \subseteq SUBSET Keys
  /\ \A m \in Menu : m.kind = "project" => m.force /\ ~m.keep

VARIABLES
  run,        \* each invocation: place, command, what is left to do, the stale
              \* template it is removing, result
  lock,       \* the creator of locks/<agent>.lock, if the file is there
  workspace,  \* agents/<agent>: the parts in it and whose definition it has
  template,   \* templates/<key>: its parts, and the binaries under target/
  output,     \* the exported binary of each agent: whose definition it has
  cut,        \* history: keys whose removal was cut short or met another build at
              \* work there
  crossed     \* history: invocations whose template another one took away

vars == <<run, lock, workspace, template, output, cut, crossed>>

-----------------------------------------------------------------------------
Absent == [there |-> FALSE, parts |-> {}, by |-> Nobody]
Removing == {"reset", "scrap", "clear"}
Compiling == {"warming", "building"}
Places == {"new", "lock", "replace", "check", "create", "warm", "recheck", "copy",
           "rewrite", "build", "export", "prune", "tidy", "leave", "over", "killed"}
          \cup Removing \cup Compiling
Results == {"none", "ok", "refused", "leftover", "taken", "flawed", "template", "copy",
            "build", "missing"}

Cmd(b) == run[b].cmd
Key(b) == Cmd(b).key
At(b, places) == run[b].pc \in places
Live(b) == ~At(b, {"new", "over", "killed"})
Go(b, pc) == run' = [run EXCEPT ![b].pc = pc]
GoWith(b, pc, todo) == run' = [run EXCEPT ![b].pc = pc, ![b].todo = todo]
Conclude(b, pc, why) == run' = [run EXCEPT ![b].pc = pc, ![b].result = why]

\* Mutant: the four source files are enough.
ReadyUnbuilt(k) == "checked" \in template[k].parts

\* template_workspace_ready looks at four source files and the seed binary.
Ready(k) == {"checked", "seed"} \subseteq template[k].parts

Whole(k) == Parts \subseteq template[k].parts
Empty(k) == template[k].parts = {} /\ template[k].built = [a \in Agents |-> Nobody]

\* Mutant: every other key is stale.
OtherKeys(k) == Keys \ {k}

\* prune_stale_template_cache: everything of another binary or compiler.
Stale(k) == {x \in Keys : Parent[x] # Parent[k]}

\* The key whose tree an invocation is removing.
Victim(b) == IF At(b, {"clear"}) THEN run[b].victim ELSE Key(b)
Removes(b, k) == At(b, Removing) /\ Victim(b) = k

\* Others at work in the tree of a key: its removal may then fail.
Contended(b, k) ==
  \E c \in Builds \ {b} :
     \/ Removes(c, k)
     \/ At(c, {"create", "warming", "building"}) /\ Key(c) = k

\* The invocations a removal by b from the tree of k takes a template from.
Robbed(b, k) ==
  {c \in Builds \ {b} : Live(c) /\ Key(c) = k /\ (Key(b) = k \/ Parent[Key(b)] # Parent[k])}

-----------------------------------------------------------------------------
Start(b) ==
  /\ At(b, {"new"})
  /\ Go(b, "lock")
  /\ UNCHANGED <<lock, workspace, template, output, cut, crossed>>

\* Mutant: opening an existing lock file is no error.
OpenAnyway(a) == TRUE

Unlocked(a) == lock[a] = Nobody

\* Mutant: wait for the file to go.
AcquireWaiting(b) ==
  /\ At(b, {"lock"})
  /\ Unlocked(Cmd(b).agent)
  /\ lock' = [lock EXCEPT ![Cmd(b).agent] = b]
  /\ Go(b, "replace")
  /\ UNCHANGED <<workspace, template, output, cut, crossed>>

\* try_acquire_agent_lock: the file is created, or it was there.
Acquire(b) ==
  /\ At(b, {"lock"})
  /\ LET a == Cmd(b).agent IN
       \/ /\ Unlocked(a)
          /\ lock' = [lock EXCEPT ![a] = b]
          /\ Go(b, "replace")
       \/ /\ ~Unlocked(a)
          /\ Conclude(b, "over", "refused")
          /\ UNCHANGED lock
  /\ UNCHANGED <<workspace, template, output, cut, crossed>>

\* prepare_workspace_for_hatch, and the reset of a project build.
Replace(b) ==
  /\ At(b, {"replace"})
  /\ LET a == Cmd(b).agent IN
       \/ /\ workspace[a].there => Cmd(b).force
          /\ workspace' = [workspace EXCEPT ![a] = Absent]
          /\ Go(b, "check")
       \/ /\ workspace[a].there /\ ~Cmd(b).force
          /\ Conclude(b, "leave", "leftover")
          /\ UNCHANGED workspace
  /\ UNCHANGED <<lock, template, output, cut, crossed>>

\* ensure_warmed_template: reuse what is ready, else prepare it.
Check(b) ==
  /\ At(b, {"check"})
  /\ IF Ready(Key(b)) THEN GoWith(b, "prune", Stale(Key(b))) ELSE Go(b, "reset")
  /\ UNCHANGED <<lock, workspace, template, output, cut, crossed>>

\* The directory is read, and one stale tree after another removed.
Prune(b) ==
  /\ At(b, {"prune"})
  /\ \E k \in run[b].todo : run' = [run EXCEPT ![b].pc = "clear", ![b].victim = k]
  /\ UNCHANGED <<lock, workspace, template, output, cut, crossed>>

\* Where a finished or failed removal leads.
Emptied(b, k) ==
  CASE At(b, {"reset"}) -> GoWith(b, "create", Source)
    [] At(b, {"scrap"}) -> Go(b, "leave")
    [] OTHER            -> GoWith(b, "prune", run[b].todo \ {k})

\* A failed reset is an error, a failed clean-up is ignored, and a failed
\* prune is a warning that ends the pruning.
Obstructed(b) ==
  CASE At(b, {"reset"}) -> Conclude(b, "leave", "template")
    [] At(b, {"scrap"}) -> Go(b, "leave")
    [] OTHER            -> GoWith(b, "copy", Source)

\* The target directory, with the seed and the binaries, counts as one part.
Without(t, part) ==
  [parts |-> t.parts \ {part},
   built |-> IF part = "seed" THEN [a \in Agents |-> Nobody] ELSE t.built]

\* remove_dir_all, a part at a time.
Remove(b) ==
  /\ At(b, Removing)
  /\ LET k == Victim(b) IN
       \/ \E part \in Parts :
            /\ template[k] # Without(template[k], part)
            /\ template' = [template EXCEPT ![k] = Without(@, part)]
            /\ crossed' = crossed \cup Robbed(b, k)
            /\ run' = [c \in Builds |->
                 IF c # b /\ At(c, Compiling) /\ Key(c) = k
                 THEN [run[c] EXCEPT !.hurt = TRUE] ELSE run[c]]
            /\ UNCHANGED cut
       \/ /\ Empty(k)
          /\ Emptied(b, k)
          /\ cut' = IF Contended(b, k) THEN cut \cup {k} ELSE cut \ {k}
          /\ UNCHANGED <<template, crossed>>
       \/ /\ Contended(b, k)
          /\ Obstructed(b)
          /\ cut' = cut \cup {k}
          /\ crossed' = crossed \cup (IF At(b, {"reset"}) THEN {b} ELSE {})
          /\ UNCHANGED template
  /\ UNCHANGED <<lock, workspace, output>>

\* The directory is read to its end.
Pruned(b) ==
  /\ At(b, {"prune"}) /\ run[b].todo = {}
  /\ GoWith(b, "copy", Source)
  /\ UNCHANGED <<lock, workspace, template, output, cut, crossed>>

\* create_template_project: every file is written, its directory made first.
Create(b) ==
  /\ At(b, {"create"})
  /\ \E part \in run[b].todo :
       /\ template' = [template EXCEPT ![Key(b)].parts = @ \cup {part}]
       /\ GoWith(b, IF run[b].todo = {part} THEN "warm" ELSE "create", run[b].todo \ {part})
  /\ UNCHANGED <<lock, workspace, output, cut, crossed>>

\* A directory just made is gone when the file is written.
CreateFails(b) ==
  /\ At(b, {"create"})
  /\ \E c \in Builds \ {b} : Removes(c, Key(b))
  /\ Conclude(b, "scrap", "template")
  /\ crossed' = crossed \cup {b}
  /\ UNCHANGED <<lock, workspace, template, output, cut>>

\* cargo build in the template.  A build whose tree lost a part meanwhile may
\* fail or not.
WarmStarts(b) ==
  /\ At(b, {"warm"})
  /\ IF Source \subseteq template[Key(b)].parts
     THEN run' = [run EXCEPT ![b].pc = "warming", ![b].hurt = FALSE]
     ELSE Conclude(b, "scrap", "template")
  /\ UNCHANGED <<lock, workspace, template, output, cut, crossed>>

WarmEnds(b) ==
  /\ At(b, {"warming"})
  /\ \/ /\ template' = [template EXCEPT ![Key(b)].parts = @ \cup {"seed"}]
        /\ Go(b, "recheck")
     \/ /\ run[b].hurt
        /\ Conclude(b, "scrap", "template")
        /\ UNCHANGED template
  /\ UNCHANGED <<lock, workspace, output, cut, crossed>>

Recheck(b) ==
  /\ At(b, {"recheck"})
  /\ IF Ready(Key(b)) THEN GoWith(b, "prune", Stale(Key(b))) ELSE Conclude(b, "scrap", "template")
  /\ UNCHANGED <<lock, workspace, template, output, cut, crossed>>

-----------------------------------------------------------------------------
\* Where a failure leads once the workspace is made: a project build does not
\* clean up after a failed copy.
AfterCopy(b) == IF Cmd(b).kind = "project" THEN "leave" ELSE "tidy"

\* create_agent_workspace and seed_agent_workspace.  A part that is not there
\* is not listed, or it vanishes between the listing and the copy.
Copy(b) ==
  /\ At(b, {"copy"})
  /\ LET a == Cmd(b).agent IN
     \E part \in run[b].todo :
       /\ workspace' = [workspace EXCEPT ![a] =
            [there |-> TRUE, parts |-> @.parts \cup ({part} \cap template[Key(b)].parts),
             by |-> @.by]]
       /\ \/ GoWith(b, IF run[b].todo = {part} THEN "rewrite" ELSE "copy", run[b].todo \ {part})
          \/ part \notin template[Key(b)].parts /\ Conclude(b, AfterCopy(b), "copy")
  /\ UNCHANGED <<lock, template, output, cut, crossed>>

\* rewrite_agent_generated_files and write_portable_agent_metadata.
Rewrite(b) ==
  /\ At(b, {"rewrite"})
  /\ \/ /\ workspace' = [workspace EXCEPT ![Cmd(b).agent].by = b]
        /\ Go(b, "build")
     \/ /\ ~(Source \subseteq workspace[Cmd(b).agent].parts)
        /\ Conclude(b, AfterCopy(b), "copy")
        /\ UNCHANGED workspace
  /\ UNCHANGED <<lock, template, output, cut, crossed>>

BuildStarts(b) ==
  /\ At(b, {"build"})
  /\ IF Source \subseteq workspace[Cmd(b).agent].parts
     THEN run' = [run EXCEPT ![b].pc = "building", ![b].hurt = FALSE]
     ELSE Conclude(b, "tidy", "build")
  /\ UNCHANGED <<lock, workspace, template, output, cut, crossed>>

\* cargo build or cargo check of the workspace into the template's target
\* directory, which cargo makes again if it has to.
BuildEnds(b) ==
  /\ At(b, {"building"})
  /\ \/ /\ Cmd(b).sound
        /\ IF Cmd(b).kind = "check"
           THEN /\ Conclude(b, "tidy", "ok")
                /\ UNCHANGED template
           ELSE /\ template' = [template EXCEPT
                     ![Key(b)].built[Cmd(b).agent] = workspace[Cmd(b).agent].by]
                /\ Go(b, "export")
     \/ /\ run[b].hurt \/ ~Cmd(b).sound
        /\ Conclude(b, "tidy", IF Cmd(b).sound THEN "build" ELSE "flawed")
        /\ UNCHANGED template
  /\ UNCHANGED <<lock, workspace, output, cut, crossed>>

\* export_binary: from the template's target directory, by the agent's name.
Export(b) ==
  /\ At(b, {"export"})
  /\ LET a == Cmd(b).agent
         binary == template[Key(b)].built[a] IN
     CASE binary = Nobody -> Conclude(b, "tidy", "missing") /\ UNCHANGED output
       [] binary # Nobody /\ output[a] # Nobody /\ ~Cmd(b).force ->
            Conclude(b, "tidy", "taken") /\ UNCHANGED output
       [] OTHER -> /\ output' = [output EXCEPT ![a] = binary]
                   /\ Conclude(b, "tidy", "ok")
  /\ UNCHANGED <<lock, workspace, template, cut, crossed>>

\* Mutant: only a successful run cleans up.
TidyIfOk(b) ==
  /\ At(b, {"tidy"})
  /\ workspace' = IF Cmd(b).keep \/ run[b].result # "ok" THEN workspace
                  ELSE [workspace EXCEPT ![Cmd(b).agent] = Absent]
  /\ Go(b, "leave")
  /\ UNCHANGED <<lock, template, output, cut, crossed>>

\* finalize_workspace.
Tidy(b) ==
  /\ At(b, {"tidy"})
  /\ workspace' = IF Cmd(b).keep THEN workspace ELSE [workspace EXCEPT ![Cmd(b).agent] = Absent]
  /\ Go(b, "leave")
  /\ UNCHANGED <<lock, template, output, cut, crossed>>

\* Drop of AgentLockGuard.
Leave(b) ==
  /\ At(b, {"leave"})
  /\ lock' = [lock EXCEPT ![Cmd(b).agent] = Nobody]
  /\ Go(b, "over")
  /\ UNCHANGED <<workspace, template, output, cut, crossed>>

\* The process dies with its compiler: nothing is dropped.
Killed(b) ==
  /\ b \in Mortal /\ Live(b)
  /\ Go(b, "killed")
  /\ cut' = IF At(b, Removing) THEN cut \cup {Victim(b)} ELSE cut
  /\ UNCHANGED <<lock, workspace, template, output, crossed>>

-----------------------------------------------------------------------------
\* Earlier runs may have left warm templates of any keys.
Init ==
  /\ \E cmd \in [Builds -> Menu] : run = [b \in Builds |->
       [pc |-> "new", cmd |-> cmd[b], todo |-> {}, victim |-> cmd[b].key,
        result |-> "none", hurt |-> FALSE]]
  /\ lock = [a \in Agents |-> Nobody]
  /\ workspace = [a \in Agents |-> Absent]
  /\ \E warm \in Warm : template = [k \in Keys |->
       [parts |-> IF k \in warm THEN Parts ELSE {}, built |-> [a \in Agents |-> Nobody]]]
  /\ output = [a \in Agents |-> Nobody]
  /\ cut = {}
  /\ crossed = {}

Step(b) ==
  \/ Acquire(b) \/ Replace(b) \/ Check(b) \/ Remove(b) \/ Prune(b) \/ Pruned(b)
  \/ Create(b) \/ CreateFails(b) \/ WarmStarts(b) \/ WarmEnds(b) \/ Recheck(b)
  \/ Copy(b) \/ Rewrite(b) \/ BuildStarts(b) \/ BuildEnds(b) \/ Export(b)
  \/ Tidy(b) \/ Leave(b)

Next == \E b \in Builds : Start(b) \/ Step(b) \/ Killed(b)

Spec == Init /\ [][Next]_vars

\* A process that is not killed runs on, and cargo ends.
FairSpec == Spec /\ \A b \in Builds : WF_vars(Step(b))

-----------------------------------------------------------------------------
\* Every variable has its type.
TypeOK ==
  /\ run \in [Builds -> [pc : Places, cmd : Command, todo : (SUBSET Source) \cup (SUBSET Keys),
                         victim : Keys, result : Results, hurt : BOOLEAN]]
  /\ lock \in [Agents -> Owners]
  /\ workspace \in [Agents -> [there : BOOLEAN, parts : SUBSET Source, by : Owners]]
  /\ template \in [Keys -> [parts : SUBSET Parts, built : [Agents -> Owners]]]
  /\ output \in [Agents -> Owners]
  /\ cut \subseteq Keys
  /\ crossed \subseteq Builds

\* The binary a build copies out under its agent's name was compiled from the
\* definition that build was given, though every build of the key leaves its
\* binary in the same directory and every build of the agent uses the same
\* workspace: a run that reports success leaves its own binary there as long
\* as it is at work.
ExportIsOwn ==
  \A b \in Builds :
    At(b, {"tidy", "leave"}) /\ run[b].result = "ok" /\ Cmd(b).kind # "check" =>
      output[Cmd(b).agent] = b

\* What template_workspace_ready accepts is a whole template, although it
\* looks at a few files only, templates are built and removed file by file,
\* and builds are killed at any point.  The exceptions are a template that is
\* being taken away by somebody, and one whose removal was cut short or met
\* another build in the template.
ReadyIsWhole ==
  \A k \in Keys : Ready(k) /\ ~Whole(k) =>
    k \in cut \/ \E b \in Builds : Removes(b, k)

\* A build of a sound definition fails in the template only because of
\* another build: one of the same key or of another compiler or binary took
\* parts of the template away while it ran or has begun to, or one that was
\* cut short left the template incomplete.  Builds of a sibling target or
\* profile never get in each other's way.
FailuresExplained ==
  \A b \in Builds :
    Live(b) /\ run[b].result \in {"template", "copy", "build", "missing"} =>
      \/ b \in crossed
      \/ Key(b) \in cut
      \/ \E c \in Builds \ {b} : Removes(c, Key(b)) /\ b \in Robbed(c, Key(b))

\* A build that ended has removed its lock, and has left its workspace only
\* when told to keep it or when a project build could not copy the template;
\* only a killed build leaves either behind to refuse the later ones.
EndsClean ==
  \A b \in Builds : At(b, {"over"}) =>
    /\ lock[Cmd(b).agent] # b
    /\ workspace[Cmd(b).agent].by = b => Cmd(b).keep \/ run[b].result = "copy"

\* Every build that was started ends or is killed, whatever lock files and
\* half-removed templates the others leave.
RunsEnd == \A b \in Builds : Live(b) ~> ~Live(b)

=============================================================================
