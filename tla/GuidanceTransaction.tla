------------------------- MODULE GuidanceTransaction -------------------------
(***************************************************************************)
(* The recoverable replacement of the managed guidance bundle and of the   *)
(* files beside it (AGENTS.md, CLAUDE.md, .gitignore): apply, clean and    *)
(* recover of transaction.rs, one file operation per action.               *)
(*                                                                         *)
(* The process that changes guidance holds the writer lock, so there is    *)
(* one at a time; it may fail or die between any two operations, the lock  *)
(* dies with it, and a later `guidance update` recovers.  A user who edits *)
(* the same files takes no lock.                                           *)
(***************************************************************************)
EXTENDS Integers, FiniteSets

CONSTANTS
  NFiles,      \* files beside the bundle
  MaxUpdates,  \* bound: updates ever begun
  MaxEdits,    \* bound: changes the user makes
  Torn         \* TRUE: an interrupted write leaves part of a file

ASSUME SizesAssumption ==
  /\ NFiles \in Nat /\ MaxUpdates \in Nat /\ MaxEdits \in Nat
  /\ Torn \in BOOLEAN

Bundle == 0
Files == 1 .. NFiles
Items == {Bundle} \union Files
Ignore == 1      \* .gitignore, the first by name

\* Contents: nothing, part of a file, some of a bundle's files; what an update
\* installs; what the user writes.
Absent == 0
Fragment == -1
Partial == -2
Installed == 1 .. MaxUpdates
Edits == MaxUpdates + 1 .. MaxUpdates + MaxEdits
Whole == {Absent} \union Installed \union Edits
Stored == Whole \union {Fragment, Partial}

VARIABLES
  live,      \* the bundle and files that agents and build tools read
  dir,       \* the transaction directory exists
  journal,   \* which of the three journal files it holds, and whether whole
  marker,    \* its file `committed`
  fresh,     \* new-bundle, new-files
  old,       \* old-bundle, old-files
  out,       \* discarded-bundle, displaced-files
  plan,      \* the last update's plan, which its journal records
  proc,      \* the process that holds the writer lock
  updates,   \* updates begun
  edits,     \* changes the user has made
  kept,      \* history: edits neither changed again nor merged into an update
  exposed,   \* history: edits of a file between a destination check and its rename
  touched    \* history: items the user changed since the plan was made

userVars == <<edits, kept, exposed, touched>>
dirVars == <<dir, journal, marker, fresh, old, out>>
vars == <<live, dirVars, plan, proc, updates, userVars>>

Steps == {"reserve", "journal", "stage", "recheck", "backup", "promote",
          "promoting", "verify", "marker", "recover", "undo", "restore",
          "restoring", "check", "clean", "retire", "sweep", "unlink", "rmdir"}

\* The process: its place, the item it is at, whether it is recovering, the set
\* it cleans up after, the bundle recovery saw, and the artifacts to remove.
Idle == [pc |-> "idle", at |-> Bundle, recovering |-> FALSE, committed |-> FALSE,
         seen |-> Absent, sweep |-> {}]

NoPlan == [items |-> {Bundle}, before |-> [i \in Items |-> Absent],
           after |-> [i \in Items |-> Absent]]

(***************************************************************************)
(* Helpers                                                                 *)
(***************************************************************************)
Changed == {i \in plan.items : plan.before[i] # plan.after[i]}

\* matches_snapshot
Matches(set) == \A i \in plan.items : live[i] = set[i]

Least(S) == CHOOSE i \in S : \A k \in S : i <= k

Goto(pc, i) == proc' = [proc EXCEPT !.pc = pc, !.at = i]

\* The loops over the files go in order of their names.
FilesAfter(i) == {k \in Files : k > i}
ToFile(pc, S, done) == IF S = {} THEN Goto(done, Bundle) ELSE Goto(pc, Least(S))

\* apply promotes the changed files and then the bundle if it changes.
NextChange(i) ==
  LET rest == IF i = Bundle THEN {} ELSE Changed \intersect FilesAfter(i)
  IN IF rest # {} THEN Goto("backup", Least(rest))
     ELSE IF i # Bundle /\ Bundle \in Changed THEN Goto("backup", Bundle)
     ELSE Goto("verify", Bundle)
FirstChange ==
  IF Changed \intersect Files = {} THEN Goto("backup", Bundle)
  ELSE Goto("backup", Least(Changed \intersect Files))

\* Rollback restores the bundle and then every file.
NextUndo(i) == ToFile("undo", plan.items \intersect FilesAfter(i), "check")

\* Mutant: an error of apply cleans up without undoing what was promoted.
\* What an error leads to: apply recovers at once when its journal is written.
FailedCleans == IF proc.recovering \/ proc.pc \in {"reserve", "journal"} THEN Idle
                ELSE [Idle EXCEPT !.pc = "clean", !.recovering = TRUE]
Failed == IF proc.recovering \/ proc.pc \in {"reserve", "journal"} THEN Idle
          ELSE [Idle EXCEPT !.pc = "recover", !.recovering = TRUE]
Fail == proc' = Failed

\* The files of the transaction directory, each bundle as one.
Slots == {"fresh", "old", "out"} \X Items
Held(s) == CASE s[1] = "fresh" -> fresh[s[2]]
             [] s[1] = "old" -> old[s[2]]
             [] OTHER -> out[s[2]]
Artifacts == {s \in Slots : Held(s) # Absent}

\* Mutants: an artifact is taken for what its name says; a half written bundle is
\* not accounted for.
\* validate_artifacts: every file found is one the journal accounts for.  Some
\* files of a bundle are accounted for, part of a file is not.
AccountedAny(i, c, set) == TRUE
AccountedWhole(i, c, set) == c = Absent \/ (i \in plan.items /\ c = set[i])
Accounted(i, c, set) ==
  \/ c = Absent
  \/ i \in plan.items /\ set[i] # Absent /\ (c = set[i] \/ (i = Bundle /\ c = Partial))
Recognised ==
  /\ marker = "none" \/ (marker = "whole" /\ journal # "restored")
  /\ \A i \in Items : /\ Accounted(i, fresh[i], plan.after)
                      /\ Accounted(i, out[i], plan.after)
                      /\ Accounted(i, old[i], plan.before)

(***************************************************************************)
(* apply                                                                   *)
(***************************************************************************)
\* inspect: the manifest that is live is the last plan's or that of the set the
\* plan found; without a bundle nothing is owned.
Manifest == IF live[Bundle] = plan.after[Bundle] THEN plan.after ELSE plan.before
Owned ==
  IF live[Bundle] = Absent THEN {}
  ELSE {i \in plan.items \ {Bundle, Ignore} : Manifest[i] # Absent}

\* mutate computes the plan under the lock.  A managed item that the user changed
\* blocks it.  It takes part in the bundle, the files an update wrote and files it
\* adds where there are none; of the user's files only in .gitignore, with whose
\* contents the new ones are merged.
Plan(added, changed) ==
  LET items == {Bundle} \union Owned \union added
  IN
  /\ proc.pc = "idle" /\ ~dir
  /\ updates < MaxUpdates
  /\ live[Bundle] \notin Edits /\ \A i \in Owned : live[i] = Manifest[i]
  /\ added \subseteq {i \in Files : i = Ignore \/ live[i] = Absent}
  /\ added \subseteq changed /\ changed \subseteq items /\ changed # {}
  /\ live[Bundle] = Absent \/ changed \ {Ignore} # {} => Bundle \in changed
  /\ updates' = updates + 1
  /\ plan' = [items |-> items, before |-> live,
              after |-> [i \in Items |-> IF i \in changed THEN updates + 1 ELSE live[i]]]
  /\ touched' = {}
  /\ kept' = kept \ {live[i] : i \in added}
  /\ Goto("reserve", Bundle)
  /\ UNCHANGED <<live, dirVars, edits, exposed>>

Reserve ==
  /\ proc.pc = "reserve"
  /\ IF Matches(plan.before)
     THEN dir' = TRUE /\ Goto("journal", Bundle)
     ELSE dir' = dir /\ Fail
  /\ UNCHANGED <<live, journal, marker, fresh, old, out, plan, updates, userVars>>

WriteJournal ==
  /\ proc.pc = "journal"
  /\ journal' = "open"
  /\ Goto("stage", Bundle)
  /\ UNCHANGED <<live, dir, marker, fresh, old, out, plan, updates, userVars>>

\* The bundle is written file by file, and even when it does not change.
Stage ==
  LET i == proc.at IN
  /\ proc.pc = "stage"
  /\ IF i = Bundle /\ fresh[i] = Absent
     THEN fresh' = [fresh EXCEPT ![i] = Partial] /\ UNCHANGED proc
     ELSE /\ fresh' = [fresh EXCEPT ![i] = plan.after[i]]
          /\ ToFile("stage", Changed \intersect FilesAfter(i), "recheck")
  /\ UNCHANGED <<live, dir, journal, marker, old, out, plan, updates, userVars>>

Recheck ==
  /\ proc.pc = "recheck"
  /\ IF Matches(plan.before) THEN FirstChange ELSE Fail
  /\ UNCHANGED <<live, dirVars, plan, updates, userVars>>

\* The live item is moved out of the way, whatever it now holds.
Backup ==
  LET i == proc.at IN
  /\ proc.pc = "backup"
  /\ IF plan.before[i] = Absent
     THEN Goto("promote", i) /\ UNCHANGED <<live, old>>
     ELSE IF live[i] # Absent /\ old[i] = Absent
     THEN /\ old' = [old EXCEPT ![i] = live[i]]
          /\ live' = [live EXCEPT ![i] = Absent]
          /\ Goto("promote", i)
     ELSE Fail /\ UNCHANGED <<live, old>>
  /\ UNCHANGED <<dir, journal, marker, fresh, out, plan, updates, userVars>>

\* rename: the destination is checked first and renamed to afterwards.
Checked(from, to) ==
  /\ proc.pc = from
  /\ IF live[proc.at] = Absent THEN Goto(to, proc.at) ELSE Fail
  /\ UNCHANGED <<live, dirVars, plan, updates, userVars>>

\* fs::rename replaces a file, and refuses to replace a directory with files.
Movable(source) == source[proc.at] # Absent /\ (proc.at = Bundle => live[Bundle] = Absent)
Arrives(source) ==
  IF Movable(source) THEN live' = [live EXCEPT ![proc.at] = source[proc.at]]
                     ELSE UNCHANGED live
Leaves(source) ==
  IF Movable(source) THEN [source EXCEPT ![proc.at] = Absent] ELSE source

Promote ==
  /\ proc.pc = "promoting"
  /\ Arrives(fresh)
  /\ fresh' = Leaves(fresh)
  /\ IF Movable(fresh) THEN NextChange(proc.at) ELSE Fail
  /\ UNCHANGED <<dir, journal, marker, old, out, plan, updates, userVars>>

Verify ==
  /\ proc.pc = "verify"
  /\ IF Matches(plan.after) THEN Goto("marker", Bundle) ELSE Fail
  /\ UNCHANGED <<live, dirVars, plan, updates, userVars>>

\* The commit point.
WriteMarker ==
  /\ proc.pc = "marker"
  /\ marker' = "whole"
  /\ proc' = [proc EXCEPT !.pc = "clean", !.committed = TRUE]
  /\ UNCHANGED <<live, dir, journal, fresh, old, out, plan, updates, userVars>>

(***************************************************************************)
(* recover                                                                 *)
(***************************************************************************)
\* `guidance update` finds a transaction directory and takes the lock.
StartRecovery ==
  /\ proc.pc = "idle" /\ dir
  /\ proc' = [Idle EXCEPT !.pc = "recover", !.recovering = TRUE]
  /\ UNCHANGED <<live, dirVars, plan, updates, userVars>>

EmptyDir == journal = "none" /\ marker = "none" /\ Artifacts = {}
IsCommitted == journal = "committed" \/ marker = "whole"

\* Rollback may only meet the prior or the new contents, and needs the backup
\* of whatever is not at its prior contents.
Reversible ==
  \A i \in plan.items :
    /\ live[i] \in {Absent, plan.before[i], plan.after[i]}
    /\ live[i] # plan.before[i] /\ plan.before[i] # Absent => old[i] = plan.before[i]

\* What recovery does with what it finds; the bundle it saw stays with it.
Recover ==
  LET to(pc, committed) ==
        [proc EXCEPT !.pc = pc, !.at = Bundle, !.committed = committed,
                     !.seen = IF pc = "undo" THEN live[Bundle] ELSE Absent]
  IN
  /\ proc.pc = "recover"
  /\ proc' = CASE EmptyDir -> to("rmdir", FALSE)
               [] ~EmptyDir /\ (journal \in {"none", "torn"} \/ ~Recognised) -> Idle
               [] journal \in {"open", "committed"} /\ Recognised /\ IsCommitted ->
                    IF Matches(plan.after) THEN to("clean", TRUE) ELSE Idle
               [] journal = "restored" /\ Recognised ->
                    IF Matches(plan.before) THEN to("clean", FALSE) ELSE Idle
               [] OTHER -> IF Reversible THEN to("undo", FALSE) ELSE Idle
  /\ UNCHANGED <<live, dirVars, plan, updates, userVars>>

\* What rollback takes the item to hold: a file is read again, the bundle is not.
Seen(i) == IF i = Bundle THEN proc.seen ELSE live[i]

\* Rollback moves what is not at its prior contents out of the way.
Undo ==
  LET i == proc.at
      onward == IF plan.before[i] = Absent THEN NextUndo(i) ELSE Goto("restore", i)
  IN
  /\ proc.pc = "undo"
  /\ IF Seen(i) = plan.before[i]
     THEN NextUndo(i) /\ UNCHANGED <<live, out>>
     ELSE IF Seen(i) = Absent
     THEN onward /\ UNCHANGED <<live, out>>
     ELSE IF live[i] # Absent /\ out[i] = Absent
     THEN /\ out' = [out EXCEPT ![i] = live[i]]
          /\ live' = [live EXCEPT ![i] = Absent]
          /\ onward
     ELSE Fail /\ UNCHANGED <<live, out>>
  /\ UNCHANGED <<dir, journal, marker, fresh, old, plan, updates, userVars>>

Restore ==
  /\ proc.pc = "restoring"
  /\ Arrives(old)
  /\ old' = Leaves(old)
  /\ IF Movable(old) THEN NextUndo(proc.at) ELSE Fail
  /\ UNCHANGED <<dir, journal, marker, fresh, out, plan, updates, userVars>>

CheckRestored ==
  /\ proc.pc = "check"
  /\ IF Matches(plan.before) THEN Goto("clean", Bundle) ELSE Fail
  /\ UNCHANGED <<live, dirVars, plan, updates, userVars>>

(***************************************************************************)
(* clean                                                                   *)
(***************************************************************************)
ListArtifacts ==
  /\ proc.pc = "clean"
  /\ IF Recognised THEN proc' = [proc EXCEPT !.pc = "retire", !.sweep = Artifacts]
                   ELSE Fail
  /\ UNCHANGED <<live, dirVars, plan, updates, userVars>>

\* Mutant: the journal keeps its name while the backups are removed.
RetireUnrenamed ==
  /\ proc.pc = "retire"
  /\ Goto("sweep", Bundle)
  /\ UNCHANGED <<live, dirVars, plan, updates, userVars>>

\* From here on the name of the journal tells which set was completed.
Terminal(j) == IF j = "open" THEN IF proc.committed THEN "committed" ELSE "restored"
               ELSE j
RetireJournal ==
  /\ proc.pc = "retire"
  /\ journal' = Terminal(journal)
  /\ Goto("sweep", Bundle)
  /\ UNCHANGED <<live, dir, marker, fresh, old, out, plan, updates, userVars>>

\* The marker goes first; the order among the other artifacts is left open.
RemoveMarker ==
  /\ proc.pc = "sweep" /\ marker # "none"
  /\ marker' = "none"
  /\ UNCHANGED <<live, dir, journal, fresh, old, out, plan, proc, updates, userVars>>

\* The files of a bundle are removed one by one.
Removed(s, group, contents) ==
  IF s[1] # group THEN contents
  ELSE [contents EXCEPT ![s[2]] = IF s[2] = Bundle /\ @ # Partial THEN Partial ELSE Absent]
RemoveArtifact(s) ==
  /\ proc.pc = "sweep" /\ marker = "none"
  /\ s \in proc.sweep
  /\ fresh' = Removed(s, "fresh", fresh)
  /\ old' = Removed(s, "old", old)
  /\ out' = Removed(s, "out", out)
  /\ proc' = IF s[2] = Bundle /\ Held(s) # Partial THEN proc
             ELSE [proc EXCEPT !.sweep = @ \ {s}]
  /\ UNCHANGED <<live, dir, journal, marker, plan, updates, userVars>>

Swept ==
  /\ proc.pc = "sweep" /\ marker = "none" /\ proc.sweep = {}
  /\ Goto("unlink", Bundle)
  /\ UNCHANGED <<live, dirVars, plan, updates, userVars>>

RemoveJournal ==
  /\ proc.pc = "unlink"
  /\ journal' = "none"
  /\ Goto("rmdir", Bundle)
  /\ UNCHANGED <<live, dir, marker, fresh, old, out, plan, updates, userVars>>

\* remove_empty_transaction
RemoveDir ==
  /\ proc.pc = "rmdir"
  /\ dir' = FALSE
  /\ proc' = Idle
  /\ UNCHANGED <<live, journal, marker, fresh, old, out, plan, updates, userVars>>

(***************************************************************************)
(* Failures and the user                                                   *)
(***************************************************************************)
Crash ==
  /\ proc.pc # "idle"
  /\ proc' = Idle
  /\ UNCHANGED <<live, dirVars, plan, updates, userVars>>

\* A file operation returns an error and has no effect.
IoError ==
  /\ proc.pc # "idle"
  /\ Fail
  /\ UNCHANGED <<live, dirVars, plan, updates, userVars>>

\* An interrupted write_new leaves part of its file.
TornWrite ==
  /\ Torn
  /\ \/ /\ proc.pc = "journal"
        /\ journal' = "torn"
        /\ UNCHANGED <<marker, fresh>>
     \/ /\ proc.pc = "stage"
        /\ fresh' = [fresh EXCEPT ![proc.at] = Fragment]
        /\ UNCHANGED <<marker, journal>>
     \/ /\ proc.pc = "marker"
        /\ marker' = "torn"
        /\ UNCHANGED <<journal, fresh>>
  /\ proc' \in {Idle, Failed}
  /\ UNCHANGED <<live, dir, old, out, plan, updates, userVars>>

Moving(i) == proc.pc \in {"promoting", "restoring"} /\ proc.at = i

UserWrites(i) ==
  LET edit == MaxUpdates + edits + 1 IN
  /\ edits < MaxEdits
  /\ edits' = edits + 1
  /\ live' = [live EXCEPT ![i] = edit]
  /\ kept' = (kept \ {live[i]}) \union {edit}
  /\ exposed' = IF i \in Files /\ Moving(i) THEN exposed \union {edit} ELSE exposed
  /\ touched' = touched \union {i}
  /\ UNCHANGED <<dirVars, plan, proc, updates>>

UserDeletes(i) ==
  /\ edits < MaxEdits
  /\ live[i] # Absent
  /\ edits' = edits + 1
  /\ live' = [live EXCEPT ![i] = Absent]
  /\ kept' = kept \ {live[i]}
  /\ touched' = touched \union {i}
  /\ UNCHANGED <<dirVars, plan, proc, updates, exposed>>

Nothing == [i \in Items |-> Absent]

Init ==
  /\ live = Nothing /\ fresh = Nothing /\ old = Nothing /\ out = Nothing
  /\ dir = FALSE /\ journal = "none" /\ marker = "none"
  /\ plan = NoPlan /\ proc = Idle
  /\ updates = 0 /\ edits = 0
  /\ kept = {} /\ exposed = {} /\ touched = {}

ApplyStep ==
  \/ Reserve \/ WriteJournal \/ Stage \/ Recheck \/ Backup
  \/ Checked("promote", "promoting") \/ Promote \/ Verify \/ WriteMarker

RecoverStep ==
  \/ StartRecovery \/ Recover \/ Undo
  \/ Checked("restore", "restoring") \/ Restore \/ CheckRestored

CleanStep ==
  \/ ListArtifacts \/ RetireJournal \/ RemoveMarker
  \/ \E s \in Slots : RemoveArtifact(s)
  \/ Swept \/ RemoveJournal \/ RemoveDir

Work == ApplyStep \/ RecoverStep \/ CleanStep

Intended ==
  \/ \E added, changed \in SUBSET Items : Plan(added, changed)
  \/ Work
  \/ \E i \in Items : UserWrites(i) \/ UserDeletes(i)

Next == Intended \/ Crash \/ IoError \/ TornWrite

Spec == Init /\ [][Next]_vars

\* The scheduler runs the process, the user asks again for an interrupted
\* update, and crashes, errors and torn writes come to an end.
Fairness == WF_vars(Work) /\ <>[][Intended]_vars

FairSpec == Spec /\ Fairness

(***************************************************************************)
(* Properties                                                              *)
(***************************************************************************)
Plans == [items : SUBSET Items, before : [Items -> Whole], after : [Items -> Whole]]
Passes == [pc : Steps \union {"idle"}, at : Items, recovering : BOOLEAN,
           committed : BOOLEAN, seen : Whole, sweep : SUBSET Slots]

\* Every variable holds values the code can store.
TypeOK ==
  /\ live \in [Items -> Whole]
  /\ dir \in BOOLEAN
  /\ journal \in {"none", "torn", "open", "committed", "restored"}
  /\ marker \in {"none", "torn", "whole"}
  /\ fresh \in [Items -> Stored] /\ old \in [Items -> Stored]
  /\ out \in [Items -> Stored]
  /\ plan \in Plans
  /\ proc \in Passes
  /\ updates \in 0 .. MaxUpdates /\ edits \in 0 .. MaxEdits
  /\ kept \subseteq Edits /\ exposed \subseteq Edits /\ touched \subseteq Items

\* While a transaction is open the prior contents of every participant that the
\* user leaves alone are live or backed up; once its journal or marker names the
\* completed set, that set is the one that is live (apply, recover and clean).
SetRecoverable ==
  dir => \A i \in plan.items \ touched :
    /\ journal \in {"none", "torn"} =>
         live[i] \in {plan.before[i], plan.after[i]}
    /\ journal = "open" /\ marker # "whole" /\ plan.before[i] # Absent =>
         plan.before[i] \in {live[i], old[i]}
    /\ journal = "restored" => live[i] = plan.before[i]
    /\ IsCommitted => live[i] = plan.after[i]

\* When no transaction is pending, the participants that the user has left alone
\* since it was planned are all at their prior or all at their new contents.
AllOrNothing ==
  ~dir => \/ \A i \in plan.items \ touched : live[i] = plan.before[i]
          \/ \A i \in plan.items \ touched : live[i] = plan.after[i]

\* An edit stays live or in the transaction directory until the user changes it
\* again, except one that arrives between the destination check of rename and
\* the renaming of a file.
Somewhere(c) == \E i \in Items : c \in {live[i], fresh[i], old[i], out[i]}
OnlyExposedEditsLost == \A c \in kept \ exposed : Somewhere(c)

\* "Existing user-owned or modified AGENTS.md and CLAUDE.md remain byte-for-byte
\* intact": no edit is ever lost (docs/projects-and-tools.md:179).
EditsIntact == \A c \in kept : Somewhere(c)

\* With no user interfering, the managed files change in a single step: the
\* detailed steps of apply, clean and recover implement AtomicReplace.
Merged(set) == [i \in Items |-> IF i \in plan.items THEN set[i] ELSE live[i]]
Current ==
  IF dir /\ IsCommitted THEN Merged(plan.after)
  ELSE IF dir /\ journal \in {"open", "restored"} THEN Merged(plan.before)
  ELSE live
Target == IF dir THEN Merged(plan.after) ELSE live

Atomic == INSTANCE AtomicReplace WITH Contents <- Whole, current <- Current,
                                      pending <- dir, target <- Target
Implements == Atomic!AtomicSpec

\* A transaction whose journal is written is completed or undone once mishaps
\* end: "Failure before commit restores the prior set or leaves an explicitly
\* incomplete transaction for verified recovery on a later update"
\* (docs/projects-and-tools.md:181).
JournaledSettles == (dir /\ journal = "open") ~> ~dir

\* A pending transaction ends, unless an interrupted write has left a file that
\* recovery cannot account for.
Unreadable == journal = "torn" \/ marker = "torn" \/ \E i \in Items : fresh[i] = Fragment
Settles == dir ~> (~dir \/ Unreadable)

=============================================================================
