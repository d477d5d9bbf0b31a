---------------------- MODULE GuidanceTransactionProofs ----------------------
(***************************************************************************)
(* That a guidance transaction can always be completed or undone, and that *)
(* it is one or the other when it is no longer pending, for any number of  *)
(* files, updates and user edits.                                          *)
(***************************************************************************)
EXTENDS GuidanceTransaction, WellFoundedInduction, TLAPS

Untouched == plan.items \ touched
LivePrior == \A i \in Untouched : live[i] = plan.before[i]
LiveNew == \A i \in Untouched : live[i] = plan.after[i]
Bare == \A i \in Items : fresh[i] = Absent /\ old[i] = Absent /\ out[i] = Absent

\* What the transaction directory says of the live files.  Backups are whole
\* until a completed set is named and they may be swept.
DirInv ==
  /\ ~dir => journal = "none"
  /\ journal \in {"none", "torn"} => marker = "none" /\ Bare /\ (LivePrior \/ LiveNew)
  /\ journal = "open" => old \in [Items -> Whole]
  /\ journal = "open" /\ marker # "whole" =>
       \A i \in Untouched : plan.before[i] # Absent => plan.before[i] \in {live[i], old[i]}
  /\ journal = "restored" => marker = "none" /\ LivePrior
  /\ IsCommitted => LiveNew

\* What holds at each place of the process.
AtReserve == proc.pc = "reserve" => ~dir
AtJournal == proc.pc = "journal" => journal = "none" /\ LivePrior
Working ==
  proc.pc \in {"stage", "recheck", "backup", "promote", "promoting", "verify", "marker",
              "undo", "restore", "restoring", "check"} => journal = "open" /\ marker = "none"
Staged ==
  /\ proc.pc = "stage" => \A k \in Items \ {proc.at} : fresh[k] \in Whole
  /\ proc.pc \in {"recheck", "backup", "promote", "promoting"} => fresh \in [Items -> Whole]
AtMove ==
  /\ proc.pc \in {"promoting", "restoring"} /\ proc.at \in Untouched => live[proc.at] = Absent
  /\ proc.pc = "undo" /\ proc.at = Bundle /\ Bundle \in Untouched => live[Bundle] = proc.seen
AtEnd ==
  /\ proc.pc = "marker" => LiveNew
  /\ proc.pc \in {"undo", "restore", "restoring", "check"} => ~proc.committed
  /\ proc.pc \in {"clean", "retire"} =>
       /\ journal \in {"open", "restored", "committed"}
       /\ proc.committed <=> IsCommitted
       /\ ~proc.committed => LivePrior /\ marker = "none"
AtSweep ==
  /\ proc.pc \in {"retire", "sweep"} => \A s \in Slots : Held(s) # Absent => s \in proc.sweep
  /\ proc.pc \in {"sweep", "unlink"} => journal \in {"restored", "committed"}
  /\ proc.pc = "unlink" => marker = "none" /\ Bare
  /\ proc.pc = "rmdir" => journal = "none"

PlaceInv ==
  /\ ~dir => proc.pc \in {"idle", "reserve"}
  /\ AtReserve /\ AtJournal /\ Working /\ Staged /\ AtMove /\ AtEnd /\ AtSweep

IInv == TypeOK /\ DirInv /\ PlaceInv

(***************************************************************************)
(* The process                                                             *)
(***************************************************************************)
LEMMA ItemsAreIntegers == SizesAssumption => Files \subseteq Int /\ Items \subseteq Int /\ Bundle \in Items
BY DEF SizesAssumption, Files, Items, Bundle

LEMMA GotoFields ==
  ASSUME TypeOK, NEW pc \in Steps \union {"idle"}, NEW i \in Items, Goto(pc, i)
  PROVE  /\ proc' \in Passes
         /\ proc'.pc = pc /\ proc'.at = i
         /\ proc'.recovering = proc.recovering /\ proc'.committed = proc.committed
         /\ proc'.seen = proc.seen /\ proc'.sweep = proc.sweep
BY DEF TypeOK, Passes, Goto

LEMMA IdleType == Idle \in Passes /\ Idle.pc = "idle"
BY DEF Idle, Passes, Whole, Items, Bundle, Absent

LEMMA FailFields ==
  ASSUME TypeOK, Fail
  PROVE  /\ proc' \in Passes
         /\ proc'.pc \in {"idle", "recover"}
         /\ proc.pc \in {"reserve", "journal"} => proc'.pc = "idle"
BY DEF TypeOK, Passes, Fail, Failed, Idle, Steps, Whole, Items, Bundle, Absent

LEMMA LeastOf ==
  ASSUME SizesAssumption, NEW S \in SUBSET Files, S # {}
  PROVE  Least(S) \in S
<1> DEFINE R == OpToRel(<, Nat)
<1>1. IsWellFoundedOn(R, Nat)
  BY NatLessThanWellFounded
<1>2. \A x, y \in Nat : x < y => <<x, y>> \in R
  BY DEF OpToRel
<1> HIDE DEF R
<1>3. S \subseteq Nat
  BY DEF Files, SizesAssumption
<1>4. \E x \in S : \A y \in S : <<y, x>> \notin R
  BY <1>1, <1>3, WFMin
<1>5. \A x, y \in S : y < x \/ x <= y
  BY <1>3
<1>6. \E x \in S : \A y \in S : x <= y
  BY <1>2, <1>3, <1>4, <1>5
<1> QED
  BY <1>6 DEF Least

\* A loop over files goes to one of them or on to the place after it.
LEMMA ToFileFields ==
  ASSUME SizesAssumption, TypeOK, NEW pc \in Steps, NEW done \in Steps,
         NEW S \in SUBSET Files, ToFile(pc, S, done)
  PROVE  /\ proc' \in Passes
         /\ (proc'.pc = pc /\ proc'.at \in S) \/ (proc'.pc = done /\ proc'.at = Bundle)
         /\ proc'.recovering = proc.recovering /\ proc'.committed = proc.committed
         /\ proc'.seen = proc.seen /\ proc'.sweep = proc.sweep
<1>1. CASE S = {}
  BY <1>1, GotoFields DEF ToFile, Items
<1>2. CASE S # {}
  <2>1. Least(S) \in S /\ Least(S) \in Items
    BY <1>2, LeastOf DEF Items
  <2> QED
    BY <1>2, <2>1, GotoFields DEF ToFile
<1> QED
  BY <1>1, <1>2

(***************************************************************************)
(* Steps that change nothing but the process                               *)
(***************************************************************************)
\* Between two passes, and before recovery has looked, any state will do.
LEMMA Stopped ==
  ASSUME proc'.pc = "idle" \/ (dir' /\ proc'.pc = "recover")
  PROVE  PlaceInv'
BY DEF PlaceInv, AtReserve, AtJournal, Working, Staged, AtMove, AtEnd, AtSweep

LEMMA ProcOnly ==
  ASSUME IInv, UNCHANGED <<live, dirVars, plan, updates, userVars>>, proc' \in Passes
  PROVE  TypeOK' /\ DirInv'
<1>1. TypeOK'
  BY DEF IInv, TypeOK, dirVars, userVars
<1>2. DirInv'
  BY DEF IInv, DirInv, dirVars, userVars, Bare, LivePrior, LiveNew, Untouched, IsCommitted
<1> QED
  BY <1>1, <1>2

LEMMA FailKeeps ==
  ASSUME IInv, proc.pc # "idle", Fail, UNCHANGED <<live, dirVars, plan, updates, userVars>>
  PROVE  IInv'
<1>1. TypeOK' /\ DirInv'
  BY FailFields, ProcOnly DEF IInv
<1>2. PlaceInv'
  BY FailFields, Stopped DEF IInv, PlaceInv, dirVars
<1> QED
  BY <1>1, <1>2 DEF IInv

LEMMA CrashKeeps ==
  ASSUME IInv, Crash
  PROVE  IInv'
<1>1. TypeOK' /\ DirInv'
  BY IdleType, ProcOnly DEF IInv, Crash
<1>2. PlaceInv'
  BY IdleType, Stopped DEF Crash
<1> QED
  BY <1>1, <1>2 DEF IInv

LEMMA StartRecoveryKeeps ==
  ASSUME IInv, StartRecovery
  PROVE  IInv'
<1>1. proc' \in Passes /\ proc'.pc = "recover"
  BY IdleType DEF StartRecovery, Passes, Idle, Steps
<1>2. PlaceInv'
  BY <1>1, Stopped DEF StartRecovery, dirVars
<1> QED
  BY <1>1, <1>2, ProcOnly DEF IInv, StartRecovery

LEMMA CheckedKeeps ==
  ASSUME SizesAssumption, IInv, NEW from, NEW to, Checked(from, to),
         <<from, to>> \in {<<"promote", "promoting">>, <<"restore", "restoring">>}
  PROVE  IInv'
<1>1. from \in {"promote", "restore"} /\ to \in {"promoting", "restoring"}
  OBVIOUS
<1>2. CASE live[proc.at] # Absent
  BY <1>1, <1>2, FailKeeps DEF Checked
<1>3. CASE live[proc.at] = Absent
  <2>1. Goto(to, proc.at) /\ proc.at \in Items /\ to \in Steps
    BY <1>1, <1>3 DEF Checked, Steps, IInv, TypeOK, Passes
  <2>2. /\ proc' \in Passes /\ proc'.pc = to /\ proc'.at = proc.at
        /\ proc'.committed = proc.committed
    BY <2>1, GotoFields DEF IInv
  <2>3. TypeOK' /\ DirInv'
    BY <1>1, <2>2, ProcOnly DEF Checked
  <2>4. PlaceInv'
    BY <1>1, <1>3, <2>2 DEF Checked, IInv, PlaceInv, AtReserve, AtJournal, Working, Staged,
       AtMove, AtEnd, AtSweep, dirVars, userVars, Untouched
  <2> QED
    BY <2>3, <2>4 DEF IInv
<1> QED
  BY <1>2, <1>3

LEMMA RecheckKeeps ==
  ASSUME SizesAssumption, IInv, Recheck
  PROVE  IInv'
<1>1. CASE ~Matches(plan.before)
  BY <1>1, FailKeeps DEF Recheck
<1>2. CASE Matches(plan.before)
  <2>1. PICK i \in Items : Goto("backup", i)
    <3>1. Changed \intersect Files # {} =>
            Least(Changed \intersect Files) \in Items
      BY LeastOf DEF Items
    <3> QED
      BY <1>2, <3>1, ItemsAreIntegers DEF Recheck, FirstChange
  <2>2. proc' \in Passes /\ proc'.pc = "backup"
    BY <2>1, GotoFields DEF IInv, Steps
  <2>3. TypeOK' /\ DirInv'
    BY <2>2, ProcOnly DEF Recheck
  <2>4. PlaceInv'
    BY <2>2 DEF Recheck, IInv, PlaceInv, AtReserve, AtJournal, Working, Staged, AtMove, AtEnd,
       AtSweep, dirVars, userVars
  <2> QED
    BY <2>3, <2>4 DEF IInv
<1> QED
  BY <1>1, <1>2

LEMMA VerifyKeeps ==
  ASSUME SizesAssumption, IInv, Verify
  PROVE  IInv'
<1>1. CASE ~Matches(plan.after)
  BY <1>1, FailKeeps DEF Verify
<1>2. CASE Matches(plan.after)
  <2>1. proc' \in Passes /\ proc'.pc = "marker"
    BY <1>2, GotoFields, ItemsAreIntegers DEF IInv, Steps, Verify
  <2>2. TypeOK' /\ DirInv'
    BY <2>1, ProcOnly DEF Verify
  <2>3. LiveNew'
    BY <1>2 DEF Verify, Matches, LiveNew, Untouched, userVars
  <2>4. PlaceInv'
    BY <2>1, <2>3 DEF Verify, IInv, PlaceInv, AtReserve, AtJournal, Working, Staged, AtMove,
       AtEnd, AtSweep, dirVars, userVars
  <2> QED
    BY <2>2, <2>4 DEF IInv
<1> QED
  BY <1>1, <1>2

LEMMA CheckRestoredKeeps ==
  ASSUME SizesAssumption, IInv, CheckRestored
  PROVE  IInv'
<1>1. CASE ~Matches(plan.before)
  BY <1>1, FailKeeps DEF CheckRestored
<1>2. CASE Matches(plan.before)
  <2>1. proc' \in Passes /\ proc'.pc = "clean" /\ proc'.committed = proc.committed
    BY <1>2, GotoFields, ItemsAreIntegers DEF IInv, Steps, CheckRestored
  <2>2. TypeOK' /\ DirInv'
    BY <2>1, ProcOnly DEF CheckRestored
  <2>3. LivePrior'
    BY <1>2 DEF CheckRestored, Matches, LivePrior, Untouched, userVars
  <2>4. PlaceInv'
    BY <2>1, <2>3 DEF CheckRestored, IInv, PlaceInv, AtReserve, AtJournal, Working, Staged,
       AtMove, AtEnd, AtSweep, dirVars, userVars, IsCommitted
  <2> QED
    BY <2>2, <2>4 DEF IInv
<1> QED
  BY <1>1, <1>2

LEMMA RecoverKeeps ==
  ASSUME SizesAssumption, IInv, Recover
  PROVE  IInv'
<1>1. /\ UNCHANGED <<live, dirVars, plan, updates, userVars>>
      /\ proc.pc = "recover" /\ dir /\ dir'
  BY DEF Recover, IInv, PlaceInv, dirVars
<1>2. CASE proc' = Idle
  BY <1>1, <1>2, IdleType, ProcOnly, Stopped DEF IInv
<1> DEFINE to(pc, committed) ==
      [proc EXCEPT !.pc = pc, !.at = Bundle, !.committed = committed,
                   !.seen = IF pc = "undo" THEN live[Bundle] ELSE Absent]
<1>3. ASSUME NEW pc \in Steps, NEW c \in BOOLEAN, proc' = to(pc, c)
      PROVE  /\ proc' \in Passes
             /\ proc'.pc = pc /\ proc'.at = Bundle /\ proc'.committed = c
             /\ pc = "undo" => proc'.seen = live[Bundle]
  BY <1>3, ItemsAreIntegers DEF IInv, TypeOK, Passes, Whole
<1>4. CASE EmptyDir /\ proc' = to("rmdir", FALSE)
  <2>1. proc' \in Passes /\ proc'.pc = "rmdir"
    BY <1>3, <1>4 DEF Steps
  <2>2. PlaceInv'
    BY <1>1, <1>4, <2>1 DEF EmptyDir, PlaceInv, AtReserve, AtJournal, Working, Staged, AtMove,
       AtEnd, AtSweep, dirVars
  <2> QED
    BY <1>1, <2>1, <2>2, ProcOnly DEF IInv
<1>5. CASE journal \in {"open", "committed"} /\ IsCommitted /\ proc' = to("clean", TRUE)
  <2>1. proc' \in Passes /\ proc'.pc = "clean" /\ proc'.committed = TRUE
    BY <1>3, <1>5 DEF Steps
  <2>2. PlaceInv'
    BY <1>1, <1>5, <2>1 DEF PlaceInv, AtReserve, AtJournal, Working, Staged, AtMove,
       AtEnd, AtSweep, dirVars, IsCommitted
  <2> QED
    BY <1>1, <2>1, <2>2, ProcOnly DEF IInv
<1>6. CASE journal = "restored" /\ proc' = to("clean", FALSE)
  <2>1. proc' \in Passes /\ proc'.pc = "clean" /\ proc'.committed = FALSE
    BY <1>3, <1>6 DEF Steps
  <2>2. LivePrior' /\ ~IsCommitted' /\ marker' = "none"
    BY <1>1, <1>6 DEF IInv, DirInv, LivePrior, Untouched, IsCommitted, dirVars, userVars
  <2>3. PlaceInv'
    BY <1>1, <1>6, <2>1, <2>2 DEF PlaceInv, AtReserve, AtJournal, Working, Staged, AtMove,
       AtEnd, AtSweep, dirVars
  <2> QED
    BY <1>1, <2>1, <2>3, ProcOnly DEF IInv
<1>7. CASE /\ journal = "open" /\ Recognised /\ ~IsCommitted
           /\ proc' = to("undo", FALSE)
  <2>1. /\ proc' \in Passes /\ proc'.pc = "undo" /\ proc'.committed = FALSE
        /\ proc'.seen = live[Bundle]
    BY <1>3, <1>7 DEF Steps
  <2>2. marker = "none"
    BY <1>7 DEF Recognised, IsCommitted
  <2>3. PlaceInv'
    BY <1>1, <1>7, <2>1, <2>2 DEF PlaceInv, AtReserve, AtJournal, Working, Staged, AtMove,
       AtEnd, AtSweep, dirVars, userVars
  <2> QED
    BY <1>1, <2>1, <2>3, ProcOnly DEF IInv
<1>8. journal \in {"none", "torn", "open", "committed", "restored"}
  BY DEF IInv, TypeOK
<1> HIDE DEF to
<1>9. \/ proc' = Idle
      \/ EmptyDir /\ proc' = to("rmdir", FALSE)
      \/ journal \in {"open", "committed"} /\ IsCommitted /\ proc' = to("clean", TRUE)
      \/ journal = "restored" /\ proc' = to("clean", FALSE)
      \/ journal = "open" /\ Recognised /\ ~IsCommitted /\ proc' = to("undo", FALSE)
  BY <1>8 DEF Recover, to, IsCommitted, EmptyDir
<1> QED
  BY <1>2, <1>4, <1>5, <1>6, <1>7, <1>9

\* The process that goes on to remove the artifacts it has listed.
LEMMA RetirePass ==
  ASSUME NEW r \in Passes, NEW S \in SUBSET Slots
  PROVE  /\ [r EXCEPT !.pc = "retire", !.sweep = S] \in Passes
         /\ [r EXCEPT !.pc = "retire", !.sweep = S].pc = "retire"
         /\ [r EXCEPT !.pc = "retire", !.sweep = S].sweep = S
         /\ [r EXCEPT !.pc = "retire", !.sweep = S].committed = r.committed
BY DEF Passes, Steps

LEMMA ListArtifactsKeeps ==
  ASSUME IInv, ListArtifacts
  PROVE  IInv'
<1>1. CASE ~Recognised
  BY <1>1, FailKeeps DEF ListArtifacts
<1>2. CASE Recognised
  <2>1. /\ proc' \in Passes /\ proc'.pc = "retire" /\ proc'.sweep = Artifacts
        /\ proc'.committed = proc.committed
    <3>1. Artifacts \subseteq Slots
      BY DEF Artifacts
    <3>2. proc' = [proc EXCEPT !.pc = "retire", !.sweep = Artifacts]
      BY <1>2 DEF ListArtifacts
    <3>3. proc \in Passes
      BY DEF IInv, TypeOK
    <3> QED
      BY <3>1, <3>2, <3>3, RetirePass
  <2>2. \A s \in Slots : Held(s)' # Absent => s \in proc'.sweep
    BY <2>1 DEF ListArtifacts, Artifacts, Held, dirVars
  <2>3. PlaceInv'
    BY <2>1, <2>2 DEF ListArtifacts, IInv, PlaceInv, AtReserve, AtJournal, Working, Staged,
       AtMove, AtEnd, AtSweep, dirVars, userVars, IsCommitted, LivePrior, Untouched
  <2> QED
    BY <2>1, <2>3, ProcOnly DEF IInv, ListArtifacts
<1> QED
  BY <1>1, <1>2

\* When everything that was listed is removed, nothing is left.
LEMMA SweptIsBare ==
  ASSUME \A s \in Slots : Held(s) = Absent
  PROVE  Bare
<1> SUFFICES ASSUME NEW i \in Items
             PROVE  fresh[i] = Absent /\ old[i] = Absent /\ out[i] = Absent
  BY DEF Bare
<1>1. <<"fresh", i>> \in Slots /\ <<"old", i>> \in Slots /\ <<"out", i>> \in Slots
  BY DEF Slots
<1>2. /\ Held(<<"fresh", i>>) = fresh[i]
      /\ Held(<<"old", i>>) = old[i]
      /\ Held(<<"out", i>>) = out[i]
  BY DEF Held
<1> QED
  BY <1>1, <1>2

LEMMA SweptKeeps ==
  ASSUME SizesAssumption, IInv, Swept
  PROVE  IInv'
<1>1. proc' \in Passes /\ proc'.pc = "unlink"
  BY GotoFields, ItemsAreIntegers DEF IInv, Steps, Swept
<1>2. Bare
  BY SweptIsBare DEF Swept, IInv, PlaceInv, AtSweep
<1>3. Bare'
  BY <1>2 DEF Swept, Bare, dirVars
<1>4. PlaceInv'
  BY <1>1, <1>3 DEF Swept, IInv, PlaceInv, AtReserve, AtJournal, Working, Staged, AtMove,
     AtEnd, AtSweep, dirVars
<1> QED
  BY <1>1, <1>4, ProcOnly DEF IInv, Swept

(***************************************************************************)
(* Steps of apply                                                          *)
(***************************************************************************)
LEMMA PlanKeeps ==
  ASSUME SizesAssumption, IInv, NEW added, NEW changed, Plan(added, changed)
  PROVE  IInv'
<1>1. proc' \in Passes /\ proc'.pc = "reserve"
  BY GotoFields, ItemsAreIntegers DEF IInv, Steps, Plan
<1>2. updates + 1 \in Installed /\ updates' \in 0 .. MaxUpdates
  BY DEF Plan, Installed, IInv, TypeOK, SizesAssumption
<1>3. plan' \in Plans /\ plan'.before = live
  <2>1. live \in [Items -> Whole]
    BY DEF IInv, TypeOK
  <2>2. [i \in Items |-> IF i \in changed THEN updates + 1 ELSE live[i]] \in [Items -> Whole]
    BY <1>2, <2>1 DEF Whole
  <2>3. plan'.items \subseteq Items
    BY DEF Plan, Owned, Files, Items, IInv, TypeOK, Plans
  <2> QED
    BY <2>1, <2>2, <2>3 DEF Plan, Plans
<1>4. TypeOK'
  BY <1>1, <1>2, <1>3 DEF IInv, TypeOK, Plan, dirVars
<1>5. LivePrior'
  BY <1>3 DEF LivePrior, Plan
<1>6. journal = "none" /\ ~dir /\ journal' = journal /\ dir' = dir /\ marker' = marker
  BY DEF IInv, DirInv, Plan, dirVars
<1>7. DirInv'
  BY <1>5, <1>6 DEF IInv, DirInv, Plan, dirVars, Bare, IsCommitted
<1>8. PlaceInv'
  BY <1>1, <1>6 DEF PlaceInv, AtReserve, AtJournal, Working, Staged, AtMove, AtEnd, AtSweep
<1> QED
  BY <1>4, <1>7, <1>8 DEF IInv

LEMMA ReserveKeeps ==
  ASSUME SizesAssumption, IInv, Reserve
  PROVE  IInv'
<1>1. CASE ~Matches(plan.before)
  BY <1>1, FailKeeps DEF Reserve, dirVars
<1>2. CASE Matches(plan.before)
  <2>1. proc' \in Passes /\ proc'.pc = "journal"
    BY <1>2, GotoFields, ItemsAreIntegers DEF IInv, Steps, Reserve
  <2>2. /\ journal = "none" /\ dir' = TRUE
        /\ UNCHANGED <<live, journal, marker, fresh, old, out, plan, updates, userVars>>
    BY <1>2 DEF IInv, DirInv, PlaceInv, AtReserve, Reserve
  <2>3. TypeOK'
    BY <2>1, <2>2 DEF IInv, TypeOK, userVars
  <2>4. LivePrior'
    BY <1>2, <2>2 DEF Matches, LivePrior, Untouched, userVars
  <2>5. DirInv'
    BY <2>2, <2>4 DEF IInv, DirInv, Bare, IsCommitted
  <2>6. PlaceInv'
    BY <2>1, <2>2, <2>4 DEF PlaceInv, AtReserve, AtJournal, Working, Staged, AtMove, AtEnd, AtSweep
  <2> QED
    BY <2>3, <2>5, <2>6 DEF IInv
<1> QED
  BY <1>1, <1>2

LEMMA WriteJournalKeeps ==
  ASSUME SizesAssumption, IInv, WriteJournal
  PROVE  IInv'
<1>1. proc' \in Passes /\ proc'.pc = "stage"
  BY GotoFields, ItemsAreIntegers DEF IInv, Steps, WriteJournal
<1>2. /\ journal = "none" /\ journal' = "open" /\ marker = "none" /\ LivePrior /\ Bare /\ dir
      /\ UNCHANGED <<live, dir, marker, fresh, old, out, plan, updates, userVars>>
  BY DEF IInv, DirInv, PlaceInv, AtJournal, WriteJournal
<1>3. TypeOK'
  BY <1>1, <1>2 DEF IInv, TypeOK, userVars
<1>4. /\ old' \in [Items -> Whole]
      /\ \A k \in Items : fresh'[k] \in Whole
  BY <1>2 DEF IInv, TypeOK, Bare, Whole
<1>5. \A i \in Untouched' : live'[i] = plan'.before[i]
  BY <1>2 DEF LivePrior, Untouched, userVars
<1>6. DirInv'
  BY <1>2, <1>4, <1>5 DEF DirInv, IsCommitted
<1>7. PlaceInv'
  BY <1>1, <1>2, <1>4 DEF PlaceInv, AtReserve, AtJournal, Working, Staged, AtMove, AtEnd, AtSweep
<1> QED
  BY <1>3, <1>6, <1>7 DEF IInv

LEMMA StageKeeps ==
  ASSUME SizesAssumption, IInv, Stage
  PROVE  IInv'
<1>1. /\ journal = "open" /\ marker = "none" /\ dir /\ proc.at \in Items
      /\ \A k \in Items \ {proc.at} : fresh[k] \in Whole
      /\ fresh \in [Items -> Stored]
      /\ UNCHANGED <<live, dir, journal, marker, old, out, plan, updates, userVars>>
  BY DEF IInv, TypeOK, Passes, PlaceInv, Working, Staged, Stage
<1>2. ASSUME proc' \in Passes, fresh' \in [Items -> Stored]
      PROVE  TypeOK' /\ DirInv'
  <2>1. TypeOK'
    BY <1>1, <1>2 DEF IInv, TypeOK, userVars
  <2>2. DirInv'
    BY <1>1 DEF IInv, DirInv, userVars, Untouched, IsCommitted
  <2> QED
    BY <2>1, <2>2
<1>3. CASE proc.at = Bundle /\ fresh[Bundle] = Absent
  <2>1. fresh' = [fresh EXCEPT ![Bundle] = Partial] /\ proc' = proc
    BY <1>3 DEF Stage
  <2>2. fresh' \in [Items -> Stored] /\ \A k \in Items \ {proc.at} : fresh'[k] \in Whole
    BY <1>1, <1>3, <2>1 DEF Stored
  <2>3. PlaceInv'
    BY <1>1, <2>1, <2>2 DEF Stage, PlaceInv, AtReserve, AtJournal, Working, Staged, AtMove, AtEnd,
       AtSweep
  <2> QED
    BY <1>2, <2>1, <2>2, <2>3 DEF IInv, TypeOK
<1>4. CASE ~(proc.at = Bundle /\ fresh[Bundle] = Absent)
  <2>1. /\ fresh' = [fresh EXCEPT ![proc.at] = plan.after[proc.at]]
        /\ ToFile("stage", Changed \intersect FilesAfter(proc.at), "recheck")
    BY <1>4 DEF Stage
  <2>2. plan.after[proc.at] \in Whole
    BY <1>1 DEF IInv, TypeOK, Plans
  <2>3. fresh' \in [Items -> Whole]
    BY <1>1, <2>1, <2>2
  <2>4. fresh' \in [Items -> Stored]
    BY <2>3 DEF Stored
  <2>5. Changed \intersect FilesAfter(proc.at) \in SUBSET Files
    BY DEF FilesAfter
  <2>6. proc' \in Passes /\ proc'.pc \in {"stage", "recheck"}
    <3>1. "stage" \in Steps /\ "recheck" \in Steps
      BY DEF Steps
    <3>2. SizesAssumption /\ TypeOK
      BY DEF IInv
    <3> QED BY ONLY <2>1, <2>5, <3>1, <3>2, ToFileFields
  <2>7. PlaceInv'
    BY <1>1, <2>3, <2>6 DEF PlaceInv, AtReserve, AtJournal, Working, Staged, AtMove, AtEnd, AtSweep
  <2> QED
    BY <1>2, <2>4, <2>6, <2>7 DEF IInv
<1> QED
  BY <1>3, <1>4

LEMMA BackupKeeps ==
  ASSUME SizesAssumption, IInv, Backup
  PROVE  IInv'
<1> DEFINE i == proc.at
<1>1. /\ journal = "open" /\ marker = "none" /\ dir /\ i \in Items
      /\ fresh \in [Items -> Whole] /\ old \in [Items -> Whole] /\ live \in [Items -> Whole]
      /\ UNCHANGED <<dir, journal, marker, fresh, out, plan, updates, userVars>>
  BY DEF IInv, TypeOK, DirInv, Passes, PlaceInv, Working, Staged, Backup
<1>2. CASE plan.before[i] = Absent
  <2>1. proc' \in Passes /\ proc'.pc = "promote"
    BY <1>1, <1>2, GotoFields DEF IInv, Steps, Backup
  <2>2. UNCHANGED <<live, old>>
    BY <1>2 DEF Backup
  <2>3. PlaceInv'
    BY <1>1, <2>1 DEF PlaceInv, AtReserve, AtJournal, Working, Staged, AtMove, AtEnd, AtSweep
  <2> QED
    BY <1>1, <2>1, <2>2, <2>3, ProcOnly DEF IInv, dirVars
<1>3. CASE plan.before[i] # Absent /\ live[i] # Absent /\ old[i] = Absent
  <2>1. /\ proc' \in Passes /\ proc'.pc = "promote"
        /\ old' = [old EXCEPT ![i] = live[i]]
        /\ live' = [live EXCEPT ![i] = Absent]
    BY <1>1, <1>3, GotoFields DEF IInv, Steps, Backup
  <2>2. old' \in [Items -> Whole] /\ live' \in [Items -> Whole]
    BY <1>1, <2>1 DEF Whole
  <2>3. TypeOK'
    BY <1>1, <2>1, <2>2 DEF IInv, TypeOK, Stored, userVars
  <2>4. \A k \in Untouched' : plan'.before[k] # Absent => plan'.before[k] \in {live'[k], old'[k]}
    <3> SUFFICES ASSUME NEW k \in Untouched, plan.before[k] # Absent
                 PROVE  plan.before[k] \in {live'[k], old'[k]}
      BY <1>1 DEF Untouched, userVars
    <3>1. k \in Items /\ plan.before[k] \in {live[k], old[k]}
      BY <1>1 DEF IInv, TypeOK, Plans, DirInv, Untouched
    <3> QED
      BY <1>1, <1>3, <2>1, <3>1
  <2>5. DirInv'
    BY <1>1, <2>2, <2>4 DEF DirInv, IsCommitted
  <2>6. PlaceInv'
    BY <1>1, <2>1 DEF PlaceInv, AtReserve, AtJournal, Working, Staged, AtMove, AtEnd, AtSweep
  <2> QED
    BY <2>3, <2>5, <2>6 DEF IInv
<1>4. CASE plan.before[i] # Absent /\ ~(live[i] # Absent /\ old[i] = Absent)
  BY <1>1, <1>4, FailKeeps DEF Backup, dirVars
<1> QED
  BY <1>2, <1>3, <1>4

\* What a move into an absent place does, and that it changes no one else's.
LEMMA MoveInto ==
  ASSUME NEW source \in [Items -> Whole], live \in [Items -> Whole], proc.at \in Items,
         Movable(source), Arrives(source)
  PROVE  /\ live' = [live EXCEPT ![proc.at] = source[proc.at]]
         /\ live' \in [Items -> Whole]
         /\ Leaves(source) = [source EXCEPT ![proc.at] = Absent]
         /\ Leaves(source) \in [Items -> Whole]
BY DEF Arrives, Leaves, Whole

LEMMA PromoteKeeps ==
  ASSUME SizesAssumption, IInv, Promote
  PROVE  IInv'
<1> DEFINE i == proc.at
<1>1. /\ journal = "open" /\ marker = "none" /\ dir /\ i \in Items
      /\ fresh \in [Items -> Whole] /\ old \in [Items -> Whole] /\ live \in [Items -> Whole]
      /\ i \in Untouched => live[i] = Absent
      /\ UNCHANGED <<dir, journal, marker, old, out, plan, updates, userVars>>
  BY DEF IInv, TypeOK, DirInv, Passes, PlaceInv, Working, Staged, AtMove, Promote
<1>2. CASE ~Movable(fresh)
  BY <1>1, <1>2, FailKeeps DEF Promote, Arrives, Leaves, dirVars
<1>3. CASE Movable(fresh)
  <2>1. /\ live' = [live EXCEPT ![i] = fresh[i]] /\ live' \in [Items -> Whole]
        /\ fresh' \in [Items -> Whole]
    BY <1>1, <1>3, MoveInto DEF Promote
  <2>2. proc' \in Passes /\ proc'.pc \in {"backup", "verify"}
    <3> DEFINE rest == IF i = Bundle THEN {} ELSE Changed \intersect FilesAfter(i)
    <3>1. rest \in SUBSET Files
      BY DEF FilesAfter
    <3>2. rest # {} => Least(rest) \in Items
      BY <3>1, LeastOf DEF Items
    <3>3. \E k \in Items : Goto("backup", k) \/ Goto("verify", k)
      BY <1>3, <3>2, ItemsAreIntegers DEF Promote, NextChange
    <3> QED
      BY <3>3, GotoFields DEF IInv, Steps
  <2>3. TypeOK'
    BY <1>1, <2>1, <2>2 DEF IInv, TypeOK, Stored, userVars
  <2>4. \A k \in Untouched' : plan'.before[k] # Absent => plan'.before[k] \in {live'[k], old'[k]}
    <3> SUFFICES ASSUME NEW k \in Untouched, plan.before[k] # Absent
                 PROVE  plan.before[k] \in {live'[k], old[k]}
      BY <1>1 DEF Untouched, userVars
    <3>1. k \in Items /\ plan.before[k] \in {live[k], old[k]}
      BY <1>1 DEF IInv, TypeOK, Plans, DirInv, Untouched
    <3> QED
      BY <1>1, <2>1, <3>1
  <2>5. DirInv'
    BY <1>1, <2>4 DEF DirInv, IsCommitted
  <2>6. PlaceInv'
    BY <1>1, <2>1, <2>2 DEF PlaceInv, AtReserve, AtJournal, Working, Staged, AtMove, AtEnd, AtSweep
  <2> QED
    BY <2>3, <2>5, <2>6 DEF IInv
<1> QED
  BY <1>2, <1>3

LEMMA WriteMarkerKeeps ==
  ASSUME IInv, WriteMarker
  PROVE  IInv'
<1>1. /\ journal = "open" /\ dir /\ LiveNew
      /\ marker' = "whole"
      /\ UNCHANGED <<live, dir, journal, fresh, old, out, plan, updates, userVars>>
  BY DEF IInv, PlaceInv, Working, AtEnd, WriteMarker
<1>2. proc' \in Passes /\ proc'.pc = "clean" /\ proc'.committed = TRUE
  BY DEF IInv, TypeOK, Passes, Steps, WriteMarker
<1>3. LiveNew'
  BY <1>1 DEF LiveNew, Untouched, userVars
<1>4. TypeOK'
  BY <1>1, <1>2 DEF IInv, TypeOK, userVars
<1>5. DirInv'
  BY <1>1, <1>3 DEF IInv, DirInv, IsCommitted
<1>6. PlaceInv'
  BY <1>1, <1>2 DEF PlaceInv, AtReserve, AtJournal, Working, Staged, AtMove, AtEnd, AtSweep,
     IsCommitted
<1> QED
  BY <1>4, <1>5, <1>6 DEF IInv

(***************************************************************************)
(* Steps of rollback                                                       *)
(***************************************************************************)
LEMMA NextUndoFields ==
  ASSUME SizesAssumption, TypeOK, NEW i \in Items, NextUndo(i)
  PROVE  /\ proc' \in Passes
         /\ (proc'.pc = "undo" /\ proc'.at \in Files) \/ proc'.pc = "check"
         /\ proc'.committed = proc.committed
<1>1. plan.items \intersect FilesAfter(i) \in SUBSET Files
  BY DEF FilesAfter
<1> QED
  BY <1>1, ToFileFields DEF NextUndo, Steps

LEMMA UndoKeeps ==
  ASSUME SizesAssumption, IInv, Undo
  PROVE  IInv'
<1> DEFINE i == proc.at
           onward == IF plan.before[i] = Absent THEN NextUndo(i) ELSE Goto("restore", i)
<1>1. /\ journal = "open" /\ marker = "none" /\ dir /\ i \in Items /\ ~proc.committed
      /\ old \in [Items -> Whole] /\ live \in [Items -> Whole] /\ out \in [Items -> Stored]
      /\ i \in Untouched => Seen(i) = live[i]
      /\ UNCHANGED <<dir, journal, marker, fresh, old, plan, updates, userVars>>
  BY DEF IInv, TypeOK, DirInv, Passes, PlaceInv, Working, AtMove, AtEnd, Seen, Undo
<1>2. ASSUME NextUndo(i) \/ Goto("restore", i)
      PROVE  proc' \in Passes /\ PlaceInv'
  <2>1. /\ proc' \in Passes /\ ~proc'.committed
        /\ (proc'.pc = "undo" /\ proc'.at \in Files) \/ proc'.pc \in {"check", "restore"}
    BY <1>1, <1>2, NextUndoFields, GotoFields DEF IInv, Steps
  <2>2. Bundle \notin Files
    BY DEF Bundle, Files
  <2> QED
    BY <1>1, <2>1, <2>2 DEF PlaceInv, AtReserve, AtJournal, Working, Staged, AtMove, AtEnd, AtSweep
<1>3. CASE (Seen(i) = plan.before[i] \/ Seen(i) = Absent) /\ UNCHANGED <<live, out>>
  <2>1. NextUndo(i) \/ Goto("restore", i)
    BY <1>3 DEF Undo
  <2> QED
    BY <1>1, <1>2, <1>3, <2>1, ProcOnly DEF IInv, dirVars
<1>4. CASE /\ Seen(i) # plan.before[i] /\ Seen(i) # Absent /\ live[i] # Absent
           /\ out[i] = Absent
  <2>1. /\ out' = [out EXCEPT ![i] = live[i]]
        /\ live' = [live EXCEPT ![i] = Absent]
        /\ NextUndo(i) \/ Goto("restore", i)
    BY <1>4 DEF Undo
  <2>2. live' \in [Items -> Whole] /\ out' \in [Items -> Stored]
    BY <1>1, <2>1 DEF Whole, Stored
  <2>3. TypeOK'
    BY <1>1, <1>2, <2>1, <2>2 DEF IInv, TypeOK, userVars
  <2>4. \A k \in Untouched' : plan'.before[k] # Absent => plan'.before[k] \in {live'[k], old'[k]}
    <3> SUFFICES ASSUME NEW k \in Untouched, plan.before[k] # Absent
                 PROVE  plan.before[k] \in {live'[k], old[k]}
      BY <1>1 DEF Untouched, userVars
    <3>1. k \in Items /\ plan.before[k] \in {live[k], old[k]}
      BY <1>1 DEF IInv, TypeOK, Plans, DirInv, Untouched
    <3> QED
      BY <1>1, <1>4, <2>1, <3>1
  <2>5. DirInv'
    BY <1>1, <2>4 DEF DirInv, IsCommitted
  <2> QED
    BY <1>2, <2>1, <2>3, <2>5 DEF IInv
<1>5. CASE Fail /\ UNCHANGED <<live, out>>
  BY <1>1, <1>5, FailKeeps DEF Undo, dirVars
<1> QED
  BY <1>3, <1>4, <1>5 DEF Undo

LEMMA RestoreKeeps ==
  ASSUME SizesAssumption, IInv, Restore
  PROVE  IInv'
<1> DEFINE i == proc.at
<1>1. /\ journal = "open" /\ marker = "none" /\ dir /\ i \in Items /\ ~proc.committed
      /\ old \in [Items -> Whole] /\ live \in [Items -> Whole]
      /\ i \in Untouched => live[i] = Absent
      /\ UNCHANGED <<dir, journal, marker, fresh, out, plan, updates, userVars>>
  BY DEF IInv, TypeOK, DirInv, Passes, PlaceInv, Working, AtMove, AtEnd, Restore
<1>2. CASE ~Movable(old)
  BY <1>1, <1>2, FailKeeps DEF Restore, Arrives, Leaves, dirVars
<1>3. CASE Movable(old)
  <2>1. /\ live' = [live EXCEPT ![i] = old[i]] /\ live' \in [Items -> Whole]
        /\ old' = [old EXCEPT ![i] = Absent] /\ old' \in [Items -> Whole]
    BY <1>1, <1>3, MoveInto DEF Restore
  <2>2. /\ proc' \in Passes /\ ~proc'.committed
        /\ (proc'.pc = "undo" /\ proc'.at \in Files) \/ proc'.pc = "check"
    BY <1>1, <1>3, NextUndoFields DEF Restore, IInv
  <2>3. TypeOK'
    BY <1>1, <2>1, <2>2 DEF IInv, TypeOK, Stored, userVars
  <2>4. \A k \in Untouched' : plan'.before[k] # Absent => plan'.before[k] \in {live'[k], old'[k]}
    <3> SUFFICES ASSUME NEW k \in Untouched, plan.before[k] # Absent
                 PROVE  plan.before[k] \in {live'[k], old'[k]}
      BY <1>1 DEF Untouched, userVars
    <3>1. k \in Items /\ plan.before[k] \in {live[k], old[k]}
      BY <1>1 DEF IInv, TypeOK, Plans, DirInv, Untouched
    <3> QED
      BY <1>1, <2>1, <3>1
  <2>5. DirInv'
    BY <1>1, <2>1, <2>4 DEF DirInv, IsCommitted
  <2>6. Bundle \notin Files
    BY DEF Bundle, Files
  <2>7. PlaceInv'
    BY <1>1, <2>2, <2>6 DEF PlaceInv, AtReserve, AtJournal, Working, Staged, AtMove, AtEnd, AtSweep
  <2> QED
    BY <2>3, <2>5, <2>7 DEF IInv
<1> QED
  BY <1>2, <1>3

(***************************************************************************)
(* Steps of clean                                                          *)
(***************************************************************************)
LEMMA RetireJournalKeeps ==
  ASSUME SizesAssumption, IInv, RetireJournal
  PROVE  IInv'
<1>1. /\ dir /\ journal \in {"open", "restored", "committed"}
      /\ IF proc.committed THEN IsCommitted /\ LiveNew
                           ELSE ~IsCommitted /\ LivePrior /\ marker = "none"
      /\ \A s \in Slots : Held(s) # Absent => s \in proc.sweep
      /\ journal = "restored" => marker = "none"
      /\ journal' = Terminal(journal)
      /\ UNCHANGED <<live, dir, marker, fresh, old, out, plan, updates, userVars>>
  BY DEF IInv, DirInv, PlaceInv, AtEnd, AtSweep, RetireJournal
<1>2. proc' \in Passes /\ proc'.pc = "sweep" /\ proc'.sweep = proc.sweep
  BY GotoFields, ItemsAreIntegers DEF IInv, Steps, RetireJournal
<1>3. journal' = IF proc.committed THEN "committed" ELSE "restored"
  BY <1>1 DEF Terminal, IsCommitted
<1>4. TypeOK'
  BY <1>1, <1>2, <1>3 DEF IInv, TypeOK, userVars
<1>5. DirInv'
  BY <1>1, <1>3 DEF DirInv, IsCommitted, LiveNew, LivePrior, Untouched, userVars
<1>6. \A s \in Slots : Held(s)' = Held(s)
  BY <1>1 DEF Held
<1>7. PlaceInv'
  BY <1>1, <1>2, <1>3, <1>6 DEF PlaceInv, AtReserve, AtJournal, Working, Staged, AtMove, AtEnd,
     AtSweep
<1> QED
  BY <1>4, <1>5, <1>7 DEF IInv

LEMMA RemoveMarkerKeeps ==
  ASSUME IInv, RemoveMarker
  PROVE  IInv'
<1>1. /\ dir /\ proc.pc = "sweep" /\ journal = "committed" /\ LiveNew
      /\ \A s \in Slots : Held(s) # Absent => s \in proc.sweep
      /\ marker' = "none"
      /\ UNCHANGED <<live, dir, journal, fresh, old, out, plan, proc, updates, userVars>>
  BY DEF IInv, DirInv, PlaceInv, AtSweep, RemoveMarker, IsCommitted
<1>2. TypeOK'
  BY <1>1 DEF IInv, TypeOK, userVars
<1>3. DirInv'
  BY <1>1 DEF DirInv, IsCommitted, LiveNew, Untouched, userVars
<1>4. \A s \in Slots : Held(s)' = Held(s)
  BY <1>1 DEF Held
<1>5. PlaceInv'
  BY <1>1, <1>4 DEF PlaceInv, AtReserve, AtJournal, Working, Staged, AtMove, AtEnd, AtSweep
<1> QED
  BY <1>2, <1>3, <1>5 DEF IInv

\* Removing an artifact empties its slot or leaves part of it on the list.
LEMMA RemovedFields ==
  ASSUME NEW s \in Slots, NEW group, NEW held \in [Items -> Stored], SizesAssumption
  PROVE  /\ Removed(s, group, held) \in [Items -> Stored]
         /\ \A i \in Items : <<group, i>> # s => Removed(s, group, held)[i] = held[i]
         /\ s[1] = group => Removed(s, group, held)[s[2]] =
              (IF s[2] = Bundle /\ held[s[2]] # Partial THEN Partial ELSE Absent)
<1>1. s[2] \in Items /\ s = <<s[1], s[2]>>
  BY DEF Slots
<1>2. Absent \in Stored /\ Partial \in Stored
  BY DEF Stored, Whole
<1> QED
  BY <1>1, <1>2 DEF Removed

LEMMA RemoveArtifactKeeps ==
  ASSUME SizesAssumption, IInv, NEW s \in Slots, RemoveArtifact(s)
  PROVE  IInv'
<1>1. /\ dir /\ proc.pc = "sweep" /\ journal \in {"committed", "restored"} /\ marker = "none"
      /\ \A t \in Slots : Held(t) # Absent => t \in proc.sweep
      /\ s \in proc.sweep
      /\ UNCHANGED <<live, dir, journal, marker, plan, updates, userVars>>
  BY DEF IInv, PlaceInv, AtSweep, RemoveArtifact
<1>2. /\ fresh' \in [Items -> Stored] /\ old' \in [Items -> Stored] /\ out' \in [Items -> Stored]
      /\ \A i \in Items : /\ <<"fresh", i>> # s => fresh'[i] = fresh[i]
                          /\ <<"old", i>> # s => old'[i] = old[i]
                          /\ <<"out", i>> # s => out'[i] = out[i]
  BY RemovedFields DEF IInv, TypeOK, RemoveArtifact
<1>3. /\ proc' \in Passes /\ proc'.pc = "sweep"
      /\ proc'.sweep = IF s[2] = Bundle /\ Held(s) # Partial THEN proc.sweep
                       ELSE proc.sweep \ {s}
  BY <1>1 DEF RemoveArtifact, IInv, TypeOK, Passes
<1>4. \A t \in Slots : Held(t)' # Absent => t \in proc'.sweep
  <2> SUFFICES ASSUME NEW t \in Slots, Held(t)' # Absent
               PROVE  t \in proc'.sweep
    OBVIOUS
  <2>1. PICK i \in Items : t \in {<<"fresh", i>>, <<"old", i>>, <<"out", i>>}
    BY DEF Slots
  <2>2. CASE t # s
    <3>1. Held(t)' = Held(t)
      BY <1>2, <2>1, <2>2 DEF Held
    <3> QED
      BY <1>1, <1>3, <2>2, <3>1
  <2>3. CASE t = s
    <3>1. /\ Held(s)' = Removed(s, s[1], CASE s[1] = "fresh" -> fresh [] s[1] = "old" -> old
                                           [] OTHER -> out)[s[2]]
          /\ Held(s) = (CASE s[1] = "fresh" -> fresh [] s[1] = "old" -> old [] OTHER -> out)[s[2]]
      BY <2>1, <2>3 DEF Held, RemoveArtifact
    <3>2. Held(s)' = IF s[2] = Bundle /\ Held(s) # Partial THEN Partial ELSE Absent
      BY <2>1, <2>3, <3>1, RemovedFields DEF IInv, TypeOK
    <3> QED
      BY <1>1, <1>3, <2>3, <3>2
  <2> QED
    BY <2>2, <2>3
<1>5. TypeOK'
  BY <1>1, <1>2, <1>3 DEF IInv, TypeOK, userVars
<1>6. DirInv'
  BY <1>1 DEF IInv, DirInv, IsCommitted, LiveNew, LivePrior, Untouched, userVars
<1>7. PlaceInv'
  BY <1>1, <1>3, <1>4 DEF PlaceInv, AtReserve, AtJournal, Working, Staged, AtMove, AtEnd, AtSweep
<1> QED
  BY <1>5, <1>6, <1>7 DEF IInv

LEMMA RemoveJournalKeeps ==
  ASSUME SizesAssumption, IInv, RemoveJournal
  PROVE  IInv'
<1>1. /\ dir /\ marker = "none" /\ Bare /\ (LivePrior \/ LiveNew)
      /\ journal' = "none"
      /\ UNCHANGED <<live, dir, marker, fresh, old, out, plan, updates, userVars>>
  BY DEF IInv, DirInv, PlaceInv, AtSweep, RemoveJournal, IsCommitted
<1>2. proc' \in Passes /\ proc'.pc = "rmdir"
  BY GotoFields, ItemsAreIntegers DEF IInv, Steps, RemoveJournal
<1>3. TypeOK'
  BY <1>1, <1>2 DEF IInv, TypeOK, userVars
<1>4. DirInv'
  BY <1>1 DEF DirInv, Bare, IsCommitted, LiveNew, LivePrior, Untouched, userVars
<1>5. PlaceInv'
  BY <1>1, <1>2 DEF PlaceInv, AtReserve, AtJournal, Working, Staged, AtMove, AtEnd, AtSweep
<1> QED
  BY <1>3, <1>4, <1>5 DEF IInv

LEMMA RemoveDirKeeps ==
  ASSUME IInv, RemoveDir
  PROVE  IInv'
<1>1. /\ journal = "none" /\ dir' = FALSE
      /\ UNCHANGED <<live, journal, marker, fresh, old, out, plan, updates, userVars>>
  BY DEF IInv, PlaceInv, AtSweep, RemoveDir
<1>2. proc' \in Passes /\ proc'.pc = "idle"
  BY IdleType DEF RemoveDir
<1>3. TypeOK'
  BY <1>1, <1>2 DEF IInv, TypeOK, userVars
<1>4. DirInv'
  BY <1>1 DEF IInv, DirInv, Bare, IsCommitted, LiveNew, LivePrior, Untouched, userVars
<1> QED
  BY <1>2, <1>3, <1>4, Stopped DEF IInv

(***************************************************************************)
(* Torn writes and the user                                                *)
(***************************************************************************)
LEMMA TornWriteKeeps ==
  ASSUME IInv, TornWrite
  PROVE  IInv'
<1>1. /\ dir
      /\ UNCHANGED <<live, dir, old, out, plan, updates, userVars>>
      /\ proc.pc \in {"journal", "stage", "marker"}
  BY DEF IInv, PlaceInv, TornWrite
<1>2. proc' \in Passes /\ proc'.pc \in {"idle", "recover"}
  <2>1. CASE proc' = Idle
    BY <2>1, IdleType
  <2>2. CASE proc' = Failed
    BY <2>2, FailFields DEF IInv, Fail
  <2> QED
    BY <2>1, <2>2 DEF TornWrite
<1>3. TypeOK' /\ DirInv'
  <2>1. CASE proc.pc = "journal"
    <3>1. journal = "none" /\ journal' = "torn" /\ UNCHANGED <<marker, fresh>>
      BY <2>1 DEF IInv, PlaceInv, AtJournal, TornWrite
    <3>2. TypeOK'
      BY <1>1, <1>2, <3>1 DEF IInv, TypeOK, userVars
    <3> QED
      BY <1>1, <3>1, <3>2 DEF IInv, DirInv, Bare, IsCommitted, LiveNew, LivePrior, Untouched,
         userVars
  <2>2. CASE proc.pc = "stage"
    <3>1. /\ fresh' = [fresh EXCEPT ![proc.at] = Fragment]
          /\ journal = "open" /\ UNCHANGED <<marker, journal>>
      BY <2>2 DEF IInv, PlaceInv, Working, TornWrite
    <3>2. TypeOK'
      BY <1>1, <1>2, <3>1 DEF IInv, TypeOK, Stored, userVars
    <3> QED
      BY <1>1, <3>1, <3>2 DEF IInv, DirInv, IsCommitted, LiveNew, Untouched, userVars
  <2>3. CASE proc.pc = "marker"
    <3>1. /\ marker' = "torn" /\ journal = "open" /\ marker = "none"
          /\ UNCHANGED <<journal, fresh>>
      BY <2>3 DEF IInv, PlaceInv, Working, TornWrite
    <3>2. TypeOK'
      BY <1>1, <1>2, <3>1 DEF IInv, TypeOK, userVars
    <3> QED
      BY <1>1, <3>1, <3>2 DEF IInv, DirInv, IsCommitted, LiveNew, Untouched, userVars
  <2> QED
    BY <1>1, <2>1, <2>2, <2>3
<1> QED
  BY <1>1, <1>2, <1>3, Stopped DEF IInv

\* A change of the user's is one item less that the invariants speak of.
LEMMA UserKeeps ==
  ASSUME IInv, NEW i \in Items, NEW c \in Whole,
         live' = [live EXCEPT ![i] = c], touched' = touched \union {i},
         edits' \in 0 .. MaxEdits, kept' \subseteq Edits, exposed' \subseteq Edits,
         UNCHANGED <<dirVars, plan, proc, updates>>
  PROVE  IInv'
<1>1. Untouched' = Untouched \ {i} /\ \A k \in Untouched' : live'[k] = live[k]
  BY DEF Untouched, IInv, TypeOK, Plans
<1>2. TypeOK'
  BY DEF IInv, TypeOK, dirVars
<1>3. (LivePrior => LivePrior') /\ (LiveNew => LiveNew') /\ (Bare => Bare')
  BY <1>1 DEF LivePrior, LiveNew, Bare, dirVars
<1>4. DirInv'
  <2>1. journal = "open" /\ marker # "whole" =>
          \A k \in Untouched' : plan.before[k] # Absent => plan.before[k] \in {live'[k], old[k]}
    BY <1>1 DEF IInv, DirInv
  <2> QED
    BY <1>3, <2>1 DEF IInv, DirInv, IsCommitted, dirVars
<1>5. \A s \in Slots : Held(s)' = Held(s)
  BY DEF Held, dirVars
<1>6. PlaceInv'
  <2>1. AtMove'
    BY <1>1 DEF IInv, PlaceInv, AtMove
  <2>2. AtReserve' /\ AtJournal' /\ Working' /\ Staged'
    BY <1>3 DEF IInv, PlaceInv, AtReserve, AtJournal, Working, Staged, dirVars
  <2>3. AtEnd'
    BY <1>3 DEF IInv, PlaceInv, AtEnd, IsCommitted, dirVars
  <2>4. AtSweep'
    BY <1>3, <1>5 DEF IInv, PlaceInv, AtSweep, dirVars
  <2> QED
    BY <2>1, <2>2, <2>3, <2>4 DEF IInv, PlaceInv, dirVars
<1> QED
  BY <1>2, <1>4, <1>6 DEF IInv

LEMMA UserWritesKeeps ==
  ASSUME SizesAssumption, IInv, NEW i \in Items, UserWrites(i)
  PROVE  IInv'
<1>1. MaxUpdates + edits + 1 \in Edits /\ edits' \in 0 .. MaxEdits
  BY DEF IInv, TypeOK, Edits, SizesAssumption, UserWrites
<1>2. kept' \subseteq Edits /\ exposed' \subseteq Edits
  BY <1>1 DEF IInv, TypeOK, UserWrites
<1>3. MaxUpdates + edits + 1 \in Whole
  BY <1>1 DEF Whole
<1> QED
  BY <1>1, <1>2, <1>3, UserKeeps DEF UserWrites

LEMMA UserDeletesKeeps ==
  ASSUME SizesAssumption, IInv, NEW i \in Items, UserDeletes(i)
  PROVE  IInv'
<1>1. edits' \in 0 .. MaxEdits
  BY DEF IInv, TypeOK, SizesAssumption, UserDeletes
<1>2. kept' \subseteq Edits /\ exposed' \subseteq Edits
  BY DEF IInv, TypeOK, UserDeletes
<1>3. Absent \in Whole
  BY DEF Whole
<1> QED
  BY <1>1, <1>2, <1>3, UserKeeps DEF UserDeletes

(***************************************************************************)
(* The theorems                                                            *)
(***************************************************************************)
LEMMA InitInv ==
  ASSUME SizesAssumption, Init
  PROVE  IInv
<1>1. Nothing \in [Items -> Whole] /\ Nothing \in [Items -> Stored]
  BY DEF Nothing, Whole, Stored
<1>2. plan \in Plans
  BY ItemsAreIntegers DEF Init, NoPlan, Plans, Whole
<1>3. TypeOK
  <2>1. live \in [Items -> Whole] /\ fresh \in [Items -> Stored] /\ old \in [Items -> Stored]
        /\ out \in [Items -> Stored]
    BY <1>1 DEF Init
  <2>2. updates \in 0 .. MaxUpdates /\ edits \in 0 .. MaxEdits
    BY DEF Init, SizesAssumption
  <2>3. proc \in Passes
    BY IdleType DEF Init
  <2> HIDE DEF Nothing
  <2> QED
    BY <1>2, <2>1, <2>2, <2>3 DEF Init, TypeOK
<1>4. Bare /\ LivePrior
  BY <1>2 DEF Init, Bare, LivePrior, Untouched, NoPlan, Nothing, Plans
<1>5. DirInv
  BY <1>4 DEF Init, DirInv, IsCommitted
<1>6. PlaceInv
  BY IdleType DEF Init, PlaceInv, AtReserve, AtJournal, Working, Staged, AtMove, AtEnd, AtSweep
<1> QED
  BY <1>3, <1>5, <1>6 DEF IInv

LEMMA NextInv ==
  ASSUME SizesAssumption, IInv, [Next]_vars
  PROVE  IInv'
<1>1. CASE UNCHANGED vars
  <2>1. UNCHANGED <<live, dirVars, plan, proc, updates, userVars>>
    BY <1>1 DEF vars
  <2>2. TypeOK' /\ DirInv'
    BY <2>1, ProcOnly DEF IInv, TypeOK
  <2>3. \A s \in Slots : Held(s)' = Held(s)
    BY <2>1 DEF Held, dirVars
  <2>4. PlaceInv'
    BY <2>1, <2>3 DEF IInv, PlaceInv, AtReserve, AtJournal, Working, Staged, AtMove, AtEnd,
       AtSweep, IsCommitted, dirVars, userVars, LivePrior, LiveNew, Untouched, Bare
  <2> QED
    BY <2>2, <2>4 DEF IInv
<1>2. CASE \E added, changed \in SUBSET Items : Plan(added, changed)
  BY <1>2, PlanKeeps
<1>3. CASE ApplyStep
  <2>1. CASE Checked("promote", "promoting")
    BY <2>1, CheckedKeeps
  <2> QED
    BY <1>3, <2>1, ReserveKeeps, WriteJournalKeeps, StageKeeps, RecheckKeeps, BackupKeeps,
       PromoteKeeps, VerifyKeeps, WriteMarkerKeeps DEF ApplyStep
<1>4. CASE RecoverStep
  <2>1. CASE Checked("restore", "restoring")
    BY <2>1, CheckedKeeps
  <2> QED
    BY <1>4, <2>1, StartRecoveryKeeps, RecoverKeeps, UndoKeeps, RestoreKeeps, CheckRestoredKeeps
       DEF RecoverStep
<1>5. CASE CleanStep
  BY <1>5, ListArtifactsKeeps, RetireJournalKeeps, RemoveMarkerKeeps, RemoveArtifactKeeps,
     SweptKeeps, RemoveJournalKeeps, RemoveDirKeeps DEF CleanStep
<1>6. CASE Crash \/ IoError \/ TornWrite
  BY <1>6, CrashKeeps, FailKeeps, TornWriteKeeps DEF IoError
<1>7. CASE \E i \in Items : UserWrites(i) \/ UserDeletes(i)
  BY <1>7, UserWritesKeeps, UserDeletesKeeps
<1> QED
  BY <1>1, <1>2, <1>3, <1>4, <1>5, <1>6, <1>7 DEF Next, Intended, Work

LEMMA Inductive == Spec => []IInv
<1>1. Init => IInv
  BY InitInv, SizesAssumption
<1>2. IInv /\ [Next]_vars => IInv'
  BY NextInv, SizesAssumption
<1> QED
  BY <1>1, <1>2, PTL DEF Spec

\* Every variable keeps its type; in particular nothing that is part of a file or
\* of a bundle is ever moved to where agents read it (rename in transaction.rs).
THEOREM TransactionTypes == Spec => []TypeOK
<1>1. IInv => TypeOK
  BY DEF IInv
<1> QED
  BY <1>1, Inductive, PTL

\* At every point of apply, recover and clean, after any crashes and whatever the
\* user does to other files, the prior set can be restored or the completed set
\* is live.
THEOREM AlwaysRecoverable == Spec => []SetRecoverable
<1>1. IInv => SetRecoverable
  BY DEF IInv, DirInv, SetRecoverable, LivePrior, LiveNew, Untouched
<1> QED
  BY <1>1, Inductive, PTL

\* A transaction that is no longer pending has replaced all of the participants
\* that the user left alone, or none.
THEOREM NeverMixed == Spec => []AllOrNothing
<1>1. IInv => AllOrNothing
  BY DEF IInv, DirInv, AllOrNothing, LivePrior, LiveNew, Untouched
<1> QED
  BY <1>1, Inductive, PTL

(***************************************************************************)
(* With no user interfering, a transaction is an atomic replacement        *)
(***************************************************************************)
\* What is moved is a participant.
Moves == {"backup", "promote", "promoting", "undo", "restore", "restoring"}
AtItem ==
  /\ Bundle \in plan.items
  /\ proc.pc \in Moves => proc.at \in plan.items

LEMMA AtItemKept ==
  ASSUME SizesAssumption, TypeOK, AtItem, [Next]_vars
  PROVE  AtItem'
<1>1. ASSUME plan' = plan, proc'.pc \notin Moves \/ proc'.at \in plan.items
      PROVE  AtItem'
  BY <1>1 DEF AtItem
<1>2. ASSUME plan' = plan, Fail
      PROVE  AtItem'
  BY <1>1, <1>2, FailFields DEF Moves
<1>3. ASSUME plan' = plan, NEW pc \in Steps, NEW i \in Items, Goto(pc, i),
             pc \notin Moves \/ i \in plan.items
      PROVE  AtItem'
  BY <1>1, <1>3, GotoFields
<1>4. ASSUME plan' = plan, NEW i \in Items, NextUndo(i)
      PROVE  AtItem'
  <2>1. plan.items \intersect FilesAfter(i) \in SUBSET Files
    BY DEF FilesAfter
  <2> QED
    BY <1>1, <1>4, <2>1, ToFileFields DEF NextUndo, Steps, Moves
<1>5. Bundle \in Items /\ proc.at \in Items /\ plan.items \subseteq Items
  BY ItemsAreIntegers DEF TypeOK, Passes, Plans
<1>6. Changed \subseteq plan.items /\ proc \in Passes
  BY DEF Changed, TypeOK
<1>7. ASSUME plan' = plan, proc' = proc
      PROVE  AtItem'
  BY <1>7 DEF AtItem
<1>8. CASE UNCHANGED vars
  BY <1>7, <1>8 DEF vars
<1>9. CASE \E added, changed \in SUBSET Items : Plan(added, changed)
  BY <1>9, <1>5, GotoFields DEF Plan, AtItem, Steps, Moves
<1>10. CASE ApplyStep
  <2>1. CASE Reserve \/ WriteJournal \/ Verify
    BY <2>1, <1>2, <1>3, <1>5 DEF Reserve, WriteJournal, Verify, Steps, Moves
  <2>2. CASE Stage
    <3>1. Changed \intersect FilesAfter(proc.at) \in SUBSET Files
      BY DEF FilesAfter
    <3>2. CASE proc' = proc
      BY <2>2, <3>2, <1>7 DEF Stage
    <3>3. CASE ToFile("stage", Changed \intersect FilesAfter(proc.at), "recheck")
      <4>1. "stage" \in Steps /\ "recheck" \in Steps /\ proc.pc = "stage"
        BY <2>2 DEF Stage, Steps
      <4>2. proc'.pc \in {"stage", "recheck"} /\ proc'.committed = proc.committed
        BY ONLY SizesAssumption, TypeOK, <3>1, <3>3, <4>1, ToFileFields
      <4> QED BY <2>2, <4>1, <4>2, <1>1 DEF Stage, Moves
    <3> QED
      BY <2>2, <3>2, <3>3 DEF Stage
  <2>3. CASE Recheck
    <3>1. Changed \intersect Files # {} => Least(Changed \intersect Files) \in plan.items
      BY <1>6, LeastOf
    <3> QED
      BY <2>3, <3>1, <1>2, <1>3, <1>5 DEF Recheck, FirstChange, Steps, AtItem
  <2>4. CASE Backup \/ Checked("promote", "promoting")
    BY <2>4, <1>2, <1>3, <1>5 DEF Backup, Checked, Steps, Moves, AtItem
  <2>5. CASE Promote
    <3> DEFINE rest == IF proc.at = Bundle THEN {} ELSE Changed \intersect FilesAfter(proc.at)
    <3>1. rest # {} => Least(rest) \in plan.items
      BY <1>6, LeastOf DEF FilesAfter
    <3>2. NextChange(proc.at) => \E k \in plan.items : Goto("backup", k) \/ Goto("verify", Bundle)
      BY <3>1 DEF NextChange, AtItem
    <3>3. Fail \/ NextChange(proc.at)
      BY <2>5 DEF Promote
    <3> QED
      BY <2>5, <3>2, <3>3, <1>2, <1>3, <1>5 DEF Promote, Steps, Moves
  <2>6. CASE WriteMarker
    BY <2>6, <1>1, <1>6 DEF WriteMarker, Passes, Moves
  <2> QED
    BY <1>10, <2>1, <2>2, <2>3, <2>4, <2>5, <2>6 DEF ApplyStep
<1>11. CASE RecoverStep
  <2>1. CASE StartRecovery
    <3>1. proc'.pc = "recover"
      BY <2>1 DEF StartRecovery, Idle
    <3> QED
      BY <2>1, <3>1, <1>1 DEF StartRecovery, Moves
  <2>2. CASE Recover
    <3>1. proc' = Idle \/ proc'.at = Bundle
      BY <2>2, <1>6 DEF Recover, Passes
    <3> QED
      BY <2>2, <3>1, <1>1 DEF Recover, AtItem, Idle
  <2>3. CASE Undo
    BY <2>3, <1>2, <1>3, <1>4, <1>5 DEF Undo, AtItem, Steps, Moves
  <2>4. CASE Checked("restore", "restoring")
    BY <2>4, <1>2, <1>3, <1>5 DEF Checked, Steps, Moves, AtItem
  <2>5. CASE Restore
    BY <2>5, <1>2, <1>4, <1>5 DEF Restore
  <2>6. CASE CheckRestored
    BY <2>6, <1>2, <1>3, <1>5 DEF CheckRestored, Steps, Moves
  <2> QED
    BY <1>11, <2>1, <2>2, <2>3, <2>4, <2>5, <2>6 DEF RecoverStep
<1>12. CASE CleanStep
  <2>1. CASE ListArtifacts
    BY <2>1, <1>1, <1>2, <1>6 DEF ListArtifacts, Passes, Moves
  <2>2. CASE RetireJournal \/ Swept \/ RemoveJournal
    BY <2>2, <1>3, <1>5 DEF RetireJournal, Swept, RemoveJournal, Steps, Moves
  <2>3. CASE RemoveMarker
    BY <2>3, <1>7 DEF RemoveMarker
  <2>4. ASSUME NEW s \in Slots, RemoveArtifact(s)
        PROVE  AtItem'
    <3>1. proc'.pc = "sweep"
      BY <2>4, <1>6 DEF RemoveArtifact, Passes
    <3> QED
      BY <2>4, <3>1, <1>1 DEF RemoveArtifact, Moves
  <2>5. CASE RemoveDir
    BY <2>5, <1>1, IdleType DEF RemoveDir, Moves
  <2> QED
    BY <1>12, <2>1, <2>2, <2>3, <2>4, <2>5 DEF CleanStep
<1>13. CASE Crash \/ IoError \/ TornWrite
  <2>1. plan' = plan /\ (proc' = Idle \/ Fail)
    BY <1>13 DEF Crash, IoError, TornWrite, Fail
  <2> QED
    BY <2>1, <1>1, <1>2, IdleType DEF Moves
<1>14. CASE \E i \in Items : UserWrites(i) \/ UserDeletes(i)
  BY <1>14, <1>7 DEF UserWrites, UserDeletes
<1> QED
  BY <1>8, <1>9, <1>10, <1>11, <1>12, <1>13, <1>14 DEF Next, Intended, Work

LEMMA AtItemInit ==
  ASSUME SizesAssumption, Init
  PROVE  AtItem
BY IdleType DEF Init, NoPlan, AtItem, Moves

\* What the refinement starts from: the invariant, and a user who changes nothing.
Undisturbed == IInv /\ AtItem /\ touched = {}

LEMMA UndisturbedKept ==
  ASSUME SizesAssumption, MaxEdits = 0, Undisturbed, [Next]_vars
  PROVE  Undisturbed'
<1>1. IInv' /\ AtItem'
  BY NextInv, AtItemKept DEF Undisturbed, IInv
<1>2. ~\E i \in Items : UserWrites(i) \/ UserDeletes(i)
  BY DEF Undisturbed, IInv, TypeOK, UserWrites, UserDeletes
<1>3. CASE UNCHANGED touched
  BY <1>1, <1>3 DEF Undisturbed
<1>4. CASE \E added, changed \in SUBSET Items : Plan(added, changed)
  BY <1>1, <1>4 DEF Undisturbed, Plan
<1>5. CASE Work \/ Crash \/ IoError \/ TornWrite \/ UNCHANGED vars
  <2>1. UNCHANGED touched
    BY <1>5 DEF Work, ApplyStep, RecoverStep, CleanStep, Reserve, WriteJournal, Stage, Recheck,
       Backup, Checked, Promote, Verify, WriteMarker, StartRecovery, Recover, Undo, Restore,
       CheckRestored, ListArtifacts, RetireJournal, RemoveMarker, RemoveArtifact, Swept,
       RemoveJournal, RemoveDir, Crash, IoError, TornWrite, vars, userVars
  <2> QED
    BY <1>3, <2>1
<1> QED
  BY <1>2, <1>4, <1>5 DEF Next, Intended

LEMMA ViewTypes ==
  ASSUME TypeOK
  PROVE  /\ live \in [Items -> Whole]
         /\ Merged(plan.before) \in [Items -> Whole] /\ Merged(plan.after) \in [Items -> Whole]
BY DEF TypeOK, Plans, Merged

\* What a reader is promised depends on the live files and on what the journal says.
SameView == UNCHANGED <<Current, dir, Target>>

LEMMA UnseenStep ==
  ASSUME UNCHANGED <<live, dir, journal, marker, plan>>
  PROVE  SameView
BY DEF SameView, Current, Target, Merged, IsCommitted

\* A participant may be moved while the journal is open.
LEMMA OpenStep ==
  ASSUME TypeOK, TypeOK', dir, journal = "open", marker # "whole", marker' # "whole",
         UNCHANGED <<dir, journal, plan>>,
         \A k \in Items \ plan.items : live'[k] = live[k]
  PROVE  SameView
<1>1. \A set \in [Items -> Whole] : Merged(set)' = Merged(set)
  BY DEF Merged
<1>2. plan.before \in [Items -> Whole] /\ plan.after \in [Items -> Whole]
  BY DEF TypeOK, Plans
<1>3. Merged(plan.before)' = Merged(plan.before) /\ Merged(plan.after)' = Merged(plan.after)
  BY <1>1, <1>2 DEF Merged
<1>4. Current = Merged(plan.before) /\ Current' = Merged(plan.before)'
  BY DEF Current, IsCommitted
<1>5. Target = Merged(plan.after) /\ Target' = Merged(plan.after)'
  BY DEF Target
<1> QED
  BY <1>3, <1>4, <1>5 DEF SameView

LEMMA MergedLive ==
  ASSUME TypeOK, touched = {}
  PROVE  /\ LivePrior => Merged(plan.before) = live
         /\ LiveNew => Merged(plan.after) = live
BY DEF TypeOK, Plans, LivePrior, LiveNew, Untouched, Merged

\* apply, up to the commit marker.
LEMMA ApplyRefines ==
  ASSUME Undisturbed, TypeOK', ApplyStep
  PROVE  [Atomic!AtomicNext]_Atomic!avars
<1> USE DEF Undisturbed, IInv
<1>1. TypeOK /\ touched = {} /\ UNCHANGED plan
  BY DEF ApplyStep, Reserve, WriteJournal, Stage, Recheck, Backup, Checked, Promote, Verify,
     WriteMarker
<1>2. SameView => UNCHANGED Atomic!avars
  BY DEF SameView, Atomic!avars
<1>3. CASE Reserve
  <2>1. CASE dir' = dir
    BY <1>1, <1>2, <1>3, <2>1, UnseenStep DEF Reserve
  <2>2. CASE dir' = TRUE
    <3>1. ~dir /\ journal = "none" /\ UNCHANGED <<live, journal, marker>>
      BY <1>3 DEF PlaceInv, AtReserve, DirInv, Reserve
    <3>2. marker = "none"
      BY <3>1 DEF DirInv
    <3>3. UNCHANGED Current
      BY <3>1, <3>2 DEF Current, IsCommitted
    <3>4. Target' \in [Items -> Whole]
      BY <2>2 DEF Target, TypeOK, Plans, Merged
    <3> QED
      BY <2>2, <3>1, <3>3, <3>4 DEF Atomic!AtomicNext, Atomic!Begin
  <2> QED
    BY <1>3, <2>1, <2>2 DEF Reserve
<1>4. CASE WriteJournal
  <2>1. /\ dir /\ journal = "none" /\ marker = "none" /\ LivePrior
        /\ journal' = "open" /\ UNCHANGED <<live, dir, marker>>
    BY <1>4 DEF PlaceInv, AtJournal, DirInv, WriteJournal
  <2>2. Current = live /\ Current' = Merged(plan.before)'
    BY <2>1 DEF Current, IsCommitted
  <2>3. Merged(plan.before)' = Merged(plan.before)
    BY <1>1, <2>1 DEF Merged
  <2>4. UNCHANGED Target
    BY <1>1, <2>1 DEF Target, Merged
  <2> QED
    BY <1>1, <2>1, <2>2, <2>3, <2>4, MergedLive DEF Atomic!avars
<1>5. CASE Stage \/ Recheck \/ Checked("promote", "promoting") \/ Verify
  BY <1>1, <1>2, <1>5, UnseenStep DEF Stage, Recheck, Checked, Verify, dirVars
<1>6. CASE Backup \/ Promote
  <2>1. /\ dir /\ journal = "open" /\ marker = "none" /\ proc.at \in plan.items
        /\ UNCHANGED <<dir, journal, marker>>
    BY <1>6 DEF PlaceInv, Working, AtItem, Moves, Backup, Promote
  <2>2. \A k \in Items \ plan.items : live'[k] = live[k]
    BY <1>1, <1>6, <2>1 DEF Backup, Promote, Arrives, TypeOK
  <2> QED
    BY <1>1, <1>2, <2>1, <2>2, OpenStep
<1>7. CASE WriteMarker
  <2>1. /\ dir /\ journal = "open" /\ marker' = "whole" /\ UNCHANGED <<live, dir, journal>>
    BY <1>7 DEF PlaceInv, Working, WriteMarker
  <2>2. Current' = Merged(plan.after)' /\ Target = Merged(plan.after) /\ Target' = Merged(plan.after)'
    BY <2>1 DEF Current, IsCommitted, Target
  <2>3. Merged(plan.after)' = Merged(plan.after)
    BY <1>1, <2>1 DEF Merged
  <2> QED
    BY <2>1, <2>2, <2>3 DEF Atomic!AtomicNext, Atomic!Commit
<1> QED
  BY <1>3, <1>4, <1>5, <1>6, <1>7 DEF ApplyStep

\* recover, up to the rollback's last look at the files.
LEMMA RecoverRefines ==
  ASSUME Undisturbed, TypeOK', RecoverStep
  PROVE  SameView
<1> USE DEF Undisturbed, IInv
<1>1. TypeOK /\ UNCHANGED plan
  BY DEF RecoverStep, StartRecovery, Recover, Undo, Checked, Restore, CheckRestored
<1>2. CASE StartRecovery \/ Recover \/ Checked("restore", "restoring") \/ CheckRestored
  BY <1>1, <1>2, UnseenStep DEF StartRecovery, Recover, Checked, CheckRestored, dirVars
<1>3. CASE Undo \/ Restore
  <2>1. /\ dir /\ journal = "open" /\ marker = "none" /\ proc.at \in plan.items
        /\ UNCHANGED <<dir, journal, marker>>
    BY <1>3 DEF PlaceInv, Working, AtItem, Moves, Undo, Restore
  <2>2. \A k \in Items \ plan.items : live'[k] = live[k]
    BY <1>1, <1>3, <2>1 DEF Undo, Restore, Arrives, TypeOK
  <2> QED
    BY <1>1, <2>1, <2>2, OpenStep
<1> QED
  BY <1>2, <1>3 DEF RecoverStep

\* clean: only the removal of the directory shows.
LEMMA CleanRefines ==
  ASSUME Undisturbed, CleanStep
  PROVE  [Atomic!AtomicNext]_Atomic!avars
<1> USE DEF Undisturbed, IInv
<1>1. TypeOK /\ touched = {} /\ UNCHANGED <<plan, live>>
  BY DEF CleanStep, ListArtifacts, RetireJournal, RemoveMarker, RemoveArtifact, Swept,
     RemoveJournal, RemoveDir
<1>2. SameView => UNCHANGED Atomic!avars
  BY DEF SameView, Atomic!avars
<1>3. \A set \in {plan.before, plan.after} : Merged(set)' = Merged(set)
  BY <1>1 DEF Merged
<1>4. CASE ListArtifacts \/ Swept \/ \E s \in Slots : RemoveArtifact(s)
  BY <1>1, <1>2, <1>4, UnseenStep DEF ListArtifacts, Swept, RemoveArtifact, dirVars
<1>5. CASE RetireJournal
  <2>1. /\ dir /\ journal \in {"open", "restored", "committed"}
        /\ proc.committed <=> IsCommitted
        /\ ~proc.committed => marker = "none"
        /\ UNCHANGED <<dir, marker>>
        /\ journal' = Terminal(journal)
    BY <1>5 DEF PlaceInv, AtEnd, RetireJournal
  <2>2. IsCommitted' <=> IsCommitted
    BY <2>1 DEF Terminal, IsCommitted
  <2>3. ~IsCommitted => journal \in {"open", "restored"} /\ journal' \in {"open", "restored"}
    BY <2>1 DEF Terminal, IsCommitted
  <2>4. Merged(plan.before)' = Merged(plan.before) /\ Merged(plan.after)' = Merged(plan.after)
    BY <1>1 DEF Merged
  <2>5. UNCHANGED Target
    BY <2>1, <2>4 DEF Target
  <2>6. UNCHANGED Current
    BY <2>1, <2>2, <2>3, <2>4 DEF Current
  <2> QED
    BY <2>1, <2>5, <2>6 DEF Atomic!avars
<1>6. CASE RemoveMarker
  <2>1. /\ dir /\ journal \in {"restored", "committed"} /\ marker' = "none"
        /\ UNCHANGED <<dir, journal>>
    BY <1>6 DEF PlaceInv, AtSweep, RemoveMarker
  <2>2. marker = "none" \/ journal = "committed"
    BY <2>1 DEF DirInv
  <2>3. UNCHANGED Current
    BY <1>1, <2>1, <2>2 DEF Current, IsCommitted, Merged
  <2>4. UNCHANGED Target
    BY <1>1, <2>1 DEF Target, Merged
  <2> QED
    BY <2>1, <2>3, <2>4 DEF Atomic!avars
<1>7. CASE RemoveJournal
  <2>1. /\ dir /\ journal \in {"restored", "committed"} /\ marker = "none"
        /\ journal' = "none" /\ UNCHANGED <<dir, marker>>
    BY <1>7 DEF PlaceInv, AtSweep, RemoveJournal
  <2>2. Current' = live
    BY <1>1, <2>1 DEF Current, IsCommitted
  <2>3. CASE journal = "restored"
    <3>1. LivePrior /\ Current = Merged(plan.before)
      BY <2>1, <2>3 DEF DirInv, Current, IsCommitted
    <3> QED
      BY <1>1, <2>2, <3>1, MergedLive, <2>1 DEF Atomic!avars, Target, Merged
  <2>4. CASE journal = "committed"
    <3>1. LiveNew /\ Current = Merged(plan.after)
      BY <2>1, <2>4 DEF DirInv, Current, IsCommitted
    <3> QED
      BY <1>1, <2>2, <3>1, MergedLive, <2>1 DEF Atomic!avars, Target, Merged
  <2> QED
    BY <2>1, <2>3, <2>4
<1>8. CASE RemoveDir
  <2>1. dir /\ journal = "none" /\ dir' = FALSE /\ UNCHANGED <<journal, marker>>
    BY <1>8 DEF PlaceInv, AtSweep, RemoveDir
  <2>2. marker = "none"
    BY <2>1 DEF DirInv
  <2>3. Current = live /\ Current' = live' /\ Target' = live'
    BY <2>1, <2>2 DEF Current, Target, IsCommitted
  <2> QED
    BY <1>1, <2>1, <2>3 DEF Atomic!AtomicNext, Atomic!End
<1> QED
  BY <1>4, <1>5, <1>6, <1>7, <1>8 DEF CleanStep

LEMMA MishapRefines ==
  ASSUME Undisturbed, TypeOK', Crash \/ IoError \/ TornWrite
  PROVE  SameView
<1> USE DEF Undisturbed, IInv
<1>1. CASE Crash \/ IoError
  BY <1>1, UnseenStep DEF Crash, IoError, dirVars
<1>2. CASE TornWrite
  <2>1. dir /\ UNCHANGED <<live, dir, plan>>
    BY <1>2 DEF PlaceInv, TornWrite
  <2>2. CASE proc.pc = "journal"
    <3>1. journal = "none" /\ journal' = "torn" /\ marker = "none" /\ UNCHANGED marker
      BY <1>2, <2>2 DEF PlaceInv, AtJournal, DirInv, TornWrite
    <3> QED
      BY <2>1, <3>1 DEF SameView, Current, Target, Merged, IsCommitted
  <2>3. CASE proc.pc = "stage"
    BY <1>2, <2>1, <2>3, UnseenStep DEF TornWrite
  <2>4. CASE proc.pc = "marker"
    <3>1. journal = "open" /\ marker = "none" /\ marker' = "torn" /\ UNCHANGED journal
      BY <1>2, <2>4 DEF PlaceInv, Working, TornWrite
    <3> QED
      BY <2>1, <3>1, OpenStep
  <2> QED
    BY <1>2, <2>2, <2>3, <2>4 DEF TornWrite
<1> QED
  BY <1>1, <1>2

LEMMA StepRefines ==
  ASSUME SizesAssumption, MaxEdits = 0, Undisturbed, [Next]_vars
  PROVE  [Atomic!AtomicNext]_Atomic!avars
<1>1. TypeOK' /\ TypeOK
  BY NextInv DEF Undisturbed, IInv
<1>2. SameView => UNCHANGED Atomic!avars
  BY DEF SameView, Atomic!avars
<1>3. CASE UNCHANGED vars
  BY <1>2, <1>3, UnseenStep DEF vars, dirVars
<1>4. CASE \E added, changed \in SUBSET Items : Plan(added, changed)
  BY <1>2, <1>4 DEF Plan, dirVars, SameView, Current, Target
<1>5. CASE \E i \in Items : UserWrites(i) \/ UserDeletes(i)
  BY <1>1, <1>5 DEF TypeOK, UserWrites, UserDeletes
<1> QED
  BY <1>1, <1>2, <1>3, <1>4, <1>5, ApplyRefines, RecoverRefines, CleanRefines, MishapRefines
     DEF Next, Intended, Work

\* With no user interfering, apply, clean and recover, with every crash, error and
\* torn write between their file operations, change the managed set in one step.
THEOREM ImplementsAtomic == MaxEdits = 0 => (Spec => Implements)
<1> SUFFICES ASSUME MaxEdits = 0
             PROVE  Spec => Implements
  OBVIOUS
<1>1. Init => Undisturbed
  BY InitInv, AtItemInit, SizesAssumption DEF Init, Undisturbed
<1>2. Undisturbed /\ [Next]_vars => Undisturbed'
  BY UndisturbedKept, SizesAssumption
<1>3. Init => Atomic!AtomicInit
  <2>1. Init => TypeOK
    BY InitInv, SizesAssumption DEF IInv
  <2> QED
    BY <2>1 DEF Init, Atomic!AtomicInit, Current, Target, TypeOK
<1>4. Undisturbed /\ [Next]_vars => [Atomic!AtomicNext]_Atomic!avars
  BY StepRefines, SizesAssumption
<1> QED
  BY <1>1, <1>2, <1>3, <1>4, PTL DEF Spec, Implements, Atomic!AtomicSpec
(***************************************************************************)
(* The user's edits are lost only through the window of rename             *)
(***************************************************************************)
\* A new edit is one that is nowhere yet.
Known ==
  \A i \in Items :
    \A c \in {live[i], fresh[i], old[i], out[i], plan.before[i], plan.after[i]} :
      c <= MaxUpdates + edits

\* What the plan and the staged files hold is no edit that has to be kept.
Spent ==
  /\ \A i \in plan.items : plan.before[i] \notin kept /\ plan.after[i] \notin kept
  /\ \A i \in Items : fresh[i] \notin kept

StagedItem == proc.pc = "stage" => proc.at \in plan.items

\* What clean removes is no edit; what rename replaces is one that came in between.
Cleared == proc.pc \in {"retire", "sweep"} => \A s \in proc.sweep : Held(s) \notin kept
Emptied == \A i \in Files : Moving(i) => live[i] \in {Absent} \union exposed

EditsInv == Known /\ Spent /\ StagedItem /\ Cleared /\ Emptied /\ OnlyExposedEditsLost
AllInv == IInv /\ AtItem /\ EditsInv

Calm == proc'.pc \notin {"stage", "retire", "sweep", "promoting", "restoring"}

LEMMA NoEdit ==
  ASSUME SizesAssumption, TypeOK
  PROVE  /\ Absent \notin kept /\ Partial \notin kept /\ Fragment \notin kept
         /\ \A c \in Installed : c \notin kept
         /\ Absent <= MaxUpdates + edits /\ Partial <= MaxUpdates + edits
         /\ Fragment <= MaxUpdates + edits
         /\ edits \in Nat /\ MaxUpdates \in Nat
BY DEF SizesAssumption, TypeOK, Edits, Installed, Absent, Partial, Fragment

LEMMA ItemFacts ==
  ASSUME TypeOK
  PROVE  /\ proc \in Passes /\ proc.at \in Items /\ plan.items \subseteq Items
         /\ Changed \subseteq plan.items
         /\ live \in [Items -> Whole] /\ plan.before \in [Items -> Whole]
         /\ plan.after \in [Items -> Whole] /\ Files \subseteq Items
BY DEF TypeOK, Passes, Plans, Changed, Items

\* Steps after which nothing is held in hand, and which leave all contents alone.
LEMMA ContentsKept ==
  ASSUME EditsInv, UNCHANGED <<live, fresh, old, out, plan, edits, kept, exposed>>
  PROVE  Known' /\ Spent' /\ OnlyExposedEditsLost'
BY DEF EditsInv, Known, Spent, OnlyExposedEditsLost, Somewhere

LEMMA CalmIsClear ==
  ASSUME Calm
  PROVE  StagedItem' /\ Cleared' /\ Emptied'
BY DEF Calm, StagedItem, Cleared, Emptied, Moving

LEMMA CalmStep ==
  ASSUME EditsInv, Calm, UNCHANGED <<live, fresh, old, out, plan, edits, kept, exposed>>
  PROVE  EditsInv'
BY ContentsKept, CalmIsClear DEF EditsInv

LEMMA FailSpares ==
  ASSUME TypeOK, EditsInv, Fail, UNCHANGED <<live, fresh, old, out, plan, edits, kept, exposed>>
  PROVE  EditsInv'
BY FailFields, CalmStep DEF Calm

LEMMA PlanSpares ==
  ASSUME SizesAssumption, TypeOK, AtItem, EditsInv,
         NEW added \in SUBSET Items, NEW changed \in SUBSET Items, Plan(added, changed)
  PROVE  EditsInv'
<1>1. /\ plan'.items = {Bundle} \union Owned \union added /\ plan'.before = live
      /\ \A i \in Items : plan'.after[i] \in {updates + 1, live[i]}
      /\ kept' = kept \ {live[i] : i \in added}
      /\ \A i \in Owned : live[i] = Manifest[i]
      /\ live[Bundle] \notin Edits
      /\ UNCHANGED <<live, fresh, old, out, edits, exposed>>
  BY DEF Plan, dirVars
<1>2. updates + 1 \in Installed /\ updates + 1 <= MaxUpdates + edits
  BY DEF Plan, TypeOK, Installed, SizesAssumption
<1>3. Bundle \in Items /\ Owned \subseteq plan.items /\ plan'.items \subseteq Items
  BY <1>1, ItemsAreIntegers, ItemFacts DEF Owned
<1>4. Known'
  <2> SUFFICES ASSUME NEW i \in Items
               PROVE  \A c \in {live'[i], fresh'[i], old'[i], out'[i], plan'.before[i], plan'.after[i]} :
                        c <= MaxUpdates + edits'
    BY DEF Known
  <2> QED
    BY <1>1, <1>2 DEF EditsInv, Known
<1>5. \A i \in plan'.items : live[i] \notin kept'
  <2> SUFFICES ASSUME NEW i \in plan'.items
               PROVE  live[i] \notin kept'
    OBVIOUS
  <2>1. CASE i = Bundle
    BY <1>1, <2>1 DEF TypeOK
  <2>2. CASE i \in Owned
    BY <1>1, <1>3, <2>2 DEF EditsInv, Spent, Manifest
  <2>3. CASE i \in added
    BY <1>1, <2>3
  <2> QED
    BY <1>1, <2>1, <2>2, <2>3
<1>6. Spent'
  <2>1. updates + 1 \notin kept'
    BY <1>1, <1>2, NoEdit
  <2>2. \A i \in plan'.items : plan'.before[i] \notin kept' /\ plan'.after[i] \notin kept'
    BY <1>1, <1>3, <1>5, <2>1
  <2>3. \A i \in Items : fresh'[i] \notin kept'
    BY <1>1 DEF EditsInv, Spent
  <2> QED
    BY <2>2, <2>3 DEF Spent
<1>7. Calm
  BY GotoFields, <1>3 DEF Plan, Steps, Calm
<1>8. OnlyExposedEditsLost'
  BY <1>1 DEF EditsInv, OnlyExposedEditsLost, Somewhere
<1> QED
  BY <1>4, <1>6, <1>7, <1>8, CalmIsClear DEF EditsInv

LEMMA StageSpares ==
  ASSUME SizesAssumption, TypeOK, AtItem, EditsInv, Stage
  PROVE  EditsInv'
<1> DEFINE i == proc.at
<1>1. /\ i \in plan.items /\ i \in Items
      /\ UNCHANGED <<live, old, out, plan, edits, kept, exposed>>
  BY ItemFacts DEF Stage, EditsInv, StagedItem, userVars
<1>2. PICK c : fresh' = [fresh EXCEPT ![i] = c] /\ c \in {Partial, plan.after[i]}
  BY DEF Stage
<1>3. c \notin kept /\ c <= MaxUpdates + edits
  BY <1>1, <1>2, NoEdit DEF EditsInv, Spent, Known
<1>4. \A k \in Items : fresh'[k] \in {fresh[k], c} /\ (k # i => fresh'[k] = fresh[k])
  BY <1>2 DEF TypeOK
<1>5. Known'
  BY <1>1, <1>3, <1>4 DEF EditsInv, Known
<1>6. Spent'
  BY <1>1, <1>3, <1>4 DEF EditsInv, Spent
<1>7. OnlyExposedEditsLost'
  BY <1>1, <1>4 DEF EditsInv, Spent, OnlyExposedEditsLost, Somewhere
<1>8. StagedItem' /\ proc'.pc \in {"stage", "recheck"}
  <2>1. CASE proc' = proc
    BY <1>1, <2>1 DEF Stage, StagedItem
  <2>2. CASE ToFile("stage", Changed \intersect FilesAfter(i), "recheck")
    <3>1. Changed \intersect FilesAfter(i) \in SUBSET Files /\ "stage" \in Steps /\ "recheck" \in Steps
      BY DEF FilesAfter, Steps
    <3>2. \/ proc'.pc = "stage" /\ proc'.at \in Changed \intersect FilesAfter(i)
          \/ proc'.pc = "recheck" /\ proc'.at = Bundle
      BY ONLY SizesAssumption, TypeOK, <2>2, <3>1, ToFileFields
    <3> QED
      BY <1>1, <3>2, ItemFacts DEF StagedItem
  <2> QED
    BY <2>1, <2>2 DEF Stage
<1>9. Cleared' /\ Emptied'
  BY <1>8 DEF Cleared, Emptied, Moving
<1> QED
  BY <1>5, <1>6, <1>7, <1>8, <1>9 DEF EditsInv
\* An item is moved from one place to another; what is overwritten was exposed.
LEMMA Shuffled ==
  ASSUME SizesAssumption, TypeOK, EditsInv, UNCHANGED <<plan, edits, kept, exposed>>,
         \A k \in Items :
           /\ {live'[k], fresh'[k], old'[k], out'[k]} \subseteq
                {Absent, live[k], fresh[k], old[k], out[k]}
           /\ fresh'[k] \in {Absent, fresh[k]}
           /\ {live[k], fresh[k], old[k], out[k]} \subseteq
                {Absent, live'[k], fresh'[k], old'[k], out'[k]} \union exposed
  PROVE  Known' /\ Spent' /\ OnlyExposedEditsLost'
<1>1. Known'
  <2> SUFFICES ASSUME NEW k \in Items
               PROVE  \A c \in {live'[k], fresh'[k], old'[k], out'[k], plan.before[k], plan.after[k]} :
                        c <= MaxUpdates + edits
    BY DEF Known
  <2>1. \A c \in {live[k], fresh[k], old[k], out[k], plan.before[k], plan.after[k]} :
          c <= MaxUpdates + edits
    BY DEF EditsInv, Known
  <2>2. Absent <= MaxUpdates + edits
    BY NoEdit
  <2>3. {live'[k], fresh'[k], old'[k], out'[k]} \subseteq {Absent, live[k], fresh[k], old[k], out[k]}
    OBVIOUS
  <2> QED
    BY <2>1, <2>2, <2>3
<1>2. Spent'
  BY NoEdit DEF EditsInv, Spent
<1>3. OnlyExposedEditsLost'
  <2> SUFFICES ASSUME NEW c \in kept \ exposed
               PROVE  Somewhere(c)'
    BY DEF OnlyExposedEditsLost
  <2>1. PICK k \in Items : c \in {live[k], fresh[k], old[k], out[k]}
    BY DEF EditsInv, OnlyExposedEditsLost, Somewhere
  <2>2. c # Absent /\ c \notin exposed
    BY NoEdit
  <2>3. c \in {live'[k], fresh'[k], old'[k], out'[k]}
    BY <2>1, <2>2
  <2> QED
    BY <2>3 DEF Somewhere
<1> QED
  BY <1>1, <1>2, <1>3

LEMMA CheckedSpares ==
  ASSUME SizesAssumption, TypeOK, EditsInv, NEW from, NEW to, Checked(from, to),
         to \in {"promoting", "restoring"}
  PROVE  EditsInv'
<1>1. UNCHANGED <<live, fresh, old, out, plan, edits, kept, exposed>>
  BY DEF Checked, dirVars, userVars
<1>2. CASE live[proc.at] # Absent
  BY <1>1, <1>2, FailSpares DEF Checked
<1>3. CASE live[proc.at] = Absent
  <2>1. proc'.pc = to /\ proc'.at = proc.at
    BY <1>3, GotoFields, ItemFacts DEF Checked, Steps
  <2>2. Emptied'
    BY <1>1, <1>3, <2>1 DEF Emptied, Moving
  <2>3. StagedItem' /\ Cleared'
    BY <2>1 DEF StagedItem, Cleared
  <2> QED
    BY <1>1, <2>2, <2>3, ContentsKept DEF EditsInv
<1> QED
  BY <1>2, <1>3

LEMMA BackupSpares ==
  ASSUME SizesAssumption, TypeOK, EditsInv, Backup
  PROVE  EditsInv'
<1> DEFINE i == proc.at
<1>1. /\ i \in Items /\ live \in [Items -> Whole] /\ old \in [Items -> Stored]
      /\ UNCHANGED <<fresh, out, plan, edits, kept, exposed>>
  BY ItemFacts DEF TypeOK, Backup, userVars
<1>2. CASE UNCHANGED <<live, old>> /\ (Goto("promote", i) \/ Fail)
  <2>1. Calm
    BY <1>1, <1>2, GotoFields, FailFields DEF Calm, Steps
  <2> QED
    BY <1>1, <1>2, <2>1, CalmStep
<1>3. CASE /\ old[i] = Absent /\ old' = [old EXCEPT ![i] = live[i]]
           /\ live' = [live EXCEPT ![i] = Absent] /\ Goto("promote", i)
  <2>1. Calm
    BY <1>1, <1>3, GotoFields DEF Calm, Steps
  <2>2. /\ live'[i] = Absent /\ old'[i] = live[i]
        /\ \A k \in Items : k # i => live'[k] = live[k] /\ old'[k] = old[k]
    BY <1>1, <1>3
  <2>3. Known' /\ Spent' /\ OnlyExposedEditsLost'
    BY <1>1, <1>3, <2>2, Shuffled
  <2> QED
    BY <2>1, <2>3, CalmIsClear DEF EditsInv
<1> QED
  BY <1>2, <1>3 DEF Backup

\* rename replaces a file only by overwriting what came in after the check.
LEMMA Replaced ==
  ASSUME TypeOK, EditsInv, NEW source \in [Items -> Stored],
         proc.pc \in {"promoting", "restoring"}, Movable(source), Arrives(source)
  PROVE  /\ live'[proc.at] = source[proc.at]
         /\ live[proc.at] \in {Absent} \union exposed
         /\ Leaves(source)[proc.at] = Absent
         /\ \A k \in Items : k # proc.at => live'[k] = live[k] /\ Leaves(source)[k] = source[k]
<1>1. proc.at \in Items /\ live \in [Items -> Whole]
  BY ItemFacts
<1>2. live[proc.at] \in {Absent} \union exposed
  BY <1>1 DEF Movable, EditsInv, Emptied, Moving, Items, Bundle
<1> QED
  BY <1>1, <1>2 DEF Arrives, Leaves

LEMMA PromoteSpares ==
  ASSUME SizesAssumption, TypeOK, AtItem, EditsInv, Promote
  PROVE  EditsInv'
<1> DEFINE i == proc.at
<1>1. /\ i \in Items /\ proc.pc = "promoting" /\ fresh \in [Items -> Stored]
      /\ UNCHANGED <<old, out, plan, edits, kept, exposed>>
  BY ItemFacts DEF TypeOK, Promote, userVars
<1>2. CASE ~Movable(fresh)
  BY <1>1, <1>2, FailSpares DEF Promote, Arrives, Leaves
<1>3. CASE Movable(fresh)
  <2>1. Calm
    <3> DEFINE rest == IF i = Bundle THEN {} ELSE Changed \intersect FilesAfter(i)
    <3>1. rest \in SUBSET Files
      BY DEF FilesAfter
    <3>2. rest # {} => Least(rest) \in Items
      BY <3>1, LeastOf DEF Items
    <3>3. \E k \in Items : Goto("backup", k) \/ Goto("verify", k)
      BY <1>3, <3>2, ItemsAreIntegers DEF Promote, NextChange
    <3> QED
      BY <3>3, GotoFields DEF Calm, Steps
  <2>2. /\ live'[i] = fresh[i] /\ live[i] \in {Absent} \union exposed /\ fresh'[i] = Absent
        /\ \A k \in Items : k # i => live'[k] = live[k] /\ fresh'[k] = fresh[k]
    BY <1>1, <1>3, Replaced DEF Promote
  <2>3. Known' /\ Spent' /\ OnlyExposedEditsLost'
    BY <1>1, <2>2, Shuffled
  <2> QED
    BY <2>1, <2>3, CalmIsClear DEF EditsInv
<1> QED
  BY <1>2, <1>3

LEMMA UndoSpares ==
  ASSUME SizesAssumption, TypeOK, EditsInv, Undo
  PROVE  EditsInv'
<1> DEFINE i == proc.at
<1>1. /\ i \in Items /\ live \in [Items -> Whole] /\ out \in [Items -> Stored]
      /\ UNCHANGED <<fresh, old, plan, edits, kept, exposed>>
  BY ItemFacts DEF TypeOK, Undo, userVars
<1>2. NextUndo(i) \/ Goto("restore", i) => Calm
  BY <1>1, GotoFields, NextUndoFields DEF Calm, Steps
<1>3. Fail => Calm
  BY FailFields DEF Calm
<1>4. CASE UNCHANGED <<live, out>>
  <2>1. Calm
    BY <1>2, <1>3 DEF Undo
  <2> QED
    BY <1>1, <1>4, <2>1, CalmStep
<1>5. CASE /\ out[i] = Absent /\ out' = [out EXCEPT ![i] = live[i]]
           /\ live' = [live EXCEPT ![i] = Absent] /\ (NextUndo(i) \/ Goto("restore", i))
  <2>1. /\ live'[i] = Absent /\ out'[i] = live[i]
        /\ \A k \in Items : k # i => live'[k] = live[k] /\ out'[k] = out[k]
    BY <1>1, <1>5
  <2>2. Known' /\ Spent' /\ OnlyExposedEditsLost'
    BY <1>1, <1>5, <2>1, Shuffled
  <2> QED
    BY <1>2, <1>5, <2>2, CalmIsClear DEF EditsInv
<1> QED
  BY <1>4, <1>5 DEF Undo

LEMMA RestoreSpares ==
  ASSUME SizesAssumption, TypeOK, EditsInv, Restore
  PROVE  EditsInv'
<1> DEFINE i == proc.at
<1>1. /\ i \in Items /\ proc.pc = "restoring" /\ old \in [Items -> Stored]
      /\ UNCHANGED <<fresh, out, plan, edits, kept, exposed>>
  BY ItemFacts DEF TypeOK, Restore, userVars
<1>2. CASE ~Movable(old)
  BY <1>1, <1>2, FailSpares DEF Restore, Arrives, Leaves
<1>3. CASE Movable(old)
  <2>1. Calm
    BY <1>1, <1>3, NextUndoFields DEF Restore, Calm
  <2>2. /\ live'[i] = old[i] /\ live[i] \in {Absent} \union exposed /\ old'[i] = Absent
        /\ \A k \in Items : k # i => live'[k] = live[k] /\ old'[k] = old[k]
    BY <1>1, <1>3, Replaced DEF Restore
  <2>3. Known' /\ Spent' /\ OnlyExposedEditsLost'
    BY <1>1, <2>2, Shuffled
  <2> QED
    BY <2>1, <2>3, CalmIsClear DEF EditsInv
<1> QED
  BY <1>2, <1>3
\* validate_artifacts passes only what the plan wrote and found.
LEMMA ListedIsSpent ==
  ASSUME SizesAssumption, TypeOK, EditsInv, Recognised
  PROVE  \A s \in Slots : Held(s) \notin kept
<1>1. \A i \in Items : /\ fresh[i] \notin kept /\ out[i] \notin kept /\ old[i] \notin kept
  BY NoEdit DEF Recognised, Accounted, EditsInv, Spent
<1> QED
  BY <1>1 DEF Slots, Held

LEMMA ListArtifactsSpares ==
  ASSUME SizesAssumption, TypeOK, EditsInv, ListArtifacts
  PROVE  EditsInv'
<1>1. UNCHANGED <<live, fresh, old, out, plan, edits, kept, exposed>>
  BY DEF ListArtifacts, dirVars, userVars
<1>2. CASE ~Recognised
  BY <1>1, <1>2, FailSpares DEF ListArtifacts
<1>3. CASE Recognised
  <2>1. Artifacts \in SUBSET Slots
    BY DEF Artifacts
  <2>2. proc'.pc = "retire" /\ proc'.sweep = Artifacts
    <3>1. proc' = [proc EXCEPT !.pc = "retire", !.sweep = Artifacts]
      BY <1>3 DEF ListArtifacts
    <3>2. proc \in Passes
      BY DEF TypeOK
    <3> QED
      BY <2>1, <3>1, <3>2, RetirePass
  <2>3. \A s \in Slots : Held(s)' = Held(s)
    BY <1>1 DEF Held
  <2>4. Cleared'
    BY <1>1, <1>3, <2>1, <2>2, <2>3, ListedIsSpent DEF Cleared
  <2>5. StagedItem' /\ Emptied'
    BY <2>2 DEF StagedItem, Emptied, Moving
  <2> QED
    BY <1>1, <2>4, <2>5, ContentsKept DEF EditsInv
<1> QED
  BY <1>2, <1>3

LEMMA RetireJournalSpares ==
  ASSUME SizesAssumption, TypeOK, EditsInv, RetireJournal
  PROVE  EditsInv'
<1>1. UNCHANGED <<live, fresh, old, out, plan, edits, kept, exposed>>
  BY DEF RetireJournal, userVars
<1>2. proc'.pc = "sweep" /\ proc'.sweep = proc.sweep
  BY GotoFields, ItemsAreIntegers DEF RetireJournal, Steps
<1>3. \A s \in proc.sweep : Held(s) \notin kept
  BY DEF EditsInv, Cleared, RetireJournal
<1>4. Cleared'
  BY <1>1, <1>2, <1>3 DEF Cleared, Held
<1>5. StagedItem' /\ Emptied'
  BY <1>2 DEF StagedItem, Emptied, Moving
<1> QED
  BY <1>1, <1>4, <1>5, ContentsKept DEF EditsInv

LEMMA RemoveMarkerSpares ==
  ASSUME EditsInv, RemoveMarker
  PROVE  EditsInv'
<1>1. UNCHANGED <<live, fresh, old, out, plan, edits, kept, exposed, proc>>
  BY DEF RemoveMarker, userVars
<1>2. StagedItem' /\ Cleared' /\ Emptied'
  BY <1>1 DEF EditsInv, StagedItem, Cleared, Emptied, Moving, Held
<1> QED
  BY <1>1, <1>2, ContentsKept DEF EditsInv

LEMMA RemoveArtifactSpares ==
  ASSUME SizesAssumption, TypeOK, EditsInv, NEW s \in Slots, RemoveArtifact(s)
  PROVE  EditsInv'
<1>1. /\ proc.pc = "sweep" /\ s \in proc.sweep /\ Held(s) \notin kept
      /\ UNCHANGED <<live, plan, edits, kept, exposed>>
  BY DEF RemoveArtifact, userVars, EditsInv, Cleared
<1>2. PICK g \in {"fresh", "old", "out"}, i \in Items : s = <<g, i>>
  BY DEF Slots
<1>3. /\ \A k \in Items : <<"fresh", k>> # s => fresh'[k] = fresh[k]
      /\ \A k \in Items : <<"old", k>> # s => old'[k] = old[k]
      /\ \A k \in Items : <<"out", k>> # s => out'[k] = out[k]
  BY RemovedFields DEF TypeOK, RemoveArtifact
<1>4. /\ s = <<"fresh", i>> => fresh'[i] \in {Absent, Partial} /\ fresh[i] \notin kept
      /\ s = <<"old", i>> => old'[i] \in {Absent, Partial} /\ old[i] \notin kept
      /\ s = <<"out", i>> => out'[i] \in {Absent, Partial} /\ out[i] \notin kept
  <2>1. CASE s = <<"fresh", i>>
    BY <1>1, <2>1, RemovedFields DEF TypeOK, RemoveArtifact, Held
  <2>2. CASE s = <<"old", i>>
    BY <1>1, <2>2, RemovedFields DEF TypeOK, RemoveArtifact, Held
  <2>3. CASE s = <<"out", i>>
    BY <1>1, <2>3, RemovedFields DEF TypeOK, RemoveArtifact, Held
  <2> QED
    BY <2>1, <2>2, <2>3
<1>5. \A k \in Items :
        /\ fresh'[k] \in {fresh[k], Absent, Partial}
        /\ old'[k] \in {old[k], Absent, Partial}
        /\ out'[k] \in {out[k], Absent, Partial}
        /\ fresh[k] \in kept => fresh'[k] = fresh[k]
        /\ old[k] \in kept => old'[k] = old[k]
        /\ out[k] \in kept => out'[k] = out[k]
  <2> SUFFICES ASSUME NEW k \in Items
               PROVE  /\ fresh'[k] \in {fresh[k], Absent, Partial}
                      /\ old'[k] \in {old[k], Absent, Partial}
                      /\ out'[k] \in {out[k], Absent, Partial}
                      /\ fresh[k] \in kept => fresh'[k] = fresh[k]
                      /\ old[k] \in kept => old'[k] = old[k]
                      /\ out[k] \in kept => out'[k] = out[k]
    OBVIOUS
  <2>1. CASE k = i
    BY <1>2, <1>3, <1>4, <2>1
  <2>2. CASE k # i
    BY <1>2, <1>3, <2>2
  <2> QED
    BY <2>1, <2>2
<1>6. Known'
  <2> SUFFICES ASSUME NEW k \in Items
               PROVE  \A c \in {live'[k], fresh'[k], old'[k], out'[k], plan'.before[k], plan'.after[k]} :
                        c <= MaxUpdates + edits'
    BY DEF Known
  <2>1. Absent <= MaxUpdates + edits /\ Partial <= MaxUpdates + edits
    BY NoEdit
  <2>2. \A c \in {live[k], fresh[k], old[k], out[k], plan.before[k], plan.after[k]} :
          c <= MaxUpdates + edits
    BY DEF EditsInv, Known
  <2> QED
    BY <1>1, <1>5, <2>1, <2>2
<1>7. Spent'
  <2>1. \A k \in Items : fresh'[k] \notin kept
    BY <1>5, NoEdit DEF EditsInv, Spent
  <2> QED
    BY <1>1, <2>1 DEF EditsInv, Spent
<1>8. OnlyExposedEditsLost'
  BY <1>1, <1>5 DEF EditsInv, OnlyExposedEditsLost, Somewhere
<1>9. proc'.pc = "sweep" /\ proc'.sweep \subseteq proc.sweep /\ proc'.sweep \subseteq Slots
  <2>1. proc \in Passes
    BY DEF TypeOK
  <2> QED
    BY <1>1, <2>1 DEF RemoveArtifact, Passes
<1>10. Cleared'
  <2> SUFFICES ASSUME NEW t \in proc'.sweep
               PROVE  Held(t)' \notin kept
    BY <1>1 DEF Cleared
  <2>1. PICK h \in {"fresh", "old", "out"}, k \in Items : t = <<h, k>>
    BY <1>9 DEF Slots
  <2>2. Held(t) \notin kept
    BY <1>1, <1>9 DEF EditsInv, Cleared
  <2>3. Held(t)' \in {Held(t), Absent, Partial}
    BY <1>5, <2>1 DEF Held
  <2> QED
    BY <2>2, <2>3, NoEdit
<1>11. StagedItem' /\ Emptied'
  BY <1>9 DEF StagedItem, Emptied, Moving
<1> QED
  BY <1>6, <1>7, <1>8, <1>10, <1>11 DEF EditsInv

LEMMA TornWriteSpares ==
  ASSUME SizesAssumption, TypeOK, EditsInv, TornWrite
  PROVE  EditsInv'
<1>1. /\ UNCHANGED <<live, old, out, plan, edits, kept, exposed>>
      /\ fresh' = fresh \/ fresh' = [fresh EXCEPT ![proc.at] = Fragment]
  BY DEF TornWrite, userVars
<1>2. Calm
  BY FailFields, IdleType DEF TornWrite, Fail, Calm
<1>3. \A k \in Items : fresh'[k] \in {fresh[k], Fragment}
  BY <1>1 DEF TypeOK
<1>4. Known'
  BY <1>1, <1>3, NoEdit DEF EditsInv, Known
<1>5. Spent'
  BY <1>1, <1>3, NoEdit DEF EditsInv, Spent
<1>6. OnlyExposedEditsLost'
  BY <1>1, <1>3 DEF EditsInv, Spent, OnlyExposedEditsLost, Somewhere
<1> QED
  BY <1>2, <1>4, <1>5, <1>6, CalmIsClear DEF EditsInv

LEMMA UserWritesSpares ==
  ASSUME SizesAssumption, TypeOK, EditsInv, NEW i \in Items, UserWrites(i)
  PROVE  EditsInv'
<1> DEFINE edit == MaxUpdates + edits + 1
<1>1. /\ live' = [live EXCEPT ![i] = edit] /\ edits' = edits + 1
      /\ kept' = (kept \ {live[i]}) \union {edit}
      /\ exposed' = IF i \in Files /\ Moving(i) THEN exposed \union {edit} ELSE exposed
      /\ UNCHANGED <<fresh, old, out, plan, proc>>
  BY DEF UserWrites, dirVars
<1>2. live'[i] = edit /\ \A k \in Items : k # i => live'[k] = live[k]
  BY <1>1 DEF TypeOK
<1>3. \A k \in Items : \A c \in {live[k], fresh[k], old[k], out[k], plan.before[k], plan.after[k]} :
        c <= MaxUpdates + edits'
  <2>1. \A c \in Int : c <= MaxUpdates + edits => c <= MaxUpdates + edits'
    BY <1>1, NoEdit
  <2>2. \A k \in Items : {live[k], fresh[k], old[k], out[k], plan.before[k], plan.after[k]} \subseteq Int
    BY DEF TypeOK, Plans, Stored, Whole, Installed, Edits, Absent, Fragment, Partial
  <2> QED
    BY <2>1, <2>2 DEF EditsInv, Known
<1>4. Known'
  <2>1. edit <= MaxUpdates + edits'
    BY <1>1, NoEdit
  <2> QED
    BY <1>1, <1>2, <1>3, <2>1 DEF Known
<1>5. \A k \in Items : edit \notin {live[k], fresh[k], old[k], out[k], plan.before[k], plan.after[k]}
  <2>1. ~(edit <= MaxUpdates + edits)
    BY NoEdit
  <2> QED
    BY <2>1 DEF EditsInv, Known
<1>6. Spent'
  BY <1>1, <1>5, ItemFacts DEF EditsInv, Spent
<1>7. OnlyExposedEditsLost'
  <2> SUFFICES ASSUME NEW c \in kept' \ exposed'
               PROVE  Somewhere(c)'
    BY DEF OnlyExposedEditsLost
  <2>1. CASE c = edit
    BY <1>2, <2>1 DEF Somewhere
  <2>2. CASE c # edit
    <3>1. c \in kept \ exposed /\ c # live[i]
      BY <1>1, <2>2
    <3>2. PICK k \in Items : c \in {live[k], fresh[k], old[k], out[k]}
      BY <3>1 DEF EditsInv, OnlyExposedEditsLost, Somewhere
    <3> QED
      BY <1>1, <1>2, <3>1, <3>2 DEF Somewhere
  <2> QED
    BY <2>1, <2>2
<1>8. Cleared'
  <2>1. \A s \in Slots : Held(s)' = Held(s) /\ Held(s) # edit
    BY <1>1, <1>5 DEF Slots, Held
  <2> QED
    BY <1>1, <2>1 DEF EditsInv, Cleared, TypeOK, Passes
<1>9. Emptied'
  <2> SUFFICES ASSUME NEW k \in Files, Moving(k)'
               PROVE  live'[k] \in {Absent} \union exposed'
    BY DEF Emptied
  <2>1. Moving(k) /\ k \in Items
    BY <1>1, ItemFacts DEF Moving
  <2> QED
    BY <1>1, <1>2, <2>1 DEF EditsInv, Emptied
<1>10. StagedItem'
  BY <1>1 DEF EditsInv, StagedItem
<1> QED
  BY <1>4, <1>6, <1>7, <1>8, <1>9, <1>10 DEF EditsInv

LEMMA UserDeletesSpares ==
  ASSUME SizesAssumption, TypeOK, EditsInv, NEW i \in Items, UserDeletes(i)
  PROVE  EditsInv'
<1>1. /\ live' = [live EXCEPT ![i] = Absent] /\ edits' = edits + 1
      /\ kept' = kept \ {live[i]}
      /\ UNCHANGED <<fresh, old, out, plan, proc, exposed>>
  BY DEF UserDeletes, dirVars
<1>2. live'[i] = Absent /\ \A k \in Items : k # i => live'[k] = live[k]
  BY <1>1 DEF TypeOK
<1>3. \A k \in Items :
        \A c \in {Absent, live[k], fresh[k], old[k], out[k], plan.before[k], plan.after[k]} :
          c <= MaxUpdates + edits'
  <2>1. \A c \in Int : c <= MaxUpdates + edits => c <= MaxUpdates + edits'
    BY <1>1, NoEdit
  <2>2. \A k \in Items : {live[k], fresh[k], old[k], out[k], plan.before[k], plan.after[k]} \subseteq Int
    BY DEF TypeOK, Plans, Stored, Whole, Installed, Edits, Absent, Fragment, Partial
  <2>3. Absent <= MaxUpdates + edits /\ Absent \in Int
    BY NoEdit DEF Absent
  <2> QED
    BY <2>1, <2>2, <2>3 DEF EditsInv, Known
<1>4. Known'
  BY <1>1, <1>2, <1>3 DEF Known
<1>5. Spent'
  BY <1>1 DEF EditsInv, Spent
<1>6. OnlyExposedEditsLost'
  BY <1>1, <1>2 DEF EditsInv, OnlyExposedEditsLost, Somewhere
<1>7. Cleared' /\ StagedItem'
  BY <1>1 DEF EditsInv, Cleared, StagedItem, Held
<1>8. Emptied'
  BY <1>1, <1>2, ItemFacts DEF EditsInv, Emptied, Moving
<1> QED
  BY <1>4, <1>5, <1>6, <1>7, <1>8 DEF EditsInv

\* The steps that decide where to go and leave all contents alone.
LEMMA DecidingSpares ==
  ASSUME SizesAssumption, IInv, EditsInv,
         \/ Reserve \/ Recheck \/ Verify \/ WriteMarker
         \/ StartRecovery \/ Recover \/ CheckRestored
         \/ Swept \/ RemoveJournal \/ RemoveDir \/ Crash \/ IoError
  PROVE  EditsInv'
<1> USE DEF IInv
<1>1. UNCHANGED <<live, fresh, old, out, plan, edits, kept, exposed>>
  BY DEF Reserve, Recheck, Verify, WriteMarker, StartRecovery, Recover, CheckRestored, Swept,
     RemoveJournal, RemoveDir, Crash, IoError, dirVars, userVars
<1>2. Fail => Calm
  BY FailFields DEF Calm
<1>3. Bundle \in Items /\ proc \in Passes
  BY ItemsAreIntegers, ItemFacts
<1>4. \A pc \in {"journal", "marker", "clean", "unlink", "rmdir"} : Goto(pc, Bundle) => Calm
  BY <1>3, GotoFields DEF Calm, Steps
<1>5. CASE Reserve \/ Verify \/ CheckRestored \/ Swept \/ RemoveJournal
  BY <1>2, <1>4, <1>5, <1>1, CalmStep DEF Reserve, Verify, CheckRestored, Swept, RemoveJournal
<1>6. CASE Recheck
  <2>1. Changed \intersect Files # {} => Least(Changed \intersect Files) \in Items
    BY LeastOf, ItemFacts
  <2>2. FirstChange => Calm
    BY <1>3, <2>1, GotoFields DEF FirstChange, Calm, Steps
  <2> QED
    BY <1>1, <1>2, <1>6, <2>2, CalmStep DEF Recheck
<1>7. CASE WriteMarker \/ StartRecovery \/ RemoveDir \/ Crash \/ IoError
  <2>1. Calm
    BY <1>2, <1>3, <1>7, IdleType DEF WriteMarker, StartRecovery, RemoveDir, Crash, IoError, Calm,
       Passes
  <2> QED
    BY <1>1, <2>1, CalmStep
<1>8. CASE Recover
  <2>1. proc' = Idle \/ proc'.pc \in {"rmdir", "clean", "undo"}
    BY <1>3, <1>8 DEF Recover, Passes
  <2>2. Calm
    BY <2>1, IdleType DEF Calm
  <2> QED
    BY <1>1, <2>2, CalmStep
<1> QED
  BY <1>5, <1>6, <1>7, <1>8

LEMMA WriteJournalSpares ==
  ASSUME SizesAssumption, TypeOK, AtItem, EditsInv, WriteJournal
  PROVE  EditsInv'
<1>1. UNCHANGED <<live, fresh, old, out, plan, edits, kept, exposed>>
  BY DEF WriteJournal, userVars
<1>2. proc'.pc = "stage" /\ proc'.at = Bundle
  BY GotoFields, ItemsAreIntegers DEF WriteJournal, Steps
<1>3. StagedItem' /\ Cleared' /\ Emptied'
  BY <1>1, <1>2 DEF AtItem, StagedItem, Cleared, Emptied, Moving
<1> QED
  BY <1>1, <1>3, ContentsKept DEF EditsInv

LEMMA AllInit ==
  ASSUME SizesAssumption, Init
  PROVE  AllInv
<1>1. IInv /\ AtItem
  BY InitInv, AtItemInit
<1>2. \A i \in Items : /\ live[i] = Absent /\ fresh[i] = Absent /\ old[i] = Absent
                       /\ out[i] = Absent /\ plan.before[i] = Absent /\ plan.after[i] = Absent
  BY DEF Init, Nothing, NoPlan
<1>3. Known
  BY <1>1, <1>2, NoEdit DEF IInv, Known
<1>4. kept = {} /\ proc.pc = "idle"
  BY IdleType DEF Init
<1>5. EditsInv
  BY <1>3, <1>4 DEF EditsInv, Spent, StagedItem, Cleared, Emptied, Moving, OnlyExposedEditsLost
<1> QED
  BY <1>1, <1>5 DEF AllInv

LEMMA AllKept ==
  ASSUME SizesAssumption, AllInv, [Next]_vars
  PROVE  AllInv'
<1> USE DEF AllInv
<1>1. IInv' /\ AtItem' /\ TypeOK
  BY NextInv, AtItemKept DEF IInv
<1>2. CASE UNCHANGED vars
  <2>1. UNCHANGED <<live, fresh, old, out, plan, edits, kept, exposed, proc>>
    BY <1>2 DEF vars, dirVars, userVars
  <2>2. StagedItem' /\ Cleared' /\ Emptied'
    BY <2>1 DEF EditsInv, StagedItem, Cleared, Emptied, Moving, Held
  <2> QED
    BY <1>1, <2>1, <2>2, ContentsKept DEF EditsInv
<1>3. CASE \E added, changed \in SUBSET Items : Plan(added, changed)
  BY <1>1, <1>3, PlanSpares
<1>4. CASE ApplyStep
  <2>1. CASE Checked("promote", "promoting")
    BY <1>1, <2>1, CheckedSpares
  <2> QED
    BY <1>1, <1>4, <2>1, DecidingSpares, WriteJournalSpares, StageSpares, BackupSpares,
       PromoteSpares DEF ApplyStep
<1>5. CASE RecoverStep
  <2>1. CASE Checked("restore", "restoring")
    BY <1>1, <2>1, CheckedSpares
  <2> QED
    BY <1>1, <1>5, <2>1, DecidingSpares, UndoSpares, RestoreSpares DEF RecoverStep
<1>6. CASE CleanStep
  BY <1>1, <1>6, DecidingSpares, ListArtifactsSpares, RetireJournalSpares, RemoveMarkerSpares,
     RemoveArtifactSpares DEF CleanStep
<1>7. CASE Crash \/ IoError \/ TornWrite
  BY <1>1, <1>7, DecidingSpares, TornWriteSpares
<1>8. CASE \E i \in Items : UserWrites(i) \/ UserDeletes(i)
  BY <1>1, <1>8, UserWritesSpares, UserDeletesSpares
<1> QED
  BY <1>2, <1>3, <1>4, <1>5, <1>6, <1>7, <1>8 DEF Next, Intended, Work

\* An edit the user has made stays live or in the transaction directory, through
\* every crash, error and torn write of apply, recover and clean, except one that
\* arrives between the destination check of rename and the renaming of a file.
THEOREM EditsKept == Spec => []OnlyExposedEditsLost
<1>1. Init => AllInv
  BY AllInit, SizesAssumption
<1>2. AllInv /\ [Next]_vars => AllInv'
  BY AllKept, SizesAssumption
<1>3. AllInv => OnlyExposedEditsLost
  BY DEF AllInv, EditsInv
<1> QED
  BY <1>1, <1>2, <1>3, PTL DEF Spec

=============================================================================
