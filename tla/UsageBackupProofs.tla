------------------------- MODULE UsageBackupProofs -------------------------
(***************************************************************************)
(* Theorems about UsageBackup, for every number of processes, accounts,    *)
(* events and generations and every page size.                             *)
(***************************************************************************)
EXTENDS UsageBackup, FiniteSetTheorems, TLAPS

LEMMA ConstantTypes ==
  /\ MaxEvent \in Nat /\ MaxGen \in Nat
  /\ PageSize \in Nat \ {0} /\ MaxBatches \in Nat \ {0}
  /\ None \notin Procs /\ NoAccount \notin Accounts
  /\ Foreign \in Nat /\ Open \in Nat
BY ConstantsAssumption DEF Foreign, Open

(***************************************************************************)
(* Pages and cursors                                                       *)
(***************************************************************************)

Before(S, e) == {f \in S : f < e}
After(S, e) == {f \in S : f > e}

LEMMA Sides ==
  ASSUME NEW S, S \subseteq Nat, NEW e \in S, NEW g \in S, g < e
  PROVE  /\ Before(S, g) \subseteq Before(S, e)
         /\ g \in Before(S, e) /\ g \notin Before(S, g)
         /\ After(S, e) \subseteq After(S, g)
         /\ e \in After(S, g) /\ e \notin After(S, e)
PROOF
<1>1. \A f \in S : f \in Nat
  OBVIOUS
<1>2. ASSUME NEW f \in Before(S, g) PROVE f \in Before(S, e)
  <2>1. f \in S /\ f < g
    BY DEF Before
  <2> QED BY <1>1, <2>1 DEF Before
<1>3. ASSUME NEW f \in After(S, e) PROVE f \in After(S, g)
  <2>1. f \in S /\ f > e
    BY DEF After
  <2> QED BY <1>1, <2>1 DEF After
<1>4. g \in Before(S, e) /\ e \in After(S, g)
  BY DEF Before, After
<1>5. g \in Nat /\ e \in Nat
  BY <1>1
<1>6. g \notin Before(S, g) /\ e \notin After(S, e)
  BY <1>5 DEF Before, After
<1> QED BY <1>2, <1>3, <1>4, <1>6

\* Of a family of subsets of a finite set there is one that holds no other.
LEMMA HasSmallest ==
  ASSUME NEW S, IsFiniteSet(S)
  PROVE  \A T : T \subseteq SUBSET S /\ T # {}
                => \E x \in T : \A y \in T : y \subseteq x => y = x
PROOF
<1> TAKE T
<1> HAVE T \subseteq SUBSET S /\ T # {}
<1>1. T \subseteq FiniteSubsetsOf(S)
  BY FS_FiniteSubsetsOfFinite
<1>2. PICK x \in T : \A y \in T : ~ (<<y, x>> \in StrictSubsetOrdering(S))
  BY <1>1, WFMin, FS_StrictSubsetOrderingWellFounded
<1>3. \A y \in T : y \subseteq x => y = x
  BY <1>2 DEF StrictSubsetOrdering
<1> QED BY <1>3

LEMMA SmallestIn ==
  ASSUME NEW S, IsFiniteSet(S), NEW T, T \subseteq SUBSET S, T # {}
  PROVE  \E x \in T : \A y \in T : y \subseteq x => y = x
BY HasSmallest

LEMMA HasLast ==
  ASSUME NEW S, S \subseteq Nat, IsFiniteSet(S), S # {}
  PROVE  \E e \in S : \A f \in S : f <= e
PROOF
<1>1. PICK T : T = {After(S, e) : e \in S}
  OBVIOUS
<1>2. T \subseteq SUBSET S /\ T # {}
  BY <1>1 DEF After
<1>3. IsFiniteSet(S)
  OBVIOUS
<1>4. PICK x \in T : \A y \in T : y \subseteq x => y = x
  BY ONLY <1>2, <1>3, SmallestIn
<1>5. PICK e \in S : x = After(S, e)
  BY <1>1
<1>6. ASSUME NEW g \in S, e < g PROVE FALSE
  BY <1>1, <1>4, <1>5, <1>6, Sides
<1>7. ASSUME NEW g \in S PROVE g <= e
  <2>1. g \in Nat /\ e \in Nat
    OBVIOUS
  <2> QED BY <1>6, <2>1
<1> QED BY <1>7

LEMMA HasFirst ==
  ASSUME NEW S, S \subseteq Nat, IsFiniteSet(S), S # {}
  PROVE  \E e \in S : \A f \in S : e <= f
PROOF
<1>1. PICK T : T = {Before(S, e) : e \in S}
  OBVIOUS
<1>2. T \subseteq SUBSET S /\ T # {}
  BY <1>1 DEF Before
<1>3. IsFiniteSet(S)
  OBVIOUS
<1>4. PICK x \in T : \A y \in T : y \subseteq x => y = x
  BY ONLY <1>2, <1>3, SmallestIn
<1>5. PICK e \in S : x = Before(S, e)
  BY <1>1
<1>6. ASSUME NEW g \in S, g < e PROVE FALSE
  BY <1>1, <1>4, <1>5, <1>6, Sides
<1>7. ASSUME NEW g \in S PROVE e <= g
  <2>1. g \in Nat /\ e \in Nat
    OBVIOUS
  <2> QED BY <1>6, <2>1
<1> QED BY <1>7

LEMMA LastIsLast ==
  ASSUME NEW S, S \subseteq Nat, IsFiniteSet(S), S # {}
  PROVE  Last(S) \in S /\ \A f \in S : f <= Last(S)
BY HasLast DEF Last

\* The page is a part of the rows, and all of it when it is not full; a full
\* page has passed every row up to its last one.
LEMMA PageOf ==
  ASSUME NEW S, S \subseteq Nat, IsFiniteSet(S), NEW n \in Nat \ {0}
  PROVE  /\ FirstOf(S, n) \subseteq S
         /\ IsFiniteSet(FirstOf(S, n))
         /\ S # {} => FirstOf(S, n) # {}
         /\ Cardinality(FirstOf(S, n)) < n => FirstOf(S, n) = S
         /\ \A e \in S, l \in FirstOf(S, n) : e <= l => e \in FirstOf(S, n)
PROOF
<1> DEFINE P == FirstOf(S, n)
<1>0. \A f \in S : f \in Nat
  OBVIOUS
<1>1. \A e : e \in P <=> e \in S /\ Cardinality(Before(S, e)) < n
  BY DEF FirstOf, Before
<1>2. \A e : IsFiniteSet(Before(S, e)) /\ Cardinality(Before(S, e)) \in Nat
  BY FS_Subset, FS_CardinalityType DEF Before
<1>3. P \subseteq S /\ IsFiniteSet(P) /\ Cardinality(P) \in Nat
  BY <1>1, FS_Subset, FS_CardinalityType
<1> HIDE DEF P
<1>4. ASSUME NEW e \in S, NEW l \in P, e <= l PROVE e \in P
  <2>1. CASE e = l
    BY <2>1
  <2>2. CASE e < l
    <3>1. Cardinality(Before(S, e)) <= Cardinality(Before(S, l))
      BY <1>2, <1>3, <2>2, Sides, FS_Subset
    <3> QED BY <1>1, <1>2, <3>1
  <2> QED BY <1>0, <1>3, <1>4, <2>1, <2>2
\* The least element outside the page has at least n below it, all inside.
<1>5. ASSUME P # S PROVE ~ (Cardinality(P) < n)
  <2>1. S \ P \in SUBSET Nat /\ IsFiniteSet(S \ P) /\ S \ P # {}
    BY <1>3, <1>5, FS_Difference
  <2>2. PICK e \in S \ P : \A f \in S \ P : e <= f
    BY <2>1, HasFirst
  <2>3. ASSUME NEW f \in Before(S, e), f \notin P PROVE FALSE
    <3>1. f \in S \ P /\ f < e
      BY <2>3 DEF Before
    <3>2. f \in Nat /\ e \in Nat /\ e <= f
      BY <1>0, <2>2, <3>1
    <3> QED BY <3>1, <3>2
  <2>4. Cardinality(Before(S, e)) <= Cardinality(P)
    BY <2>3, <1>3, FS_Subset
  <2>5. ~ (Cardinality(Before(S, e)) < n)
    BY <1>1, <2>2
  <2> QED BY <1>2, <1>3, <2>4, <2>5
<1>6. S # {} => P # {}
  <2>1. Cardinality({}) = 0
    BY FS_EmptySet
  <2> QED BY <1>5, <2>1
<1> QED BY <1>3, <1>4, <1>5, <1>6 DEF P

(***************************************************************************)
(* Types, and what a command carries at each of its steps                  *)
(***************************************************************************)

BoundPCs == {"enable_pause", "enable_open", "enable_save", "enable_undo", "disable_pause",
             "history", "restore_fetch", "delete_call", "delete_pause", "drain_lease",
             "drain_status", "drain_capture", "drain_send", "drain_wait", "drain_ack"}
SignedPCs == {"enable_status", "enable_call", "restore_fetch", "delete_call",
              "drain_status", "drain_capture", "drain_send", "drain_wait", "drain_ack"}
CheckedPCs == {"drain_capture", "drain_send", "drain_wait", "drain_ack"}
OpenPCs == {"drain_send", "drain_wait", "drain_ack"}

\* The binding and the account of a command that needs them, its credentials
\* once the status answer was compared, and its budget.
Carries(s) ==
  /\ s.pc \in BoundPCs => s.b \in Bindings
  /\ s.pc \in SignedPCs => s.token \in Accounts
  /\ s.pc \in CheckedPCs => s.token = s.b.account
  /\ s.pc \in OpenPCs => s.left > 0

Types ==
  /\ TypeOK
  /\ \A p \in Procs : Carries(procs[p])
  /\ settings.enabled => settings.binding \in Bindings

LEMMA NoBindingApart == NoBinding \notin Bindings
BY ConstantTypes DEF NoBinding, Bindings

LEMMA IdleTypes == Idle \in Processes /\ Carries(Idle)
BY ConstantTypes DEF Idle, Processes, Carries, PCs, EnablePCs, DrainPCs, NoBinding,
   BoundPCs, SignedPCs, CheckedPCs, OpenPCs

LEMMA StepTypes ==
  ASSUME Types, NEW p \in Procs, NEW s \in Processes, Carries(s), Step(p, s)
  PROVE  /\ procs' \in [Procs -> Processes]
         /\ \A q \in Procs : Carries(procs'[q])
BY DEF Types, TypeOK, Step

LEMMA GotoTypes ==
  ASSUME Types, NEW p \in Procs, NEW pc \in PCs, Goto(p, pc),
         pc \in BoundPCs => procs[p].b \in Bindings,
         pc \in SignedPCs => procs[p].token \in Accounts,
         pc \in CheckedPCs => procs[p].token = procs[p].b.account,
         pc \in OpenPCs => procs[p].left > 0
  PROVE  /\ procs' \in [Procs -> Processes]
         /\ \A q \in Procs : Carries(procs'[q])
<1>1. procs' \in [Procs -> Processes]
  BY DEF Types, TypeOK, Goto, Processes
<1>2. \A q \in Procs \ {p} : procs'[q] = procs[q]
  BY DEF Goto, Types, TypeOK
<1>3. /\ procs'[p].pc = pc /\ procs'[p].b = procs[p].b
      /\ procs'[p].token = procs[p].token /\ procs'[p].left = procs[p].left
  BY DEF Goto, Types, TypeOK, Processes
<1> QED BY <1>1, <1>2, <1>3 DEF Carries, Types

LEMMA ExitTypes ==
  ASSUME Types, NEW p \in Procs, Exit(p)
  PROVE  /\ procs' \in [Procs -> Processes]
         /\ \A q \in Procs : Carries(procs'[q])
         /\ lease' \in Procs \union {None}
BY IdleTypes, StepTypes DEF Exit, Release, Types, TypeOK

LEMMA InitTypes == Init => Types
<1> SUFFICES ASSUME Init PROVE Types
  OBVIOUS
<1> USE ConstantTypes
<1>1. \A p \in Procs : procs[p] = Idle
  BY DEF Init
<1>2. procs \in [Procs -> Processes]
  BY IdleTypes DEF Init
<1>3. TypeOK
  <2>1. high \in 0 .. MaxEvent /\ raw \subseteq 1 .. high /\ copy \in [Events -> 0 .. Foreign]
    BY DEF Init
  <2>2. settings \in [enabled : BOOLEAN, binding : Bindings \union {NoBinding}]
    BY DEF Init
  <2>3. server \in [Accounts -> [gen : 0 .. MaxGen, enabled : BOOLEAN, records : SUBSET Ids]]
    BY DEF Init
  <2> QED BY <1>2, <2>1, <2>2, <2>3 DEF Init, TypeOK
<1>4. ~settings.enabled
  BY DEF Init
<1> QED BY <1>1, <1>3, <1>4, IdleTypes DEF Types

\* A step of the commands that changes neither the database nor the settings,
\* the service, the wire or the account.
Elsewhere == <<localVars, queueVars, settings, account, wire, server, historyVars>>

LEMMA CommandTypes ==
  ASSUME Types, procs' \in [Procs -> Processes], \A q \in Procs : Carries(procs'[q]),
         lease' \in Procs \union {None}, UNCHANGED Elsewhere
  PROVE  Types'
BY DEF Types, TypeOK, Elsewhere, localVars, queueVars, historyVars

LEMMA StartTypes ==
  ASSUME Types, NEW p \in Procs, NEW s \in Processes, Carries(s), Start(p, s),
         UNCHANGED Elsewhere
  PROVE  Types'
BY StepTypes, CommandTypes DEF Start

LEMMA QuitTypes ==
  ASSUME Types, NEW p \in Procs, Exit(p), UNCHANGED Elsewhere
  PROVE  Types'
BY ExitTypes, CommandTypes

\* The places of a command, for the provers.
LEMMA AllPCs ==
  \A pc \in BoundPCs \union SignedPCs \union CheckedPCs \union OpenPCs
            \union {"disable_save", "delete_save", "restore_apply"} : pc \in PCs
BY DEF BoundPCs, SignedPCs, CheckedPCs, OpenPCs, PCs, EnablePCs, DrainPCs

LEMMA ServerTypes ==
  ASSUME Types, NEW a \in Accounts, NEW b, ServerEnables(a, b) \/ ServerDeletes(a, b)
  PROVE  server' \in [Accounts -> [gen : 0 .. MaxGen, enabled : BOOLEAN, records : SUBSET Ids]]
<1> USE ConstantTypes DEF Types, TypeOK
<1>1. CASE ServerEnables(a, b)
  <2>1. 1 \in 0 .. MaxGen
    BY <1>1 DEF ServerEnables
  <2>2. CASE server' = [server EXCEPT ![a].gen = 1, ![a].enabled = TRUE]
    <3>1. \A c \in Accounts : server[c] \in [gen : 0 .. MaxGen, enabled : BOOLEAN, records : SUBSET Ids]
      OBVIOUS
    <3>2. [[server[a] EXCEPT !.gen = 1] EXCEPT !.enabled = TRUE]
            \in [gen : 0 .. MaxGen, enabled : BOOLEAN, records : SUBSET Ids]
      BY <2>1, <3>1, Zenon
    <3> QED BY <2>2, <3>1, <3>2, Zenon
  <2>3. CASE server' = [server EXCEPT ![a].enabled = TRUE]
    BY <2>3
  <2> QED BY <1>1, <2>2, <2>3 DEF ServerEnables
<1>2. CASE ServerDeletes(a, b)
  <2>1. server[a].gen + 1 \in 0 .. MaxGen
    BY <1>2 DEF ServerDeletes
  <2> QED BY <1>2, <2>1 DEF ServerDeletes
<1> QED BY <1>1, <1>2

LEMMA CurrentBinding ==
  ASSUME Types, NEW a \in Accounts, server[a].gen # 0
  PROVE  Current(a) \in Bindings
BY ConstantTypes DEF Types, TypeOK, Current, Bindings

LEMMA ClosedTypes ==
  ASSUME Types, NEW b
  PROVE  Closed(b) \subseteq Windows
<1>1. \A w \in OpenOf(b) : [w EXCEPT !.end = high] \in Windows
  BY ConstantTypes DEF Types, TypeOK, OpenOf, Windows, Open
<1> QED BY <1>1 DEF Closed, Types, TypeOK

LEMMA EnableStartTypes ==
  ASSUME Types, NEW p \in Procs, EnableStart(p) PROVE Types'
<1> DEFINE s == [Idle EXCEPT !.pc = "enable_status", !.token = account]
<1>1. s \in Processes
  BY IdleTypes, AllPCs DEF Idle, Processes, Types, TypeOK, SignedPCs
<1>2. Carries(s)
  BY DEF Idle, Carries, BoundPCs, CheckedPCs, OpenPCs, Types, TypeOK
<1> QED BY <1>1, <1>2, StartTypes DEF EnableStart, Elsewhere

LEMMA EnableStatusTypes ==
  ASSUME Types, NEW p \in Procs, EnableStatus(p) PROVE Types'
<1> DEFINE a == procs[p].token
           b == IF server[a].gen = 0 THEN NoBinding ELSE Current(a)
           s == [procs[p] EXCEPT !.pc = "enable_call", !.b = b]
<1>1. procs[p] \in Processes /\ a \in Accounts
  BY DEF EnableStatus, Types, TypeOK, Carries, SignedPCs
<1>2. b \in Bindings \union {NoBinding}
  BY <1>1, CurrentBinding
<1>3. s \in Processes
  BY <1>1, <1>2, AllPCs DEF Processes, SignedPCs
<1>4. Carries(s)
  BY <1>1 DEF Processes, Carries, BoundPCs, CheckedPCs, OpenPCs
<1> QED BY <1>3, <1>4, StepTypes, CommandTypes DEF EnableStatus, Elsewhere, Types, TypeOK

LEMMA EnableCallTypes ==
  ASSUME Types, NEW p \in Procs, EnableCall(p) PROVE Types'
<1> DEFINE a == procs[p].token
           b == [account |-> a, gen |-> IF procs[p].b = NoBinding THEN 1 ELSE server[a].gen]
           keep == settings.enabled /\ settings.binding = b
           leave == settings.enabled /\ ~keep
           s == [procs[p] EXCEPT !.b = b, !.keep = keep, !.token = NoAccount,
                  !.pc = IF leave THEN "enable_pause" ELSE "enable_open",
                  !.prior = IF leave THEN settings.binding ELSE NoBinding]
<1>1. /\ procs[p] \in Processes /\ a \in Accounts
      /\ ServerEnables(a, procs[p].b) /\ Step(p, s)
      /\ UNCHANGED <<localVars, queueVars, settings, lease, account, wire, historyVars>>
  BY DEF EnableCall, Types, TypeOK, Carries, SignedPCs
<1>2. b \in Bindings
  BY <1>1, ConstantTypes DEF ServerEnables, Current, Bindings, Types, TypeOK
<1>3. settings.binding \in Bindings \union {NoBinding}
  BY DEF Types, TypeOK
<1>4. s \in Processes
  <2> HIDE DEF b
  <2> QED BY <1>1, <1>2, <1>3, AllPCs DEF Processes, BoundPCs
<1>5. Carries(s)
  <2> HIDE DEF b
  <2> QED BY <1>1, <1>2 DEF Processes, Carries, SignedPCs, CheckedPCs, OpenPCs
<1>6. /\ procs' \in [Procs -> Processes]
      /\ \A q \in Procs : Carries(procs'[q])
  BY <1>1, <1>4, <1>5, StepTypes
<1>7. server' \in [Accounts -> [gen : 0 .. MaxGen, enabled : BOOLEAN, records : SUBSET Ids]]
  BY <1>1, ServerTypes
<1> QED BY <1>1, <1>6, <1>7 DEF Types, TypeOK, localVars, queueVars, historyVars

LEMMA EnableCallFailsTypes ==
  ASSUME Types, NEW p \in Procs, EnableCallFails(p) PROVE Types'
<1>1. procs[p].token \in Accounts
  BY DEF EnableCallFails, Types, Carries, SignedPCs
<1>2. server' \in [Accounts -> [gen : 0 .. MaxGen, enabled : BOOLEAN, records : SUBSET Ids]]
  BY <1>1, ServerTypes DEF EnableCallFails, Types, TypeOK
<1> QED BY <1>2, ExitTypes DEF EnableCallFails, Types, TypeOK, localVars, queueVars, historyVars

LEMMA EnablePauseTypes ==
  ASSUME Types, NEW p \in Procs, EnablePause(p) PROVE Types'
<1> DEFINE s == [procs[p] EXCEPT !.pc = "enable_open", !.prior = NoBinding]
<1>1. procs[p] \in Processes /\ procs[p].b \in Bindings
  BY DEF EnablePause, Types, TypeOK, Carries, BoundPCs
<1>2. s \in Processes
  BY <1>1, AllPCs DEF Processes, BoundPCs
<1>3. Carries(s)
  BY <1>1 DEF Processes, Carries, SignedPCs, CheckedPCs, OpenPCs
<1>4. /\ procs' \in [Procs -> Processes]
      /\ \A q \in Procs : Carries(procs'[q])
  BY <1>2, <1>3, StepTypes DEF EnablePause
<1> QED BY <1>4, ClosedTypes DEF EnablePause, Types, TypeOK, localVars, historyVars

LEMMA EnableOpenTypes ==
  ASSUME Types, NEW p \in Procs, EnableOpen(p) PROVE Types'
<1> DEFINE s == [procs[p] EXCEPT !.pc = "enable_save", !.keep = FALSE]
           w == [b |-> procs[p].b, start |-> high, end |-> Open, scan |-> high]
<1>1. procs[p] \in Processes /\ procs[p].b \in Bindings
  BY DEF EnableOpen, Types, TypeOK, Carries, BoundPCs
<1>2. s \in Processes
  BY <1>1, AllPCs DEF Processes, BoundPCs
<1>3. Carries(s)
  BY <1>1 DEF Processes, Carries, SignedPCs, CheckedPCs, OpenPCs
<1>4. /\ procs' \in [Procs -> Processes]
      /\ \A q \in Procs : Carries(procs'[q])
  BY <1>2, <1>3, StepTypes DEF EnableOpen
<1>5. w \in Windows
  BY <1>1, ConstantTypes DEF Windows, Open, Types, TypeOK
<1>6. windows' \in {windows, windows \union {w}}
  BY DEF EnableOpen, OpenWindow
<1> QED BY <1>4, <1>5, <1>6 DEF EnableOpen, Types, TypeOK, localVars, historyVars

LEMMA EnableSaveTypes ==
  ASSUME Types, NEW p \in Procs, EnableSave(p) PROVE Types'
<1>1. procs[p].b \in Bindings
  BY DEF EnableSave, Types, Carries, BoundPCs
<1> QED BY <1>1, ExitTypes DEF EnableSave, Types, TypeOK, localVars, queueVars, historyVars

LEMMA EnableSaveFailsTypes ==
  ASSUME Types, NEW p \in Procs, EnableSaveFails(p) PROVE Types'
<1>1. procs[p].b \in Bindings
  BY DEF EnableSaveFails, Types, Carries, BoundPCs
<1>2. /\ procs' \in [Procs -> Processes]
      /\ \A q \in Procs : Carries(procs'[q])
  BY <1>1, GotoTypes, AllPCs
     DEF EnableSaveFails, BoundPCs, SignedPCs, CheckedPCs, OpenPCs
<1> QED BY <1>2, CommandTypes DEF EnableSaveFails, Elsewhere, Types, TypeOK

LEMMA EnableUndoTypes ==
  ASSUME Types, NEW p \in Procs, EnableUndo(p) PROVE Types'
BY ExitTypes, ClosedTypes DEF EnableUndo, Types, TypeOK, localVars, historyVars

LEMMA EnablingTypes ==
  ASSUME Types, NEW p \in Procs, Enabling(p) PROVE Types'
<1>1. CASE EnableRefused(p)
  BY <1>1, QuitTypes DEF EnableRefused, Elsewhere
<1> QED BY <1>1, EnableStartTypes, EnableStatusTypes, EnableCallTypes, EnableCallFailsTypes,
   EnablePauseTypes, EnableOpenTypes, EnableSaveTypes, EnableSaveFailsTypes,
   EnableUndoTypes DEF Enabling

LEMMA DisablingTypes ==
  ASSUME Types, NEW p \in Procs, Disabling(p) PROVE Types'
<1>1. CASE DisableStart(p)
  <2> DEFINE s == [Idle EXCEPT !.b = settings.binding,
             !.pc = IF settings.binding = NoBinding THEN "disable_save" ELSE "disable_pause"]
  <2>1. settings.binding \in Bindings \union {NoBinding}
    BY DEF Types, TypeOK
  <2>2. s \in Processes
    BY <2>1, IdleTypes, AllPCs DEF Idle, Processes, BoundPCs
  <2>3. Carries(s)
    BY <2>1 DEF Idle, Carries, BoundPCs, SignedPCs, CheckedPCs, OpenPCs
  <2> QED BY <1>1, <2>2, <2>3, StartTypes DEF DisableStart, Elsewhere
<1>2. CASE DisablePause(p)
  <2>1. /\ procs' \in [Procs -> Processes]
        /\ \A q \in Procs : Carries(procs'[q])
    BY <1>2, GotoTypes, AllPCs DEF DisablePause, BoundPCs, SignedPCs, CheckedPCs, OpenPCs
  <2> QED BY <1>2, <2>1, ClosedTypes DEF DisablePause, Types, TypeOK, localVars, historyVars
<1>3. CASE DisableSave(p)
  <2>1. procs[p].b \in Bindings \union {NoBinding}
    BY DEF Types, TypeOK, Processes
  <2>2. /\ settings' \in [enabled : BOOLEAN, binding : Bindings \union {NoBinding}]
        /\ settings'.enabled => settings'.binding \in Bindings
    <3>1. CASE settings' = [enabled |-> FALSE, binding |-> procs[p].b]
      BY <2>1, <3>1
    <3>2. CASE UNCHANGED settings
      BY <3>2 DEF Types, TypeOK
    <3> QED BY <1>3, <3>1, <3>2 DEF DisableSave
  <2> QED BY <1>3, <2>2, ExitTypes DEF DisableSave, Types, TypeOK, localVars, queueVars,
          historyVars
<1> QED BY <1>1, <1>2, <1>3 DEF Disabling

\* Rows of a page, and the identities of events.
LEMMA IdTypes ==
  ASSUME Types, NEW e \in raw
  PROVE  e \in 1 .. high /\ e \in Events /\ e \in Nat /\ Id(e) \in Ids
BY ConstantTypes DEF Types, TypeOK, Id, Ids, Events, Foreign

LEMMA RawFinite ==
  ASSUME Types
  PROVE  raw \subseteq Nat /\ IsFiniteSet(raw)
<1>1. IsFiniteSet(1 .. high)
  BY FS_Interval DEF Types, TypeOK
<1> QED BY <1>1, FS_Subset, IdTypes DEF Types, TypeOK

LEMMA SelectTypes ==
  ASSUME Types, NEW b \in Bindings, NEW page, page \subseteq raw
  PROVE  Select(b, page) \subseteq Rows
BY IdTypes DEF Select, Rows

LEMMA SelectingTypes ==
  ASSUME Types, NEW p \in Procs, Selecting(p) PROVE Types'
<1>1. CASE HistoryStart(p)
  <2>1. PICK through \in 1 .. high :
          Start(p, [Idle EXCEPT !.pc = "history", !.b = settings.binding, !.through = through])
    BY <1>1 DEF HistoryStart
  <2> DEFINE s == [Idle EXCEPT !.pc = "history", !.b = settings.binding, !.through = through]
  <2>2. settings.binding \in Bindings
    BY <1>1 DEF HistoryStart, Types
  <2>3. through \in 0 .. MaxEvent
    BY ConstantTypes DEF Types, TypeOK
  <2>4. s \in Processes
    BY <2>2, <2>3, IdleTypes, AllPCs DEF Idle, Processes, BoundPCs
  <2>5. Carries(s)
    BY <2>2 DEF Idle, Carries, SignedPCs, CheckedPCs, OpenPCs
  <2> QED BY <1>1, <2>1, <2>4, <2>5, StartTypes DEF HistoryStart, Elsewhere
<1>2. CASE HistoryPage(p)
  <2> DEFINE S == {e \in raw : e > procs[p].after /\ e <= procs[p].through}
             page == FirstOf(S, PageSize)
             rows == Select(procs[p].b, page)
             s == [procs[p] EXCEPT !.after = Last(page)]
  <2>1. /\ procs[p].pc = "history" /\ page # {} /\ Step(p, s)
        /\ queued' = queued \union rows /\ chosen' = chosen \union rows
        /\ UNCHANGED <<localVars, windows, acked, settings, lease, account, wire, server,
                       consented, accepted, interrupted>>
    BY <1>2 DEF HistoryPage
  <2>2. procs[p].b \in Bindings
    BY <2>1 DEF Types, Carries, BoundPCs
  <2>3. S \subseteq raw /\ S \subseteq Nat /\ IsFiniteSet(S)
    BY RawFinite, FS_Subset
  <2>4. page \subseteq S /\ IsFiniteSet(page)
    <3> HIDE DEF S
    <3> QED BY <2>3, PageOf, ConstantTypes
  <2>5. Last(page) \in page
    <3> HIDE DEF page
    <3>1. page \subseteq Nat
      BY <2>3, <2>4
    <3> QED BY <2>1, <2>4, <3>1, LastIsLast
  <2> HIDE DEF page
  <2>6. rows \subseteq Rows
    BY <2>2, <2>3, <2>4, SelectTypes
  <2>7. Last(page) \in 0 .. MaxEvent
    BY <2>3, <2>4, <2>5, IdTypes, ConstantTypes DEF Events
  <2>8. s \in Processes
    BY <2>7 DEF Processes, Types, TypeOK
  <2>9. Carries(s)
    BY <2>1, <2>2 DEF Types, TypeOK, Processes, Carries, SignedPCs, CheckedPCs, OpenPCs
  <2>10. /\ procs' \in [Procs -> Processes]
         /\ \A q \in Procs : Carries(procs'[q])
    BY <2>1, <2>8, <2>9, StepTypes
  <2> HIDE DEF rows
  <2> QED BY <2>1, <2>6, <2>10 DEF Types, TypeOK, localVars
<1>3. CASE HistoryEnd(p)
  BY <1>3, QuitTypes DEF HistoryEnd, Elsewhere
<1> QED BY <1>1, <1>2, <1>3 DEF Selecting

LEMMA CapturePageOf ==
  ASSUME Types, NEW b
  PROVE  /\ CapturePage(b) \subseteq Unscanned(b) /\ Unscanned(b) \subseteq raw
         /\ IsFiniteSet(CapturePage(b))
         /\ Cardinality(CapturePage(b)) < PageSize => CapturePage(b) = Unscanned(b)
         /\ ~(Cardinality(CapturePage(b)) < PageSize) => CapturePage(b) # {}
         /\ \A e \in Unscanned(b), l \in CapturePage(b) : e <= l => e \in CapturePage(b)
<1>1. Unscanned(b) \subseteq raw /\ Unscanned(b) \subseteq Nat /\ IsFiniteSet(Unscanned(b))
  BY RawFinite, FS_Subset DEF Unscanned
<1>2. Cardinality({}) = 0
  BY FS_EmptySet
<1>3. ASSUME NEW S, S = Unscanned(b), S \subseteq Nat, IsFiniteSet(S)
      PROVE  /\ FirstOf(S, PageSize) \subseteq S
             /\ IsFiniteSet(FirstOf(S, PageSize))
             /\ Cardinality(FirstOf(S, PageSize)) < PageSize => FirstOf(S, PageSize) = S
             /\ \A e \in S, l \in FirstOf(S, PageSize) : e <= l => e \in FirstOf(S, PageSize)
  BY <1>3, PageOf, ConstantTypes
<1>4. /\ CapturePage(b) \subseteq Unscanned(b)
      /\ IsFiniteSet(CapturePage(b))
      /\ Cardinality(CapturePage(b)) < PageSize => CapturePage(b) = Unscanned(b)
      /\ \A e \in Unscanned(b), l \in CapturePage(b) : e <= l => e \in CapturePage(b)
  BY <1>1, <1>3 DEF CapturePage
<1>5. ~(Cardinality(CapturePage(b)) < PageSize) => CapturePage(b) # {}
  BY <1>2, ConstantTypes
<1> QED BY <1>1, <1>4, <1>5

LEMMA ScannedTypes ==
  ASSUME Types, NEW b
  PROVE  Scanned(b) \in 0 .. high
<1>1. CASE Cardinality(CapturePage(b)) < PageSize
  BY <1>1 DEF Scanned, Types, TypeOK
<1>2. CASE ~(Cardinality(CapturePage(b)) < PageSize)
  <2>1. CapturePage(b) \subseteq Nat /\ IsFiniteSet(CapturePage(b)) /\ CapturePage(b) # {}
    BY <1>2, CapturePageOf, RawFinite
  <2>2. Last(CapturePage(b)) \in CapturePage(b)
    BY <2>1, LastIsLast
  <2>3. Last(CapturePage(b)) \in 1 .. high
    BY <2>2, CapturePageOf, IdTypes
  <2> QED BY <1>2, <2>3 DEF Scanned
<1> QED BY <1>1, <1>2

LEMMA AdvanceTypes ==
  ASSUME Types, NEW b, NEW w \in Windows
  PROVE  Advance(w, b) \in Windows
<1>1. Scanned(b) \in 0 .. MaxEvent
  BY ScannedTypes, ConstantTypes DEF Types, TypeOK
<1>2. w.end < Scanned(b) => w.end \in 0 .. MaxEvent
  BY <1>1, ConstantTypes DEF Windows, Open
<1> QED BY <1>1, <1>2 DEF Advance, Windows

LEMMA BatchTypes ==
  ASSUME Types, NEW b
  PROVE  Batch(b) \subseteq Ids
<1> DEFINE S == {e \in raw : [b |-> b, id |-> Id(e)] \in queued \ acked}
<1>1. FirstOf(S, PageSize) \subseteq raw
  BY DEF FirstOf
<1> QED BY <1>1, IdTypes DEF Batch

LEMMA DrainLeaseTypes ==
  ASSUME Types, NEW p \in Procs, DrainLease(p) PROVE Types'
<1>1. procs[p].pc = "drain_lease" /\ UNCHANGED Elsewhere
  BY DEF DrainLease, Elsewhere
<1>2. CASE lease = None
  <2> DEFINE s == [procs[p] EXCEPT !.pc = "drain_status", !.token = account,
                                   !.left = MaxBatches]
  <2>1. procs[p] \in Processes /\ procs[p].b \in Bindings /\ account \in Accounts
    BY <1>1 DEF Types, TypeOK, Carries, BoundPCs
  <2>2. s \in Processes
    <3>1. MaxBatches \in 0 .. MaxBatches
      BY ConstantTypes
    <3> QED BY <2>1, <3>1, AllPCs DEF Processes, BoundPCs
  <2>3. Carries(s)
    BY <2>1 DEF Processes, Carries, CheckedPCs, OpenPCs
  <2>4. Step(p, s) /\ lease' = p
    BY <1>2 DEF DrainLease
  <2> QED BY <1>1, <2>2, <2>3, <2>4, StepTypes, CommandTypes
<1>3. CASE lease # None
  <2>1. Step(p, Idle) /\ UNCHANGED lease
    BY <1>3 DEF DrainLease
  <2> QED BY <1>1, <2>1, IdleTypes, StepTypes, CommandTypes DEF Types, TypeOK
<1> QED BY <1>2, <1>3

LEMMA DrainStatusTypes ==
  ASSUME Types, NEW p \in Procs, DrainStatus(p) PROVE Types'
<1>1. procs[p].pc = "drain_status" /\ UNCHANGED Elsewhere
  BY DEF DrainStatus, Elsewhere
<1>2. CASE StatusMatches(p)
  <2>1. procs[p].b \in Bindings /\ procs[p].token \in Accounts
    BY <1>1 DEF Types, Carries, BoundPCs, SignedPCs
  <2>2. procs[p].token = procs[p].b.account
    BY <1>2 DEF StatusMatches, Current
  <2>3. Goto(p, "drain_capture") /\ UNCHANGED lease
    BY <1>2 DEF DrainStatus
  <2>4. /\ procs' \in [Procs -> Processes]
        /\ \A q \in Procs : Carries(procs'[q])
    BY <2>1, <2>2, <2>3, GotoTypes, AllPCs DEF CheckedPCs, OpenPCs
  <2> QED BY <1>1, <2>3, <2>4, CommandTypes DEF Types, TypeOK
<1>3. CASE ~StatusMatches(p)
  BY <1>1, <1>3, QuitTypes DEF DrainStatus
<1> QED BY <1>2, <1>3

LEMMA DrainCaptureTypes ==
  ASSUME Types, NEW p \in Procs, DrainCapture(p) PROVE Types'
<1>1. /\ procs[p].pc = "drain_capture" /\ procs[p].left > 0
      /\ Goto(p, "drain_send")
      /\ queued' = queued \union Select(procs[p].b, CapturePage(procs[p].b))
      /\ windows' = {Advance(w, procs[p].b) : w \in windows}
  BY DEF DrainCapture
<1>2. /\ procs[p].b \in Bindings /\ procs[p].token \in Accounts
      /\ procs[p].token = procs[p].b.account
  BY <1>1 DEF Types, Carries, BoundPCs, SignedPCs, CheckedPCs
<1>3. /\ procs' \in [Procs -> Processes]
      /\ \A q \in Procs : Carries(procs'[q])
  BY <1>1, <1>2, GotoTypes, AllPCs DEF CheckedPCs
<1>4. windows' \subseteq Windows
  BY <1>1, AdvanceTypes DEF Types, TypeOK
<1>5. Select(procs[p].b, CapturePage(procs[p].b)) \subseteq Rows
  BY <1>2, SelectTypes, CapturePageOf
<1> QED BY <1>1, <1>3, <1>4, <1>5 DEF DrainCapture, Types, TypeOK, localVars, historyVars

LEMMA DrainSendTypes ==
  ASSUME Types, NEW p \in Procs, DrainSend(p) PROVE Types'
<1> DEFINE ids == Batch(procs[p].b)
           s == [procs[p] EXCEPT !.pc = "drain_wait", !.ids = ids]
<1>1. /\ procs[p].pc = "drain_send"
      /\ UNCHANGED <<localVars, queueVars, settings, account, server, historyVars>>
  BY DEF DrainSend
<1>2. /\ procs[p] \in Processes /\ procs[p].b \in Bindings /\ procs[p].token \in Accounts
      /\ procs[p].token = procs[p].b.account /\ procs[p].left > 0
  BY <1>1 DEF Types, TypeOK, Carries, BoundPCs, SignedPCs, CheckedPCs, OpenPCs
<1>3. ids \subseteq Ids
  BY BatchTypes
<1>4. CASE Exit(p) /\ UNCHANGED wire
  BY <1>1, <1>4, QuitTypes DEF Elsewhere
<1>5. CASE /\ Step(p, s)
           /\ wire' = wire \union {[b |-> procs[p].b, token |-> procs[p].token, ids |-> ids]}
           /\ UNCHANGED lease
  <2> HIDE DEF ids
  <2>1. s \in Processes
    BY <1>2, <1>3, AllPCs DEF Processes, BoundPCs
  <2>2. Carries(s)
    BY <1>2 DEF Processes, Carries
  <2>3. /\ procs' \in [Procs -> Processes]
        /\ \A q \in Procs : Carries(procs'[q])
    BY <1>5, <2>1, <2>2, StepTypes
  <2>4. wire' \subseteq [b : Bindings, token : Accounts, ids : SUBSET Ids]
    BY <1>2, <1>3, <1>5 DEF Types, TypeOK
  <2> QED BY <1>1, <1>5, <2>3, <2>4 DEF Types, TypeOK, localVars, queueVars, historyVars
<1> QED BY <1>4, <1>5 DEF DrainSend

LEMMA KeepFields ==
  ASSUME NEW s \in Processes
  PROVE  /\ [s EXCEPT !.keep = TRUE] \in Processes
         /\ Carries(s) => Carries([s EXCEPT !.keep = TRUE])
         /\ [s EXCEPT !.keep = TRUE].late = s.late
<1>1. [s EXCEPT !.keep = TRUE] \in Processes
  BY DEF Processes
<1> DEFINE t == [s EXCEPT !.keep = TRUE]
<1>2. t.pc = s.pc /\ t.b = s.b /\ t.token = s.token /\ t.left = s.left /\ t.late = s.late
  BY DEF Processes
<1> HIDE DEF t
<1>3. Carries(s) => Carries(t)
  BY <1>2 DEF Carries
<1> QED BY <1>1, <1>2, <1>3 DEF t

LEMMA LateFields ==
  ASSUME NEW s \in Processes
  PROVE  /\ [s EXCEPT !.late = TRUE] \in Processes
         /\ Carries(s) => Carries([s EXCEPT !.late = TRUE])
<1>1. [s EXCEPT !.late = TRUE] \in Processes
  BY DEF Processes
<1> DEFINE t == [s EXCEPT !.late = TRUE]
<1>2. t.pc = s.pc /\ t.b = s.b /\ t.token = s.token /\ t.left = s.left
  BY DEF Processes
<1> HIDE DEF t
<1>3. Carries(s) => Carries(t)
  BY <1>2 DEF Carries
<1> QED BY <1>1, <1>3 DEF t

LEMMA DrainRefreshTypes ==
  ASSUME Types, NEW p \in Procs, DrainRefresh(p) PROVE Types'
<1>1. UNCHANGED <<localVars, queueVars, settings, account, server, historyVars>>
  BY DEF DrainRefresh
<1>2. CASE Step(p, [procs[p] EXCEPT !.keep = TRUE]) /\ UNCHANGED <<wire, lease>>
  <2> DEFINE s == [procs[p] EXCEPT !.keep = TRUE]
  <2>1. s \in Processes /\ Carries(s)
    BY KeepFields DEF Types, TypeOK
  <2> QED BY <1>1, <1>2, <2>1, StepTypes, CommandTypes DEF Elsewhere, Types, TypeOK
<1>3. CASE Exit(p) /\ wire' = wire \ {Request(p)}
  BY <1>1, <1>3, ExitTypes DEF Types, TypeOK, localVars, queueVars, historyVars
<1> QED BY <1>2, <1>3 DEF DrainRefresh

LEMMA DrainAckTypes ==
  ASSUME Types, NEW p \in Procs, DrainAck(p) PROVE Types'
<1> DEFINE s == [procs[p] EXCEPT !.pc = "drain_capture", !.ids = {}, !.left = @ - 1]
<1>1. procs[p].pc = "drain_ack" /\ Step(p, s)
  BY DEF DrainAck
<1>2. /\ procs[p] \in Processes /\ procs[p].b \in Bindings /\ procs[p].token \in Accounts
      /\ procs[p].token = procs[p].b.account /\ procs[p].left > 0
  BY <1>1 DEF Types, TypeOK, Carries, BoundPCs, SignedPCs, CheckedPCs, OpenPCs
<1>3. procs[p].left - 1 \in 0 .. MaxBatches
  BY <1>2, ConstantTypes DEF Processes
<1>4. s \in Processes
  BY <1>2, <1>3, AllPCs DEF Processes, BoundPCs
<1>5. Carries(s)
  BY <1>2 DEF Processes, Carries, OpenPCs
<1>6. /\ procs' \in [Procs -> Processes]
      /\ \A q \in Procs : Carries(procs'[q])
  BY <1>1, <1>4, <1>5, StepTypes
<1> QED BY <1>6 DEF DrainAck, AckRows, Types, TypeOK, localVars, historyVars

LEMMA DrainingTypes ==
  ASSUME Types, NEW p \in Procs, Draining(p) PROVE Types'
<1>1. CASE DrainStart(p)
  <2> DEFINE s == [Idle EXCEPT !.pc = "drain_lease", !.b = settings.binding]
  <2>1. settings.binding \in Bindings
    BY <1>1 DEF DrainStart, Types
  <2>2. s \in Processes
    BY <2>1, IdleTypes, AllPCs DEF Idle, Processes, BoundPCs
  <2>3. Carries(s)
    BY <2>1 DEF Idle, Carries, SignedPCs, CheckedPCs, OpenPCs
  <2> QED BY <1>1, <2>2, <2>3, StepTypes, CommandTypes DEF DrainStart, Elsewhere, Types, TypeOK
<1>2. CASE DrainStops(p) \/ DrainFails(p)
  BY <1>2, QuitTypes DEF DrainStops, DrainFails, Elsewhere
<1>3. CASE DrainAnswer(p)
  <2>1. procs[p].pc = "drain_wait" /\ Goto(p, "drain_ack") /\ UNCHANGED lease
        /\ UNCHANGED Elsewhere
    BY <1>3 DEF DrainAnswer, Elsewhere
  <2>2. /\ procs[p].b \in Bindings /\ procs[p].token \in Accounts
        /\ procs[p].token = procs[p].b.account /\ procs[p].left > 0
    BY <2>1 DEF Types, Carries, BoundPCs, SignedPCs, CheckedPCs, OpenPCs
  <2>3. /\ procs' \in [Procs -> Processes]
        /\ \A q \in Procs : Carries(procs'[q])
    BY <2>1, <2>2, GotoTypes, AllPCs DEF BoundPCs
  <2> QED BY <2>1, <2>3, CommandTypes DEF Types, TypeOK
<1> QED BY <1>1, <1>2, <1>3, DrainLeaseTypes, DrainStatusTypes, DrainCaptureTypes,
   DrainSendTypes, DrainRefreshTypes, DrainAckTypes DEF Draining

LEMMA RestoreApplyTypes ==
  ASSUME Types, NEW p \in Procs, RestoreApply(p) PROVE Types'
<1> DEFINE new == NewIds(procs[p].ids)
           n == Cardinality(new)
<1>1. /\ high + n <= MaxEvent
      /\ high' = high + n
      /\ raw' = raw \union (high + 1 .. high + n)
      /\ Exit(p)
      /\ UNCHANGED <<queueVars, settings, account, wire, server, historyVars>>
  BY DEF RestoreApply
<1>2. PICK order \in [high + 1 .. high + n -> new] :
          copy' = [e \in Events |-> IF e \in high + 1 .. high + n THEN order[e] ELSE copy[e]]
  BY DEF RestoreApply
<1>3. new \subseteq 1 .. Foreign
  BY DEF NewIds, Types, TypeOK, Processes, Ids
<1> HIDE DEF new
<1>4. n \in Nat
  <2>1. IsFiniteSet(1 .. Foreign)
    BY FS_Interval, ConstantTypes
  <2> QED BY <1>3, <2>1, FS_Subset, FS_CardinalityType
<1> HIDE DEF n
<1>5. /\ high' \in 0 .. MaxEvent
      /\ raw' \subseteq 1 .. high'
  BY <1>1, <1>4 DEF Types, TypeOK
<1>6. copy' \in [Events -> 0 .. Foreign]
  <2>1. \A e \in high + 1 .. high + n : order[e] \in 0 .. Foreign
    <3>1. \A e \in high + 1 .. high + n : order[e] \in new
      BY Zenon
    <3>2. \A i \in new : i \in 0 .. Foreign
      BY <1>3, ConstantTypes
    <3> QED BY <3>1, <3>2, Zenon
  <2>2. \A e \in Events : copy[e] \in 0 .. Foreign
    BY DEF Types, TypeOK
  <2>3. \A e \in Events :
          (IF e \in high + 1 .. high + n THEN order[e] ELSE copy[e]) \in 0 .. Foreign
    BY <2>1, <2>2
  <2> QED BY <1>2, <2>3, Zenon
<1> QED BY <1>1, <1>5, <1>6, ExitTypes DEF Types, TypeOK, queueVars, historyVars

LEMMA RestoringTypes ==
  ASSUME Types, NEW p \in Procs, Restoring(p) PROVE Types'
<1>1. CASE RestoreStart(p)
  <2> DEFINE s == [Idle EXCEPT !.pc = "restore_fetch", !.token = account,
                               !.b = Current(account)]
  <2>1. Current(account) \in Bindings /\ account \in Accounts
    BY <1>1, CurrentBinding DEF RestoreStart, Types, TypeOK
  <2>2. s \in Processes
    BY <2>1, IdleTypes, AllPCs DEF Idle, Processes, BoundPCs
  <2>3. Carries(s)
    BY <2>1 DEF Idle, Carries, CheckedPCs, OpenPCs
  <2> QED BY <1>1, <2>2, <2>3, StartTypes DEF RestoreStart, Elsewhere
<1>2. CASE RestoreFetch(p)
  <2>1. PICK page \in SUBSET server[procs[p].token].records :
          Step(p, [procs[p] EXCEPT !.pc = "restore_apply", !.ids = page,
                                   !.token = NoAccount, !.b = NoBinding])
    BY <1>2 DEF RestoreFetch
  <2> DEFINE s == [procs[p] EXCEPT !.pc = "restore_apply", !.ids = page,
                                   !.token = NoAccount, !.b = NoBinding]
  <2>2. procs[p] \in Processes /\ procs[p].token \in Accounts
    BY <1>2 DEF RestoreFetch, Types, TypeOK, Carries, SignedPCs
  <2>3. page \subseteq Ids
    BY <2>2 DEF Types, TypeOK
  <2>4. s \in Processes
    BY <2>2, <2>3, AllPCs DEF Processes
  <2>5. Carries(s)
    BY <2>2 DEF Processes, Carries, BoundPCs, SignedPCs, CheckedPCs, OpenPCs
  <2> QED BY <1>2, <2>1, <2>4, <2>5, StepTypes, CommandTypes
          DEF RestoreFetch, Elsewhere, Types, TypeOK
<1>3. CASE RestoreFails(p)
  BY <1>3, QuitTypes DEF RestoreFails, Elsewhere
<1> QED BY <1>1, <1>2, <1>3, RestoreApplyTypes DEF Restoring

LEMMA DeletingTypes ==
  ASSUME Types, NEW p \in Procs, Deleting(p) PROVE Types'
<1>1. CASE DeleteStart(p)
  <2> DEFINE s == [Idle EXCEPT !.pc = "delete_call", !.token = account,
                               !.b = Current(account)]
  <2>1. Current(account) \in Bindings /\ account \in Accounts
    BY <1>1, CurrentBinding DEF DeleteStart, Types, TypeOK
  <2>2. s \in Processes
    BY <2>1, IdleTypes, AllPCs DEF Idle, Processes, BoundPCs
  <2>3. Carries(s)
    BY <2>1 DEF Idle, Carries, CheckedPCs, OpenPCs
  <2> QED BY <1>1, <2>2, <2>3, StartTypes DEF DeleteStart, Elsewhere
<1>2. CASE DeleteCall(p)
  <2> DEFINE s == [procs[p] EXCEPT !.pc = "delete_pause", !.token = NoAccount,
                                   !.prior = settings.binding]
  <2>1. /\ procs[p].pc = "delete_call" /\ ServerDeletes(procs[p].token, procs[p].b)
        /\ UNCHANGED <<localVars, queueVars, settings, account, wire, historyVars>>
        /\ Exit(p) \/ (Step(p, s) /\ UNCHANGED lease)
    <3>1. CASE settings.binding.account = procs[p].b.account
      BY <1>2, <3>1 DEF DeleteCall
    <3>2. CASE settings.binding.account # procs[p].b.account
      BY <1>2, <3>2 DEF DeleteCall
    <3> QED BY <3>1, <3>2
  <2>2. /\ procs[p] \in Processes /\ procs[p].b \in Bindings /\ procs[p].token \in Accounts
        /\ settings.binding \in Bindings \union {NoBinding}
    BY <2>1 DEF Types, TypeOK, Carries, BoundPCs, SignedPCs
  <2>3. s \in Processes
    BY <2>2, AllPCs DEF Processes, BoundPCs
  <2>4. Carries(s)
    BY <2>2 DEF Processes, Carries, SignedPCs, CheckedPCs, OpenPCs
  <2>5. /\ procs' \in [Procs -> Processes]
        /\ \A q \in Procs : Carries(procs'[q])
        /\ lease' \in Procs \union {None}
    BY <2>1, <2>3, <2>4, StepTypes, ExitTypes DEF Types, TypeOK
  <2>6. server' \in [Accounts -> [gen : 0 .. MaxGen, enabled : BOOLEAN, records : SUBSET Ids]]
    BY <2>1, <2>2, ServerTypes
  <2> QED BY <2>1, <2>5, <2>6 DEF Types, TypeOK, localVars, queueVars, historyVars
<1>3. CASE DeleteCallFails(p)
  <2>1. procs[p].token \in Accounts
    BY <1>3 DEF DeleteCallFails, Types, Carries, SignedPCs
  <2>2. server' \in [Accounts -> [gen : 0 .. MaxGen, enabled : BOOLEAN, records : SUBSET Ids]]
    BY <1>3, <2>1, ServerTypes DEF DeleteCallFails, Types, TypeOK
  <2> QED BY <1>3, <2>2, ExitTypes DEF DeleteCallFails, Types, TypeOK, localVars, queueVars,
          historyVars
<1>4. CASE DeletePause(p)
  <2>1. /\ procs' \in [Procs -> Processes]
        /\ \A q \in Procs : Carries(procs'[q])
    BY <1>4, GotoTypes, AllPCs DEF DeletePause, BoundPCs, SignedPCs, CheckedPCs, OpenPCs
  <2> QED BY <1>4, <2>1, ClosedTypes DEF DeletePause, Types, TypeOK, localVars, historyVars
<1>5. CASE DeleteSave(p)
  <2>1. procs[p].prior \in Bindings \union {NoBinding}
    BY DEF Types, TypeOK, Processes
  <2>2. /\ settings' \in [enabled : BOOLEAN, binding : Bindings \union {NoBinding}]
        /\ settings'.enabled => settings'.binding \in Bindings
    <3>1. CASE settings' = [enabled |-> FALSE, binding |-> procs[p].prior]
      BY <2>1, <3>1
    <3>2. CASE UNCHANGED settings
      BY <3>2 DEF Types, TypeOK
    <3> QED BY <1>5, <3>1, <3>2 DEF DeleteSave
  <2> QED BY <1>5, <2>2, ExitTypes DEF DeleteSave, Types, TypeOK, localVars, queueVars,
          historyVars
<1> QED BY <1>1, <1>2, <1>3, <1>4, <1>5 DEF Deleting

LEMMA AroundTypes ==
  ASSUME Types,
         \/ \E p \in Procs : Crash(p)
         \/ \E m \in wire : ServerIngests(m)
         \/ \E a \in Accounts : OtherHome(a) \/ SignIn(a)
         \/ \E e \in Events : UsageDelete(e)
         \/ Record \/ LeaseEnds
  PROVE  Types'
<1>1. ASSUME NEW p \in Procs, Crash(p) PROVE Types'
  <2>1. /\ procs' \in [Procs -> Processes]
        /\ \A q \in Procs : Carries(procs'[q])
    BY <1>1, IdleTypes, StepTypes DEF Crash
  <2>2. interrupted' \subseteq Bindings
    BY <1>1 DEF Crash, Types, TypeOK, Carries, BoundPCs
  <2> QED BY <1>1, <2>1, <2>2 DEF Crash, Types, TypeOK, localVars, queueVars
<1>2. ASSUME NEW m \in wire, ServerIngests(m) PROVE Types'
  <2>1. m \in [b : Bindings, token : Accounts, ids : SUBSET Ids]
    BY DEF Types, TypeOK
  <2>2. server' \in [Accounts -> [gen : 0 .. MaxGen, enabled : BOOLEAN, records : SUBSET Ids]]
    BY <1>2, <2>1 DEF ServerIngests, Types, TypeOK
  <2>3. accepted' \subseteq Rows
    <3>1. {[b |-> m.b, id |-> i] : i \in m.ids} \subseteq Rows
      BY <2>1 DEF Rows
    <3> QED BY <1>2, <3>1 DEF ServerIngests, Types, TypeOK
  <2> QED BY <1>2, <2>2, <2>3 DEF ServerIngests, Types, TypeOK, localVars, queueVars
<1>3. ASSUME NEW a \in Accounts, OtherHome(a) PROVE Types'
  <2>1. CASE server' = [server EXCEPT ![a].records = @ \union {Foreign}]
    <3>1. Foreign \in Ids
      BY ConstantTypes DEF Ids, Foreign
    <3>2. server' \in [Accounts -> [gen : 0 .. MaxGen, enabled : BOOLEAN, records : SUBSET Ids]]
      BY <2>1, <3>1 DEF Types, TypeOK
    <3> QED BY <1>3, <3>2 DEF OtherHome, Types, TypeOK, localVars, queueVars, historyVars
  <2>2. CASE \E b : ServerEnables(a, b) \/ ServerDeletes(a, b)
    <3>1. server' \in [Accounts -> [gen : 0 .. MaxGen, enabled : BOOLEAN, records : SUBSET Ids]]
      BY <2>2, ServerTypes
    <3> QED BY <1>3, <3>1 DEF OtherHome, Types, TypeOK, localVars, queueVars, historyVars
  <2> QED BY <1>3, <2>1, <2>2 DEF OtherHome
<1>4. ASSUME NEW a \in Accounts, SignIn(a) PROVE Types'
  BY <1>4 DEF SignIn, Types, TypeOK, localVars, queueVars, historyVars
<1>5. ASSUME NEW e \in Events, UsageDelete(e) PROVE Types'
  BY <1>5 DEF UsageDelete, Types, TypeOK, historyVars
<1>6. ASSUME Record PROVE Types'
  <2>1. high' \in 0 .. MaxEvent /\ raw' \subseteq 1 .. high'
    <3>1. high \in 0 .. MaxEvent /\ raw \subseteq 1 .. high
      BY DEF Types, TypeOK
    <3>2. high < MaxEvent /\ high' = high + 1 /\ raw' = raw \union {high + 1}
      BY <1>6 DEF Record
    <3>3. MaxEvent \in Nat
      BY ConstantTypes
    <3> QED BY ONLY <3>1, <3>2, <3>3
  <2>2. high + 1 \in Ids
    BY <1>6, ConstantTypes DEF Record, Types, TypeOK, Ids, Foreign
  <2>3. consented' \subseteq Rows
    BY <1>6, <2>2 DEF Record, Types, TypeOK, Rows
  <2> QED BY <1>6, <2>1, <2>3 DEF Record, Types, TypeOK, queueVars
<1>7. ASSUME LeaseEnds PROVE Types'
  <2>1. lease \in Procs
    BY <1>7 DEF LeaseEnds, Types, TypeOK
  <2>2. CASE UNCHANGED <<procs, interrupted>>
    BY <1>7, <2>2 DEF LeaseEnds, Types, TypeOK, localVars, queueVars
  <2>3. CASE procs' = [procs EXCEPT ![lease].late = TRUE] /\ interrupted' = Bindings
    <3> DEFINE t == [procs[lease] EXCEPT !.late = TRUE]
    <3>1. t \in Processes /\ Carries(t)
      BY <2>1, LateFields DEF Types, TypeOK
    <3>4. procs' = [procs EXCEPT ![lease] = t]
      BY <2>3
    <3> HIDE DEF t
    <3>2. procs' \in [Procs -> Processes]
      BY <2>1, <3>1, <3>4 DEF Types, TypeOK
    <3>3. \A q \in Procs : Carries(procs'[q])
      BY <2>1, <3>1, <3>4 DEF Types, TypeOK
    <3> QED BY <1>7, <2>3, <3>2, <3>3 DEF LeaseEnds, Types, TypeOK, localVars, queueVars
  <2> QED BY <1>7, <2>2, <2>3 DEF LeaseEnds
<1> QED BY <1>1, <1>2, <1>3, <1>4, <1>5, <1>6, <1>7

LEMMA NextTypes == ASSUME Types, [Next]_vars PROVE Types'
<1>1. CASE UNCHANGED vars
  BY <1>1 DEF vars, Types, TypeOK, Carries, localVars, queueVars, historyVars
<1>2. CASE Next
  BY <1>2, AroundTypes, EnablingTypes, DisablingTypes, SelectingTypes, DrainingTypes,
     RestoringTypes, DeletingTypes DEF Next
<1> QED BY <1>1, <1>2

LEMMA TypesInvariant == Spec => []Types
BY InitTypes, NextTypes, PTL DEF Spec

(***************************************************************************)
(* The lease                                                               *)
(***************************************************************************)

LEMMA InitExclusive == Init => CommandsExclusive
BY DEF Init, CommandsExclusive, Working, Idle

LEMMA NextExclusive ==
  ASSUME Types, CommandsExclusive, [Next]_vars
  PROVE  CommandsExclusive'
<1> USE DEF Types, TypeOK, CommandsExclusive, Working
<1>1. ASSUME NEW p \in Procs, Exit(p) PROVE CommandsExclusive'
  BY <1>1 DEF Exit, Release, Step, Idle
<1>2. ASSUME NEW p \in Procs, NEW s, Start(p, s) PROVE CommandsExclusive'
  BY <1>2, ConstantTypes DEF Start, Step
<1>3. ASSUME NEW p \in Procs, NEW s, Step(p, s), Working(p), s.late = procs[p].late,
             UNCHANGED lease
      PROVE  CommandsExclusive'
  BY <1>3 DEF Step
<1>4. ASSUME NEW p \in Procs, NEW pc, Goto(p, pc), Working(p), UNCHANGED lease
      PROVE  CommandsExclusive'
  BY <1>4 DEF Goto, Processes
<1>5. ASSUME UNCHANGED <<procs, lease>> PROVE CommandsExclusive'
  BY <1>5
<1>6. ASSUME NEW p \in Procs, Enabling(p) PROVE CommandsExclusive'
  <2>1. CASE EnableStart(p)
    BY <1>2, <2>1 DEF EnableStart
  <2>2. CASE EnableCallFails(p) \/ EnableRefused(p) \/ EnableSave(p) \/ EnableUndo(p)
    BY <1>1, <2>2 DEF EnableCallFails, EnableRefused, EnableSave, EnableUndo
  <2>3. CASE EnableSaveFails(p)
    BY <1>4, <2>3 DEF EnableSaveFails
  <2>4. CASE EnableStatus(p)
    <3> DEFINE a == procs[p].token
               s == [procs[p] EXCEPT !.pc = "enable_call",
                       !.b = IF server[a].gen = 0 THEN NoBinding ELSE Current(a)]
    <3>1. procs[p].pc = "enable_status" /\ Step(p, s) /\ UNCHANGED lease
      BY <2>4 DEF EnableStatus
    <3>2. s.late = procs[p].late
      BY DEF Processes
    <3> HIDE DEF s
    <3> QED BY <1>3, <3>1, <3>2
  <2>5. CASE EnableCall(p)
    <3> DEFINE b == [account |-> procs[p].token,
                     gen |-> IF procs[p].b = NoBinding THEN 1
                             ELSE server[procs[p].token].gen]
               keep == settings.enabled /\ settings.binding = b
               leave == settings.enabled /\ ~keep
               s == [procs[p] EXCEPT !.b = b, !.keep = keep, !.token = NoAccount,
                      !.pc = IF leave THEN "enable_pause" ELSE "enable_open",
                      !.prior = IF leave THEN settings.binding ELSE NoBinding]
    <3>1. procs[p].pc = "enable_call" /\ Step(p, s) /\ UNCHANGED lease
      BY <2>5 DEF EnableCall
    <3>2. s.late = procs[p].late
      BY DEF Processes
    <3> HIDE DEF s
    <3> QED BY <1>3, <3>1, <3>2
  <2>6. CASE EnablePause(p) \/ EnableOpen(p)
    <3> DEFINE s == [procs[p] EXCEPT !.pc = "enable_open", !.prior = NoBinding]
    <3>1. CASE EnablePause(p)
      <4>1. procs[p].pc = "enable_pause" /\ Step(p, s) /\ UNCHANGED lease
        BY <3>1 DEF EnablePause
      <4>2. s.late = procs[p].late
        BY DEF Processes
      <4> HIDE DEF s
      <4> QED BY <1>3, <4>1, <4>2
    <3>2. CASE EnableOpen(p)
      <4> DEFINE t == [procs[p] EXCEPT !.pc = "enable_save", !.keep = FALSE]
      <4>1. procs[p].pc = "enable_open" /\ Step(p, t) /\ UNCHANGED lease
        BY <3>2 DEF EnableOpen
      <4>2. t.late = procs[p].late
        BY DEF Processes
      <4> HIDE DEF t
      <4> QED BY <1>3, <4>1, <4>2
    <3> QED BY <2>6, <3>1, <3>2
  <2> QED BY <1>6, <2>1, <2>2, <2>3, <2>4, <2>5, <2>6 DEF Enabling
<1>7. ASSUME NEW p \in Procs, Disabling(p) \/ Selecting(p) PROVE CommandsExclusive'
  <2>1. CASE DisableStart(p) \/ HistoryStart(p)
    BY <1>2, <2>1 DEF DisableStart, HistoryStart
  <2>2. CASE DisableSave(p) \/ HistoryEnd(p)
    BY <1>1, <2>2 DEF DisableSave, HistoryEnd
  <2>3. CASE DisablePause(p)
    BY <1>4, <2>3 DEF DisablePause
  <2>4. CASE HistoryPage(p)
    <3> DEFINE page == FirstOf({e \in raw : e > procs[p].after /\ e <= procs[p].through},
                               PageSize)
               s == [procs[p] EXCEPT !.after = Last(page)]
    <3>1. procs[p].pc = "history" /\ Step(p, s) /\ UNCHANGED lease
      BY <2>4 DEF HistoryPage
    <3>2. s.late = procs[p].late
      BY DEF Processes
    <3> HIDE DEF s
    <3> QED BY <1>3, <3>1, <3>2
  <2> QED BY <1>7, <2>1, <2>2, <2>3, <2>4 DEF Disabling, Selecting
<1>8. ASSUME NEW p \in Procs, Draining(p) PROVE CommandsExclusive'
  <2>1. CASE DrainStart(p)
    BY <2>1 DEF DrainStart, Step, Idle
  <2>2. CASE DrainLease(p)
    <3>1. procs[p].pc = "drain_lease"
      BY <2>2 DEF DrainLease
    <3>2. CASE lease = None
      BY <2>2, <3>1, <3>2, ConstantTypes DEF DrainLease, Step
    <3>3. CASE lease # None
      BY <2>2, <3>1, <3>3 DEF DrainLease, Step, Idle
    <3> QED BY <3>2, <3>3
  <2>3. CASE DrainStatus(p)
    BY <1>1, <1>4, <2>3 DEF DrainStatus
  <2>4. CASE DrainCapture(p) \/ DrainAnswer(p)
    BY <1>4, <2>4 DEF DrainCapture, DrainAnswer
  <2>5. CASE DrainStops(p) \/ DrainFails(p)
    BY <1>1, <2>5 DEF DrainStops, DrainFails
  <2>6. CASE DrainSend(p)
    <3> DEFINE s == [procs[p] EXCEPT !.pc = "drain_wait", !.ids = Batch(procs[p].b)]
    <3>1. procs[p].pc = "drain_send"
      BY <2>6 DEF DrainSend
    <3>2. CASE Exit(p)
      BY <1>1, <3>2
    <3>3. CASE Step(p, s) /\ UNCHANGED lease
      <4>1. s.late = procs[p].late
        BY DEF Processes
      <4> HIDE DEF s
      <4> QED BY <1>3, <3>1, <3>3, <4>1
    <3> QED BY <2>6, <3>2, <3>3 DEF DrainSend
  <2>7. CASE DrainRefresh(p)
    <3> DEFINE s == [procs[p] EXCEPT !.keep = TRUE]
    <3>1. procs[p].pc = "drain_wait"
      BY <2>7 DEF DrainRefresh
    <3>2. CASE Exit(p)
      BY <1>1, <3>2
    <3>3. CASE Step(p, s) /\ UNCHANGED lease
      <4>1. s.late = procs[p].late
        BY KeepFields
      <4> HIDE DEF s
      <4> QED BY <1>3, <3>1, <3>3, <4>1
    <3> QED BY <2>7, <3>2, <3>3 DEF DrainRefresh
  <2>8. CASE DrainAck(p)
    <3> DEFINE s == [procs[p] EXCEPT !.pc = "drain_capture", !.ids = {}, !.left = @ - 1]
    <3>1. procs[p].pc = "drain_ack" /\ Step(p, s) /\ UNCHANGED lease
      BY <2>8 DEF DrainAck
    <3>2. s.late = procs[p].late
      BY DEF Processes
    <3> HIDE DEF s
    <3> QED BY <1>3, <3>1, <3>2
  <2> QED BY <1>8, <2>1, <2>2, <2>3, <2>4, <2>5, <2>6, <2>7, <2>8 DEF Draining
<1>9. ASSUME NEW p \in Procs, Restoring(p) \/ Deleting(p) PROVE CommandsExclusive'
  <2>1. CASE RestoreStart(p) \/ DeleteStart(p)
    BY <1>2, <2>1 DEF RestoreStart, DeleteStart
  <2>2. CASE RestoreApply(p) \/ RestoreFails(p) \/ DeleteCallFails(p) \/ DeleteSave(p)
    BY <1>1, <2>2 DEF RestoreApply, RestoreFails, DeleteCallFails, DeleteSave
  <2>3. CASE DeletePause(p)
    BY <1>4, <2>3 DEF DeletePause
  <2>4. CASE RestoreFetch(p)
    <3>1. PICK page \in SUBSET server[procs[p].token].records :
            Step(p, [procs[p] EXCEPT !.pc = "restore_apply", !.ids = page,
                                     !.token = NoAccount, !.b = NoBinding])
      BY <2>4 DEF RestoreFetch
    <3> DEFINE s == [procs[p] EXCEPT !.pc = "restore_apply", !.ids = page,
                                     !.token = NoAccount, !.b = NoBinding]
    <3>2. procs[p].pc = "restore_fetch" /\ Step(p, s) /\ UNCHANGED lease
      BY <2>4, <3>1 DEF RestoreFetch
    <3>3. s.late = procs[p].late
      BY DEF Processes
    <3> HIDE DEF s
    <3> QED BY <1>3, <3>2, <3>3
  <2>5. CASE DeleteCall(p)
    <3> DEFINE s == [procs[p] EXCEPT !.pc = "delete_pause", !.token = NoAccount,
                                     !.prior = settings.binding]
    <3>1. procs[p].pc = "delete_call"
      BY <2>5 DEF DeleteCall
    <3>2. CASE Exit(p)
      BY <1>1, <3>2
    <3>3. CASE Step(p, s) /\ UNCHANGED lease
      <4>1. s.late = procs[p].late
        BY DEF Processes
      <4> HIDE DEF s
      <4> QED BY <1>3, <3>1, <3>3, <4>1
    <3> QED BY <2>5, <3>2, <3>3 DEF DeleteCall
  <2> QED BY <1>9, <2>1, <2>2, <2>3, <2>4, <2>5 DEF Restoring, Deleting
<1>10. ASSUME NEW p \in Procs, Crash(p) PROVE CommandsExclusive'
  BY <1>10 DEF Crash, Step, Idle
<1>11. ASSUME LeaseEnds PROVE CommandsExclusive'
  BY <1>11 DEF LeaseEnds, Processes
<1>12. CASE UNCHANGED vars
  BY <1>5, <1>12 DEF vars
<1>13. CASE \/ \E m \in wire : ServerIngests(m)
            \/ \E a \in Accounts : OtherHome(a) \/ SignIn(a)
            \/ \E e \in Events : UsageDelete(e)
            \/ Record
  <2>1. UNCHANGED <<procs, lease>>
    <3>1. ASSUME NEW m, ServerIngests(m) PROVE UNCHANGED <<procs, lease>>
      BY <3>1 DEF ServerIngests
    <3>2. ASSUME NEW a, OtherHome(a) \/ SignIn(a) PROVE UNCHANGED <<procs, lease>>
      BY <3>2 DEF OtherHome, SignIn
    <3>3. ASSUME NEW e, UsageDelete(e) \/ Record PROVE UNCHANGED <<procs, lease>>
      BY <3>3 DEF UsageDelete, Record
    <3> QED BY <1>13, <3>1, <3>2, <3>3
  <2> QED BY <1>5, <2>1
<1> QED BY <1>6, <1>7, <1>8, <1>9, <1>10, <1>11, <1>12, <1>13 DEF Next

(***************************************************************************)
(* The database                                                            *)
(***************************************************************************)

\* What a step may do to the history database.
LEMMA DatabaseSteps ==
  ASSUME [Next]_vars
  PROVE  \/ \E p \in Procs : DrainCapture(p) \/ HistoryPage(p) \/ RestoreApply(p)
         \/ \E p \in Procs : OpenWindow(p) /\ UNCHANGED <<localVars, queued>>
         \/ \E b : windows' = Closed(b) /\ UNCHANGED <<localVars, queued>>
         \/ Record
         \/ \E e \in Events : UsageDelete(e)
         \/ UNCHANGED <<localVars, windows, queued>>
<1> USE DEF queueVars
<1>1. ASSUME NEW p \in Procs, Enabling(p)
      PROVE  \/ OpenWindow(p) /\ UNCHANGED <<localVars, queued>>
             \/ \E b : windows' = Closed(b) /\ UNCHANGED <<localVars, queued>>
             \/ UNCHANGED <<localVars, windows, queued>>
  BY <1>1 DEF Enabling, EnableStart, EnableStatus, EnableCall, EnableCallFails, EnablePause,
     EnableOpen, EnableRefused, EnableSave, EnableSaveFails, EnableUndo
<1>2. ASSUME NEW p \in Procs, Disabling(p) \/ Selecting(p) \/ Deleting(p)
      PROVE  \/ HistoryPage(p)
             \/ \E b : windows' = Closed(b) /\ UNCHANGED <<localVars, queued>>
             \/ UNCHANGED <<localVars, windows, queued>>
  BY <1>2 DEF Disabling, DisableStart, DisablePause, DisableSave, Selecting, HistoryStart,
     HistoryEnd, Deleting, DeleteStart, DeleteCall, DeleteCallFails, DeletePause, DeleteSave
<1>3. ASSUME NEW p \in Procs, Draining(p) \/ Restoring(p)
      PROVE  \/ DrainCapture(p) \/ RestoreApply(p)
             \/ UNCHANGED <<localVars, windows, queued>>
  BY <1>3 DEF Draining, DrainStart, DrainLease, DrainStatus, DrainStops, DrainSend,
     DrainAnswer, DrainFails, DrainRefresh, DrainAck, Restoring, RestoreStart, RestoreFetch,
     RestoreFails
<1>4. ASSUME \/ \E p \in Procs : Crash(p)
             \/ \E m \in wire : ServerIngests(m)
             \/ \E a \in Accounts : OtherHome(a) \/ SignIn(a)
             \/ LeaseEnds
      PROVE  UNCHANGED <<localVars, windows, queued>>
  BY <1>4 DEF Crash, ServerIngests, OtherHome, SignIn, LeaseEnds
<1> QED BY <1>1, <1>2, <1>3, <1>4 DEF Next, vars

Database ==
  /\ IdentitiesUnique
  /\ SelectionsAreOwn
  /\ WindowsWellFormed
  /\ CursorNeverSkips

LEMMA InitDatabase == Init => Database
BY DEF Init, Database, IdentitiesUnique, SelectionsAreOwn, WindowsWellFormed,
   CursorNeverSkips

\* What the selections of a page add: own events of it, under their sequences.
LEMMA SelectIsOwn ==
  ASSUME Types, NEW b, NEW page, page \subseteq raw
  PROVE  /\ \A q \in Select(b, page) : q.b = b /\ q.id \in raw /\ copy[q.id] = 0
         /\ \A e \in page : copy[e] = 0 => [b |-> b, id |-> e] \in Select(b, page)
BY DEF Select, Id

LEMMA HistoryPageDatabase ==
  ASSUME Types, Database, NEW p \in Procs, HistoryPage(p)
  PROVE  Database'
<1> DEFINE page == FirstOf({e \in raw : e > procs[p].after /\ e <= procs[p].through}, PageSize)
<1>1. /\ queued' = queued \union Select(procs[p].b, page)
      /\ UNCHANGED <<high, raw, copy, windows>>
  BY DEF HistoryPage, localVars
<1>2. page \subseteq raw
  BY DEF FirstOf
<1>3. \A q \in Select(procs[p].b, page) : q.id \in raw /\ copy[q.id] = 0
  BY <1>2, SelectIsOwn
<1> HIDE DEF page
<1>4. SelectionsAreOwn'
  BY <1>1, <1>3 DEF Database, SelectionsAreOwn
<1>5. IdentitiesUnique' /\ WindowsWellFormed'
  BY <1>1 DEF Database, IdentitiesUnique, WindowsWellFormed, Id, Reach
<1>6. CursorNeverSkips'
  BY <1>1 DEF Database, CursorNeverSkips
<1> QED BY <1>4, <1>5, <1>6 DEF Database

LEMMA WindowTypes ==
  ASSUME Types, NEW w \in windows
  PROVE  /\ w \in Windows /\ w.start \in Nat /\ w.scan \in Nat /\ w.end \in Nat
         /\ high \in Nat /\ high < Open /\ Reach(w) \in Nat
BY ConstantTypes DEF Types, TypeOK, Windows, Reach, Open

LEMMA OpenDatabase ==
  ASSUME Types, Database, NEW p \in Procs, OpenWindow(p), UNCHANGED <<localVars, queued>>
  PROVE  Database'
<1> DEFINE b == procs[p].b
           new == [b |-> b, start |-> high, end |-> Open, scan |-> high]
<1>1. UNCHANGED <<high, raw, copy, queued>>
  BY DEF localVars
<1>2. IdentitiesUnique' /\ SelectionsAreOwn'
  BY <1>1 DEF Database, IdentitiesUnique, SelectionsAreOwn, Id
<1>3. CASE UNCHANGED windows
  BY <1>1, <1>2, <1>3 DEF Database, WindowsWellFormed, CursorNeverSkips, Reach
<1>4. CASE OpenOf(b) = {} /\ windows' = windows \union {new}
  <2>0. high \in Nat /\ raw \subseteq 1 .. high
    BY DEF Types, TypeOK
  <2>1. \A w \in windows : w.b = b => w.end <= high
    <3> SUFFICES ASSUME NEW w \in windows, w.b = b PROVE w.end <= high
      OBVIOUS
    <3>1. w.end # Open
      BY <1>4 DEF OpenOf
    <3> QED BY <3>1 DEF Database, WindowsWellFormed, Reach
  <2>2. ASSUME NEW w \in windows'
        PROVE  w.start <= w.scan /\ w.scan <= Reach(w)' /\ Reach(w)' <= high'
    <3>1. CASE w \in windows
      BY <1>1, <3>1 DEF Database, WindowsWellFormed, Reach
    <3>2. CASE w = new
      BY <1>1, <2>0, <3>2 DEF Reach
    <3> QED BY <1>4, <2>2, <3>1, <3>2
  <2>3. ASSUME NEW v \in windows', NEW w \in windows', v.b = w.b, v # w
        PROVE  v.end <= w.start \/ w.end <= v.start
    <3>1. CASE v \in windows /\ w \in windows
      BY <2>3, <3>1 DEF Database, WindowsWellFormed
    <3>2. CASE v \in windows /\ w = new
      BY <2>1, <2>3, <3>2
    <3>3. CASE v = new /\ w \in windows
      BY <2>1, <2>3, <3>3
    <3> QED BY <1>4, <2>3, <3>1, <3>2, <3>3
  <2>4. WindowsWellFormed'
    BY <2>2, <2>3 DEF WindowsWellFormed
  <2>5. CursorNeverSkips'
    <3> SUFFICES ASSUME NEW w \in windows', NEW e \in raw, copy[e] = 0,
                        w.start < e, e <= w.scan
                 PROVE  [b |-> w.b, id |-> e] \in queued
      BY <1>1 DEF CursorNeverSkips
    <3>1. w # new
      <4>1. e \in Nat
        BY <2>0
      <4> QED BY <2>0, <4>1
    <3> QED BY <1>4, <3>1 DEF Database, CursorNeverSkips
  <2> QED BY <1>2, <2>4, <2>5 DEF Database
<1> QED BY <1>3, <1>4 DEF OpenWindow

LEMMA CloseDatabase ==
  ASSUME Types, Database, NEW b, windows' = Closed(b), UNCHANGED <<localVars, queued>>
  PROVE  Database'
<1>1. UNCHANGED <<high, raw, copy, queued>>
  BY DEF localVars
<1>2. IdentitiesUnique' /\ SelectionsAreOwn'
  BY <1>1 DEF Database, IdentitiesUnique, SelectionsAreOwn, Id
\* A window afterwards is one from before, that may have got an end.
<1>3. ASSUME NEW w \in windows'
      PROVE  \E x \in windows :
               /\ w.b = x.b /\ w.start = x.start /\ w.scan = x.scan
               /\ \/ x \notin OpenOf(b) /\ w = x
                  \/ /\ x \in OpenOf(b) /\ x.end = Open
                     /\ w.end = high /\ w = [x EXCEPT !.end = high]
  <2>1. CASE w \in windows \ OpenOf(b)
    BY <2>1
  <2>2. CASE \E x \in OpenOf(b) : w = [x EXCEPT !.end = high]
    <3>1. PICK x \in OpenOf(b) : w = [x EXCEPT !.end = high]
      BY <2>2
    <3>2. x \in windows /\ x.end = Open /\ x \in Windows
      BY WindowTypes DEF OpenOf
    <3>3. w.b = x.b /\ w.start = x.start /\ w.scan = x.scan /\ w.end = high
      BY <3>1, <3>2 DEF Windows
    <3> QED BY <3>1, <3>2, <3>3
  <2> QED BY <1>3, <2>1, <2>2 DEF Closed
<1>4. ASSUME NEW w \in windows'
      PROVE  w.start <= w.scan /\ w.scan <= Reach(w)' /\ Reach(w)' <= high'
  <2>1. PICK x \in windows :
               /\ w.b = x.b /\ w.start = x.start /\ w.scan = x.scan
               /\ \/ w = x
                  \/ x.end = Open /\ w.end = high
    BY <1>3
  <2>2. Reach(w)' = Reach(x)
    BY <1>1, <2>1, WindowTypes DEF Reach
  <2> QED BY <1>1, <2>1, <2>2 DEF Database, WindowsWellFormed
<1>5. ASSUME NEW v \in windows', NEW w \in windows', v.b = w.b, v # w
      PROVE  v.end <= w.start \/ w.end <= v.start
  <2>1. PICK x \in windows :
               /\ v.b = x.b /\ v.start = x.start
               /\ \/ x \notin OpenOf(b) /\ v = x
                  \/ /\ x \in OpenOf(b) /\ x.end = Open
                     /\ v.end = high /\ v = [x EXCEPT !.end = high]
    BY <1>3
  <2>2. PICK y \in windows :
               /\ w.b = y.b /\ w.start = y.start
               /\ \/ y \notin OpenOf(b) /\ w = y
                  \/ /\ y \in OpenOf(b) /\ y.end = Open
                     /\ w.end = high /\ w = [y EXCEPT !.end = high]
    BY <1>3
  <2>3. CASE x = y
    BY <1>5, <2>1, <2>2, <2>3
  <2>4. CASE x # y
    <3>1. x.end <= y.start \/ y.end <= x.start
      BY <1>5, <2>1, <2>2, <2>4 DEF Database, WindowsWellFormed
    <3>2. v.end <= x.end /\ w.end <= y.end
      BY <2>1, <2>2, WindowTypes
    <3> QED BY <2>1, <2>2, <3>1, <3>2, WindowTypes
  <2> QED BY <2>3, <2>4
<1>6. CursorNeverSkips'
  <2> SUFFICES ASSUME NEW w \in windows', NEW e \in raw, copy[e] = 0,
                      w.start < e, e <= w.scan
               PROVE  [b |-> w.b, id |-> e] \in queued
    BY <1>1 DEF CursorNeverSkips
  <2> QED BY <1>3 DEF Database, CursorNeverSkips
<1>7. WindowsWellFormed'
  BY <1>4, <1>5 DEF WindowsWellFormed
<1> QED BY <1>2, <1>6, <1>7 DEF Database

LEMMA DrainCaptureDatabase ==
  ASSUME Types, Database, NEW p \in Procs, DrainCapture(p)
  PROVE  Database'
<1> DEFINE b == procs[p].b
           page == CapturePage(b)
<1>1. /\ queued' = queued \union Select(b, page)
      /\ windows' = {Advance(w, b) : w \in windows}
      /\ UNCHANGED <<high, raw, copy>>
  BY DEF DrainCapture, localVars
<1>2. page \subseteq raw
  BY CapturePageOf
<1>3. /\ \A q \in Select(b, page) : q.b = b /\ q.id \in raw /\ copy[q.id] = 0
      /\ \A e \in page : copy[e] = 0 => [b |-> b, id |-> e] \in Select(b, page)
  BY <1>2, SelectIsOwn
<1>4. Scanned(b) \in 0 .. high /\ high \in Nat
  BY ScannedTypes DEF Types, TypeOK
\* The events between the old and the new cursor of an interval are in the page.
<1>5. ASSUME NEW w \in windows, w.b = b, NEW e \in raw, w.scan < e, e <= Scanned(b),
             e <= Reach(w)
      PROVE  e \in page
  <2>1. e \in Unscanned(b) /\ e \in Nat
    BY <1>5, IdTypes DEF Unscanned
  <2>2. CASE Cardinality(page) < PageSize
    BY <2>1, <2>2, CapturePageOf
  <2>3. CASE ~(Cardinality(page) < PageSize)
    <3>1. page \subseteq Nat /\ IsFiniteSet(page) /\ page # {}
      BY <2>3, CapturePageOf, RawFinite
    <3>2. Scanned(b) = Last(page) /\ Last(page) \in page
      BY <2>3, <3>1, LastIsLast DEF Scanned
    <3> QED BY <1>5, <2>1, <3>2, CapturePageOf
  <2> QED BY <2>2, <2>3
\* Advance moves the cursor alone, forward and inside the interval.
<1>6. ASSUME NEW w \in windows
      PROVE  LET v == Advance(w, b)
             IN /\ v.b = w.b /\ v.start = w.start /\ v.end = w.end
                /\ w.scan <= v.scan /\ v.scan <= Reach(w)
                /\ \/ v.scan = w.scan
                   \/ w.b = b /\ v.scan <= Scanned(b)
  <2>1. w.scan <= Reach(w) /\ Reach(w) <= high
    BY DEF Database, WindowsWellFormed
  <2>2. CASE w.b = b /\ w.scan < Scanned(b)
    <3> DEFINE s == IF w.end < Scanned(b) THEN w.end ELSE Scanned(b)
               v == [w EXCEPT !.scan = s]
    <3>1. Advance(w, b) = v
      BY <2>2 DEF Advance
    <3>2. v.b = w.b /\ v.start = w.start /\ v.end = w.end /\ v.scan = s
      BY WindowTypes DEF Windows
    <3>3. w.scan <= s /\ s <= Scanned(b) /\ s <= Reach(w)
      BY <1>4, <2>1, <2>2, WindowTypes DEF Reach
    <3> QED BY <2>2, <3>1, <3>2, <3>3
  <2>3. CASE ~(w.b = b /\ w.scan < Scanned(b))
    BY <2>1, <2>3, WindowTypes DEF Advance
  <2> QED BY <2>2, <2>3
<1> HIDE DEF page
<1>7. SelectionsAreOwn'
  BY <1>1, <1>3 DEF Database, SelectionsAreOwn
<1>8. IdentitiesUnique'
  BY <1>1 DEF Database, IdentitiesUnique, Id
<1>9. ASSUME NEW v \in windows'
      PROVE  v.start <= v.scan /\ v.scan <= Reach(v)' /\ Reach(v)' <= high'
  <2>1. PICK w \in windows : v = Advance(w, b)
    BY <1>1
  <2>2. Reach(v)' = Reach(w)
    BY <1>1, <1>6, <2>1 DEF Reach
  <2>3. v \in Windows /\ v.scan \in Nat
    BY <2>1, WindowTypes, AdvanceTypes DEF Windows
  <2>4. w.start <= w.scan /\ Reach(w) <= high
    BY DEF Database, WindowsWellFormed
  <2>5. w.scan <= v.scan /\ v.scan <= Reach(w) /\ v.start = w.start
    BY <1>6, <2>1
  <2> QED BY <1>1, <2>2, <2>3, <2>4, <2>5, WindowTypes
<1>10. ASSUME NEW v \in windows', NEW w \in windows', v.b = w.b, v # w
       PROVE  v.end <= w.start \/ w.end <= v.start
  <2>1. PICK x \in windows, y \in windows : v = Advance(x, b) /\ w = Advance(y, b)
    BY <1>1
  <2>2. x # y /\ x.b = y.b
    BY <1>6, <1>10, <2>1
  <2>3. x.end <= y.start \/ y.end <= x.start
    BY <2>2 DEF Database, WindowsWellFormed
  <2> QED BY <1>6, <2>1, <2>3
<1>11. WindowsWellFormed'
  BY <1>9, <1>10 DEF WindowsWellFormed
<1>12. CursorNeverSkips'
  <2> SUFFICES ASSUME NEW v \in windows', NEW e \in raw, copy[e] = 0,
                      v.start < e, e <= v.scan
               PROVE  [b |-> v.b, id |-> e] \in queued'
    BY <1>1 DEF CursorNeverSkips
  <2>1. PICK w \in windows : v = Advance(w, b)
    BY <1>1
  <2>2. /\ v.b = w.b /\ v.start = w.start /\ w.scan <= v.scan /\ v.scan <= Reach(w)
        /\ v.scan = w.scan \/ (w.b = b /\ v.scan <= Scanned(b))
    BY <1>6, <2>1
  <2>3. CASE e <= w.scan
    BY <1>1, <2>2, <2>3 DEF Database, CursorNeverSkips
  <2>4. CASE ~(e <= w.scan)
    <3>1. v \in Windows /\ v.scan \in Nat /\ e \in Nat
      BY <2>1, WindowTypes, AdvanceTypes, IdTypes DEF Windows
    <3>2. w.b = b /\ w.scan < e /\ e <= Scanned(b) /\ e <= Reach(w)
      BY <1>4, <2>2, <2>4, <3>1, WindowTypes
    <3>3. e \in page
      BY <1>5, <3>2
    <3> QED BY <1>1, <1>3, <2>2, <3>2, <3>3
  <2> QED BY <2>3, <2>4
<1> QED BY <1>7, <1>8, <1>11, <1>12 DEF Database

(***************************************************************************)
(* What a command does to its batch                                        *)
(***************************************************************************)

\* A batch is built from the database and a page from the service; a command
\* that stores an acknowledgement has just read it in an answer, and one that
\* imports has just read a page.
Keeps(q) ==
  /\ \/ procs'[q].ids \subseteq procs[q].ids
     \/ \E b : procs'[q].ids \subseteq Batch(b)
     \/ \E a \in Accounts : procs'[q].ids \subseteq server[a].records
  /\ procs'[q].pc = "drain_ack" =>
       /\ procs'[q].b = procs[q].b /\ procs'[q].ids = procs[q].ids
       /\ procs[q].pc = "drain_ack" \/ Acknowledged(q) = procs[q].ids
  /\ procs'[q].pc = "restore_apply" =>
       \/ procs[q].pc = "restore_apply" /\ procs'[q].ids \subseteq procs[q].ids
       \/ \E a \in Accounts : procs'[q].ids \subseteq server[a].records

LEMMA BatchSteps ==
  ASSUME Types, [Next]_vars, NEW q \in Procs
  PROVE  Keeps(q)
<1>0. \A p \in Procs : procs[p] \in Processes
  BY DEF Types, TypeOK
<1>1. ASSUME NEW p \in Procs, NEW s, Step(p, s), s.ids \subseteq procs[p].ids,
             s.pc \notin {"drain_ack", "restore_apply"}
      PROVE  Keeps(q)
  BY <1>1 DEF Step, Types, TypeOK, Keeps
<1>2. ASSUME NEW p \in Procs, NEW pc, Goto(p, pc), pc \notin {"drain_ack", "restore_apply"}
      PROVE  Keeps(q)
  BY <1>0, <1>2 DEF Goto, Types, TypeOK, Processes, Keeps
<1>3. ASSUME NEW p \in Procs, Exit(p) PROVE Keeps(q)
  BY <1>1, <1>3 DEF Exit, Idle
<1>4. ASSUME UNCHANGED procs PROVE Keeps(q)
  BY <1>4 DEF Keeps
<1>5. ASSUME NEW p \in Procs, Enabling(p) PROVE Keeps(q)
  <2>1. CASE EnableStart(p)
    <3> DEFINE s == [Idle EXCEPT !.pc = "enable_status", !.token = account]
    <3>1. Step(p, s) /\ s.pc \notin {"drain_ack", "restore_apply"} /\ s.ids = {}
      BY <2>1 DEF EnableStart, Start, Idle
    <3> QED BY <1>1, <3>1
  <2>2. CASE EnableCallFails(p) \/ EnableRefused(p) \/ EnableSave(p) \/ EnableUndo(p)
    BY <1>3, <2>2 DEF EnableCallFails, EnableRefused, EnableSave, EnableUndo
  <2>3. CASE EnableSaveFails(p)
    BY <1>2, <2>3 DEF EnableSaveFails
  <2>4. CASE EnableStatus(p)
    BY <1>0, <1>1, <2>4 DEF EnableStatus, Processes
  <2>5. CASE EnableCall(p)
    <3> DEFINE b == [account |-> procs[p].token,
                     gen |-> IF procs[p].b = NoBinding THEN 1
                             ELSE server[procs[p].token].gen]
               keep == settings.enabled /\ settings.binding = b
               leave == settings.enabled /\ ~keep
               s == [procs[p] EXCEPT !.b = b, !.keep = keep, !.token = NoAccount,
                      !.pc = IF leave THEN "enable_pause" ELSE "enable_open",
                      !.prior = IF leave THEN settings.binding ELSE NoBinding]
    <3>1. Step(p, s)
      BY <2>5 DEF EnableCall
    <3>2. s.ids = procs[p].ids /\ s.pc \notin {"drain_ack", "restore_apply"}
      BY <1>0 DEF Processes
    <3> HIDE DEF s
    <3> QED BY <1>1, <3>1, <3>2
  <2>6. CASE EnablePause(p) \/ EnableOpen(p)
    BY <1>0, <1>1, <2>6 DEF EnablePause, EnableOpen, Processes
  <2> QED BY <1>5, <2>1, <2>2, <2>3, <2>4, <2>5, <2>6 DEF Enabling
<1>6. ASSUME NEW p \in Procs, Disabling(p) \/ Selecting(p) PROVE Keeps(q)
  <2>1. ASSUME NEW pc, NEW b, NEW through, pc # "drain_ack", pc # "restore_apply",
               Start(p, [Idle EXCEPT !.pc = pc, !.b = b, !.through = through])
        PROVE  Keeps(q)
    <3> DEFINE s == [Idle EXCEPT !.pc = pc, !.b = b, !.through = through]
    <3>1. Step(p, s) /\ s.pc = pc /\ s.ids = {}
      BY <2>1 DEF Start, Idle
    <3> HIDE DEF s
    <3> QED BY <1>1, <2>1, <3>1
  <2>5. CASE HistoryStart(p)
    BY <2>1, <2>5 DEF HistoryStart
  <2>6. CASE DisableStart(p)
    <3> DEFINE pc == IF settings.binding = NoBinding THEN "disable_save"
                     ELSE "disable_pause"
               s == [Idle EXCEPT !.b = settings.binding, !.pc = pc]
    <3>1. Step(p, s) /\ s.pc = pc /\ s.ids = {} /\ pc \notin {"drain_ack", "restore_apply"}
      BY <2>6 DEF DisableStart, Start, Idle
    <3> HIDE DEF s
    <3> QED BY <1>1, <3>1
  <2>2. CASE DisableSave(p) \/ HistoryEnd(p)
    BY <1>3, <2>2 DEF DisableSave, HistoryEnd
  <2>3. CASE DisablePause(p)
    BY <1>2, <2>3 DEF DisablePause
  <2>4. CASE HistoryPage(p)
    BY <1>0, <1>1, <2>4 DEF HistoryPage, Processes
  <2> QED BY <1>6, <2>2, <2>3, <2>4, <2>5, <2>6 DEF Disabling, Selecting
<1>7. ASSUME NEW p \in Procs, Draining(p) PROVE Keeps(q)
  <2>1. CASE DrainStart(p)
    BY <1>1, <2>1 DEF DrainStart, Idle
  <2>2. CASE DrainLease(p)
    <3>1. CASE Step(p, Idle)
      BY <1>1, <3>1 DEF Idle
    <3>2. CASE Step(p, [procs[p] EXCEPT !.pc = "drain_status", !.token = account,
                                        !.left = MaxBatches])
      BY <1>0, <1>1, <3>2 DEF Processes
    <3> QED BY <2>2, <3>1, <3>2 DEF DrainLease
  <2>3. CASE DrainStatus(p) \/ DrainCapture(p)
    BY <1>2, <1>3, <2>3 DEF DrainStatus, DrainCapture
  <2>4. CASE DrainStops(p) \/ DrainFails(p)
    BY <1>3, <2>4 DEF DrainStops, DrainFails
  <2>5. CASE DrainSend(p)
    <3> DEFINE s == [procs[p] EXCEPT !.pc = "drain_wait", !.ids = Batch(procs[p].b)]
    <3>1. CASE Step(p, s)
      <4>1. s.pc = "drain_wait" /\ s.ids = Batch(procs[p].b)
        BY <1>0 DEF Processes
      <4> HIDE DEF s
      <4>2. procs'[q] = IF q = p THEN s ELSE procs[q]
        BY <3>1 DEF Step, Types, TypeOK
      <4> QED BY <4>1, <4>2 DEF Keeps
    <3> QED BY <1>3, <2>5, <3>1 DEF DrainSend
  <2>6. CASE DrainAnswer(p)
    <3>1. \A r \in Procs : procs'[r] = IF r = p THEN [procs[p] EXCEPT !.pc = "drain_ack"]
                                       ELSE procs[r]
      BY <2>6 DEF DrainAnswer, Goto, Types, TypeOK
    <3>2. Acknowledged(p) = procs[p].ids
      BY <2>6 DEF DrainAnswer
    <3> QED BY <1>0, <3>1, <3>2 DEF Keeps, Processes
  <2>7. CASE DrainRefresh(p)
    <3>1. procs[p].pc = "drain_wait"
      BY <2>7 DEF DrainRefresh
    <3> QED BY <1>0, <1>1, <1>3, <2>7, <3>1 DEF DrainRefresh, Processes
  <2>8. CASE DrainAck(p)
    BY <1>0, <1>1, <2>8 DEF DrainAck, Processes
  <2> QED BY <1>7, <2>1, <2>2, <2>3, <2>4, <2>5, <2>6, <2>7, <2>8 DEF Draining
<1>8. ASSUME NEW p \in Procs, Restoring(p) \/ Deleting(p) PROVE Keeps(q)
  <2>1. CASE RestoreStart(p) \/ DeleteStart(p)
    <3>1. ASSUME NEW pc, pc # "drain_ack", pc # "restore_apply",
                 Start(p, [Idle EXCEPT !.pc = pc, !.token = account, !.b = Current(account)])
          PROVE  Keeps(q)
      <4> DEFINE s == [Idle EXCEPT !.pc = pc, !.token = account, !.b = Current(account)]
      <4>1. Step(p, s) /\ s.pc = pc /\ s.ids = {}
        BY <3>1 DEF Start, Idle
      <4> HIDE DEF s
      <4> QED BY <1>1, <3>1, <4>1
    <3> QED BY <2>1, <3>1 DEF RestoreStart, DeleteStart
  <2>2. CASE RestoreApply(p) \/ RestoreFails(p) \/ DeleteCallFails(p) \/ DeleteSave(p)
    BY <1>3, <2>2 DEF RestoreApply, RestoreFails, DeleteCallFails, DeleteSave
  <2>3. CASE DeletePause(p)
    BY <1>2, <2>3 DEF DeletePause
  <2>4. CASE RestoreFetch(p)
    <3>1. PICK page \in SUBSET server[procs[p].token].records :
            Step(p, [procs[p] EXCEPT !.pc = "restore_apply", !.ids = page,
                                     !.token = NoAccount, !.b = NoBinding])
      BY <2>4 DEF RestoreFetch
    <3> DEFINE s == [procs[p] EXCEPT !.pc = "restore_apply", !.ids = page,
                                     !.token = NoAccount, !.b = NoBinding]
    <3>2. s.pc = "restore_apply" /\ s.ids = page
      BY <1>0 DEF Processes
    <3>3. procs[p].token \in Accounts
      BY <2>4 DEF RestoreFetch, Types, Carries, SignedPCs
    <3>4. procs'[q] = IF q = p THEN s ELSE procs[q]
      BY <3>1 DEF Step, Types, TypeOK
    <3> HIDE DEF s
    <3>5. page \subseteq server[procs[p].token].records
      OBVIOUS
    <3> QED BY <3>2, <3>3, <3>4, <3>5 DEF Keeps
  <2>5. CASE DeleteCall(p)
    <3> DEFINE s == [procs[p] EXCEPT !.pc = "delete_pause", !.token = NoAccount,
                                     !.prior = settings.binding]
    <3>1. s.pc = "delete_pause" /\ s.ids = procs[p].ids
      BY <1>0 DEF Processes
    <3>2. Exit(p) \/ Step(p, s)
      BY <2>5 DEF DeleteCall
    <3> HIDE DEF s
    <3> QED BY <1>1, <1>3, <3>1, <3>2
  <2> QED BY <1>8, <2>1, <2>2, <2>3, <2>4, <2>5 DEF Restoring, Deleting
<1>9. ASSUME NEW p \in Procs, Crash(p) PROVE Keeps(q)
  BY <1>1, <1>9 DEF Crash, Idle
<1>10. ASSUME LeaseEnds PROVE Keeps(q)
  <2>1. CASE UNCHANGED procs
    BY <1>4, <2>1
  <2>2. CASE procs' = [procs EXCEPT ![lease].late = TRUE] /\ Working(lease)
    <3>1. /\ procs'[q].pc = procs[q].pc /\ procs'[q].ids = procs[q].ids
          /\ procs'[q].b = procs[q].b
      BY <1>0, <2>2 DEF Types, TypeOK, Processes
    <3> QED BY <3>1 DEF Keeps
  <2> QED BY <1>10, <2>1, <2>2 DEF LeaseEnds
<1>11. CASE UNCHANGED vars
  BY <1>4, <1>11 DEF vars
<1>12. CASE \/ \E m \in wire : ServerIngests(m)
            \/ \E a \in Accounts : OtherHome(a) \/ SignIn(a)
            \/ \E e \in Events : UsageDelete(e)
            \/ Record
  BY <1>4, <1>12 DEF ServerIngests, OtherHome, SignIn, UsageDelete, Record
<1> QED BY <1>5, <1>6, <1>7, <1>8, <1>9, <1>10, <1>11, <1>12 DEF Next

(***************************************************************************)
(* Which identities have been given out                                    *)
(***************************************************************************)

\* Every identity in the ledger, in a batch, in a request or in the service
\* belongs to a recorded event or came from another home.
Issued == 1 .. high \union {Foreign}

Given ==
  /\ \A e \in Events : copy[e] = 0 \/ (e <= high /\ copy[e] \in Issued)
  /\ \A p \in Procs : procs[p].ids \subseteq Issued
  /\ \A m \in wire : m.ids \subseteq Issued
  /\ \A a \in Accounts : server[a].records \subseteq Issued

LEMMA InitGiven == Init => Given
BY DEF Init, Given, Idle

LEMMA HighGrows ==
  ASSUME Types, [Next]_vars
  PROVE  high <= high' /\ Issued \subseteq Issued'
<1>1. high \in Nat /\ high' \in Nat
  BY NextTypes DEF Types, TypeOK
<1>2. ASSUME NEW p \in Procs, RestoreApply(p) PROVE high <= high'
  <2> DEFINE n == Cardinality(NewIds(procs[p].ids))
  <2>1. IsFiniteSet(1 .. Foreign)
    BY FS_Interval, ConstantTypes
  <2>2. NewIds(procs[p].ids) \subseteq 1 .. Foreign
    BY DEF NewIds, Types, TypeOK, Processes, Ids
  <2>3. n \in Nat
    BY <2>1, <2>2, FS_Subset, FS_CardinalityType
  <2>4. high' = high + n
    BY <1>2 DEF RestoreApply
  <2> HIDE DEF n
  <2> QED BY <1>1, <2>3, <2>4
<1>3. high <= high'
  <2>1. UNCHANGED high => high <= high'
    BY <1>1
  <2>2. Record => high <= high'
    BY <1>1 DEF Record
  <2> QED BY <1>2, <2>1, <2>2, DatabaseSteps DEF localVars, DrainCapture, HistoryPage,
             UsageDelete
<1> QED BY <1>1, <1>3 DEF Issued

LEMMA BatchIssued ==
  ASSUME Types, Given, NEW b
  PROVE  Batch(b) \subseteq Issued
<1> DEFINE S == {e \in raw : [b |-> b, id |-> Id(e)] \in queued \ acked}
<1>1. FirstOf(S, PageSize) \subseteq raw
  BY DEF FirstOf
<1>2. \A e \in raw : Id(e) \in Issued
  BY IdTypes DEF Given, Id, Issued
<1> HIDE DEF S
<1>3. Batch(b) = {Id(e) : e \in FirstOf(S, PageSize)}
  BY DEF Batch, S
<1> QED BY <1>1, <1>2, <1>3

\* What a step may do to the requests and to the records of the service.
LEMMA WireSteps ==
  ASSUME [Next]_vars
  PROVE  \/ \E p \in Procs : DrainSend(p) \/ DrainRefresh(p)
         \/ \E m \in wire : ServerIngests(m)
         \/ UNCHANGED wire
<1>1. ASSUME NEW p \in Procs,
             Enabling(p) \/ Disabling(p) \/ Selecting(p) \/ Restoring(p) \/ Deleting(p)
      PROVE  UNCHANGED wire
  BY <1>1 DEF Enabling, EnableStart, EnableStatus, EnableCall, EnableCallFails, EnablePause,
     EnableOpen, EnableRefused, EnableSave, EnableSaveFails, EnableUndo, Disabling,
     DisableStart, DisablePause, DisableSave, Selecting, HistoryStart, HistoryPage, HistoryEnd,
     Restoring, RestoreStart, RestoreFetch, RestoreApply, RestoreFails, Deleting, DeleteStart,
     DeleteCall, DeleteCallFails, DeletePause, DeleteSave
<1>2. ASSUME NEW p \in Procs, Draining(p)
      PROVE  DrainSend(p) \/ DrainRefresh(p) \/ UNCHANGED wire
  BY <1>2 DEF Draining, DrainStart, DrainLease, DrainStatus, DrainCapture, DrainStops,
     DrainAnswer, DrainFails, DrainAck
<1>3. ASSUME \/ \E p \in Procs : Crash(p)
             \/ \E a \in Accounts : OtherHome(a) \/ SignIn(a)
             \/ \E e \in Events : UsageDelete(e)
             \/ Record \/ LeaseEnds
      PROVE  UNCHANGED wire
  BY <1>3 DEF Crash, OtherHome, SignIn, UsageDelete, Record, LeaseEnds
<1> QED BY <1>1, <1>2, <1>3 DEF Next, vars

LEMMA ServerSteps ==
  ASSUME Types, [Next]_vars, NEW a \in Accounts
  PROVE  \/ server'[a].records \subseteq server[a].records \union {Foreign}
         \/ \E m \in wire : server'[a].records \subseteq server[a].records \union m.ids
<1>0. server \in [Accounts -> [gen : 0 .. MaxGen, enabled : BOOLEAN, records : SUBSET Ids]]
  BY DEF Types, TypeOK
<1>1. ASSUME NEW c \in Accounts, NEW b, ServerEnables(c, b) \/ ServerDeletes(c, b)
      PROVE  server'[a].records \subseteq server[a].records
  <2>1. CASE server' = [server EXCEPT ![c].gen = 1, ![c].enabled = TRUE]
    BY <1>0, <2>1
  <2>2. CASE server' = [server EXCEPT ![c].enabled = TRUE]
    BY <1>0, <2>2
  <2>3. CASE ServerDeletes(c, b)
    BY <1>0, <2>3 DEF ServerDeletes
  <2> QED BY <1>1, <2>1, <2>2, <2>3 DEF ServerEnables
<1>2. ASSUME NEW p \in Procs,
             EnableCall(p) \/ EnableCallFails(p) \/ DeleteCall(p) \/ DeleteCallFails(p)
      PROVE  server'[a].records \subseteq server[a].records
  <2>1. procs[p].token \in Accounts
    BY <1>2 DEF EnableCall, EnableCallFails, DeleteCall, DeleteCallFails, Types, Carries,
       SignedPCs
  <2> QED BY <1>1, <1>2, <2>1 DEF EnableCall, EnableCallFails, DeleteCall, DeleteCallFails
<1>3. ASSUME NEW p \in Procs,
             Enabling(p) \/ Disabling(p) \/ Selecting(p) \/ Restoring(p) \/ Deleting(p)
      PROVE  \/ EnableCall(p) \/ EnableCallFails(p) \/ DeleteCall(p) \/ DeleteCallFails(p)
             \/ UNCHANGED server
  BY <1>3 DEF Enabling, EnableStart, EnableStatus, EnablePause,
     EnableOpen, EnableRefused, EnableSave, EnableSaveFails, EnableUndo, Disabling,
     DisableStart, DisablePause, DisableSave, Selecting, HistoryStart, HistoryPage, HistoryEnd,
     Restoring, RestoreStart, RestoreFetch, RestoreApply, RestoreFails, Deleting, DeleteStart,
     DeletePause, DeleteSave
<1>4. ASSUME NEW p \in Procs, Draining(p) PROVE UNCHANGED server
  BY <1>4 DEF Draining, DrainStart, DrainLease, DrainStatus, DrainCapture, DrainStops,
     DrainSend, DrainAnswer, DrainFails, DrainRefresh, DrainAck
<1>5. ASSUME NEW m \in wire, ServerIngests(m)
      PROVE  server'[a].records \subseteq server[a].records \union m.ids
  <2>1. CASE server' = [server EXCEPT ![m.token].records = server[m.token].records \union m.ids]
    BY <1>0, <2>1
  <2> QED BY <1>5, <2>1 DEF ServerIngests
<1>6. ASSUME NEW c \in Accounts, OtherHome(c)
      PROVE  server'[a].records \subseteq server[a].records \union {Foreign}
  <2>1. CASE server' = [server EXCEPT ![c].records = server[c].records \union {Foreign}]
    BY <1>0, <2>1
  <2>2. CASE \E b : ServerEnables(c, b) \/ ServerDeletes(c, b)
    BY <1>1, <2>2
  <2> QED BY <1>6, <2>1, <2>2 DEF OtherHome
<1>7. ASSUME \/ \E p \in Procs : Crash(p)
             \/ \E c \in Accounts : SignIn(c)
             \/ \E e \in Events : UsageDelete(e)
             \/ Record \/ LeaseEnds \/ UNCHANGED vars
      PROVE  UNCHANGED server
  BY <1>7 DEF Crash, SignIn, UsageDelete, Record, LeaseEnds, vars
<1> QED BY <1>2, <1>3, <1>4, <1>5, <1>6, <1>7 DEF Next

LEMMA NextGiven ==
  ASSUME Types, Given, [Next]_vars
  PROVE  Given'
<1>1. high <= high' /\ Issued \subseteq Issued'
  BY HighGrows
<1>2. ASSUME NEW q \in Procs PROVE procs'[q].ids \subseteq Issued'
  BY <1>1, BatchSteps, BatchIssued DEF Given, Keeps
<1>3. ASSUME NEW m \in wire' PROVE m.ids \subseteq Issued'
  <2>1. m \in wire \/ \E p \in Procs : m.ids = Batch(procs[p].b)
    <3>1. ASSUME NEW p \in Procs, DrainSend(p)
          PROVE  m \in wire \/ \E r \in Procs : m.ids = Batch(procs[r].b)
      BY <1>3, <3>1 DEF DrainSend
    <3>2. ASSUME NEW p \in Procs, DrainRefresh(p) PROVE m \in wire
      BY <1>3, <3>2 DEF DrainRefresh
    <3>3. ASSUME NEW n \in wire, ServerIngests(n) PROVE m \in wire
      BY <1>3, <3>3 DEF ServerIngests
    <3>4. CASE UNCHANGED wire
      BY <1>3, <3>4
    <3> QED BY <3>1, <3>2, <3>3, <3>4, WireSteps
  <2> QED BY <1>1, <2>1, BatchIssued DEF Given
<1>4. ASSUME NEW a \in Accounts PROVE server'[a].records \subseteq Issued'
  BY <1>1, ServerSteps DEF Given, Issued
<1>5. ASSUME NEW e \in Events PROVE copy'[e] = 0 \/ (e <= high' /\ copy'[e] \in Issued')
  <2>1. high \in Nat /\ high' \in Nat /\ e \in Nat
    BY NextTypes DEF Types, TypeOK, Events
  <2>2. CASE copy'[e] = copy[e]
    BY <1>1, <2>1, <2>2 DEF Given
  <2>3. ASSUME NEW p \in Procs, RestoreApply(p)
        PROVE  copy'[e] = 0 \/ (e <= high' /\ copy'[e] \in Issued')
    <3> DEFINE new == NewIds(procs[p].ids)
               n == Cardinality(new)
    <3>1. high' = high + n
      BY <2>3 DEF RestoreApply
    <3>2. PICK order \in [high + 1 .. high + n -> new] :
            copy' = [f \in Events |-> IF f \in high + 1 .. high + n THEN order[f]
                                     ELSE copy[f]]
      BY <2>3 DEF RestoreApply
    <3>3. new \subseteq Issued
      BY DEF Given, NewIds
    <3>4. CASE e \in high + 1 .. high'
      <4>1. copy'[e] = order[e] /\ order[e] \in new
        BY <3>1, <3>2, <3>4, Zenon
      <4>2. e <= high'
        BY <2>1, <3>4
      <4> QED BY <1>1, <3>3, <4>1, <4>2
    <3>5. CASE e \notin high + 1 .. high'
      <4>1. copy'[e] = copy[e]
        BY <3>1, <3>2, <3>5, Zenon
      <4> QED BY <2>2, <4>1
    <3> QED BY <3>4, <3>5
  <2>4. copy' = copy \/ \E p \in Procs : RestoreApply(p)
    BY DatabaseSteps DEF localVars, DrainCapture, HistoryPage, UsageDelete, Record
  <2> QED BY <2>2, <2>3, <2>4
<1> QED BY <1>2, <1>3, <1>4, <1>5 DEF Given

(***************************************************************************)
(* What changes the ledger                                                 *)
(***************************************************************************)

LEMMA RestoreApplyDatabase ==
  ASSUME Types, Database, NEW p \in Procs, RestoreApply(p), [Next]_vars
  PROVE  Database'
<1> DEFINE new == NewIds(procs[p].ids)
           n == Cardinality(new)
           fresh == high + 1 .. high + n
<1>1. /\ raw' = raw \union fresh
      /\ UNCHANGED <<windows, queued>>
  BY DEF RestoreApply, queueVars
<1>2. PICK order \in [fresh -> new] :
        /\ \A e, f \in fresh : order[e] = order[f] => e = f
        /\ copy' = [e \in Events |-> IF e \in fresh THEN order[e] ELSE copy[e]]
  BY DEF RestoreApply
<1>3. \A id \in new : ~Known(id) /\ id # 0
  BY ConstantTypes DEF NewIds, Types, TypeOK, Processes, Ids
<1>4. /\ high \in Nat /\ high' \in Nat /\ high <= high'
      /\ raw \subseteq 1 .. high /\ raw' \subseteq Events
  <2>1. Types' /\ high <= high'
    BY HighGrows, NextTypes
  <2>2. high' \in 0 .. MaxEvent /\ raw' \subseteq 1 .. high'
    BY <2>1 DEF Types, TypeOK
  <2>3. raw' \subseteq Events
    BY <2>2, ConstantTypes DEF Events
  <2> QED BY <2>1, <2>2, <2>3 DEF Types, TypeOK
<1>5. \A e \in raw : e \notin fresh
  BY <1>4
<1> HIDE DEF new
<1> HIDE DEF fresh
<1>6. \A e \in raw : e \in Events /\ copy'[e] = copy[e] /\ Id(e)' = Id(e)
  <2>1. ASSUME NEW e \in raw PROVE e \in Events /\ copy'[e] = copy[e]
    BY <1>1, <1>2, <1>4, <1>5, Zenon
  <2> QED BY <2>1 DEF Id
<1>7. \A e \in fresh : e \in Events /\ Id(e)' = order[e] /\ order[e] \in new
                       /\ copy'[e] # 0
  <2>1. ASSUME NEW e \in fresh
        PROVE  e \in Events /\ copy'[e] = order[e] /\ order[e] \in new
    BY <1>1, <1>2, <1>4, <2>1, Zenon
  <2> QED BY <1>3, <2>1 DEF Id
<1>8. IdentitiesUnique'
  <2> SUFFICES ASSUME NEW e \in raw', NEW f \in raw', Id(e)' = Id(f)' PROVE e = f
    BY DEF IdentitiesUnique
  <2>1. CASE e \in raw /\ f \in raw
    BY <1>6, <2>1 DEF Database, IdentitiesUnique
  <2>2. CASE e \in raw /\ f \in fresh
    BY <1>3, <1>6, <1>7, <2>2 DEF Known
  <2>3. CASE e \in fresh /\ f \in raw
    BY <1>3, <1>6, <1>7, <2>3 DEF Known
  <2>4. CASE e \in fresh /\ f \in fresh
    BY <1>2, <1>7, <2>4
  <2> QED BY <1>1, <2>1, <2>2, <2>3, <2>4
<1>9. SelectionsAreOwn'
  BY <1>1, <1>6 DEF Database, SelectionsAreOwn
<1>10. WindowsWellFormed'
  <2>1. ASSUME NEW w \in windows
        PROVE  w.scan <= Reach(w)' /\ Reach(w)' <= high'
    BY <1>1, <1>4, WindowTypes DEF Reach, Database, WindowsWellFormed
  <2> QED BY <1>1, <2>1 DEF Database, WindowsWellFormed
<1>11. CursorNeverSkips'
  <2> SUFFICES ASSUME NEW w \in windows, NEW e \in raw', copy'[e] = 0,
                      w.start < e, e <= w.scan
               PROVE  [b |-> w.b, id |-> e] \in queued
    BY <1>1 DEF CursorNeverSkips
  <2>1. e \in raw
    BY <1>1, <1>7
  <2> QED BY <1>6, <2>1 DEF Database, CursorNeverSkips
<1> QED BY <1>8, <1>9, <1>10, <1>11 DEF Database

LEMMA RecordDatabase ==
  ASSUME Types, Database, Given, Record
  PROVE  Database'
<1>1. /\ high < MaxEvent /\ high' = high + 1 /\ raw' = raw \union {high + 1}
      /\ UNCHANGED <<copy, windows, queued>>
  BY DEF Record, queueVars
<1>2. high \in Nat /\ raw \subseteq 1 .. high /\ high + 1 \in Events
  BY <1>1, ConstantTypes DEF Types, TypeOK, Events
<1>3. copy[high + 1] = 0
  BY <1>2 DEF Given, Issued, Types, TypeOK
<1>4. \A e : Id(e)' = Id(e)
  BY <1>1 DEF Id
<1>5. \A e \in raw : Id(e) \in Issued /\ e \in Nat
  BY IdTypes DEF Given, Id, Issued
<1>6. high + 1 \notin Issued
  BY <1>1, <1>2, ConstantTypes DEF Issued, Foreign
<1>7. IdentitiesUnique'
  <2> SUFFICES ASSUME NEW e \in raw', NEW f \in raw', Id(e) = Id(f) PROVE e = f
    BY <1>4 DEF IdentitiesUnique
  <2>1. Id(high + 1) = high + 1
    BY <1>3 DEF Id
  <2> QED BY <1>1, <1>5, <1>6, <2>1 DEF Database, IdentitiesUnique
<1>8. SelectionsAreOwn'
  BY <1>1 DEF Database, SelectionsAreOwn
<1>9. WindowsWellFormed'
  <2>1. ASSUME NEW w \in windows
        PROVE  w.scan <= Reach(w)' /\ Reach(w)' <= high'
    BY <1>1, WindowTypes DEF Reach, Database, WindowsWellFormed
  <2> QED BY <1>1, <2>1 DEF Database, WindowsWellFormed
<1>10. CursorNeverSkips'
  <2> SUFFICES ASSUME NEW w \in windows, NEW e \in raw', copy[e] = 0,
                      w.start < e, e <= w.scan
               PROVE  [b |-> w.b, id |-> e] \in queued
    BY <1>1 DEF CursorNeverSkips
  <2>1. w.scan <= Reach(w) /\ Reach(w) <= high
    BY DEF Database, WindowsWellFormed
  <2>2. e # high + 1
    BY <2>1, WindowTypes
  <2>3. e \in raw
    BY <1>1, <2>2
  <2> QED BY <2>3 DEF Database, CursorNeverSkips
<1> QED BY <1>7, <1>8, <1>9, <1>10 DEF Database

LEMMA UsageDeleteDatabase ==
  ASSUME Types, Database, NEW e \in Events, UsageDelete(e)
  PROVE  Database'
<1>1. /\ e \in raw /\ raw' = raw \ {e}
      /\ queued' = {q \in queued : q.id # Id(e)}
      /\ UNCHANGED <<high, copy, windows>>
  BY DEF UsageDelete
<1>2. \A f : Id(f)' = Id(f)
  BY <1>1 DEF Id
\* A selection that remains is not of the deleted event, and one of another
\* event remains.
<1>3. \A q \in queued : Id(q.id) = q.id
  BY DEF Database, SelectionsAreOwn, Id
<1>4. SelectionsAreOwn'
  BY <1>1, <1>3 DEF Database, SelectionsAreOwn
<1>5. IdentitiesUnique'
  BY <1>1, <1>2 DEF Database, IdentitiesUnique
<1>6. WindowsWellFormed'
  BY <1>1 DEF Database, WindowsWellFormed, Reach
<1>7. CursorNeverSkips'
  <2> SUFFICES ASSUME NEW w \in windows, NEW f \in raw', copy[f] = 0,
                      w.start < f, f <= w.scan
               PROVE  [b |-> w.b, id |-> f] \in queued'
    BY <1>1 DEF CursorNeverSkips
  <2>1. f \in raw /\ f # e /\ Id(f) = f
    BY <1>1 DEF Id
  <2>2. f # Id(e)
    BY <1>1, <2>1 DEF Database, IdentitiesUnique
  <2>3. [b |-> w.b, id |-> f] \in queued
    BY <2>1 DEF Database, CursorNeverSkips
  <2> QED BY <1>1, <2>2, <2>3
<1> QED BY <1>4, <1>5, <1>6, <1>7 DEF Database

LEMMA NextDatabase ==
  ASSUME Types, Given, Database, [Next]_vars
  PROVE  Database'
<1>1. CASE UNCHANGED <<localVars, windows, queued>>
  BY <1>1 DEF localVars, Database, IdentitiesUnique, SelectionsAreOwn, WindowsWellFormed,
     CursorNeverSkips, Id, Reach
<1> QED BY <1>1, DatabaseSteps, DrainCaptureDatabase, HistoryPageDatabase,
       RestoreApplyDatabase, OpenDatabase, CloseDatabase, RecordDatabase,
       UsageDeleteDatabase

(***************************************************************************)
(* Requests and acknowledgements                                           *)
(***************************************************************************)

\* What a command is about to acknowledge, the service has accepted under the
\* command's binding.
OnTheWay ==
  \A p \in Procs : procs[p].pc = "drain_ack"
    => \A i \in procs[p].ids : [b |-> procs[p].b, id |-> i] \in accepted

Traffic == SentWithOwnAccount /\ AckHonest /\ OnTheWay

LEMMA InitTraffic == Init => Traffic
BY DEF Init, Traffic, SentWithOwnAccount, AckHonest, OnTheWay, Idle

\* What a step may do to the acknowledgements.
LEMMA AckSteps ==
  ASSUME [Next]_vars
  PROVE  (\E p \in Procs : DrainAck(p)) \/ acked' \subseteq acked
<1> USE DEF queueVars
<1>1. ASSUME NEW p \in Procs, Enabling(p) \/ Disabling(p) \/ Selecting(p)
      PROVE  UNCHANGED acked
  BY <1>1 DEF Enabling, EnableStart, EnableStatus, EnableCall, EnableCallFails, EnablePause,
     EnableOpen, EnableRefused, EnableSave, EnableSaveFails, EnableUndo, Disabling,
     DisableStart, DisablePause, DisableSave, Selecting, HistoryStart, HistoryPage, HistoryEnd
<1>2. ASSUME NEW p \in Procs, Restoring(p) \/ Deleting(p) PROVE UNCHANGED acked
  BY <1>2 DEF Restoring, RestoreStart, RestoreFetch, RestoreApply, RestoreFails, Deleting,
     DeleteStart, DeleteCall, DeleteCallFails, DeletePause, DeleteSave
<1>3. ASSUME NEW p \in Procs, Draining(p) PROVE DrainAck(p) \/ UNCHANGED acked
  BY <1>3 DEF Draining, DrainStart, DrainLease, DrainStatus, DrainCapture, DrainStops,
     DrainSend, DrainAnswer, DrainFails, DrainRefresh
<1>4. ASSUME \/ \E p \in Procs : Crash(p)
             \/ \E m \in wire : ServerIngests(m)
             \/ \E a \in Accounts : OtherHome(a) \/ SignIn(a)
             \/ \E e \in Events : UsageDelete(e)
             \/ Record \/ LeaseEnds
      PROVE  acked' \subseteq acked
  BY <1>4 DEF Crash, ServerIngests, OtherHome, SignIn, UsageDelete, Record, LeaseEnds
<1> QED BY <1>1, <1>2, <1>3, <1>4 DEF Next, vars

LEMMA AcceptedGrows ==
  ASSUME [Next]_vars
  PROVE  accepted \subseteq accepted'
<1> USE DEF historyVars
<1>1. ASSUME NEW p \in Procs, Enabling(p) \/ Disabling(p) \/ Selecting(p)
      PROVE  UNCHANGED accepted
  BY <1>1 DEF Enabling, EnableStart, EnableStatus, EnableCall, EnableCallFails, EnablePause,
     EnableOpen, EnableRefused, EnableSave, EnableSaveFails, EnableUndo, Disabling,
     DisableStart, DisablePause, DisableSave, Selecting, HistoryStart, HistoryPage, HistoryEnd
<1>2. ASSUME NEW p \in Procs, Restoring(p) \/ Deleting(p) PROVE UNCHANGED accepted
  BY <1>2 DEF Restoring, RestoreStart, RestoreFetch, RestoreApply, RestoreFails, Deleting,
     DeleteStart, DeleteCall, DeleteCallFails, DeletePause, DeleteSave
<1>3. ASSUME NEW p \in Procs, Draining(p) PROVE UNCHANGED accepted
  BY <1>3 DEF Draining, DrainStart, DrainLease, DrainStatus, DrainCapture, DrainStops,
     DrainSend, DrainAnswer, DrainFails, DrainRefresh, DrainAck
<1>4. ASSUME \/ \E p \in Procs : Crash(p)
             \/ \E m \in wire : ServerIngests(m)
             \/ \E a \in Accounts : OtherHome(a) \/ SignIn(a)
             \/ \E e \in Events : UsageDelete(e)
             \/ Record \/ LeaseEnds
      PROVE  accepted \subseteq accepted'
  BY <1>4 DEF Crash, ServerIngests, OtherHome, SignIn, UsageDelete, Record, LeaseEnds
<1> QED BY <1>1, <1>2, <1>3, <1>4 DEF Next, vars

LEMMA NextTraffic ==
  ASSUME Types, Traffic, [Next]_vars
  PROVE  Traffic'
<1>1. accepted \subseteq accepted'
  BY AcceptedGrows
<1>2. ASSUME NEW m \in wire' PROVE m.token = m.b.account
  <2>1. ASSUME NEW p \in Procs, DrainSend(p) PROVE m.token = m.b.account
    <3>1. procs[p].token = procs[p].b.account
      BY <2>1 DEF DrainSend, Types, Carries, CheckedPCs
    <3> QED BY <1>2, <2>1, <3>1 DEF DrainSend, Traffic, SentWithOwnAccount
  <2>2. ASSUME m \in wire PROVE m.token = m.b.account
    BY <2>2 DEF Traffic, SentWithOwnAccount
  <2>3. m \in wire \/ \E p \in Procs : DrainSend(p)
    BY <1>2, WireSteps DEF DrainRefresh, ServerIngests
  <2> QED BY <2>1, <2>2, <2>3
<1>3. acked' \subseteq accepted'
  <2>1. ASSUME NEW p \in Procs, DrainAck(p) PROVE acked' \subseteq accepted'
    <3>1. ASSUME NEW r \in AckRows(p) PROVE r \in accepted
      <4>1. r = [b |-> procs[p].b, id |-> r.id] /\ r.id \in procs[p].ids
        BY DEF AckRows, Types, TypeOK, Rows
      <4>2. procs[p].pc = "drain_ack"
        BY <2>1 DEF DrainAck
      <4> QED BY <4>1, <4>2 DEF Traffic, OnTheWay
    <3> QED BY <1>1, <2>1, <3>1 DEF DrainAck, Traffic, AckHonest
  <2>2. ASSUME acked' \subseteq acked PROVE acked' \subseteq accepted'
    BY <1>1, <2>2 DEF Traffic, AckHonest
  <2> QED BY <2>1, <2>2, AckSteps
<1>4. ASSUME NEW q \in Procs, procs'[q].pc = "drain_ack", NEW i \in procs'[q].ids
      PROVE  [b |-> procs'[q].b, id |-> i] \in accepted'
  <2>1. /\ procs'[q].b = procs[q].b /\ procs'[q].ids = procs[q].ids
        /\ procs[q].pc = "drain_ack" \/ Acknowledged(q) = procs[q].ids
    BY <1>4, BatchSteps DEF Keeps
  <2>2. [b |-> procs[q].b, id |-> i] \in accepted
    BY <2>1 DEF Acknowledged, Traffic, OnTheWay
  <2> QED BY <1>1, <2>1, <2>2
<1> QED BY <1>2, <1>3, <1>4 DEF Traffic, SentWithOwnAccount, AckHonest, OnTheWay

(***************************************************************************)
(* The theorems                                                            *)
(***************************************************************************)

Inv == Types /\ CommandsExclusive /\ Given /\ Database /\ Traffic

\* Inv is inductive: it holds in every reachable state, whatever the number of
\* processes, accounts, events and generations and whatever the page size.
THEOREM Invariance == Spec => []Inv
<1>1. Init => Inv
  BY InitTypes, InitExclusive, InitGiven, InitDatabase, InitTraffic DEF Inv
<1>2. Inv /\ [Next]_vars => Inv'
  BY NextTypes, NextExclusive, NextGiven, NextDatabase, NextTraffic DEF Inv
<1> QED BY <1>1, <1>2, PTL DEF Spec

\* The variables stay in their domains, and queue rows, acknowledgements and
\* interrupted consents belong to real bindings.
THEOREM TypeCorrect == Spec => []TypeOK
<1>1. Inv => TypeOK
  BY DEF Inv, Types
<1> QED BY <1>1, Invariance, PTL

\* The lease of queue.rs keeps commands apart: of all commands past
\* Lease::acquire that are inside their 40 seconds, at most one is running.
THEOREM Exclusive == Spec => []CommandsExclusive
<1>1. Inv => CommandsExclusive
  BY DEF Inv
<1> QED BY <1>1, Invariance, PTL

\* Capture never passes an own event of a consent interval without queueing it.
THEOREM NeverSkips == Spec => []CursorNeverSkips
<1>1. Inv => CursorNeverSkips
  BY DEF Inv, Database
<1> QED BY <1>1, Invariance, PTL

\* The statements that open, close and advance consent intervals never
\* violate the CHECKs of usage_backup_windows nor leave two of them overlapping.
THEOREM WellFormed == Spec => []WindowsWellFormed
<1>1. Inv => WindowsWellFormed
  BY DEF Inv, Database
<1> QED BY <1>1, Invariance, PTL

\* What is queued for upload is an event recorded in this home, never one that
\* restore imported.
THEOREM OwnSelections == Spec => []SelectionsAreOwn
<1>1. Inv => SelectionsAreOwn
  BY DEF Inv, Database
<1> QED BY <1>1, Invariance, PTL

\* Restore never brings an identity into the ledger a second time.
THEOREM UniqueIdentities == Spec => []IdentitiesUnique
<1>1. Inv => IdentitiesUnique
  BY DEF Inv, Database
<1> QED BY <1>1, Invariance, PTL

\* Every ingest request carries the credentials of the account its rows were
\* queued for.
THEOREM OwnAccount == Spec => []SentWithOwnAccount
<1>1. Inv => SentWithOwnAccount
  BY DEF Inv, Traffic
<1> QED BY <1>1, Invariance, PTL

\* Only rows the service accepted under their own binding are acknowledged.
THEOREM HonestAcks == Spec => []AckHonest
<1>1. Inv => AckHonest
  BY DEF Inv, Traffic
<1> QED BY <1>1, Invariance, PTL
(***************************************************************************)
(* A pause leaks only after an interruption                                *)
(***************************************************************************)

\* No command has outlived its lease: that would count for every binding.
InTime == interrupted # Bindings
LateIsKnown == InTime => \A p \in Procs : ~procs[p].late

EnabledPCs == {"enable_pause", "enable_open", "enable_save", "enable_undo"}
OpenedPCs == {"enable_save", "enable_undo"}
PlacePCs == EnabledPCs \union {"disable_pause", "disable_save", "delete_pause", "delete_save"}

\* A binding whose intervals may still be captured: the settings name it, an
\* enable command is about to, or the service has not revoked it.
Watched(b) ==
  \/ settings = [enabled |-> TRUE, binding |-> b]
  \/ server[b.account].gen <= b.gen
  \/ \E p \in Procs : procs[p].b = b /\ procs[p].pc \in EnabledPCs

\* What such an interval covers was recorded while backup was on, and an open
\* interval means that it still is.
Covered ==
  \A w \in windows, e \in raw :
    w.b \notin interrupted /\ Watched(w.b) /\ copy[e] = 0 /\ w.start < e /\ e <= Reach(w)
      => [b |-> w.b, id |-> e] \in consented
Owned == \A b \in Bindings \ interrupted : Watched(b) /\ OpenOf(b) # {} => BackingUp(b)

\* What a command between two of its effects knows of the settings.
Place(s) ==
  /\ s.pc \in EnabledPCs => server[s.b.account].gen >= s.b.gen
  /\ s.pc = "enable_pause" => settings.binding = s.prior
  /\ s.pc \in EnabledPCs \ {"enable_pause"} =>
       ~settings.enabled \/ settings.binding = s.b \/ OpenOf(settings.binding) = {}
  /\ s.pc \in {"disable_pause", "disable_save"} => settings.binding = s.b
  /\ s.pc = "disable_save" => OpenOf(s.b) = {}
  /\ s.pc \in {"delete_pause", "delete_save"} =>
       /\ settings.binding = s.prior /\ s.prior \in Bindings
       /\ ~(server[s.prior.account].gen <= s.prior.gen)

SavedIsGiven == settings.binding \in Bindings =>
  settings.binding.gen <= server[settings.binding.account].gen
Places == InTime => SavedIsGiven /\ \A p \in Procs : Place(procs[p])

Consent == LateIsKnown /\ Covered /\ Owned /\ Places /\ LeaksNeedInterruption

LEMMA InitConsent == Init => Consent
BY DEF Init, Consent, LateIsKnown, Covered, Owned, Places, LeaksNeedInterruption, SavedIsGiven,
   Place, Idle, NoBinding, Bindings, OpenOf, EnabledPCs, ConstantsAssumption

\* Inside the lease a command is alone at a place between two effects.
LEMMA Lone ==
  ASSUME Types, CommandsExclusive, LateIsKnown, InTime, NEW p \in Procs,
         Working(p) \/ lease = None
  PROVE  \A q \in Procs \ {p} : procs[q].pc \in {"idle", "drain_lease"}
BY ConstantTypes DEF LateIsKnown, CommandsExclusive, Working

LEMMA InterruptedGrows ==
  ASSUME Types, [Next]_vars
  PROVE  /\ interrupted \subseteq interrupted'
         /\ InTime' => InTime
<1> USE DEF historyVars
<1>1. ASSUME NEW p \in Procs, Enabling(p) \/ Disabling(p) \/ Selecting(p)
      PROVE  UNCHANGED interrupted
  BY <1>1 DEF Enabling, EnableStart, EnableStatus, EnableCall, EnableCallFails, EnablePause,
     EnableOpen, EnableRefused, EnableSave, EnableSaveFails, EnableUndo, Disabling,
     DisableStart, DisablePause, DisableSave, Selecting, HistoryStart, HistoryPage, HistoryEnd
<1>2. ASSUME NEW p \in Procs, Restoring(p) \/ Deleting(p) PROVE UNCHANGED interrupted
  BY <1>2 DEF Restoring, RestoreStart, RestoreFetch, RestoreApply, RestoreFails, Deleting,
     DeleteStart, DeleteCall, DeleteCallFails, DeletePause, DeleteSave
<1>3. ASSUME NEW p \in Procs, Draining(p) PROVE UNCHANGED interrupted
  BY <1>3 DEF Draining, DrainStart, DrainLease, DrainStatus, DrainCapture, DrainStops,
     DrainSend, DrainAnswer, DrainFails, DrainRefresh, DrainAck
<1>4. interrupted \subseteq Bindings /\ interrupted' \subseteq Bindings
  BY NextTypes DEF Types, TypeOK
<1>5. ASSUME \/ \E p \in Procs : Crash(p)
             \/ \E m \in wire : ServerIngests(m)
             \/ \E a \in Accounts : OtherHome(a) \/ SignIn(a)
             \/ \E e \in Events : UsageDelete(e)
             \/ Record \/ LeaseEnds
      PROVE  interrupted \subseteq interrupted'
  BY <1>4, <1>5 DEF Crash, ServerIngests, OtherHome, SignIn, UsageDelete, Record, LeaseEnds
<1>6. interrupted \subseteq interrupted'
  BY <1>1, <1>2, <1>3, <1>5 DEF Next, vars
<1> QED BY <1>4, <1>6 DEF InTime

\* Generations only grow.
LEMMA GenGrows ==
  ASSUME Types, [Next]_vars, NEW a \in Accounts
  PROVE  server[a].gen <= server'[a].gen /\ server[a].gen \in Nat /\ server'[a].gen \in Nat
<1>0. /\ server \in [Accounts -> [gen : 0 .. MaxGen, enabled : BOOLEAN, records : SUBSET Ids]]
      /\ server' \in [Accounts -> [gen : 0 .. MaxGen, enabled : BOOLEAN, records : SUBSET Ids]]
  BY NextTypes DEF Types, TypeOK
<1>1. server[a].gen \in Nat /\ server'[a].gen \in Nat
  BY <1>0
<1>2. ASSUME NEW c \in Accounts, NEW b, ServerEnables(c, b) \/ ServerDeletes(c, b)
      PROVE  server[a].gen <= server'[a].gen
  <2>1. CASE server' = [server EXCEPT ![c].gen = 1, ![c].enabled = TRUE] /\ server[c].gen = 0
    <3>1. server'[a].gen = server[a].gen \/ (a = c /\ server'[a].gen = 1)
      BY <1>0, <2>1
    <3> QED BY <1>1, <2>1, <3>1
  <2>2. CASE server' = [server EXCEPT ![c].enabled = TRUE]
    BY <1>0, <1>1, <2>2
  <2>3. CASE ServerDeletes(c, b)
    <3>1. server'[a].gen \in {server[a].gen, server[a].gen + 1}
      BY <1>0, <2>3 DEF ServerDeletes
    <3> QED BY <1>1, <3>1
  <2> QED BY <1>2, <2>1, <2>2, <2>3 DEF ServerEnables
<1>3. ASSUME NEW p \in Procs,
             EnableCall(p) \/ EnableCallFails(p) \/ DeleteCall(p) \/ DeleteCallFails(p)
      PROVE  server[a].gen <= server'[a].gen
  <2>1. procs[p].token \in Accounts
    BY <1>3 DEF EnableCall, EnableCallFails, DeleteCall, DeleteCallFails, Types, Carries,
       SignedPCs
  <2> QED BY <1>1, <1>2, <1>3, <2>1 DEF EnableCall, EnableCallFails, DeleteCall, DeleteCallFails
<1>4. ASSUME NEW p \in Procs,
             Enabling(p) \/ Disabling(p) \/ Selecting(p) \/ Restoring(p) \/ Deleting(p)
      PROVE  \/ EnableCall(p) \/ EnableCallFails(p) \/ DeleteCall(p) \/ DeleteCallFails(p)
             \/ UNCHANGED server
  BY <1>4 DEF Enabling, EnableStart, EnableStatus, EnablePause,
     EnableOpen, EnableRefused, EnableSave, EnableSaveFails, EnableUndo, Disabling,
     DisableStart, DisablePause, DisableSave, Selecting, HistoryStart, HistoryPage, HistoryEnd,
     Restoring, RestoreStart, RestoreFetch, RestoreApply, RestoreFails, Deleting, DeleteStart,
     DeletePause, DeleteSave
<1>5. ASSUME NEW p \in Procs, Draining(p) PROVE UNCHANGED server
  BY <1>5 DEF Draining, DrainStart, DrainLease, DrainStatus, DrainCapture, DrainStops,
     DrainSend, DrainAnswer, DrainFails, DrainRefresh, DrainAck
<1>6. ASSUME NEW m \in wire, ServerIngests(m) PROVE server'[a].gen = server[a].gen
  BY <1>0, <1>6 DEF ServerIngests
<1>7. ASSUME NEW c \in Accounts, OtherHome(c) PROVE server[a].gen <= server'[a].gen
  <2>1. CASE server' = [server EXCEPT ![c].records = server[c].records \union {Foreign}]
    BY <1>0, <1>1, <2>1
  <2>2. CASE \E b : ServerEnables(c, b) \/ ServerDeletes(c, b)
    BY <1>2, <2>2
  <2> QED BY <1>7, <2>1, <2>2 DEF OtherHome
<1>8. ASSUME \/ \E p \in Procs : Crash(p)
             \/ \E c \in Accounts : SignIn(c)
             \/ \E e \in Events : UsageDelete(e)
             \/ Record \/ LeaseEnds \/ UNCHANGED vars
      PROVE  UNCHANGED server
  BY <1>8 DEF Crash, SignIn, UsageDelete, Record, LeaseEnds, vars
<1>9. UNCHANGED server => server[a].gen <= server'[a].gen
  BY <1>1
<1>10. server[a].gen <= server'[a].gen
  BY <1>1, <1>3, <1>4, <1>5, <1>6, <1>7, <1>8, <1>9 DEF Next
<1> QED BY <1>1, <1>10

\* The steps with an effect on the settings or on what an enable, a disable
\* or a delete command knows of them.
Effect(p) ==
  \/ EnableCall(p) \/ EnablePause(p) \/ EnableOpen(p) \/ EnableSave(p) \/ EnableUndo(p)
  \/ DisableStart(p) \/ DisablePause(p) \/ DisableSave(p)
  \/ DeleteCall(p) \/ DeletePause(p) \/ DeleteSave(p)

\* Any other step leaves a command at its place, or away from all of them; it
\* gives up between opening and saving only by a crash.
Quietly(q) ==
  \/ /\ procs'[q].b = procs[q].b /\ procs'[q].prior = procs[q].prior
     /\ \/ procs'[q].pc = procs[q].pc
        \/ procs[q].pc = "enable_save" /\ procs'[q].pc = "enable_undo"
  \/ /\ procs'[q].pc \notin PlacePCs
     /\ procs[q].pc \in OpenedPCs => procs[q].b \in interrupted'

InTimeStays(q) == InTime' /\ procs'[q].late => procs[q].late

Moves(q) == InTimeStays(q) /\ (Quietly(q) \/ \E p \in Procs : Effect(p))

LEMMA MoveSteps ==
  ASSUME Types, [Next]_vars, NEW q \in Procs
  PROVE  Moves(q)
<1> USE DEF PlacePCs, EnabledPCs, OpenedPCs
<1>0. \A p \in Procs : procs[p] \in Processes
  BY DEF Types, TypeOK
<1>1. ASSUME NEW p \in Procs, NEW s, Step(p, s), s.late => procs[p].late,
             s.pc \notin PlacePCs, procs[p].pc \notin OpenedPCs
      PROVE  Moves(q)
  BY <1>1 DEF Step, Types, TypeOK, Moves, Quietly, InTimeStays
<1>2. ASSUME NEW p \in Procs, NEW pc, Goto(p, pc), pc \notin PlacePCs,
             procs[p].pc \notin OpenedPCs
      PROVE  Moves(q)
  <2>1. procs'[q].late = procs[q].late /\ procs'[q].pc \in {procs[q].pc, pc}
        /\ (procs'[q] = procs[q] \/ p = q)
    BY <1>0, <1>2 DEF Goto, Types, TypeOK, Processes
  <2>2. CASE procs'[q] = procs[q]
    BY <2>2 DEF Moves, Quietly, InTimeStays
  <2>3. CASE p = q
    <3>1. procs'[q].pc = pc
      BY <1>0, <1>2, <2>3 DEF Goto, Types, TypeOK, Processes
    <3> QED BY <1>2, <2>1, <2>3, <3>1 DEF Moves, Quietly, InTimeStays
  <2> QED BY <2>1, <2>2, <2>3
<1>3. ASSUME NEW p \in Procs, Exit(p), procs[p].pc \notin OpenedPCs PROVE Moves(q)
  <2>1. Step(p, Idle) /\ ~Idle.late /\ Idle.pc = "idle"
    BY <1>3 DEF Exit, Idle
  <2> QED BY <1>1, <1>3, <2>1
<1>4. ASSUME UNCHANGED procs PROVE Moves(q)
  BY <1>4 DEF Moves, Quietly, InTimeStays
<1>5. ASSUME NEW p \in Procs, NEW s, Step(p, s), s.late => procs[p].late, Effect(p)
      PROVE  Moves(q)
  BY <1>5 DEF Step, Types, TypeOK, Moves, InTimeStays
<1>6. ASSUME NEW p \in Procs, NEW pc, Goto(p, pc), Effect(p) PROVE Moves(q)
  <2>1. procs'[q].late = procs[q].late
    BY <1>0, <1>6 DEF Goto, Types, TypeOK, Processes
  <2> QED BY <1>6, <2>1 DEF Moves, InTimeStays
<1>7. ASSUME NEW p \in Procs, Exit(p), Effect(p) PROVE Moves(q)
  <2>1. Step(p, Idle) /\ ~Idle.late
    BY <1>7 DEF Exit, Idle
  <2> QED BY <1>5, <1>7, <2>1
<1>8. ASSUME NEW p \in Procs, NEW s, Start(p, s), ~s.late,
             s.pc \notin PlacePCs \/ Effect(p)
      PROVE  Moves(q)
  BY <1>1, <1>5, <1>8 DEF Start
<1>9. ASSUME NEW p \in Procs, Enabling(p) PROVE Moves(q)
  <2>1. CASE EnableStart(p)
    <3> DEFINE s == [Idle EXCEPT !.pc = "enable_status", !.token = account]
    <3>1. Start(p, s) /\ s.pc = "enable_status" /\ ~s.late
      BY <2>1 DEF EnableStart, Idle
    <3> HIDE DEF s
    <3> QED BY <1>8, <3>1
  <2>2. CASE EnableCallFails(p) \/ EnableRefused(p)
    BY <1>3, <2>2 DEF EnableCallFails, EnableRefused
  <2>3. CASE EnableSaveFails(p)
    <3>1. /\ procs'[q].late = procs[q].late /\ procs'[q].b = procs[q].b
          /\ procs'[q].prior = procs[q].prior
          /\ \/ procs'[q].pc = procs[q].pc
             \/ procs[q].pc = "enable_save" /\ procs'[q].pc = "enable_undo"
      BY <1>0, <2>3 DEF EnableSaveFails, Goto, Types, TypeOK, Processes
    <3> QED BY <3>1 DEF Moves, Quietly, InTimeStays
  <2>4. CASE EnableStatus(p)
    <3> DEFINE a == procs[p].token
               s == [procs[p] EXCEPT !.pc = "enable_call",
                       !.b = IF server[a].gen = 0 THEN NoBinding ELSE Current(a)]
    <3>1. procs[p].pc = "enable_status" /\ Step(p, s)
      BY <2>4 DEF EnableStatus
    <3>2. s.late = procs[p].late /\ s.pc = "enable_call"
      BY <1>0 DEF Processes
    <3> HIDE DEF s
    <3> QED BY <1>1, <3>1, <3>2
  <2>5. CASE EnableCall(p)
    <3> DEFINE b == [account |-> procs[p].token,
                     gen |-> IF procs[p].b = NoBinding THEN 1
                             ELSE server[procs[p].token].gen]
               keep == settings.enabled /\ settings.binding = b
               leave == settings.enabled /\ ~keep
               s == [procs[p] EXCEPT !.b = b, !.keep = keep, !.token = NoAccount,
                      !.pc = IF leave THEN "enable_pause" ELSE "enable_open",
                      !.prior = IF leave THEN settings.binding ELSE NoBinding]
    <3>1. Step(p, s) /\ Effect(p)
      BY <2>5 DEF EnableCall, Effect
    <3>2. s.late = procs[p].late
      BY <1>0 DEF Processes
    <3> HIDE DEF s
    <3> QED BY <1>5, <3>1, <3>2
  <2>6. CASE EnablePause(p)
    <3> DEFINE s == [procs[p] EXCEPT !.pc = "enable_open", !.prior = NoBinding]
    <3>1. Step(p, s) /\ Effect(p)
      BY <2>6 DEF EnablePause, Effect
    <3>2. s.late = procs[p].late
      BY <1>0 DEF Processes
    <3> HIDE DEF s
    <3> QED BY <1>5, <3>1, <3>2
  <2>7. CASE EnableOpen(p)
    <3> DEFINE s == [procs[p] EXCEPT !.pc = "enable_save", !.keep = FALSE]
    <3>1. Step(p, s) /\ Effect(p)
      BY <2>7 DEF EnableOpen, Effect
    <3>2. s.late = procs[p].late
      BY <1>0 DEF Processes
    <3> HIDE DEF s
    <3> QED BY <1>5, <3>1, <3>2
  <2>8. CASE EnableSave(p) \/ EnableUndo(p)
    BY <1>7, <2>8 DEF EnableSave, EnableUndo, Effect
  <2> QED BY <1>9, <2>1, <2>2, <2>3, <2>4, <2>5, <2>6, <2>7, <2>8 DEF Enabling
<1>10. ASSUME NEW p \in Procs, Disabling(p) \/ Selecting(p) PROVE Moves(q)
  <2>1. CASE HistoryStart(p)
    <3>1. PICK through \in 1 .. high :
            Start(p, [Idle EXCEPT !.pc = "history", !.b = settings.binding,
                                  !.through = through])
      BY <2>1 DEF HistoryStart
    <3> DEFINE s == [Idle EXCEPT !.pc = "history", !.b = settings.binding,
                                 !.through = through]
    <3>2. s.pc = "history" /\ ~s.late
      BY DEF Idle
    <3>3. Start(p, s)
      BY <3>1
    <3> HIDE DEF s
    <3> QED BY <1>8, <3>2, <3>3
  <2>2. CASE DisableStart(p)
    <3> DEFINE s == [Idle EXCEPT !.b = settings.binding,
                       !.pc = IF settings.binding = NoBinding THEN "disable_save"
                              ELSE "disable_pause"]
    <3>1. Start(p, s) /\ Effect(p) /\ ~s.late
      BY <2>2 DEF DisableStart, Effect, Idle
    <3> HIDE DEF s
    <3> QED BY <1>8, <3>1
  <2>3. CASE DisableSave(p)
    BY <1>7, <2>3 DEF DisableSave, Effect
  <2>4. CASE HistoryEnd(p)
    BY <1>3, <2>4 DEF HistoryEnd
  <2>5. CASE DisablePause(p)
    BY <1>6, <2>5 DEF DisablePause, Effect
  <2>6. CASE HistoryPage(p)
    <3> DEFINE page == FirstOf({e \in raw : e > procs[p].after /\ e <= procs[p].through},
                               PageSize)
               s == [procs[p] EXCEPT !.after = Last(page)]
    <3>1. procs[p].pc = "history" /\ Step(p, s)
      BY <2>6 DEF HistoryPage
    <3>2. s.late = procs[p].late /\ s.pc = procs[p].pc
      BY <1>0 DEF Processes
    <3> HIDE DEF s
    <3> QED BY <1>1, <3>1, <3>2
  <2> QED BY <1>10, <2>1, <2>2, <2>3, <2>4, <2>5, <2>6 DEF Disabling, Selecting
<1>11. ASSUME NEW p \in Procs, Draining(p) PROVE Moves(q)
  <2>1. CASE DrainStart(p)
    <3> DEFINE s == [Idle EXCEPT !.pc = "drain_lease", !.b = settings.binding]
    <3>1. Step(p, s) /\ procs[p].pc = "idle" /\ s.pc = "drain_lease" /\ ~s.late
      BY <2>1 DEF DrainStart, Idle
    <3> HIDE DEF s
    <3> QED BY <1>1, <3>1
  <2>2. CASE DrainLease(p)
    <3>0. procs[p].pc = "drain_lease"
      BY <2>2 DEF DrainLease
    <3>1. CASE Step(p, Idle)
      BY <1>1, <3>0, <3>1 DEF Idle
    <3>2. CASE Step(p, [procs[p] EXCEPT !.pc = "drain_status", !.token = account,
                                        !.left = MaxBatches])
      <4> DEFINE s == [procs[p] EXCEPT !.pc = "drain_status", !.token = account,
                                        !.left = MaxBatches]
      <4>1. s.late = procs[p].late /\ s.pc = "drain_status"
        BY <1>0 DEF Processes
      <4>2. Step(p, s)
        BY <3>2
      <4> HIDE DEF s
      <4> QED BY <1>1, <3>0, <4>1, <4>2
    <3> QED BY <2>2, <3>1, <3>2 DEF DrainLease
  <2>3. CASE DrainStatus(p) \/ DrainCapture(p) \/ DrainAnswer(p)
    BY <1>2, <1>3, <2>3 DEF DrainStatus, DrainCapture, DrainAnswer
  <2>4. CASE DrainStops(p) \/ DrainFails(p)
    BY <1>3, <2>4 DEF DrainStops, DrainFails
  <2>5. CASE DrainSend(p)
    <3> DEFINE s == [procs[p] EXCEPT !.pc = "drain_wait", !.ids = Batch(procs[p].b)]
    <3>0. procs[p].pc = "drain_send" /\ (Exit(p) \/ Step(p, s))
      BY <2>5 DEF DrainSend
    <3>1. s.late = procs[p].late /\ s.pc = "drain_wait"
      BY <1>0 DEF Processes
    <3> HIDE DEF s
    <3> QED BY <1>1, <1>3, <3>0, <3>1
  <2>6. CASE DrainRefresh(p)
    <3> DEFINE s == [procs[p] EXCEPT !.keep = TRUE]
    <3>0. procs[p].pc = "drain_wait" /\ (Exit(p) \/ Step(p, s))
      BY <2>6 DEF DrainRefresh
    <3>1. s.late = procs[p].late /\ s.pc = procs[p].pc
      BY <1>0, KeepFields
    <3> HIDE DEF s
    <3> QED BY <1>1, <1>3, <3>0, <3>1
  <2>7. CASE DrainAck(p)
    <3> DEFINE s == [procs[p] EXCEPT !.pc = "drain_capture", !.ids = {}, !.left = @ - 1]
    <3>1. procs[p].pc = "drain_ack" /\ Step(p, s)
      BY <2>7 DEF DrainAck
    <3>2. s.late = procs[p].late /\ s.pc = "drain_capture"
      BY <1>0 DEF Processes
    <3> HIDE DEF s
    <3> QED BY <1>1, <3>1, <3>2
  <2> QED BY <1>11, <2>1, <2>2, <2>3, <2>4, <2>5, <2>6, <2>7 DEF Draining
<1>12. ASSUME NEW p \in Procs, Restoring(p) \/ Deleting(p) PROVE Moves(q)
  <2>1. CASE RestoreStart(p) \/ DeleteStart(p)
    <3>1. ASSUME NEW pc, pc \notin PlacePCs,
                 Start(p, [Idle EXCEPT !.pc = pc, !.token = account, !.b = Current(account)])
          PROVE  Moves(q)
      <4> DEFINE s == [Idle EXCEPT !.pc = pc, !.token = account, !.b = Current(account)]
      <4>1. Start(p, s) /\ s.pc = pc /\ ~s.late
        BY <3>1 DEF Idle
      <4> HIDE DEF s
      <4> QED BY <1>8, <3>1, <4>1
    <3> QED BY <2>1, <3>1 DEF RestoreStart, DeleteStart
  <2>2. CASE RestoreApply(p) \/ RestoreFails(p) \/ DeleteCallFails(p)
    BY <1>3, <2>2 DEF RestoreApply, RestoreFails, DeleteCallFails
  <2>3. CASE DeleteSave(p)
    BY <1>7, <2>3 DEF DeleteSave, Effect
  <2>4. CASE DeletePause(p)
    BY <1>6, <2>4 DEF DeletePause, Effect
  <2>5. CASE RestoreFetch(p)
    <3>1. PICK page \in SUBSET server[procs[p].token].records :
            Step(p, [procs[p] EXCEPT !.pc = "restore_apply", !.ids = page,
                                     !.token = NoAccount, !.b = NoBinding])
      BY <2>5 DEF RestoreFetch
    <3> DEFINE s == [procs[p] EXCEPT !.pc = "restore_apply", !.ids = page,
                                     !.token = NoAccount, !.b = NoBinding]
    <3>2. procs[p].pc = "restore_fetch" /\ Step(p, s)
      BY <2>5, <3>1 DEF RestoreFetch
    <3>3. s.late = procs[p].late /\ s.pc = "restore_apply"
      BY <1>0 DEF Processes
    <3> HIDE DEF s
    <3> QED BY <1>1, <3>2, <3>3
  <2>6. CASE DeleteCall(p)
    <3> DEFINE s == [procs[p] EXCEPT !.pc = "delete_pause", !.token = NoAccount,
                                     !.prior = settings.binding]
    <3>0. Effect(p) /\ (Exit(p) \/ Step(p, s))
      BY <2>6 DEF DeleteCall, Effect
    <3>1. s.late = procs[p].late
      BY <1>0 DEF Processes
    <3> HIDE DEF s
    <3> QED BY <1>5, <1>7, <3>0, <3>1
  <2> QED BY <1>12, <2>1, <2>2, <2>3, <2>4, <2>5, <2>6 DEF Restoring, Deleting
<1>13. ASSUME NEW p \in Procs, Crash(p) PROVE Moves(q)
  <2>1. procs'[q] = IF q = p THEN Idle ELSE procs[q]
    BY <1>13 DEF Crash, Step, Types, TypeOK
  <2>2. q = p /\ procs[p].pc \in OpenedPCs => procs[p].b \in interrupted'
    BY <1>13 DEF Crash
  <2> QED BY <2>1, <2>2 DEF Moves, Quietly, InTimeStays, Idle
<1>14. ASSUME LeaseEnds PROVE Moves(q)
  <2>1. CASE UNCHANGED procs
    BY <1>4, <2>1
  <2>2. CASE procs' = [procs EXCEPT ![lease].late = TRUE] /\ interrupted' = Bindings
    <3>1. /\ procs'[q].pc = procs[q].pc /\ procs'[q].b = procs[q].b
          /\ procs'[q].prior = procs[q].prior
      BY <1>0, <2>2 DEF Types, TypeOK, Processes
    <3> QED BY <2>2, <3>1 DEF Moves, Quietly, InTimeStays, InTime
  <2> QED BY <1>14, <2>1, <2>2 DEF LeaseEnds
<1>15. CASE UNCHANGED vars
  BY <1>4, <1>15 DEF vars
<1>16. CASE \/ \E m \in wire : ServerIngests(m)
            \/ \E a \in Accounts : OtherHome(a) \/ SignIn(a)
            \/ \E e \in Events : UsageDelete(e)
            \/ Record
  BY <1>4, <1>16 DEF ServerIngests, OtherHome, SignIn, UsageDelete, Record
<1> QED BY <1>9, <1>10, <1>11, <1>12, <1>13, <1>14, <1>15, <1>16 DEF Next

LEMMA NextLate ==
  ASSUME Types, [Next]_vars, LateIsKnown
  PROVE  LateIsKnown'
BY MoveSteps, InterruptedGrows DEF LateIsKnown, Moves, InTimeStays

\* A step without an effect leaves the intervals, the ledger and the settings
\* alone.
LEMMA QuietSteps ==
  ASSUME [Next]_vars
  PROVE  \/ \E p \in Procs : Effect(p) \/ DrainCapture(p) \/ RestoreApply(p)
         \/ Record
         \/ \E e \in Events : UsageDelete(e)
         \/ UNCHANGED <<localVars, windows, settings, consented>>
<1> USE DEF queueVars, historyVars
<1>1. ASSUME NEW p \in Procs, Enabling(p) \/ Disabling(p) \/ Deleting(p)
      PROVE  Effect(p) \/ UNCHANGED <<localVars, windows, settings, consented>>
  BY <1>1 DEF Effect, Enabling, EnableStart, EnableStatus, EnableCallFails, EnableRefused,
     EnableSaveFails, Disabling, Deleting, DeleteStart, DeleteCallFails
<1>2. ASSUME NEW p \in Procs, Draining(p)
      PROVE  DrainCapture(p) \/ UNCHANGED <<localVars, windows, settings, consented>>
  BY <1>2 DEF Draining, DrainStart, DrainLease, DrainStatus, DrainStops, DrainSend,
     DrainAnswer, DrainFails, DrainRefresh, DrainAck
<1>3. ASSUME NEW p \in Procs, Selecting(p) \/ Restoring(p) \/ Crash(p)
      PROVE  RestoreApply(p) \/ UNCHANGED <<localVars, windows, settings, consented>>
  BY <1>3 DEF Selecting, HistoryStart, HistoryPage, HistoryEnd, Restoring, RestoreStart,
     RestoreFetch, RestoreFails, Crash
<1>4. ASSUME \/ \E m \in wire : ServerIngests(m)
             \/ \E a \in Accounts : OtherHome(a) \/ SignIn(a)
             \/ LeaseEnds
      PROVE  UNCHANGED <<localVars, windows, settings, consented>>
  BY <1>4 DEF ServerIngests, OtherHome, SignIn, LeaseEnds
<1> QED BY <1>1, <1>2, <1>3, <1>4 DEF Next, vars

\* A step that neither puts the binding into the settings nor begins to enable
\* it does not make an interval of it watched: the service forgets no deletion.
LEMMA WatchedShrinks ==
  ASSUME Types, [Next]_vars, NEW b \in Bindings,
         settings' = [enabled |-> TRUE, binding |-> b] => Watched(b),
         \A q \in Procs : procs'[q].b = b /\ procs'[q].pc \in EnabledPCs
                          => Watched(b) \/ server'[b.account].gen <= b.gen,
         Watched(b)'
  PROVE  Watched(b)
<1>1. b.account \in Accounts /\ b.gen \in Nat
  BY ConstantTypes DEF Bindings
<1>2. CASE server'[b.account].gen <= b.gen
  <2>1. server[b.account].gen <= b.gen
    BY <1>1, <1>2, GenGrows
  <2> QED BY <2>1 DEF Watched
<1> QED BY <1>2 DEF Watched

\* What the intervals cover stays recorded with consent while none is watched
\* anew and none of them reaches further.
LEMMA CoveredStays ==
  ASSUME Types, [Next]_vars, Covered, consented \subseteq consented',
         raw' \subseteq raw, UNCHANGED copy,
         \A w \in windows' :
           \/ Reach(w)' <= w.start
           \/ \E v \in windows : v.b = w.b /\ v.start = w.start /\ Reach(v) = Reach(w)',
         \A b \in Bindings \ interrupted' : Watched(b)' => Watched(b)
  PROVE  Covered'
<1> SUFFICES ASSUME NEW w \in windows', NEW e \in raw',
                    w.b \notin interrupted', Watched(w.b)', copy'[e] = 0,
                    w.start < e, e <= Reach(w)'
             PROVE  [b |-> w.b, id |-> e] \in consented'
  BY DEF Covered
<1>0. Types'
  BY NextTypes
<1>1. w.b \in Bindings /\ w.start \in Nat /\ Reach(w)' \in Nat /\ e \in Nat
  BY <1>0, ConstantTypes DEF Types, TypeOK, Windows, Reach, Open
<1>2. PICK v \in windows : v.b = w.b /\ v.start = w.start /\ Reach(v) = Reach(w)'
  BY <1>1
<1>3. interrupted \subseteq interrupted'
  BY InterruptedGrows
<1> QED BY <1>1, <1>2, <1>3 DEF Covered

LEMMA OwnedStays ==
  ASSUME Types, [Next]_vars, Owned,
         \A b \in Bindings \ interrupted' :
           OpenOf(b)' # {} /\ Watched(b)' =>
             OpenOf(b) # {} /\ Watched(b) /\ (BackingUp(b) => BackingUp(b)')
  PROVE  Owned'
BY InterruptedGrows DEF Owned

\* An open interval of a binding is closed only by a step that closes it.
LEMMA PlaceStays ==
  ASSUME Types, [Next]_vars, NEW q \in Procs, Place(procs[q]), UNCHANGED settings,
         \A b : OpenOf(b) = {} => OpenOf(b)' = {},
         procs'[q].b = procs[q].b, procs'[q].prior = procs[q].prior,
         \/ procs'[q].pc = procs[q].pc
         \/ procs[q].pc = "enable_save" /\ procs'[q].pc = "enable_undo"
  PROVE  Place(procs[q])'
<1> DEFINE s == procs[q]
           t == procs'[q]
<1>1. procs[q] \in Processes /\ Carries(procs[q])
  BY DEF Types, TypeOK
<1>2. s.pc \in EnabledPCs => s.b \in Bindings
  BY <1>1 DEF Carries, EnabledPCs, BoundPCs
<1>3. \A b \in Bindings :
        /\ b.account \in Accounts /\ b.gen \in Nat
        /\ server[b.account].gen \in Nat /\ server'[b.account].gen \in Nat
        /\ server[b.account].gen <= server'[b.account].gen
  BY GenGrows, ConstantTypes DEF Bindings
<1>4. \A b \in Bindings : server[b.account].gen >= b.gen => server'[b.account].gen >= b.gen
  BY <1>3
<1>5. \A b \in Bindings :
        ~(server[b.account].gen <= b.gen) => ~(server'[b.account].gen <= b.gen)
  BY <1>3
<1>6. t.pc \in EnabledPCs => server'[t.b.account].gen >= t.b.gen
  BY <1>2, <1>4 DEF Place, EnabledPCs
<1>7. OpenOf(settings.binding) = {} => OpenOf(settings.binding)' = {}
  <2>1. PICK b : b = settings.binding
    OBVIOUS
  <2>2. OpenOf(b) = {} => OpenOf(b)' = {}
    OBVIOUS
  <2> QED BY <2>1, <2>2 DEF OpenOf
<1>8. OpenOf(procs[q].b) = {} => OpenOf(procs[q].b)' = {}
  <2>1. PICK b : b = procs[q].b
    OBVIOUS
  <2>2. OpenOf(b) = {} => OpenOf(b)' = {}
    OBVIOUS
  <2> QED BY <2>1, <2>2 DEF OpenOf
<1>9. /\ t.pc = "enable_pause" => settings'.binding = t.prior
      /\ t.pc \in EnabledPCs \ {"enable_pause"} =>
           ~settings'.enabled \/ settings'.binding = t.b \/ OpenOf(settings.binding)' = {}
  BY <1>7 DEF Place, EnabledPCs
<1>10. /\ t.pc \in {"disable_pause", "disable_save"} => settings'.binding = t.b
       /\ t.pc = "disable_save" => OpenOf(procs[q].b)' = {}
  BY <1>8 DEF Place
<1>11. t.pc \in {"delete_pause", "delete_save"} =>
         /\ settings'.binding = t.prior /\ t.prior \in Bindings
         /\ ~(server'[t.prior.account].gen <= t.prior.gen)
  BY <1>5 DEF Place
<1> QED BY <1>6, <1>9, <1>10, <1>11 DEF Place

\* A command outside the places between two effects.
LEMMA PlaceFree ==
  ASSUME NEW s, s.pc \notin PlacePCs
  PROVE  Place(s)
BY DEF Place, PlacePCs, EnabledPCs

LEMMA GivenStays ==
  ASSUME Types, [Next]_vars, SavedIsGiven, UNCHANGED settings
  PROVE  SavedIsGiven'
<1>1. ASSUME settings.binding \in Bindings
      PROVE  settings'.binding.gen <= server'[settings'.binding.account].gen
  <2>1. PICK b \in Bindings : b = settings.binding
    BY <1>1
  <2>2. b.account \in Accounts /\ b.gen \in Nat /\ settings'.binding = b
    BY <2>1, ConstantTypes DEF Bindings
  <2>3. b.gen <= server[b.account].gen
    BY <1>1, <2>1 DEF SavedIsGiven
  <2> QED BY <2>2, <2>3, GenGrows
<1> QED BY <1>1 DEF SavedIsGiven

Intervals == Covered /\ Owned /\ Places

\* Once a command has outlived its lease nothing is claimed.
LEMMA Untimely ==
  ASSUME Types', ~InTime'
  PROVE  Intervals'
<1>1. interrupted' = Bindings /\ windows' \subseteq Windows
  BY DEF InTime, Types, TypeOK
<1>2. Covered'
  BY <1>1 DEF Covered, Windows
<1>3. Owned'
  BY <1>1 DEF Owned
<1> QED BY <1>2, <1>3 DEF Intervals, Places

LEMMA QuietWatched ==
  ASSUME Types, [Next]_vars, \A q \in Procs : Quietly(q), UNCHANGED settings,
         NEW b \in Bindings, Watched(b)'
  PROVE  Watched(b)
<1>1. ASSUME NEW q \in Procs, procs'[q].b = b, procs'[q].pc \in EnabledPCs
      PROVE  Watched(b)
  BY <1>1 DEF Quietly, Watched, PlacePCs, EnabledPCs
<1>2. settings' = [enabled |-> TRUE, binding |-> b] => Watched(b)
  BY DEF Watched
<1> QED BY <1>1, <1>2, WatchedShrinks

LEMMA QuietPlaces ==
  ASSUME Types, [Next]_vars, Places, \A q \in Procs : Quietly(q), UNCHANGED settings,
         \A b : OpenOf(b) = {} => OpenOf(b)' = {}
  PROVE  Places'
<1> SUFFICES ASSUME InTime' PROVE SavedIsGiven' /\ \A q \in Procs : Place(procs[q])'
  BY DEF Places
<1>1. SavedIsGiven /\ \A q \in Procs : Place(procs[q])
  BY InterruptedGrows DEF Places
<1>2. ASSUME NEW q \in Procs PROVE Place(procs[q])'
  <2>1. CASE procs'[q].pc \notin PlacePCs
    BY <2>1 DEF Place, PlacePCs, EnabledPCs
  <2>2. CASE procs'[q].pc \in PlacePCs
    BY <1>1, <2>2, PlaceStays DEF Quietly
  <2> QED BY <2>1, <2>2
<1> QED BY <1>1, <1>2, GivenStays

LEMMA QuietBacking ==
  ASSUME \A q \in Procs : Quietly(q), UNCHANGED settings,
         NEW b \in Bindings \ interrupted', BackingUp(b)
  PROVE  BackingUp(b)'
BY DEF BackingUp, Quietly, OpenedPCs

LEMMA QuietIntervals ==
  ASSUME Types, [Next]_vars, Intervals, \A q \in Procs : Quietly(q),
         UNCHANGED <<localVars, windows, settings, consented>>
  PROVE  Intervals'
<1>1. \A b : OpenOf(b)' = OpenOf(b)
  BY DEF OpenOf
<1>2. \A b \in Bindings : Watched(b)' => Watched(b)
  BY QuietWatched
<1>3. \A w \in windows' : Reach(w)' = Reach(w)
  BY DEF Reach, localVars
<1>4. Covered'
  BY <1>2, <1>3, CoveredStays DEF Intervals, localVars
<1>5. Owned'
  BY <1>1, <1>2, QuietBacking, OwnedStays DEF Intervals
<1>6. Places'
  BY <1>1, QuietPlaces DEF Intervals
<1> QED BY <1>4, <1>5, <1>6 DEF Intervals

LEMMA CloseIntervals ==
  ASSUME Types, [Next]_vars, Covered, Owned, NEW c, windows' = Closed(c),
         UNCHANGED <<localVars, settings, consented>>,
         \A b \in Bindings \ interrupted' : Watched(b)' => Watched(b),
         \A b \in Bindings \ {c} : BackingUp(b) => BackingUp(b)'
  PROVE  /\ Covered' /\ Owned'
         /\ OpenOf(c)' = {}
         /\ \A b : OpenOf(b) = {} => OpenOf(b)' = {}
<1> USE DEF localVars
<1>0. high \in Nat /\ high < Open /\ \A w \in windows : w \in Windows
  BY ConstantTypes DEF Types, TypeOK, Open
<1>1. ASSUME NEW w \in windows'
      PROVE  \E v \in windows :
               /\ v.b = w.b /\ v.start = w.start /\ Reach(v) = Reach(w)'
               /\ (w = v /\ v \notin OpenOf(c)) \/ (w.b = c /\ w.end # Open)
  <2>1. CASE w \in windows \ OpenOf(c)
    <3>1. Reach(w)' = Reach(w)
      BY DEF Reach
    <3> QED BY <2>1, <3>1
  <2>2. CASE \E v \in OpenOf(c) : w = [v EXCEPT !.end = high]
    <3>1. PICK v \in OpenOf(c) : w = [v EXCEPT !.end = high]
      BY <2>2
    <3>2. v \in windows /\ v.end = Open /\ v.b = c /\ v \in Windows
      BY <1>0 DEF OpenOf
    <3>3. w.b = v.b /\ w.start = v.start /\ w.end = high
      BY <3>1, <3>2 DEF Windows
    <3>4. Reach(w)' = high /\ Reach(v) = high
      BY <1>0, <3>2, <3>3 DEF Reach
    <3> QED BY <1>0, <3>2, <3>3, <3>4
  <2> QED BY <2>1, <2>2 DEF Closed
<1>2. OpenOf(c)' = {}
  BY <1>1 DEF OpenOf
<1>3. \A b : b # c => OpenOf(b)' \subseteq OpenOf(b)
  BY <1>1 DEF OpenOf
<1>4. Covered'
  BY <1>1, CoveredStays
<1>5. Owned'
  BY <1>2, <1>3, OwnedStays
<1>6. \A b : OpenOf(b) = {} => OpenOf(b)' = {}
  BY <1>2, <1>3
<1> QED BY <1>2, <1>4, <1>5, <1>6

\* What an effect of a command inside its lease has to show.
LEMMA LonePlaces ==
  ASSUME Types, CommandsExclusive, LateIsKnown, InTime, NEW p \in Procs,
         Working(p) \/ lease = None,
         \A q \in Procs \ {p} : procs'[q] = procs[q],
         SavedIsGiven', Place(procs[p])'
  PROVE  Places'
<1>1. ASSUME NEW q \in Procs \ {p} PROVE Place(procs[q])'
  <2>1. procs'[q].pc \notin PlacePCs
    BY Lone DEF PlacePCs, EnabledPCs
  <2> QED BY <2>1 DEF Place, PlacePCs, EnabledPCs
<1> QED BY <1>1 DEF Places

LEMMA LoneBacking ==
  ASSUME Types, CommandsExclusive, LateIsKnown, InTime, NEW p \in Procs,
         Working(p) \/ lease = None, NEW b, BackingUp(b)
  PROVE  \/ settings = [enabled |-> TRUE, binding |-> b]
         \/ procs[p].b = b /\ procs[p].pc \in OpenedPCs
BY Lone DEF BackingUp, OpenedPCs

\* Of the commands only the one that moves can be enabling after its step.
LEMMA LoneWatched ==
  ASSUME Types, [Next]_vars, CommandsExclusive, LateIsKnown, InTime, NEW p \in Procs,
         Working(p) \/ lease = None,
         \A q \in Procs \ {p} : procs'[q] = procs[q], NEW b \in Bindings,
         settings' = [enabled |-> TRUE, binding |-> b] => Watched(b),
         procs'[p].b = b /\ procs'[p].pc \in EnabledPCs
           => Watched(b) \/ server'[b.account].gen <= b.gen,
         Watched(b)'
  PROVE  Watched(b)
<1>1. \A q \in Procs \ {p} : procs'[q].pc \notin EnabledPCs
  BY Lone DEF EnabledPCs
<1> QED BY <1>1, WatchedShrinks

LEMMA Ready ==
  ASSUME Types, [Next]_vars, Intervals, InTime'
  PROVE  /\ Types' /\ InTime /\ Covered /\ Owned /\ SavedIsGiven
         /\ \A q \in Procs : Place(procs[q])
BY NextTypes, InterruptedGrows DEF Intervals, Places

LEMMA EnableCallIntervals ==
  ASSUME Types, CommandsExclusive, LateIsKnown, Intervals, [Next]_vars, InTime',
         NEW p \in Procs, EnableCall(p)
  PROVE  Intervals'
<1> DEFINE a == procs[p].token
           b == [account |-> a, gen |-> IF procs[p].b = NoBinding THEN 1 ELSE server[a].gen]
           keep == settings.enabled /\ settings.binding = b
           leave == settings.enabled /\ ~keep
           s == [procs[p] EXCEPT !.b = b, !.keep = keep, !.token = NoAccount,
                  !.pc = IF leave THEN "enable_pause" ELSE "enable_open",
                  !.prior = IF leave THEN settings.binding ELSE NoBinding]
<1>1. /\ procs[p].pc = "enable_call" /\ procs[p] \in Processes /\ a \in Accounts
      /\ ServerEnables(a, procs[p].b) /\ Step(p, s)
      /\ UNCHANGED <<high, raw, copy, windows, settings, consented>>
  BY DEF EnableCall, Types, TypeOK, Carries, SignedPCs, localVars, queueVars, historyVars
<1>2. Types' /\ InTime /\ Covered /\ Owned /\ SavedIsGiven /\ Working(p)
  BY <1>1, Ready DEF Working
<1>3. server'[a].gen = b.gen
  <2>1. server[a].gen \in Nat /\ server'[a].gen \in Nat
    BY <1>1, GenGrows
  <2>2. CASE procs[p].b = NoBinding /\ server[a].gen = 0
             /\ server' = [server EXCEPT ![a].gen = 1, ![a].enabled = TRUE]
    BY <1>1, <2>2 DEF Types, TypeOK
  <2>3. CASE procs[p].b = Current(a) /\ server' = [server EXCEPT ![a].enabled = TRUE]
    <3>1. procs[p].b # NoBinding
      BY <1>1, <2>3, ConstantTypes DEF Current, NoBinding
    <3> QED BY <1>1, <2>3, <3>1 DEF Types, TypeOK
  <2>4. procs[p].b = NoBinding /\ server[a].gen > 0 => procs[p].b # Current(a)
    BY <1>1, ConstantTypes DEF Current, NoBinding
  <2> QED BY <1>1, <2>2, <2>3 DEF ServerEnables
<1>4. /\ s.b = b /\ s.pc \in {"enable_pause", "enable_open"}
      /\ s.pc = "enable_pause" => s.prior = settings.binding
      /\ s.pc = "enable_open" => ~settings.enabled \/ settings.binding = b
  <2> HIDE DEF b
  <2> QED BY <1>1 DEF Processes
<1>5. b.account = a
  OBVIOUS
<1> HIDE DEF s, b
<1>6. procs'[p] = s /\ \A q \in Procs \ {p} : procs'[q] = procs[q]
  BY <1>1 DEF Step, Types, TypeOK
<1>7. b.gen \in Nat /\ server'[b.account].gen = b.gen
  BY <1>1, <1>3, <1>5, GenGrows
<1>8. ASSUME NEW c \in Bindings, Watched(c)' PROVE Watched(c)
  <2>1. procs'[p].b = c => server'[c.account].gen <= c.gen
    BY <1>4, <1>6, <1>7
  <2>2. settings' = [enabled |-> TRUE, binding |-> c] => Watched(c)
    BY <1>1 DEF Watched
  <2> QED BY <1>2, <1>6, <1>8, <2>1, <2>2, LoneWatched
<1>9. Covered'
  <2>1. \A w \in windows' : Reach(w)' = Reach(w)
    BY <1>1 DEF Reach
  <2> QED BY <1>1, <1>2, <1>8, <2>1, CoveredStays
<1>10. Owned'
  <2>1. \A c : OpenOf(c)' = OpenOf(c)
    BY <1>1 DEF OpenOf
  <2>2. ASSUME NEW c \in Bindings, BackingUp(c) PROVE BackingUp(c)'
    <3>1. settings = [enabled |-> TRUE, binding |-> c]
      BY <1>1, <1>2, <2>2, LoneBacking DEF OpenedPCs
    <3> QED BY <1>1, <3>1 DEF BackingUp
  <2> QED BY <1>2, <1>8, <2>1, <2>2, OwnedStays
<1>11. Place(procs[p])'
  BY <1>1, <1>4, <1>6, <1>7 DEF Place, EnabledPCs
<1>12. Places'
  BY <1>1, <1>2, <1>6, <1>11, GivenStays, LonePlaces
<1> QED BY <1>9, <1>10, <1>12 DEF Intervals

LEMMA PauseIntervals ==
  ASSUME Types, CommandsExclusive, LateIsKnown, Intervals, [Next]_vars, InTime',
         NEW p \in Procs,
         EnablePause(p) \/ EnableUndo(p) \/ DisablePause(p) \/ DeletePause(p)
  PROVE  Intervals'
<1> DEFINE c == IF procs[p].pc = "enable_pause" THEN procs[p].prior ELSE procs[p].b
<1>0. procs[p] \in Processes
  BY DEF Types, TypeOK
<1>1. /\ procs[p].pc \in {"enable_pause", "enable_undo", "disable_pause", "delete_pause"}
      /\ windows' = Closed(c) /\ Working(p)
      /\ UNCHANGED <<localVars, settings, consented, server>>
  BY DEF EnablePause, EnableUndo, DisablePause, DeletePause, historyVars, Working
<1>2. Types' /\ InTime /\ Covered /\ Owned /\ SavedIsGiven /\ Place(procs[p])
  BY Ready
<1>3. \A q \in Procs \ {p} : procs'[q] = procs[q]
  BY DEF EnablePause, EnableUndo, DisablePause, DeletePause, Step, Goto, Exit, Types, TypeOK
<1>4. \/ procs[p].pc = "enable_undo" /\ procs'[p].pc = "idle"
      \/ /\ procs'[p].b = procs[p].b
         /\ \/ procs[p].pc = "enable_pause" /\ procs'[p].pc = "enable_open"
            \/ procs[p].pc = "disable_pause" /\ procs'[p].pc = "disable_save"
            \/ /\ procs[p].pc = "delete_pause" /\ procs'[p].pc = "delete_save"
               /\ procs'[p].prior = procs[p].prior
  <2>1. CASE EnablePause(p)
    BY <1>0, <2>1 DEF EnablePause, Step, Types, TypeOK, Processes
  <2>2. CASE EnableUndo(p)
    BY <2>2 DEF EnableUndo, Exit, Step, Idle, Types, TypeOK
  <2>3. CASE DisablePause(p) \/ DeletePause(p)
    BY <1>0, <2>3 DEF DisablePause, DeletePause, Goto, Types, TypeOK, Processes
  <2> QED BY <2>1, <2>2, <2>3
<1>5. PICK d : d = c
  OBVIOUS
<1>6. ASSUME NEW b \in Bindings, Watched(b)' PROVE Watched(b)
  <2>1. procs'[p].b = b /\ procs'[p].pc \in EnabledPCs => Watched(b)
    BY <1>4 DEF EnabledPCs, Watched
  <2>2. settings' = [enabled |-> TRUE, binding |-> b] => Watched(b)
    BY <1>1 DEF Watched
  <2> QED BY <1>1, <1>2, <1>3, <1>6, <2>1, <2>2, LoneWatched
<1>7. ASSUME NEW b \in Bindings \ {d}, BackingUp(b) PROVE BackingUp(b)'
  <2>1. settings = [enabled |-> TRUE, binding |-> b]
    BY <1>1, <1>2, <1>5, <1>7, LoneBacking DEF OpenedPCs
  <2> QED BY <1>1, <2>1 DEF BackingUp
<1>8. /\ Covered' /\ Owned' /\ OpenOf(d)' = {}
      /\ \A b : OpenOf(b) = {} => OpenOf(b)' = {}
  <2>1. windows' = Closed(d)
    BY <1>1, <1>5
  <2> QED BY <1>1, <1>2, <1>6, <1>7, <2>1, CloseIntervals
<1>9. Place(procs[p])'
  <2> USE DEF EnabledPCs
  <2>1. CASE procs[p].pc = "enable_undo"
    BY <1>4, <2>1, PlaceFree DEF Place
  <2>2. CASE procs[p].pc = "enable_pause"
    <3>1. settings'.binding = d
      BY <1>1, <1>2, <1>5, <2>2 DEF Place
    <3>2. OpenOf(settings.binding)' = {}
      BY <1>8, <3>1 DEF OpenOf
    <3> QED BY <1>1, <1>2, <1>4, <2>2, <3>2 DEF Place
  <2>3. CASE procs[p].pc = "disable_pause"
    <3>1. OpenOf(procs[p].b)' = {}
      BY <1>4, <1>5, <1>8, <2>3 DEF OpenOf
    <3> QED BY <1>1, <1>2, <1>4, <2>3, <3>1 DEF Place
  <2>4. CASE procs[p].pc = "delete_pause"
    BY <1>1, <1>2, <1>4, <2>4 DEF Place
  <2> QED BY <1>1, <2>1, <2>2, <2>3, <2>4
<1>10. Places'
  BY <1>1, <1>2, <1>3, <1>9, GivenStays, LonePlaces
<1> QED BY <1>8, <1>10 DEF Intervals

LEMMA EnableOpenIntervals ==
  ASSUME Types, CommandsExclusive, LateIsKnown, Intervals, [Next]_vars, InTime',
         NEW p \in Procs, EnableOpen(p)
  PROVE  Intervals'
<1> DEFINE c == procs[p].b
           new == [b |-> c, start |-> high, end |-> Open, scan |-> high]
           s == [procs[p] EXCEPT !.pc = "enable_save", !.keep = FALSE]
<1>1. /\ procs[p] \in Processes /\ procs[p].pc = "enable_open" /\ Step(p, s) /\ OpenWindow(p)
      /\ UNCHANGED <<high, raw, copy, settings, consented, server>>
  BY DEF EnableOpen, localVars, historyVars, Types, TypeOK
<1>2. Types' /\ InTime /\ Covered /\ Owned /\ SavedIsGiven /\ Working(p) /\ Place(procs[p])
  BY <1>1, Ready DEF Working
<1>3. s.pc = "enable_save" /\ s.b = procs[p].b
  BY <1>1 DEF Processes
<1> HIDE DEF s
<1>4. procs'[p] = s /\ \A q \in Procs \ {p} : procs'[q] = procs[q]
  BY <1>1 DEF Step, Types, TypeOK
<1>5. windows' = windows \/ windows' = windows \union {new}
  BY <1>1 DEF OpenWindow
<1>6. ASSUME NEW b \in Bindings, Watched(b)' PROVE Watched(b)
  <2>1. procs'[p].b = b => Watched(b)
    BY <1>1, <1>3, <1>4 DEF EnabledPCs, Watched
  <2>2. settings' = [enabled |-> TRUE, binding |-> b] => Watched(b)
    BY <1>1 DEF Watched
  <2> QED BY <1>2, <1>4, <1>6, <2>1, <2>2, LoneWatched
<1>7. Covered'
  <2>1. ASSUME NEW w \in windows'
        PROVE  \/ Reach(w)' <= w.start
               \/ \E v \in windows : v.b = w.b /\ v.start = w.start /\ Reach(v) = Reach(w)'
    <3>1. CASE w \in windows
      BY <1>1, <3>1 DEF Reach
    <3>2. CASE w = new
      <4>1. high \in Nat /\ Reach(w)' = high /\ w.start = high
        BY <1>1, <3>2 DEF Reach, Types, TypeOK
      <4> QED BY <4>1
    <3> QED BY <1>5, <3>1, <3>2
  <2> QED BY <1>1, <1>2, <1>6, <2>1, CoveredStays
<1>8. ASSUME NEW b, b # c PROVE OpenOf(b)' = OpenOf(b)
  BY <1>5, <1>8 DEF OpenOf
<1>9. Owned'
  <2>1. ASSUME NEW b \in Bindings \ interrupted', b # c, OpenOf(b)' # {}, Watched(b)'
        PROVE  BackingUp(b)'
    <3>1. BackingUp(b)
      BY <1>2, <1>6, <1>8, <2>1, InterruptedGrows DEF Owned
    <3>2. settings = [enabled |-> TRUE, binding |-> b]
      BY <1>1, <1>2, <3>1, LoneBacking DEF OpenedPCs
    <3> QED BY <1>1, <3>2 DEF BackingUp
  <2>2. ASSUME NEW b \in Bindings, b = c PROVE BackingUp(b)'
    BY <1>3, <1>4, <2>2 DEF BackingUp
  <2> QED BY <2>1, <2>2 DEF Owned
<1>10. Place(procs[p])'
  <2>1. ASSUME settings.enabled, settings.binding # c
        PROVE  OpenOf(settings.binding)' = {}
    <3>1. PICK b : b = settings.binding
      OBVIOUS
    <3>2. OpenOf(b) = {}
      BY <1>1, <1>2, <2>1, <3>1 DEF Place, EnabledPCs
    <3>3. OpenOf(b)' = {}
      BY <1>8, <2>1, <3>1, <3>2
    <3> QED BY <1>1, <3>1, <3>3 DEF OpenOf
  <2>2. server'[c.account].gen >= c.gen
    BY <1>1, <1>2 DEF Place, EnabledPCs
  <2> QED BY <1>1, <1>3, <1>4, <2>1, <2>2 DEF Place, EnabledPCs
<1>11. Places'
  BY <1>1, <1>2, <1>4, <1>10, GivenStays, LonePlaces
<1> QED BY <1>7, <1>9, <1>11 DEF Intervals

\* The settings change, and the command ends.
LEMMA SaveIntervals ==
  ASSUME Types, CommandsExclusive, LateIsKnown, Intervals, [Next]_vars, InTime',
         NEW p \in Procs, EnableSave(p) \/ DisableSave(p) \/ DeleteSave(p)
  PROVE  Intervals'
<1> DEFINE c == procs[p].b
<1>1. /\ procs[p] \in Processes /\ Carries(procs[p])
      /\ procs[p].pc \in {"enable_save", "disable_save", "delete_save"}
      /\ Exit(p) /\ Working(p)
      /\ UNCHANGED <<high, raw, copy, windows, consented, server>>
  BY DEF EnableSave, DisableSave, DeleteSave, localVars, queueVars, historyVars, Types,
     TypeOK, Working
<1>2. Types' /\ InTime /\ Covered /\ Owned /\ SavedIsGiven /\ Place(procs[p])
  BY Ready
<1>3. procs'[p].pc = "idle" /\ \A q \in Procs \ {p} : procs'[q] = procs[q]
  BY <1>1 DEF Exit, Step, Idle, Types, TypeOK
<1>4. \/ procs[p].pc = "enable_save" /\ settings' = [enabled |-> TRUE, binding |-> c]
      \/ /\ procs[p].pc # "enable_save" /\ settings'.binding = settings.binding
         /\ settings' = settings \/ ~settings'.enabled
  <2>1. CASE EnableSave(p)
    BY <2>1 DEF EnableSave
  <2>2. CASE DisableSave(p)
    BY <1>2, <2>2 DEF DisableSave, Place
  <2>3. CASE DeleteSave(p)
    BY <1>2, <2>3 DEF DeleteSave, Place
  <2> QED BY <2>1, <2>2, <2>3
<1>5. ASSUME NEW b \in Bindings, Watched(b)' PROVE Watched(b)
  <2>1. settings' = [enabled |-> TRUE, binding |-> b] => Watched(b)
    <3>1. CASE procs[p].pc = "enable_save" /\ b = c
      BY <3>1 DEF Watched, EnabledPCs
    <3>2. CASE settings' = settings
      BY <3>2 DEF Watched
    <3> QED BY <1>4, <3>1, <3>2
  <2> QED BY <1>1, <1>2, <1>3, <1>5, <2>1, LoneWatched DEF EnabledPCs
<1>6. Covered'
  <2>1. \A w \in windows' : Reach(w)' = Reach(w)
    BY <1>1 DEF Reach
  <2> QED BY <1>1, <1>2, <1>5, <2>1, CoveredStays
<1>7. \A b : OpenOf(b)' = OpenOf(b)
  BY <1>1 DEF OpenOf
<1>8. ASSUME NEW b \in Bindings \ interrupted', OpenOf(b) # {}, Watched(b)'
      PROVE  BackingUp(b)'
  <2>1. BackingUp(b)
    BY <1>2, <1>5, <1>8, InterruptedGrows DEF Owned
  <2>2. \/ settings = [enabled |-> TRUE, binding |-> b]
        \/ c = b /\ procs[p].pc = "enable_save"
    BY <1>1, <1>2, <2>1, LoneBacking DEF OpenedPCs
  <2>3. CASE c = b /\ procs[p].pc = "enable_save"
    BY <1>4, <2>3 DEF BackingUp
  <2>4. CASE settings = [enabled |-> TRUE, binding |-> b] /\ ~(c = b /\ procs[p].pc = "enable_save")
    <3>1. settings.enabled /\ settings.binding = b
      BY <2>4
    <3>2. procs[p].pc # "enable_save"
      BY <1>2, <1>8, <2>4, <3>1 DEF Place, EnabledPCs
    <3>3. CASE settings' = settings
      BY <2>4, <3>3 DEF BackingUp
    <3>4. CASE procs[p].pc = "disable_save"
      BY <1>2, <1>8, <3>1, <3>4 DEF Place
    <3>5. CASE procs[p].pc = "delete_save" /\ ~settings'.enabled
      <4>1. ~(server'[b.account].gen <= b.gen)
        BY <1>1, <1>2, <3>1, <3>5 DEF Place
      <4>2. \A q \in Procs : procs'[q].pc \notin EnabledPCs
        BY <1>1, <1>2, <1>3, Lone DEF EnabledPCs
      <4> QED BY <1>8, <3>5, <4>1, <4>2 DEF Watched
    <3> QED BY <1>1, <1>4, <3>2, <3>3, <3>4, <3>5
  <2> QED BY <2>2, <2>3, <2>4
<1>9. Owned'
  BY <1>7, <1>8 DEF Owned
<1>10. SavedIsGiven'
  <2>1. CASE procs[p].pc = "enable_save"
    <3>1. c \in Bindings /\ settings'.binding = c /\ server'[c.account].gen >= c.gen
      BY <1>1, <1>2, <1>4, <2>1 DEF Carries, BoundPCs, Place, EnabledPCs
    <3>2. server'[c.account].gen \in Nat /\ c.gen \in Nat
      BY <3>1, GenGrows, ConstantTypes DEF Bindings
    <3> QED BY <3>1, <3>2 DEF SavedIsGiven
  <2>2. CASE procs[p].pc # "enable_save"
    BY <1>1, <1>2, <1>4, <2>2 DEF SavedIsGiven
  <2> QED BY <2>1, <2>2
<1>11. Place(procs[p])'
  BY <1>3 DEF Place, EnabledPCs
<1>12. Places'
  BY <1>1, <1>2, <1>3, <1>10, <1>11, LonePlaces
<1> QED BY <1>6, <1>9, <1>12 DEF Intervals

LEMMA DisableStartIntervals ==
  ASSUME Types, CommandsExclusive, LateIsKnown, Intervals, [Next]_vars, InTime',
         NEW p \in Procs, DisableStart(p)
  PROVE  Intervals'
<1> DEFINE s == [Idle EXCEPT !.b = settings.binding,
                   !.pc = IF settings.binding = NoBinding THEN "disable_save"
                          ELSE "disable_pause"]
<1>1. /\ Step(p, s) /\ procs[p].pc = "idle" /\ lease = None
      /\ UNCHANGED <<high, raw, copy, windows, settings, consented, server>>
  BY DEF DisableStart, Start, localVars, queueVars, historyVars
<1>2. Types' /\ InTime /\ Covered /\ Owned /\ SavedIsGiven
  BY Ready
<1>3. /\ s.pc \in {"disable_save", "disable_pause"} /\ s.b = settings.binding
      /\ s.pc = "disable_save" => s.b = NoBinding
  BY DEF Idle
<1> HIDE DEF s
<1>4. procs'[p] = s /\ \A q \in Procs \ {p} : procs'[q] = procs[q]
  BY <1>1 DEF Step, Types, TypeOK
<1>5. ASSUME NEW b \in Bindings, Watched(b)' PROVE Watched(b)
  <2>1. settings' = [enabled |-> TRUE, binding |-> b] => Watched(b)
    BY <1>1 DEF Watched
  <2> QED BY <1>1, <1>2, <1>3, <1>4, <1>5, <2>1, LoneWatched DEF EnabledPCs
<1>6. Covered'
  <2>1. \A w \in windows' : Reach(w)' = Reach(w)
    BY <1>1 DEF Reach
  <2> QED BY <1>1, <1>2, <1>5, <2>1, CoveredStays
<1>7. Owned'
  <2>1. \A b : OpenOf(b)' = OpenOf(b)
    BY <1>1 DEF OpenOf
  <2>2. ASSUME NEW b, BackingUp(b) PROVE BackingUp(b)'
    <3>1. settings = [enabled |-> TRUE, binding |-> b]
      BY <1>1, <1>2, <2>2, LoneBacking DEF OpenedPCs
    <3> QED BY <1>1, <3>1 DEF BackingUp
  <2> QED BY <1>2, <1>5, <2>1, <2>2, OwnedStays
<1>8. Place(procs[p])'
  <2>1. OpenOf(NoBinding)' = {}
    BY <1>2, NoBindingApart DEF OpenOf, Types, TypeOK, Windows
  <2>2. procs'[p].pc = "disable_save" => OpenOf(procs[p].b)' = {}
    BY <1>3, <1>4, <2>1 DEF OpenOf
  <2> QED BY <1>1, <1>3, <1>4, <2>2 DEF Place, EnabledPCs
<1>9. Places'
  BY <1>1, <1>2, <1>4, <1>8, GivenStays, LonePlaces
<1> QED BY <1>6, <1>7, <1>9 DEF Intervals

LEMMA DeleteCallIntervals ==
  ASSUME Types, CommandsExclusive, LateIsKnown, Intervals, [Next]_vars, InTime',
         NEW p \in Procs, DeleteCall(p)
  PROVE  Intervals'
<1> DEFINE a == procs[p].token
           s == [procs[p] EXCEPT !.pc = "delete_pause", !.token = NoAccount,
                                 !.prior = settings.binding]
<1>1. /\ procs[p].pc = "delete_call" /\ procs[p] \in Processes /\ a \in Accounts
      /\ ServerDeletes(a, procs[p].b) /\ Working(p)
      /\ \/ settings.binding.account = procs[p].b.account /\ Step(p, s)
         \/ Exit(p)
      /\ UNCHANGED <<high, raw, copy, windows, settings, consented>>
  BY DEF DeleteCall, Types, TypeOK, Carries, SignedPCs, localVars, queueVars, historyVars,
     Working
<1>2. Types' /\ InTime /\ Covered /\ Owned /\ SavedIsGiven
  BY Ready
<1>3. s.pc = "delete_pause" /\ s.prior = settings.binding
  BY <1>1 DEF Processes
<1> HIDE DEF s
<1>4. /\ \A q \in Procs \ {p} : procs'[q] = procs[q]
      /\ \/ procs'[p].pc = "idle"
         \/ procs'[p] = s /\ settings.binding.account = procs[p].b.account
  BY <1>1 DEF Exit, Step, Idle, Types, TypeOK
<1>5. ASSUME NEW b \in Bindings, Watched(b)' PROVE Watched(b)
  <2>1. settings' = [enabled |-> TRUE, binding |-> b] => Watched(b)
    BY <1>1 DEF Watched
  <2> QED BY <1>1, <1>2, <1>3, <1>4, <1>5, <2>1, LoneWatched DEF EnabledPCs
<1>6. Covered'
  <2>1. \A w \in windows' : Reach(w)' = Reach(w)
    BY <1>1 DEF Reach
  <2> QED BY <1>1, <1>2, <1>5, <2>1, CoveredStays
<1>7. Owned'
  <2>1. \A b : OpenOf(b)' = OpenOf(b)
    BY <1>1 DEF OpenOf
  <2>2. ASSUME NEW b, BackingUp(b) PROVE BackingUp(b)'
    <3>1. settings = [enabled |-> TRUE, binding |-> b]
      BY <1>1, <1>2, <2>2, LoneBacking DEF OpenedPCs
    <3> QED BY <1>1, <3>1 DEF BackingUp
  <2> QED BY <1>2, <1>5, <2>1, <2>2, OwnedStays
<1>8. ASSUME settings.binding.account = procs[p].b.account
      PROVE  /\ settings.binding \in Bindings
             /\ ~(server'[settings.binding.account].gen <= settings.binding.gen)
  <2>1. procs[p].b = Current(a) /\ server'[a].gen = server[a].gen + 1
    BY <1>1 DEF ServerDeletes, Types, TypeOK
  <2>2. settings.binding.account = a
    BY <1>8, <2>1 DEF Current
  <2>3. settings.binding \in Bindings
    BY <1>1, <2>2, ConstantTypes DEF Types, TypeOK, NoBinding
  <2>4. settings.binding.gen <= server[a].gen
    BY <1>2, <2>2, <2>3 DEF SavedIsGiven
  <2>5. settings.binding.gen \in Nat /\ server[a].gen \in Nat
    BY <1>1, <2>3, GenGrows, ConstantTypes DEF Bindings
  <2> QED BY <2>1, <2>2, <2>3, <2>4, <2>5
<1>9. Place(procs[p])'
  BY <1>1, <1>3, <1>4, <1>8 DEF Place, EnabledPCs
<1>10. Places'
  BY <1>1, <1>2, <1>4, <1>9, GivenStays, LonePlaces
<1> QED BY <1>6, <1>7, <1>10 DEF Intervals

\* The ledger grows: by restored events, or by one recorded event, which an
\* open interval covers.
LEMMA LedgerIntervals ==
  ASSUME Types, Database, Intervals, [Next]_vars,
         UNCHANGED <<windows, settings>>, consented \subseteq consented',
         \A q \in Procs : Quietly(q),
         \A e \in raw' : copy'[e] = 0 =>
           \/ e \in raw /\ copy[e] = 0
           \/ /\ e > high
              /\ \A b \in Bindings : BackingUp(b) => [b |-> b, id |-> e] \in consented'
  PROVE  Intervals'
<1>0. Types' /\ high \in Nat /\ high' \in Nat /\ high <= high'
  BY NextTypes, HighGrows DEF Types, TypeOK
<1>1. Covered /\ Owned /\ Places /\ interrupted \subseteq interrupted'
  BY InterruptedGrows DEF Intervals
<1>2. \A b \in Bindings : Watched(b)' => Watched(b)
  BY QuietWatched
<1>3. Covered'
  <2> SUFFICES ASSUME NEW w \in windows, NEW e \in raw',
                      w.b \notin interrupted', Watched(w.b)', copy'[e] = 0,
                      w.start < e, e <= Reach(w)'
               PROVE  [b |-> w.b, id |-> e] \in consented'
    BY DEF Covered
  <2>1. /\ w.b \in Bindings /\ w.end \in Nat /\ Reach(w) <= high /\ Reach(w) \in Nat
        /\ w.b \notin interrupted /\ e \in Nat
    BY <1>0, <1>1, WindowTypes DEF Windows, Database, WindowsWellFormed, Types, TypeOK
  <2>2. Watched(w.b)
    BY <1>2, <2>1
  <2>3. CASE e \in raw /\ copy[e] = 0
    <3>1. e <= high
      BY <2>3, <1>0 DEF Types, TypeOK
    <3>2. e <= Reach(w)
      BY <3>1 DEF Reach
    <3> QED BY <1>1, <2>1, <2>2, <2>3, <3>2 DEF Covered
  <2>4. CASE ~(e \in raw /\ copy[e] = 0)
    <3>1. /\ e > high
          /\ \A b \in Bindings : BackingUp(b) => [b |-> b, id |-> e] \in consented'
      BY <2>4
    <3>2. w.end = Open
      BY <1>0, <2>1, <3>1 DEF Reach
    <3>3. BackingUp(w.b)
      BY <1>1, <2>1, <2>2, <3>2 DEF Owned, OpenOf
    <3> QED BY <2>1, <3>1, <3>3
  <2> QED BY <2>3, <2>4
<1>4. \A b : OpenOf(b)' = OpenOf(b)
  BY DEF OpenOf
<1>5. Owned'
  BY <1>1, <1>2, <1>4, QuietBacking, OwnedStays
<1>6. Places'
  BY <1>1, <1>4, QuietPlaces
<1> QED BY <1>3, <1>5, <1>6 DEF Intervals

LEMMA RecordIntervals ==
  ASSUME Types, Database, Intervals, [Next]_vars, Record
  PROVE  Intervals'
<1>1. /\ high' = high + 1 /\ raw' = raw \union {high + 1}
      /\ consented' = consented \union
           {[b |-> b, id |-> high + 1] : b \in {c \in Bindings : BackingUp(c)}}
      /\ UNCHANGED <<copy, windows, settings, procs>>
  BY DEF Record, queueVars
<1>2. high \in Nat
  BY DEF Types, TypeOK
<1>3. \A b \in Bindings : BackingUp(b) => [b |-> b, id |-> high + 1] \in consented'
  BY <1>1
<1>4. \A q \in Procs : Quietly(q)
  BY <1>1 DEF Quietly
<1>5. consented \subseteq consented'
  BY <1>1
<1>6. \A e \in raw' : e \in raw \/ (e > high /\ e = high + 1)
  BY <1>1, <1>2
<1> QED BY <1>1, <1>3, <1>4, <1>5, <1>6, LedgerIntervals

LEMMA RestoreApplyIntervals ==
  ASSUME Types, Database, Intervals, [Next]_vars, NEW p \in Procs, RestoreApply(p)
  PROVE  Intervals'
<1> DEFINE new == NewIds(procs[p].ids)
           n == Cardinality(new)
           fresh == high + 1 .. high + n
<1>1. /\ raw' = raw \union fresh /\ procs[p].pc = "restore_apply" /\ Exit(p)
      /\ UNCHANGED <<windows, settings, consented>>
  BY DEF RestoreApply, queueVars, historyVars
<1>2. PICK order \in [fresh -> new] :
        copy' = [e \in Events |-> IF e \in fresh THEN order[e] ELSE copy[e]]
  BY DEF RestoreApply
<1>3. \A id \in new : id # 0
  BY ConstantTypes DEF NewIds, Types, TypeOK, Processes, Ids
<1>4. raw' \subseteq Events
  <2>1. high' \in 0 .. MaxEvent /\ raw' \subseteq 1 .. high'
    BY NextTypes DEF Types, TypeOK
  <2> QED BY <2>1, ConstantTypes DEF Events
<1> HIDE DEF new, fresh
<1>5. \A e \in fresh : copy'[e] # 0
  <2>1. ASSUME NEW e \in fresh PROVE copy'[e] = order[e] /\ order[e] \in new
    BY <1>1, <1>2, <1>4, <2>1, Zenon
  <2> QED BY <1>3, <2>1
<1>6. \A e \in raw' : e \in raw \/ e \in fresh
  BY <1>1
<1>7. \A e \in raw' \ fresh : copy'[e] = copy[e]
  BY <1>2, <1>4, Zenon
<1>8. \A e \in raw' : copy'[e] = 0 => e \in raw /\ copy[e] = 0
  BY <1>5, <1>6, <1>7
<1>9. \A q \in Procs : Quietly(q)
  BY <1>1 DEF Quietly, Exit, Step, Idle, PlacePCs, EnabledPCs, OpenedPCs, Types, TypeOK
<1> QED BY <1>1, <1>8, <1>9, LedgerIntervals

LEMMA UsageDeleteIntervals ==
  ASSUME Types, Intervals, [Next]_vars, NEW e \in Events, UsageDelete(e)
  PROVE  Intervals'
<1>1. /\ raw' \subseteq raw
      /\ UNCHANGED <<high, copy, windows, settings, procs, consented>>
  BY DEF UsageDelete, historyVars
<1>2. \A q \in Procs : Quietly(q)
  BY <1>1 DEF Quietly
<1>3. \A b : OpenOf(b)' = OpenOf(b)
  BY <1>1 DEF OpenOf
<1>4. \A b \in Bindings : Watched(b)' => Watched(b)
  BY <1>1, <1>2, QuietWatched
<1>5. \A w \in windows' : Reach(w)' = Reach(w)
  BY <1>1 DEF Reach
<1>6. Covered'
  BY <1>1, <1>4, <1>5, CoveredStays DEF Intervals
<1>7. Owned'
  BY <1>1, <1>2, <1>3, <1>4, QuietBacking, OwnedStays DEF Intervals
<1>8. Places'
  BY <1>1, <1>2, <1>3, QuietPlaces DEF Intervals
<1> QED BY <1>6, <1>7, <1>8 DEF Intervals

LEMMA DrainCaptureIntervals ==
  ASSUME Types, Intervals, [Next]_vars, NEW p \in Procs, DrainCapture(p)
  PROVE  Intervals'
<1> DEFINE b == procs[p].b
<1>1. /\ windows' = {Advance(w, b) : w \in windows}
      /\ procs[p].pc = "drain_capture" /\ Goto(p, "drain_send")
      /\ UNCHANGED <<high, raw, copy, settings, consented>>
  BY DEF DrainCapture, localVars, historyVars
<1>2. \A q \in Procs : Quietly(q)
  <2> TAKE q \in Procs
  <2>1. CASE q = p
    <3>1. procs'[q].pc = "drain_send"
      BY <1>1, <2>1 DEF Goto, Types, TypeOK, Processes
    <3> QED BY <1>1, <2>1, <3>1 DEF Quietly, PlacePCs, EnabledPCs, OpenedPCs
  <2>2. CASE q # p
    BY <1>1, <2>2 DEF Quietly, Goto, Types, TypeOK
  <2> QED BY <2>1, <2>2
<1>3. ASSUME NEW w \in windows
      PROVE  LET v == Advance(w, b)
             IN v.b = w.b /\ v.start = w.start /\ v.end = w.end
  BY WindowTypes DEF Advance, Windows
<1>4. ASSUME NEW v \in windows'
      PROVE  \E w \in windows :
               /\ w.b = v.b /\ w.start = v.start /\ w.end = v.end
               /\ Reach(w) = Reach(v)'
  <2>1. PICK w \in windows : v = Advance(w, b)
    BY <1>1
  <2>2. w.b = v.b /\ w.start = v.start /\ w.end = v.end
    BY <1>3, <2>1
  <2> QED BY <1>1, <2>2 DEF Reach
<1>5. \A c : OpenOf(c) = {} => OpenOf(c)' = {}
  BY <1>4 DEF OpenOf
<1>6. \A c \in Bindings : Watched(c)' => Watched(c)
  BY <1>1, <1>2, QuietWatched
<1>7. Covered'
  BY <1>1, <1>4, <1>6, CoveredStays DEF Intervals
<1>8. Owned'
  BY <1>1, <1>2, <1>5, <1>6, QuietBacking, OwnedStays DEF Intervals
<1>9. Places'
  BY <1>1, <1>2, <1>5, QuietPlaces DEF Intervals
<1> QED BY <1>7, <1>8, <1>9 DEF Intervals

LEMMA NextIntervals ==
  ASSUME Types, CommandsExclusive, Database, LateIsKnown, Intervals, [Next]_vars
  PROVE  Intervals'
<1>1. CASE ~InTime'
  BY <1>1, NextTypes, Untimely
<1>2. ASSUME NEW p \in Procs, Effect(p), InTime' PROVE Intervals'
  BY <1>2, EnableCallIntervals, PauseIntervals, EnableOpenIntervals, SaveIntervals,
     DisableStartIntervals, DeleteCallIntervals DEF Effect
<1>3. ASSUME NEW p \in Procs, DrainCapture(p) \/ RestoreApply(p) PROVE Intervals'
  BY <1>3, DrainCaptureIntervals, RestoreApplyIntervals
<1>4. ASSUME Record \/ \E e \in Events : UsageDelete(e) PROVE Intervals'
  BY <1>4, RecordIntervals, UsageDeleteIntervals
<1>5. CASE /\ \A p \in Procs : ~Effect(p)
           /\ UNCHANGED <<localVars, windows, settings, consented>>
  <2>1. \A q \in Procs : Quietly(q)
    BY <1>5, MoveSteps DEF Moves
  <2> QED BY <1>5, <2>1, QuietIntervals
<1> QED BY <1>1, <1>2, <1>3, <1>4, <1>5, QuietSteps

\* Only what a watched interval covers is captured, and what the user chose
\* is chosen.
LEMMA NextLeaks ==
  ASSUME Types, Database, Covered, LeaksNeedInterruption, [Next]_vars
  PROVE  LeaksNeedInterruption'
<1>1. /\ interrupted \subseteq interrupted'
      /\ consented \union chosen \subseteq consented' \union chosen'
  <2>1. ASSUME NEW p \in Procs, Enabling(p) \/ Disabling(p) \/ Selecting(p)
        PROVE  consented \subseteq consented' /\ chosen \subseteq chosen'
    BY <2>1 DEF Enabling, EnableStart, EnableStatus, EnableCall, EnableCallFails, EnablePause,
       EnableOpen, EnableRefused, EnableSave, EnableSaveFails, EnableUndo, Disabling,
       DisableStart, DisablePause, DisableSave, Selecting, HistoryStart, HistoryPage,
       HistoryEnd, historyVars
  <2>2. ASSUME NEW p \in Procs, Restoring(p) \/ Deleting(p)
        PROVE  consented \subseteq consented' /\ chosen \subseteq chosen'
    BY <2>2 DEF Restoring, RestoreStart, RestoreFetch, RestoreApply, RestoreFails, Deleting,
       DeleteStart, DeleteCall, DeleteCallFails, DeletePause, DeleteSave, historyVars
  <2>3. ASSUME NEW p \in Procs, Draining(p)
        PROVE  consented \subseteq consented' /\ chosen \subseteq chosen'
    BY <2>3 DEF Draining, DrainStart, DrainLease, DrainStatus, DrainCapture, DrainStops,
       DrainSend, DrainAnswer, DrainFails, DrainRefresh, DrainAck, historyVars
  <2>4. ASSUME \/ \E p \in Procs : Crash(p)
               \/ \E m \in wire : ServerIngests(m)
               \/ \E a \in Accounts : OtherHome(a) \/ SignIn(a)
               \/ \E e \in Events : UsageDelete(e)
               \/ Record \/ LeaseEnds \/ UNCHANGED vars
        PROVE  consented \subseteq consented' /\ chosen \subseteq chosen'
    BY <2>4 DEF Crash, ServerIngests, OtherHome, SignIn, UsageDelete, Record, LeaseEnds,
       historyVars, vars
  <2>5. consented \subseteq consented' /\ chosen \subseteq chosen'
    BY <2>1, <2>2, <2>3, <2>4 DEF Next
  <2> QED BY <2>5, InterruptedGrows
<1>2. CASE queued' \subseteq queued
  BY <1>1, <1>2 DEF LeaksNeedInterruption
<1>3. ASSUME NEW p \in Procs, HistoryPage(p) PROVE LeaksNeedInterruption'
  <2>1. PICK rows : queued' = queued \union rows /\ chosen' = chosen \union rows
    BY <1>3 DEF HistoryPage
  <2> QED BY <1>1, <2>1 DEF LeaksNeedInterruption
<1>4. ASSUME NEW p \in Procs, DrainCapture(p) PROVE LeaksNeedInterruption'
  <2> DEFINE b == procs[p].b
             page == CapturePage(b)
  <2>1. /\ queued' = queued \union Select(b, page)
        /\ settings = [enabled |-> TRUE, binding |-> b]
    BY <1>4 DEF DrainCapture
  <2>2. page \subseteq Unscanned(b) /\ page \subseteq raw
    BY CapturePageOf
  <2>3. \A q \in Select(b, page) :
          /\ q.b = b /\ q = [b |-> b, id |-> q.id] /\ q.id \in page /\ copy[q.id] = 0
    BY <2>2 DEF Select, Id
  <2>4. ASSUME NEW q \in Select(b, page)
        PROVE  q \in consented \/ q.b \in interrupted
    <3>1. q.b = b /\ q = [b |-> b, id |-> q.id] /\ q.id \in page /\ copy[q.id] = 0
      BY <2>3
    <3>2. PICK w \in windows : w.b = b /\ q.id > w.scan /\ q.id <= Reach(w)
      BY <2>2, <3>1 DEF Unscanned
    <3>3. q.id \in Nat /\ w.start \in Nat /\ w.scan \in Nat /\ q.id \in raw
      BY <2>2, <3>1, IdTypes, WindowTypes
    <3>4. w.start <= w.scan
      BY DEF Database, WindowsWellFormed
    <3>5. w.start < q.id
      BY <3>2, <3>3, <3>4
    <3>6. Watched(w.b)
      BY <2>1, <3>2 DEF Watched
    <3> QED BY <3>1, <3>2, <3>3, <3>5, <3>6 DEF Covered
  <2> QED BY <1>1, <2>1, <2>4 DEF LeaksNeedInterruption
<1>5. queued' \subseteq queued \/ \E p \in Procs : DrainCapture(p) \/ HistoryPage(p)
  BY DatabaseSteps DEF RestoreApply, Record, UsageDelete, queueVars
<1> QED BY <1>2, <1>3, <1>4, <1>5

\* Whatever the interleaving of enable, disable, delete, sync, history and
\* restore with recording, sign-ins, lost answers and failed writes: what was
\* recorded during a pause is queued only when an enable died between opening
\* its interval and saving, or a command ran past its lease.
THEOREM LeaksExplained == Spec => []LeaksNeedInterruption
<1> DEFINE All == Inv /\ Consent
<1>1. Init => All
  BY InitConsent, InitTypes, InitExclusive, InitGiven, InitDatabase, InitTraffic DEF Inv
<1>2. ASSUME All, [Next]_vars PROVE All'
  <2>1. Inv'
    BY <1>2, NextTypes, NextExclusive, NextGiven, NextDatabase, NextTraffic DEF Inv
  <2>2. Types /\ CommandsExclusive /\ Database /\ LateIsKnown /\ Intervals
        /\ LeaksNeedInterruption
    BY <1>2 DEF Inv, Consent, Intervals
  <2>3. Intervals' /\ LateIsKnown' /\ LeaksNeedInterruption'
    BY <1>2, <2>2, NextIntervals, NextLate, NextLeaks DEF Intervals
  <2> QED BY <2>1, <2>3 DEF Consent, Intervals
<1>3. All => LeaksNeedInterruption
  BY DEF Consent
<1> HIDE DEF All
<1> QED BY <1>1, <1>2, <1>3, PTL DEF Spec

(***************************************************************************)
(* Where copies come from                                                  *)
(***************************************************************************)

\* The identities the service has ever had.
Copied == {r.id : r \in accepted} \union {Foreign}

\* What the service keeps and what a command is about to import it was given,
\* and an account without a backup keeps nothing.
Origin ==
  /\ \A a \in Accounts : server[a].records \subseteq Copied
  /\ \A a \in Accounts :
       server[a].gen = 0 => ~server[a].enabled /\ server[a].records = {}
  /\ \A p \in Procs : procs[p].pc = "restore_apply" => procs[p].ids \subseteq Copied

LEMMA InitOrigin == Init => Origin
BY DEF Init, Origin, Idle

\* Another home backs a record up.
OtherCopies(a) ==
  /\ server[a].enabled
  /\ server' = [server EXCEPT ![a].records = @ \union {Foreign}]

\* What a step may do to the service.
LEMMA ServiceSteps ==
  ASSUME Types, [Next]_vars
  PROVE  \/ \E a \in Accounts : \E b : ServerEnables(a, b) \/ ServerDeletes(a, b)
         \/ \E m \in wire : ServerIngests(m)
         \/ \E a \in Accounts : OtherCopies(a)
         \/ UNCHANGED server
<1>1. ASSUME NEW p \in Procs,
             EnableCall(p) \/ EnableCallFails(p) \/ DeleteCall(p) \/ DeleteCallFails(p)
      PROVE  \/ \E a \in Accounts : \E b : ServerEnables(a, b) \/ ServerDeletes(a, b)
             \/ UNCHANGED server
  <2>1. procs[p].token \in Accounts
    BY <1>1 DEF EnableCall, EnableCallFails, DeleteCall, DeleteCallFails, Types, Carries,
       SignedPCs
  <2> QED BY <1>1, <2>1 DEF EnableCall, EnableCallFails, DeleteCall, DeleteCallFails
<1>2. ASSUME NEW p \in Procs,
             Enabling(p) \/ Disabling(p) \/ Selecting(p) \/ Restoring(p) \/ Deleting(p)
      PROVE  \/ EnableCall(p) \/ EnableCallFails(p) \/ DeleteCall(p) \/ DeleteCallFails(p)
             \/ UNCHANGED server
  BY <1>2 DEF Enabling, EnableStart, EnableStatus, EnablePause,
     EnableOpen, EnableRefused, EnableSave, EnableSaveFails, EnableUndo, Disabling,
     DisableStart, DisablePause, DisableSave, Selecting, HistoryStart, HistoryPage, HistoryEnd,
     Restoring, RestoreStart, RestoreFetch, RestoreApply, RestoreFails, Deleting, DeleteStart,
     DeletePause, DeleteSave
<1>3. ASSUME NEW p \in Procs, Draining(p) PROVE UNCHANGED server
  BY <1>3 DEF Draining, DrainStart, DrainLease, DrainStatus, DrainCapture, DrainStops,
     DrainSend, DrainAnswer, DrainFails, DrainRefresh, DrainAck
<1>4. ASSUME NEW a \in Accounts, OtherHome(a)
      PROVE  OtherCopies(a) \/ \E b : ServerEnables(a, b) \/ ServerDeletes(a, b)
  BY <1>4 DEF OtherHome, OtherCopies
<1>5. ASSUME \/ \E p \in Procs : Crash(p)
             \/ \E a \in Accounts : SignIn(a)
             \/ \E e \in Events : UsageDelete(e)
             \/ Record \/ LeaseEnds \/ UNCHANGED vars
      PROVE  UNCHANGED server
  BY <1>5 DEF Crash, SignIn, UsageDelete, Record, LeaseEnds, vars
<1> QED BY <1>1, <1>2, <1>3, <1>4, <1>5 DEF Next

\* Enabling gives the account its current generation, or its first.
LEMMA EnablesEffect ==
  ASSUME Types, NEW a \in Accounts, NEW b, ServerEnables(a, b)
  PROVE  /\ \A c \in Accounts \ {a} : server'[c] = server[c]
         /\ server'[a].enabled /\ server'[a].records = server[a].records
         /\ \/ server'[a].gen = server[a].gen
            \/ server[a].gen = 0 /\ server'[a].gen = 1
         /\ server'[a].gen \in 1 .. MaxGen
<1>0. server \in [Accounts -> [gen : 0 .. MaxGen, enabled : BOOLEAN, records : SUBSET Ids]]
  BY DEF Types, TypeOK
<1>1. MaxGen \in Nat
  BY ConstantTypes
<1>2. CASE /\ server[a].gen = 0 /\ MaxGen > 0
           /\ server' = [server EXCEPT ![a].gen = 1, ![a].enabled = TRUE]
  BY <1>0, <1>1, <1>2
<1>3. CASE /\ server[a].gen > 0
           /\ server' = [server EXCEPT ![a].enabled = TRUE]
  BY <1>0, <1>1, <1>3
<1> QED BY <1>2, <1>3 DEF ServerEnables

LEMMA DeletesEffect ==
  ASSUME Types, NEW a \in Accounts, NEW b, ServerDeletes(a, b)
  PROVE  /\ \A c \in Accounts \ {a} : server'[c] = server[c]
         /\ ~server'[a].enabled /\ server'[a].records = {}
         /\ server'[a].gen = server[a].gen + 1 /\ server[a].gen \in 1 .. MaxGen
         /\ b = Current(a)
<1>0. server \in [Accounts -> [gen : 0 .. MaxGen, enabled : BOOLEAN, records : SUBSET Ids]]
  BY DEF Types, TypeOK
<1>1. MaxGen \in Nat
  BY ConstantTypes
<1> QED BY <1>0, <1>1 DEF ServerDeletes

\* A request that is handled is taken by the account it names, or lost.
LEMMA IngestsEffect ==
  ASSUME Types, Traffic, NEW m \in wire, ServerIngests(m), ~UNCHANGED <<server, accepted>>
  PROVE  LET a == m.b.account IN
         /\ a \in Accounts /\ m.b \in Bindings /\ m.ids \subseteq Ids
         /\ server[a].enabled /\ m.b = Current(a)
         /\ \A c \in Accounts \ {a} : server'[c] = server[c]
         /\ server'[a].records = server[a].records \union m.ids
         /\ server'[a].gen = server[a].gen /\ server'[a].enabled
         /\ accepted' = accepted \union {[b |-> m.b, id |-> i] : i \in m.ids}
<1>0. server \in [Accounts -> [gen : 0 .. MaxGen, enabled : BOOLEAN, records : SUBSET Ids]]
  BY DEF Types, TypeOK
<1>1. /\ m.b \in Bindings /\ m.ids \subseteq Ids /\ m.token = m.b.account
      /\ m.token \in Accounts
  BY DEF Types, TypeOK, Traffic, SentWithOwnAccount
<1>2. /\ Admitted(m)
      /\ server' = [server EXCEPT ![m.token].records = @ \union m.ids]
      /\ accepted' = accepted \union {[b |-> m.b, id |-> i] : i \in m.ids}
  BY DEF ServerIngests
<1>3. server[m.token].enabled /\ m.b = Current(m.token)
  BY <1>2 DEF Admitted
<1>4. /\ \A c \in Accounts \ {m.token} : server'[c] = server[c]
      /\ server'[m.token].records = server[m.token].records \union m.ids
      /\ server'[m.token].gen = server[m.token].gen
      /\ server'[m.token].enabled = server[m.token].enabled
  BY <1>0, <1>1, <1>2
<1> QED BY <1>1, <1>2, <1>3, <1>4

LEMMA OtherCopiesEffect ==
  ASSUME Types, NEW a \in Accounts, OtherCopies(a)
  PROVE  /\ server[a].enabled /\ server'[a].enabled
         /\ \A c \in Accounts \ {a} : server'[c] = server[c]
         /\ server'[a].records = server[a].records \union {Foreign}
         /\ server'[a].gen = server[a].gen
<1>0. server \in [Accounts -> [gen : 0 .. MaxGen, enabled : BOOLEAN, records : SUBSET Ids]]
  BY DEF Types, TypeOK
<1> QED BY <1>0 DEF OtherCopies

LEMMA NextOrigin ==
  ASSUME Types, Traffic, Origin, [Next]_vars
  PROVE  Origin'
<1>1. Copied \subseteq Copied'
  BY AcceptedGrows DEF Copied
<1>2. ASSUME NEW a \in Accounts,
             server'[a].records \subseteq server[a].records \union Copied',
             server'[a].gen = 0 =>
               server[a].gen = 0 /\ ~server'[a].enabled /\ server'[a].records = {}
      PROVE  /\ server'[a].records \subseteq Copied'
             /\ server'[a].gen = 0 => ~server'[a].enabled /\ server'[a].records = {}
  BY <1>1, <1>2 DEF Origin
<1>3. ASSUME NEW a \in Accounts
      PROVE  /\ server'[a].records \subseteq Copied'
             /\ server'[a].gen = 0 => ~server'[a].enabled /\ server'[a].records = {}
  <2>0. server[a].gen \in Nat
    BY DEF Types, TypeOK
  <2>1. CASE server'[a] = server[a]
    BY <1>1, <2>1 DEF Origin
  <2>2. ASSUME NEW c \in Accounts, NEW b, ServerEnables(c, b), c = a
        PROVE  server'[a].records \subseteq Copied' /\ server'[a].gen # 0
    BY <1>1, <2>2, EnablesEffect, ConstantTypes DEF Origin
  <2>3. ASSUME NEW c \in Accounts, NEW b, ServerDeletes(c, b), c = a
        PROVE  server'[a].records \subseteq Copied' /\ server'[a].gen # 0
    BY <2>0, <2>3, DeletesEffect DEF Origin
  <2>4. ASSUME NEW m \in wire, ServerIngests(m), ~UNCHANGED <<server, accepted>>,
               m.b.account = a
        PROVE  server'[a].records \subseteq Copied' /\ server'[a].gen # 0
    <3>1. m.ids \subseteq Copied'
      <4>1. \A i \in m.ids : [b |-> m.b, id |-> i] \in accepted'
        BY <2>4, IngestsEffect
      <4>2. \A r \in accepted' : r.id \in Copied'
        BY DEF Copied
      <4>3. ASSUME NEW i \in m.ids PROVE i \in Copied'
        <5>1. [b |-> m.b, id |-> i].id = i
          OBVIOUS
        <5> QED BY <4>1, <4>2, <5>1
      <4> QED BY <4>3
    <3>2. server'[a].records = server[a].records \union m.ids
      BY <2>4, IngestsEffect
    <3>3. server'[a].gen = server[a].gen /\ server[a].enabled
      BY <2>4, IngestsEffect
    <3> QED BY <1>1, <3>1, <3>2, <3>3 DEF Origin
  <2>5. ASSUME NEW c \in Accounts, OtherCopies(c), c = a
        PROVE  server'[a].records \subseteq Copied' /\ server'[a].gen # 0
    <3>1. /\ server'[a].records = server[a].records \union {Foreign}
          /\ server'[a].gen = server[a].gen /\ server[a].enabled
      BY <2>5, OtherCopiesEffect
    <3> QED BY <1>1, <3>1 DEF Origin, Copied
  <2>6. \/ server'[a] = server[a]
        \/ \E c \in Accounts : \E b : (ServerEnables(c, b) \/ ServerDeletes(c, b)) /\ c = a
        \/ \E m \in wire : /\ ServerIngests(m) /\ ~UNCHANGED <<server, accepted>>
                           /\ m.b.account = a
        \/ \E c \in Accounts : OtherCopies(c) /\ c = a
    BY ServiceSteps, EnablesEffect, DeletesEffect, IngestsEffect, OtherCopiesEffect
  <2> QED BY <2>1, <2>2, <2>3, <2>4, <2>5, <2>6
<1>4. ASSUME NEW p \in Procs, procs'[p].pc = "restore_apply"
      PROVE  procs'[p].ids \subseteq Copied'
  BY <1>1, <1>4, BatchSteps DEF Keeps, Origin
<1> QED BY <1>3, <1>4 DEF Origin

(***************************************************************************)
(* The commands keep what BackupCopies promises                            *)
(***************************************************************************)

CopiesInv == Inv /\ LeaksNeedInterruption /\ Origin

\* The step is one of BackupCopies, or none.
Promised == [Copies!CopiesNext]_(Copies!cvars)

\* All that BackupCopies sees but consent.
Seen == <<localVars, queued, acked, account, wire, server, consented, chosen, accepted>>

LEMMA SeenSteps ==
  ASSUME Types, [Next]_vars
  PROVE  \/ UNCHANGED Seen
         \/ \E p \in Procs : \/ HistoryPage(p) \/ DrainCapture(p) \/ DrainSend(p)
                             \/ DrainRefresh(p) \/ DrainAck(p) \/ RestoreApply(p)
                             \/ EnableCall(p) \/ EnableCallFails(p)
                             \/ DeleteCall(p) \/ DeleteCallFails(p)
         \/ Record \/ \E e \in Events : UsageDelete(e)
         \/ \E m \in wire : ServerIngests(m)
         \/ \E a \in Accounts : OtherHome(a) \/ SignIn(a)
<1> USE DEF Seen, queueVars, historyVars
<1>1. ASSUME NEW p \in Procs, Enabling(p)
      PROVE  UNCHANGED Seen \/ EnableCall(p) \/ EnableCallFails(p)
  BY <1>1 DEF Enabling, EnableStart, EnableStatus, EnablePause,
     EnableOpen, EnableRefused, EnableSave, EnableSaveFails, EnableUndo
<1>2. ASSUME NEW p \in Procs, Disabling(p) \/ Selecting(p)
      PROVE  UNCHANGED Seen \/ HistoryPage(p)
  BY <1>2 DEF Disabling, DisableStart, DisablePause, DisableSave, Selecting, HistoryStart,
     HistoryEnd
<1>3. ASSUME NEW p \in Procs, Draining(p)
      PROVE  UNCHANGED Seen \/ DrainCapture(p) \/ DrainSend(p) \/ DrainRefresh(p) \/ DrainAck(p)
  BY <1>3 DEF Draining, DrainStart, DrainLease, DrainStatus, DrainStops, DrainAnswer, DrainFails
<1>4. ASSUME NEW p \in Procs, Restoring(p) \/ Deleting(p)
      PROVE  UNCHANGED Seen \/ RestoreApply(p) \/ DeleteCall(p) \/ DeleteCallFails(p)
  BY <1>4 DEF Restoring, RestoreStart, RestoreFetch, RestoreFails, Deleting, DeleteStart,
     DeletePause, DeleteSave
<1>5. ASSUME (\E p \in Procs : Crash(p)) \/ LeaseEnds \/ UNCHANGED vars
      PROVE  UNCHANGED Seen
  BY <1>5 DEF Crash, LeaseEnds, vars
<1> QED BY <1>1, <1>2, <1>3, <1>4, <1>5 DEF Next

\* Such a step at most turns backup on or off, or excuses a binding.
LEMMA PromisedUnseen ==
  ASSUME Types, [Next]_vars, UNCHANGED Seen
  PROVE  Promised
<1>1. UNCHANGED <<Recorded, Here, Own, Agreed, Taking, Ended, Kept>>
  BY DEF Seen, localVars, Recorded, Here, Own, Agreed, Taking, Ended, Kept, Current, Id
<1>2. /\ Backing' \in SUBSET Bindings
      /\ interrupted \subseteq interrupted' /\ interrupted' \subseteq Bindings
  BY InterruptedGrows, NextTypes DEF Backing, Types, TypeOK
<1>3. UNCHANGED <<account, queued, acked, wire, accepted>>
  BY DEF Seen
<1>4. Copies!ChangeConsent
  BY <1>1, <1>2, <1>3 DEF Copies!ChangeConsent, Copies!ledger, Copies!queue, Copies!service
<1> QED BY <1>4 DEF Promised, Copies!CopiesNext

\* Backup stays on where it is while a command is elsewhere.
LEMMA BackingKept ==
  ASSUME Types, UNCHANGED settings, NEW p \in Procs, NEW s, Step(p, s),
         procs[p].pc \notin OpenedPCs, s.pc \notin OpenedPCs
  PROVE  Backing' = Backing
<1>1. \A q \in Procs : procs'[q] = IF q = p THEN s ELSE procs[q]
  BY DEF Step, Types, TypeOK
<1>2. ASSUME NEW b PROVE BackingUp(b)' <=> BackingUp(b)
  BY <1>1 DEF BackingUp, OpenedPCs
<1> QED BY <1>2 DEF Backing

LEMMA BackingGoes ==
  ASSUME Types, UNCHANGED settings, NEW p \in Procs, NEW pc, Goto(p, pc),
         procs[p].pc \notin OpenedPCs, pc \notin OpenedPCs
  PROVE  Backing' = Backing
<1> DEFINE s == [procs[p] EXCEPT !.pc = pc]
<1>1. Step(p, s)
  BY DEF Goto, Step
<1>2. s.pc = pc
  BY DEF Types, TypeOK, Processes
<1> HIDE DEF s
<1> QED BY <1>1, <1>2, BackingKept

LEMMA BackingEnds ==
  ASSUME Types, UNCHANGED settings, NEW p \in Procs, Exit(p), procs[p].pc \notin OpenedPCs
  PROVE  Backing' = Backing
<1>1. Step(p, Idle) /\ Idle.pc \notin OpenedPCs
  BY DEF Exit, Idle, OpenedPCs
<1> QED BY <1>1, BackingKept

LEMMA PromisedRecord ==
  ASSUME Types, Given, Record
  PROVE  Promised
<1> DEFINE i == high + 1
<1>1. /\ high' = i /\ raw' = raw \union {i} /\ copy' = copy /\ high < MaxEvent
      /\ consented' = consented \union {[b |-> b, id |-> i] : b \in Backing}
  BY DEF Record, Backing
<1>2. /\ high \in Nat /\ raw \subseteq 1 .. high /\ MaxEvent \in Nat
      /\ i \in Events /\ i \in Nat /\ i # Foreign /\ 1 .. i = (1 .. high) \union {i}
      /\ i \notin 1 .. high /\ i \in Ids
  BY <1>1, ConstantTypes DEF Types, TypeOK, Events, Foreign, Ids
<1>3. copy[i] = 0
  BY <1>2 DEF Given
<1>4. i \notin Here
  <2>1. \A e \in raw : Id(e) \in Issued
    BY IdTypes DEF Given, Id, Issued
  <2>2. i \notin Issued
    BY <1>2 DEF Issued
  <2> QED BY <2>1, <2>2 DEF Here
<1> HIDE DEF i
<1>5. i \in Ids \ (Recorded \union Here \union {Foreign})
  BY <1>2, <1>4 DEF Recorded
<1>6. /\ Recorded' = Recorded \union {i}
      /\ Own' = Own \union {i}
  BY <1>1, <1>2, <1>3 DEF Recorded, Own
<1>7. Here' = Here \union {i}
  BY <1>1, <1>3 DEF Here, Id
<1>8. Agreed' = Agreed \union {[b |-> b, id |-> i] : b \in Backing}
  BY <1>1 DEF Record, Agreed
<1>9. UNCHANGED <<interrupted, Backing, account, queued, acked, wire, Taking, Ended, Kept, accepted>>
  BY DEF Record, Backing, BackingUp, queueVars, Taking, Ended, Kept, Current
<1>10. Copies!RecordOne
  BY <1>5, <1>6, <1>7, <1>8, <1>9 DEF Copies!RecordOne, Copies!queue, Copies!service
<1> QED BY <1>10 DEF Promised, Copies!CopiesNext

LEMMA PromisedSignIn ==
  ASSUME NEW a \in Accounts, SignIn(a)
  PROVE  Promised
<1>1. UNCHANGED <<Recorded, Here, Own, Agreed, interrupted, Backing, queued, acked, wire, Taking,
                  Ended, Kept, accepted>>
  BY DEF SignIn, Recorded, Here, Own, Agreed, Backing, BackingUp, queueVars, localVars,
     historyVars, Taking, Ended, Kept, Current, Id
<1>2. account' \in Accounts
  BY DEF SignIn
<1>3. Copies!SwitchUser
  BY <1>1, <1>2 DEF Copies!SwitchUser, Copies!ledger, Copies!queue, Copies!service
<1> QED BY <1>3 DEF Promised, Copies!CopiesNext

\* The rows of a page are its own events.
LEMMA SelectUnder ==
  ASSUME NEW b, NEW page, page \subseteq raw
  PROVE  \E ids \in SUBSET Own : Select(b, page) = Copies!Under(b, ids)
<1> DEFINE ids == {e \in page : copy[e] = 0}
<1>1. ids \in SUBSET Own
  BY DEF Own
<1>2. Select(b, page) = Copies!Under(b, ids)
  BY DEF Select, Copies!Under, Id
<1> QED BY <1>1, <1>2

LEMMA PromisedHistory ==
  ASSUME Types, NEW p \in Procs, HistoryPage(p)
  PROVE  Promised
<1> DEFINE b == procs[p].b
           page == FirstOf({e \in raw : e > procs[p].after /\ e <= procs[p].through}, PageSize)
<1>1. /\ procs[p].pc = "history"
      /\ queued' = queued \union Select(b, page)
      /\ chosen' = chosen \union Select(b, page)
      /\ Step(p, [procs[p] EXCEPT !.after = Last(page)])
      /\ UNCHANGED <<high, raw, copy, acked, settings, account, wire, server, consented, accepted,
                     interrupted>>
  BY DEF HistoryPage, localVars
<1>2. b \in Bindings
  BY <1>1 DEF Types, Carries, BoundPCs
<1>3. page \subseteq raw
  BY DEF FirstOf
<1>4. Backing' = Backing
  <2>1. [procs[p] EXCEPT !.after = Last(page)].pc = "history"
    BY <1>1 DEF Types, TypeOK, Processes
  <2> HIDE DEF page
  <2> QED BY <1>1, <2>1, BackingKept DEF OpenedPCs
<1> HIDE DEF page, b
<1>5. PICK ids \in SUBSET Own : Select(b, page) = Copies!Under(b, ids)
  BY <1>3, SelectUnder
<1>6. /\ Agreed' = Agreed \union Copies!Under(b, ids)
      /\ queued' = queued \union Copies!Under(b, ids)
  BY <1>1, <1>5 DEF Agreed
<1>7. UNCHANGED <<Recorded, Here, Own, interrupted, Backing, account, acked, wire, Taking, Ended,
                  Kept, accepted>>
  BY <1>1, <1>4 DEF Recorded, Here, Own, Taking, Ended, Kept, Current, Id
<1>8. Copies!ChoosePast
  BY <1>2, <1>6, <1>7 DEF Copies!ChoosePast, Copies!ledger, Copies!service
<1> QED BY <1>8 DEF Promised, Copies!CopiesNext

LEMMA PromisedCapture ==
  ASSUME Types, LeaksNeedInterruption', NEW p \in Procs, DrainCapture(p)
  PROVE  Promised
<1> DEFINE b == procs[p].b
           page == CapturePage(b)
<1>1. /\ procs[p].pc = "drain_capture" /\ settings = [enabled |-> TRUE, binding |-> b]
      /\ queued' = queued \union Select(b, page) /\ Goto(p, "drain_send")
      /\ UNCHANGED <<high, raw, copy, acked, settings, account, wire, server, consented, chosen,
                     accepted, interrupted>>
  BY DEF DrainCapture, localVars, historyVars
<1>2. b \in Backing
  BY <1>1 DEF Types, Backing, BackingUp
<1>3. page \subseteq raw
  BY CapturePageOf
<1>4. Backing' = Backing
  BY <1>1, BackingGoes DEF OpenedPCs
<1> HIDE DEF page, b
<1>5. PICK ids \in SUBSET Own : Select(b, page) = Copies!Under(b, ids)
  BY <1>3, SelectUnder
<1>6. queued' = queued \union Copies!Under(b, ids)
  BY <1>1, <1>5
<1>7. b \in interrupted \/ Copies!Under(b, ids) \subseteq Agreed
  <2>1. \A q \in Copies!Under(b, ids) : q.b = b
    BY DEF Copies!Under
  <2>2. \A q \in queued' : q \in Agreed \/ q.b \in interrupted
    BY <1>1 DEF LeaksNeedInterruption, Agreed
  <2> QED BY <1>6, <2>1, <2>2
<1>8. UNCHANGED <<Recorded, Here, Own, Agreed, interrupted, Backing, account, acked, wire, Taking,
                  Ended, Kept, accepted>>
  BY <1>1, <1>4 DEF Recorded, Here, Own, Agreed, Taking, Ended, Kept, Current, Id
<1>9. Copies!SelectAgreed
  BY <1>2, <1>6, <1>7, <1>8 DEF Copies!SelectAgreed, Copies!ledger, Copies!consent,
     Copies!service
<1> QED BY <1>9 DEF Promised, Copies!CopiesNext

LEMMA PromisedSend ==
  ASSUME Types, Database, [Next]_vars, NEW p \in Procs, DrainSend(p)
  PROVE  Promised
<1> DEFINE b == procs[p].b
           ids == Batch(b)
           s == [procs[p] EXCEPT !.pc = "drain_wait", !.ids = ids]
<1>1. /\ procs[p].pc = "drain_send"
      /\ UNCHANGED <<localVars, queued, acked, settings, account, server, consented, chosen,
                     accepted, interrupted>>
  BY DEF DrainSend, queueVars, historyVars
<1>2. CASE UNCHANGED wire
  BY <1>1, <1>2, PromisedUnseen DEF Seen
<1>3. CASE ~UNCHANGED wire
  <2>1. /\ ids # {} /\ MayTransmit(p) /\ Step(p, s)
        /\ wire' = wire \union {[b |-> b, token |-> procs[p].token, ids |-> ids]}
    BY <1>3 DEF DrainSend
  <2>2. procs[p].token = b.account /\ b.account = account
    BY <1>1, <2>1 DEF Types, Carries, CheckedPCs, MayTransmit
  <2>3. b \in Backing
    BY <2>1 DEF MayTransmit, Types, Backing, BackingUp
  <2>4. Backing' = Backing
    <3>1. s.pc = "drain_wait"
      BY DEF Types, TypeOK, Processes
    <3> HIDE DEF s
    <3> QED BY <1>1, <2>1, <3>1, BackingKept DEF OpenedPCs
  <2>5. \A i \in ids : [b |-> b, id |-> i] \in queued \ acked
    BY DEF Batch, FirstOf
  <2> HIDE DEF ids, s, b
  <2>6. ids \in (SUBSET Own) \ {{}}
    <3>1. ASSUME NEW i \in ids PROVE i \in Own
      <4>1. [b |-> b, id |-> i].id = i
        OBVIOUS
      <4> QED BY <2>5, <4>1 DEF Database, SelectionsAreOwn, Own
    <3> QED BY <2>1, <3>1
  <2>7. Copies!Under(b, ids) \subseteq queued \ acked
    BY <2>5 DEF Copies!Under
  <2>8. wire' = wire \union {[b |-> b, token |-> account, ids |-> ids]}
    BY <2>1, <2>2
  <2>9. UNCHANGED <<Recorded, Here, Own, Agreed, Taking, Ended, Kept>>
    BY <1>1 DEF localVars, Recorded, Here, Own, Agreed, Taking, Ended, Kept, Current, Id
  <2>10. Copies!SendSome
    BY <1>1, <2>2, <2>3, <2>4, <2>6, <2>7, <2>8, <2>9 DEF Copies!SendSome, Copies!ledger,
       Copies!consent, Copies!queue, Copies!service
  <2> QED BY <2>10 DEF Promised, Copies!CopiesNext
<1> QED BY <1>2, <1>3

\* A request is withdrawn or gets lost.
LEMMA PromisedLoss ==
  ASSUME NEW m \in wire, wire' = wire \ {m}, Backing' = Backing,
         UNCHANGED <<localVars, queued, acked, account, server, historyVars>>
  PROVE  Promised
<1>1. UNCHANGED <<Recorded, Here, Own, Agreed, Taking, Ended, Kept>>
  BY DEF localVars, historyVars, Recorded, Here, Own, Agreed, Taking, Ended, Kept, Current, Id
<1>2. Copies!LoseOne
  BY <1>1 DEF Copies!LoseOne, Copies!ledger, Copies!consent, Copies!queue,
     Copies!service, historyVars
<1> QED BY <1>2 DEF Promised, Copies!CopiesNext

LEMMA PromisedRefresh ==
  ASSUME Types, [Next]_vars, NEW p \in Procs, DrainRefresh(p)
  PROVE  Promised
<1>1. /\ procs[p].pc = "drain_wait"
      /\ UNCHANGED <<localVars, queued, acked, settings, account, server, historyVars>>
  BY DEF DrainRefresh, queueVars
<1>2. CASE UNCHANGED wire
  BY <1>1, <1>2, PromisedUnseen DEF Seen, historyVars
<1>3. CASE ~UNCHANGED wire
  <2>1. Request(p) \in wire /\ wire' = wire \ {Request(p)} /\ Exit(p)
    BY <1>3 DEF DrainRefresh
  <2>2. Backing' = Backing
    BY <1>1, <2>1, BackingEnds DEF OpenedPCs
  <2> QED BY <1>1, <2>1, <2>2, PromisedLoss
<1> QED BY <1>2, <1>3

LEMMA PromisedAck ==
  ASSUME Types, Traffic, NEW p \in Procs, DrainAck(p)
  PROVE  Promised
<1> DEFINE s == [procs[p] EXCEPT !.pc = "drain_capture", !.ids = {}, !.left = @ - 1]
<1>1. /\ procs[p].pc = "drain_ack" /\ acked' = acked \union AckRows(p) /\ Step(p, s)
      /\ UNCHANGED <<localVars, queued, settings, account, wire, server, consented, chosen,
                     accepted, interrupted>>
  BY DEF DrainAck, historyVars
<1>2. Backing' = Backing
  <2>1. s.pc = "drain_capture"
    BY DEF Types, TypeOK, Processes
  <2> HIDE DEF s
  <2> QED BY <1>1, <2>1, BackingKept DEF OpenedPCs
<1>3. AckRows(p) \in SUBSET (queued \intersect accepted)
  <2>1. ASSUME NEW r \in AckRows(p) PROVE r \in queued \intersect accepted
    <3>1. r \in queued /\ r = [b |-> procs[p].b, id |-> r.id] /\ r.id \in procs[p].ids
      BY DEF AckRows, Types, TypeOK, Rows
    <3> QED BY <1>1, <3>1 DEF Traffic, OnTheWay
  <2> QED BY <2>1
<1>4. UNCHANGED <<Recorded, Here, Own, Agreed, Taking, Ended, Kept>>
  BY <1>1 DEF localVars, Recorded, Here, Own, Agreed, Taking, Ended, Kept, Current, Id
<1>5. Copies!ConfirmTaken
  BY <1>1, <1>2, <1>3, <1>4 DEF Copies!ConfirmTaken, Copies!ledger, Copies!consent,
     Copies!service
<1> QED BY <1>5 DEF Promised, Copies!CopiesNext

\* What is imported becomes events of other sequences, none of them own.
LEMMA PromisedRestore ==
  ASSUME Types, Origin, [Next]_vars, NEW p \in Procs, RestoreApply(p)
  PROVE  Promised
<1> DEFINE new == NewIds(procs[p].ids)
           n == Cardinality(new)
           fresh == high + 1 .. high + n
<1>1. /\ procs[p].pc = "restore_apply" /\ Exit(p)
      /\ high' = high + n /\ raw' = raw \union fresh
      /\ UNCHANGED <<queued, acked, settings, account, wire, server, consented, chosen, accepted,
                     interrupted>>
  BY DEF RestoreApply, queueVars, historyVars
<1>2. PICK order \in [fresh -> new] :
        /\ \A e, f \in fresh : order[e] = order[f] => e = f
        /\ copy' = [e \in Events |-> IF e \in fresh THEN order[e] ELSE copy[e]]
  BY DEF RestoreApply
<1>3. \A id \in new : id # 0 /\ id \notin Here /\ id \in Copied
  BY <1>1, ConstantTypes DEF NewIds, Types, TypeOK, Processes, Ids, Known, Here, Origin
<1>4. /\ high \in Nat /\ high' \in Nat /\ high <= high'
      /\ raw \subseteq 1 .. high /\ 1 .. high' \subseteq Events
  <2>1. Types' /\ high <= high'
    BY HighGrows, NextTypes
  <2>2. high' \in 0 .. MaxEvent
    BY <2>1 DEF Types, TypeOK
  <2>3. 1 .. high' \subseteq Events
    BY <2>2, ConstantTypes DEF Events
  <2> QED BY <2>1, <2>2, <2>3 DEF Types, TypeOK
<1>5. fresh = high + 1 .. high'
  BY <1>1
<1> HIDE DEF new, fresh
<1>6. fresh \subseteq Events /\ \A e \in 1 .. high : e \notin fresh /\ e \in Events
  BY <1>4, <1>5
<1>7. 1 .. high' = (1 .. high) \union fresh
  BY <1>4, <1>5
<1>8. \A e \in 1 .. high : copy'[e] = copy[e]
  BY <1>2, <1>6, Zenon
<1>9. \A e \in fresh : copy'[e] = order[e] /\ order[e] \in new
  BY <1>2, <1>6, Zenon
<1>10. Recorded' = Recorded /\ Own' = Own
  <2>1. \A e \in fresh : copy'[e] # 0
    BY <1>3, <1>9
  <2>2. \A e \in raw : copy'[e] = copy[e]
    BY <1>4, <1>8
  <2> QED BY <1>1, <1>7, <1>8, <2>1, <2>2 DEF Recorded, Own
<1> DEFINE ids == {order[e] : e \in fresh}
<1>11. Here' = Here \union ids
  <2>1. \A e \in raw : Id(e)' = Id(e)
    BY <1>4, <1>8 DEF Id
  <2>2. \A e \in fresh : Id(e)' = order[e]
    BY <1>3, <1>9 DEF Id
  <2>3. Here' = {Id(e)' : e \in raw \union fresh}
    BY <1>1 DEF Here
  <2> QED BY <2>1, <2>2, <2>3 DEF Here
<1>12. ids \in SUBSET (({r.id : r \in accepted} \union {Foreign}) \ Here)
  BY <1>3, <1>9 DEF Copied
<1>13. Backing' = Backing
  BY <1>1, BackingEnds DEF OpenedPCs
<1>14. UNCHANGED <<Agreed, Taking, Ended, Kept>>
  BY <1>1 DEF Agreed, Taking, Ended, Kept, Current
<1> HIDE DEF ids
<1>15. Copies!ImportSome
  BY <1>1, <1>10, <1>11, <1>12, <1>13, <1>14 DEF Copies!ImportSome, Copies!consent,
     Copies!queue, Copies!service
<1> QED BY <1>15 DEF Promised, Copies!CopiesNext

LEMMA PromisedForget ==
  ASSUME Types, Database, NEW e \in Events, UsageDelete(e)
  PROVE  Promised
<1>1. /\ e \in raw /\ raw' = raw \ {e}
      /\ queued' = {q \in queued : q.id # Id(e)}
      /\ acked' = {q \in acked : q.id # Id(e)}
      /\ UNCHANGED <<high, copy, settings, account, procs, wire, server, historyVars>>
  BY DEF UsageDelete
<1>2. \A f \in raw : Id(f) = Id(e) => f = e
  BY <1>1 DEF Database, IdentitiesUnique
<1>3. \A f : Id(f)' = Id(f)
  BY <1>1 DEF Id
<1>4. Id(e) \in Here /\ Here' = Here \ {Id(e)}
  BY <1>1, <1>2, <1>3 DEF Here
<1>5. Own' = Own \ {Id(e)}
  <2>1. \A f \in Own : Id(f) = f /\ f \in raw
    BY DEF Own, Id
  <2>2. \A f \in Own : f = Id(e) <=> f = e
    BY <1>2, <2>1
  <2>3. Own' = Own \ {e}
    BY <1>1 DEF Own
  <2> QED BY <2>2, <2>3
<1>6. UNCHANGED <<Recorded, Agreed, Backing, Taking, Ended, Kept>>
  BY <1>1 DEF Recorded, Agreed, Backing, BackingUp, Taking, Ended, Kept, Current, historyVars
<1>7. Copies!ForgetOne
  BY <1>1, <1>4, <1>5, <1>6 DEF Copies!ForgetOne, Copies!consent, Copies!service, historyVars
<1> QED BY <1>7 DEF Promised, Copies!CopiesNext

\* What of the copies belongs to an account.
LEMMA KeptRows ==
  /\ \A r \in Kept : \E a \in Accounts :
       r.b = Current(a) /\ r.id \in server[a].records /\ r = [b |-> r.b, id |-> r.id]
  /\ \A a \in Accounts : \A i \in server[a].records : [b |-> Current(a), id |-> i] \in Kept
BY DEF Kept

\* What the service keeps under a binding that is taken grows.
LEMMA KeptGrows ==
  ASSUME Types, NEW a \in Accounts, NEW ids,
         \A c \in Accounts \ {a} : server'[c] = server[c],
         server'[a].records = server[a].records \union ids,
         server'[a].gen = server[a].gen
  PROVE  Kept' = Kept \union Copies!Under(Current(a), ids)
<1>1. \A c \in Accounts : Current(c)' = Current(c)
  BY DEF Current
<1>2. ASSUME NEW r \in Kept' PROVE r \in Kept \union Copies!Under(Current(a), ids)
  <2>1. PICK c \in Accounts : r.b = Current(c) /\ r.id \in server'[c].records
                              /\ r = [b |-> r.b, id |-> r.id]
    BY <1>1 DEF Kept
  <2>2. CASE r.id \in server[c].records
    BY <2>1, <2>2, KeptRows
  <2>3. CASE r.id \notin server[c].records
    <3>1. c = a /\ r.id \in ids
      BY <2>1, <2>3
    <3> QED BY <2>1, <3>1 DEF Copies!Under
  <2> QED BY <2>2, <2>3
<1>3. ASSUME NEW r \in Kept PROVE r \in Kept'
  <2>1. PICK c \in Accounts : r.b = Current(c) /\ r.id \in server[c].records
                              /\ r = [b |-> r.b, id |-> r.id]
    BY KeptRows
  <2>2. r.id \in server'[c].records
    BY <2>1
  <2> QED BY <1>1, <2>1, <2>2 DEF Kept
<1>4. ASSUME NEW i \in ids PROVE [b |-> Current(a), id |-> i] \in Kept'
  <2>1. i \in server'[a].records
    OBVIOUS
  <2> QED BY <1>1, <2>1 DEF Kept
<1> QED BY <1>2, <1>3, <1>4 DEF Copies!Under

LEMMA TakingStays ==
  ASSUME \A c \in Accounts : /\ server'[c].gen = server[c].gen
                             /\ server'[c].enabled = server[c].enabled
  PROVE  Taking' = Taking /\ Ended' = Ended
BY DEF Taking, Ended, Current, Bindings

LEMMA PromisedIngest ==
  ASSUME Types, Traffic, [Next]_vars, NEW m \in wire, ServerIngests(m)
  PROVE  Promised
<1>1. /\ wire' = wire \ {m}
      /\ UNCHANGED <<localVars, queued, acked, settings, account, procs, consented, chosen,
                     interrupted>>
  BY DEF ServerIngests, queueVars
<1>2. Backing' = Backing
  BY <1>1 DEF Backing, BackingUp
<1>3. CASE UNCHANGED <<server, accepted>>
  BY <1>1, <1>2, <1>3, PromisedLoss DEF historyVars
<1>4. CASE ~UNCHANGED <<server, accepted>>
  <2> DEFINE a == m.b.account
  <2>1. /\ a \in Accounts /\ m.b \in Bindings
        /\ server[a].enabled /\ m.b = Current(a)
        /\ \A c \in Accounts \ {a} : server'[c] = server[c]
        /\ server'[a].records = server[a].records \union m.ids
        /\ server'[a].gen = server[a].gen /\ server'[a].enabled
        /\ accepted' = accepted \union {[b |-> m.b, id |-> i] : i \in m.ids}
    BY <1>4, IngestsEffect
  <2>2. m.b \in Taking
    BY <2>1 DEF Taking
  <2>3. Kept' = Kept \union Copies!Under(m.b, m.ids)
    BY <2>1, KeptGrows
  <2>4. accepted' = accepted \union Copies!Under(m.b, m.ids)
    BY <2>1 DEF Copies!Under
  <2>5. Taking' = Taking /\ Ended' = Ended
    <3>1. server[a].enabled = TRUE /\ server'[a].enabled = TRUE
      BY <2>1, NextTypes DEF Types, TypeOK
    <3> QED BY <2>1, <3>1, TakingStays
  <2>6. UNCHANGED <<Recorded, Here, Own, Agreed>>
    BY <1>1 DEF localVars, Recorded, Here, Own, Agreed, Id
  <2>7. Copies!TakeOne
    BY <1>1, <1>2, <2>2, <2>3, <2>4, <2>5, <2>6 DEF Copies!TakeOne, Copies!ledger,
       Copies!consent, Copies!queue
  <2> QED BY <2>7 DEF Promised, Copies!CopiesNext
<1> QED BY <1>3, <1>4

\* Nothing but the service changes for BackupCopies.
Away == <<Recorded, Here, Own, Agreed, interrupted, Backing, account, queued, acked, wire, accepted>>

LEMMA PromisedGrant ==
  ASSUME Types, Origin, UNCHANGED Away, NEW a \in Accounts, NEW x, ServerEnables(a, x)
  PROVE  Promised
<1> DEFINE b == [account |-> a, gen |-> server'[a].gen]
<1>0. /\ \A c \in Accounts \ {a} : server'[c] = server[c]
      /\ server'[a].enabled /\ server'[a].records = server[a].records
      /\ \/ server'[a].gen = server[a].gen
         \/ server[a].gen = 0 /\ server'[a].gen = 1
      /\ server'[a].gen \in 1 .. MaxGen
  BY EnablesEffect
<1>1. server[a].gen \in Nat /\ MaxGen \in Nat
  BY ConstantTypes DEF Types, TypeOK
<1>2. b \in Bindings \ Ended
  BY <1>0, <1>1 DEF Bindings, Ended
<1>3. \A c \in Taking : c.account = a => c = b
  <2>1. ASSUME NEW c \in Taking, c.account = a PROVE c = b
    <3>1. c = [account |-> a, gen |-> server[a].gen] /\ c.gen \in 1 .. MaxGen
      BY <2>1 DEF Taking, Current, Bindings
    <3> QED BY <1>0, <1>1, <3>1
  <2> QED BY <2>1
<1>4. Taking' = Taking \union {b}
  <2>1. \A c \in Bindings : c.account # a => (c \in Taking' <=> c \in Taking)
    BY <1>0 DEF Taking, Current, Bindings
  <2>2. \A c \in Bindings : c.account = a => (c \in Taking' <=> c = b)
    BY <1>0 DEF Taking, Current
  <2>3. Taking \subseteq Bindings /\ Taking' \subseteq Bindings /\ b \in Bindings /\ b.account = a
    BY <1>2 DEF Taking
  <2> QED BY <1>3, <2>1, <2>2, <2>3
<1>5. Ended' = Ended
  <2>1. ASSUME NEW c \in Bindings PROVE c.gen < server'[c.account].gen <=> c.gen < server[c.account].gen
    <3>1. c.account \in Accounts /\ c.gen \in 1 .. MaxGen
      BY DEF Bindings
    <3> QED BY <1>0, <1>1, <3>1
  <2> QED BY <2>1 DEF Ended
<1>6. Kept' = Kept
  <2>1. ASSUME NEW c \in Accounts
        PROVE  /\ server'[c].records = server[c].records
               /\ server[c].records # {} => Current(c)' = Current(c)
    BY <1>0 DEF Origin, Current
  <2> QED BY <2>1 DEF Kept
<1> HIDE DEF b
<1>7. b.account = a
  BY DEF b
<1>8. Copies!Grant
  BY <1>2, <1>3, <1>4, <1>5, <1>6, <1>7 DEF Copies!Grant, Copies!ledger, Copies!consent,
     Copies!queue, Away
<1> QED BY <1>8 DEF Promised, Copies!CopiesNext

LEMMA PromisedRevoke ==
  ASSUME Types, UNCHANGED Away, NEW a \in Accounts, NEW x, ServerDeletes(a, x)
  PROVE  Promised
<1> DEFINE b == Current(a)
<1>0. /\ \A c \in Accounts \ {a} : server'[c] = server[c]
      /\ ~server'[a].enabled /\ server'[a].records = {}
      /\ server'[a].gen = server[a].gen + 1 /\ server[a].gen \in 1 .. MaxGen
  BY DeletesEffect
<1>1. server[a].gen \in Nat /\ MaxGen \in Nat
  BY ConstantTypes DEF Types, TypeOK
<1>2. b \in Bindings \ Ended /\ b.account = a /\ b.gen = server[a].gen
  BY <1>0, <1>1 DEF Bindings, Ended, Current
<1>3. \A c \in Bindings : c.account = a /\ c.gen = server[a].gen => c = b
  BY DEF Bindings, Current
<1>4. Taking' = Taking \ {b}
  <2>1. \A c \in Bindings : c.account # a => (c \in Taking' <=> c \in Taking)
    BY <1>0 DEF Taking, Current, Bindings
  <2>2. \A c \in Bindings : c.account = a => c \notin Taking' /\ (c \in Taking => c = b)
    BY <1>0 DEF Taking
  <2>3. Taking \subseteq Bindings /\ Taking' \subseteq Bindings
    BY DEF Taking
  <2> QED BY <1>2, <2>1, <2>2, <2>3
<1>5. Ended' = Ended \union {b}
  <2>1. ASSUME NEW c \in Bindings
        PROVE  c.gen < server'[c.account].gen <=> c.gen < server[c.account].gen \/ c = b
    <3>1. c.account \in Accounts /\ c.gen \in 1 .. MaxGen
      BY DEF Bindings
    <3>2. CASE c.account # a
      BY <1>0, <1>2, <3>1, <3>2
    <3>3. CASE c.account = a
      <4>1. c.gen < server[a].gen + 1 <=> c.gen < server[a].gen \/ c.gen = server[a].gen
        BY <1>1, <3>1
      <4> QED BY <1>0, <1>2, <1>3, <3>3, <4>1
    <3> QED BY <3>2, <3>3
  <2> QED BY <1>2, <2>1 DEF Ended
<1>6. Kept' = {r \in Kept : r.b # b}
  <2>1. \A c \in Accounts \ {a} : Current(c)' = Current(c) /\ Current(c) # b
    BY <1>0 DEF Current
  <2>2. ASSUME NEW r \in Kept' PROVE r \in Kept /\ r.b # b
    <3>1. PICK c \in Accounts : r.b = Current(c)' /\ r.id \in server'[c].records
                                /\ r = [b |-> r.b, id |-> r.id]
      BY DEF Kept
    <3>2. c # a
      BY <1>0, <3>1
    <3>3. r.id \in server[c].records /\ r.b = Current(c)
      BY <1>0, <2>1, <3>1, <3>2
    <3> QED BY <2>1, <3>1, <3>2, <3>3, KeptRows
  <2>3. ASSUME NEW r \in Kept, r.b # b PROVE r \in Kept'
    <3>1. PICK c \in Accounts : r.b = Current(c) /\ r.id \in server[c].records
                                /\ r = [b |-> r.b, id |-> r.id]
      BY KeptRows
    <3>2. c # a
      BY <2>3, <3>1
    <3>3. r.id \in server'[c].records /\ r.b = Current(c)'
      BY <1>0, <2>1, <3>1, <3>2
    <3> QED BY <3>1, <3>3 DEF Kept
  <2> QED BY <2>2, <2>3
<1> HIDE DEF b
<1>7. Copies!Revoke
  BY <1>2, <1>4, <1>5, <1>6 DEF Copies!Revoke, Copies!ledger, Copies!consent,
     Copies!queue, Away
<1> QED BY <1>7 DEF Promised, Copies!CopiesNext

LEMMA PromisedOther ==
  ASSUME Types, Types', UNCHANGED Away, NEW a \in Accounts, Current(a) \in Bindings, OtherCopies(a)
  PROVE  Promised
<1>1. /\ server[a].enabled /\ server'[a].enabled
      /\ \A c \in Accounts \ {a} : server'[c] = server[c]
      /\ server'[a].records = server[a].records \union {Foreign}
      /\ server'[a].gen = server[a].gen
  BY OtherCopiesEffect
<1>2. Kept' = Kept \union Copies!Under(Current(a), {Foreign})
  BY <1>1, KeptGrows
<1>3. Taking' = Taking /\ Ended' = Ended
  <2>1. server[a].enabled = TRUE /\ server'[a].enabled = TRUE
    BY <1>1 DEF Types, TypeOK
  <2> QED BY <1>1, <2>1, TakingStays
<1>4. Current(a) \in Taking
  BY <1>1 DEF Taking, Current
<1>5. Copies!OtherCopies
  BY <1>2, <1>3, <1>4 DEF Copies!OtherCopies, Copies!ledger, Copies!consent, Copies!queue, Away
<1> QED BY <1>5 DEF Promised, Copies!CopiesNext

LEMMA PromisedService ==
  ASSUME CopiesInv, [Next]_vars, UNCHANGED Away,
         \/ \E a \in Accounts : \E b : ServerEnables(a, b) \/ ServerDeletes(a, b)
         \/ \E a \in Accounts : OtherCopies(a)
  PROVE  Promised
<1>1. Types /\ Types' /\ Origin
  BY NextTypes DEF CopiesInv, Inv
<1>2. ASSUME NEW a \in Accounts, OtherCopies(a) PROVE Current(a) \in Bindings
  <2>1. server[a].gen # 0
    BY <1>1, <1>2 DEF Origin, OtherCopies
  <2> QED BY <1>1, <2>1, CurrentBinding
<1> QED BY <1>1, <1>2, PromisedGrant, PromisedRevoke, PromisedOther

LEMMA PromisedCall ==
  ASSUME CopiesInv, [Next]_vars, NEW p \in Procs,
         EnableCall(p) \/ EnableCallFails(p) \/ DeleteCall(p) \/ DeleteCallFails(p)
  PROVE  Promised
<1>0. Types
  BY DEF CopiesInv, Inv
<1>1. /\ procs[p].pc \in {"enable_call", "delete_call"}
      /\ UNCHANGED <<localVars, queued, acked, settings, account, wire, historyVars>>
  BY DEF EnableCall, EnableCallFails, DeleteCall, DeleteCallFails, queueVars
<1>2. procs[p].token \in Accounts
  BY <1>0, <1>1 DEF Types, Carries, SignedPCs
<1>3. \/ UNCHANGED server
      \/ \E b : ServerEnables(procs[p].token, b) \/ ServerDeletes(procs[p].token, b)
  BY DEF EnableCall, EnableCallFails, DeleteCall, DeleteCallFails
<1>4. CASE UNCHANGED server
  BY <1>0, <1>1, <1>4, PromisedUnseen DEF Seen, historyVars
<1>5. Backing' = Backing
  <2>1. procs[p].pc \notin OpenedPCs
    BY <1>1 DEF OpenedPCs
  <2>2. CASE Exit(p)
    BY <1>0, <1>1, <2>1, <2>2, BackingEnds
  <2>3. CASE EnableCall(p)
    <3> DEFINE b == [account |-> procs[p].token,
                     gen |-> IF procs[p].b = NoBinding THEN 1
                             ELSE server[procs[p].token].gen]
               keep == settings.enabled /\ settings.binding = b
               leave == settings.enabled /\ ~keep
               s == [procs[p] EXCEPT !.b = b, !.keep = keep, !.token = NoAccount,
                      !.pc = IF leave THEN "enable_pause" ELSE "enable_open",
                      !.prior = IF leave THEN settings.binding ELSE NoBinding]
    <3>1. Step(p, s)
      BY <2>3 DEF EnableCall
    <3>2. s.pc \in {"enable_pause", "enable_open"}
      BY <1>0 DEF Types, TypeOK, Processes
    <3> HIDE DEF s
    <3> QED BY <1>0, <1>1, <2>1, <3>1, <3>2, BackingKept DEF OpenedPCs
  <2>4. CASE DeleteCall(p) /\ ~Exit(p)
    <3> DEFINE s == [procs[p] EXCEPT !.pc = "delete_pause", !.token = NoAccount,
                                     !.prior = settings.binding]
    <3>1. Step(p, s)
      BY <2>4 DEF DeleteCall
    <3>2. s.pc = "delete_pause"
      BY <1>0 DEF Types, TypeOK, Processes
    <3> HIDE DEF s
    <3> QED BY <1>0, <1>1, <2>1, <3>1, <3>2, BackingKept DEF OpenedPCs
  <2> QED BY <2>2, <2>3, <2>4 DEF EnableCallFails, DeleteCallFails
<1>6. UNCHANGED Away
  BY <1>1, <1>5 DEF Away, localVars, historyVars, Recorded, Here, Own, Agreed, Id
<1>7. CASE \E b : ServerEnables(procs[p].token, b) \/ ServerDeletes(procs[p].token, b)
  BY <1>2, <1>6, <1>7, PromisedService
<1> QED BY <1>3, <1>4, <1>7

LEMMA PromisedHome ==
  ASSUME CopiesInv, [Next]_vars, NEW a \in Accounts, OtherHome(a)
  PROVE  Promised
<1>1. UNCHANGED <<localVars, queued, acked, settings, account, procs, wire, historyVars>>
  BY DEF OtherHome, queueVars
<1>2. UNCHANGED Away
  BY <1>1 DEF Away, localVars, historyVars, Recorded, Here, Own, Agreed, Id, Backing, BackingUp
<1>3. OtherCopies(a) \/ \E b : ServerEnables(a, b) \/ ServerDeletes(a, b)
  BY DEF OtherHome, OtherCopies
<1> QED BY <1>2, <1>3, PromisedService

LEMMA NextPromised ==
  ASSUME CopiesInv, CopiesInv', [Next]_vars
  PROVE  Promised
<1>1. Types /\ Given /\ Database /\ Traffic /\ Origin
  BY DEF CopiesInv, Inv
<1>2. ASSUME NEW p \in Procs,
             \/ HistoryPage(p) \/ DrainSend(p) \/ DrainRefresh(p)
             \/ DrainAck(p) \/ RestoreApply(p)
      PROVE  Promised
  BY <1>1, <1>2, PromisedHistory, PromisedSend, PromisedRefresh, PromisedAck, PromisedRestore
<1>3. ASSUME NEW p \in Procs, DrainCapture(p) PROVE Promised
  BY <1>1, <1>3, PromisedCapture DEF CopiesInv
<1>4. ASSUME NEW p \in Procs,
             EnableCall(p) \/ EnableCallFails(p) \/ DeleteCall(p) \/ DeleteCallFails(p)
      PROVE  Promised
  BY <1>4, PromisedCall
<1>5. ASSUME NEW a \in Accounts, OtherHome(a) \/ SignIn(a) PROVE Promised
  BY <1>5, PromisedHome, PromisedSignIn
<1>6. ASSUME Record \/ (\E e \in Events : UsageDelete(e)) \/ (\E m \in wire : ServerIngests(m))
      PROVE  Promised
  BY <1>1, <1>6, PromisedRecord, PromisedForget, PromisedIngest
<1>7. CASE UNCHANGED Seen
  BY <1>1, <1>7, PromisedUnseen
<1> QED BY <1>1, <1>2, <1>3, <1>4, <1>5, <1>6, <1>7, SeenSteps

\* The commands keep what BackupCopies promises, whatever processes run them, die
\* between two of their effects, outlive their lease or lose their answers, and
\* whatever the user, the service and other homes do meanwhile: a record is
\* selected only if it was recorded here and agreed to, or its binding is
\* excused; it is sent only while backup is on under its binding and with that
\* account's credentials; it is confirmed only if the service took it; only what
\* was backed up comes back; and a revoked generation has no copies again.
THEOREM BackupCorrect == Spec => BacksUp
<1>1. Init => Origin
  BY InitOrigin
<1>2. Inv /\ Origin /\ [Next]_vars => Origin'
  BY NextOrigin DEF Inv
<1>3. Spec => []CopiesInv
  BY <1>1, <1>2, Invariance, LeaksExplained, PTL DEF Spec, CopiesInv
<1>4. Init => Copies!CopiesInit
  <2> SUFFICES ASSUME Init PROVE Copies!CopiesInit
    OBVIOUS
  <2>1. /\ settings.enabled = FALSE /\ \A p \in Procs : procs[p].pc = "idle"
        /\ \A a \in Accounts : server[a] = [gen |-> 0, enabled |-> FALSE, records |-> {}]
    BY DEF Init, Idle
  <2>2. Backing = {}
    BY <2>1 DEF Backing, BackingUp
  <2>3. Taking = {} /\ Ended = {} /\ Kept = {}
    BY <2>1 DEF Taking, Ended, Kept, Bindings
  <2>4. Recorded = {} /\ Here = {} /\ Own = {} /\ Agreed = {}
    BY DEF Init, Recorded, Here, Own, Agreed
  <2> QED BY <2>2, <2>3, <2>4 DEF Init, Copies!CopiesInit
<1>5. CopiesInv /\ CopiesInv' /\ [Next]_vars => Promised
  BY NextPromised
<1> QED BY <1>3, <1>4, <1>5, PTL DEF Spec, BacksUp, Copies!CopiesSpec, Promised

=============================================================================
