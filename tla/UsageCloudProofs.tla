-------------------------- MODULE UsageCloudProofs --------------------------
(***************************************************************************)
(* Theorems about UsageCloud, for every number of processes, events,       *)
(* batches and jobs and every length of the timers.                        *)
(***************************************************************************)
EXTENDS UsageCloud, FiniteSetTheorems, TLAPS

LEMMA ConstantTypes ==
  /\ MaxEvent \in Nat /\ MaxBatches \in Nat /\ MaxJobs \in Nat /\ MaxConsent \in Nat
  /\ LeaseTtl \in Nat /\ UploadTimeout \in Nat /\ Budget \in Nat \ {0}
  /\ CaptureLimit \in Nat /\ MaxBatch \in Nat
  /\ Cooldown \in Nat /\ Backoff \in Nat /\ QuotaWait \in Nat
BY ConstantsAssumption

LEMMA IdsInRange ==
  /\ \A b \in BatchIds : b \in 0 .. MaxBatches
  /\ \A j \in JobIds : j \in 0 .. MaxJobs
BY ConstantTypes DEF BatchIds, JobIds

(***************************************************************************)
(* Updates that keep a batch, a job and a process well typed               *)
(***************************************************************************)
LEMMA ReasonTypes ==
  \A r \in {"none", "retry_backoff", "retry_cooldown", "invalid_request",
            "quota_paused", "outcome_unknown"} : r \in Reasons
BY DEF Reasons

LEMMA NewRowType ==
  /\ UnusedBatch \in Rows
  /\ \A c \in Nat, M \in SUBSET Events, s \in {"live", "gone"} :
       [UnusedBatch EXCEPT !.state = s, !.consent = c, !.members = M] \in Rows
BY DEF UnusedBatch, Rows, Reasons

LEMMA PausedRowType ==
  ASSUME NEW r \in Rows, NEW reason \in Reasons, NEW wait \in Nat, NEW run \in Nat
  PROVE  [r EXCEPT !.reason = reason, !.wait = wait, !.run = run] \in Rows
BY DEF Rows

LEMMA ReservedRowType ==
  ASSUME NEW r \in Rows, NEW n \in Nat, NEW reason \in Reasons, NEW wait \in Nat,
         NEW run \in Nat, NEW idle \in Nat
  PROVE  [r EXCEPT !.attempts = n, !.reason = reason, !.wait = wait,
                   !.run = run, !.idle = idle] \in Rows
BY DEF Rows

LEMMA NewJobType ==
  /\ UnusedJob \in Targets
  /\ \A c \in Nat, h \in Nat, f \in [Events -> MemberStates] :
       [UnusedJob EXCEPT !.state = "active", !.consent = c, !.history = h,
                         !.member = f] \in Targets
BY DEF UnusedJob, Targets, Reasons, MemberStates

LEMMA ContinuedJobType ==
  ASSUME NEW t \in Targets, NEW c \in Nat
  PROVE  [t EXCEPT !.consent = c] \in Targets
BY DEF Targets

LEMMA MemberType ==
  ASSUME NEW t \in Targets, NEW f \in [Events -> MemberStates]
  PROVE  [t EXCEPT !.member = f] \in Targets
BY DEF Targets

LEMMA RetryType ==
  ASSUME NEW t \in Targets, NEW r \in Reasons, NEW w \in Nat
  PROVE  [t EXCEPT !.reason = r, !.wait = w] \in Targets
BY DEF Targets

LEMMA UploadedJobType ==
  ASSUME NEW t \in Targets, NEW f \in [Events -> MemberStates]
  PROVE  [t EXCEPT !.reason = "none", !.wait = 0, !.member = f] \in Targets
BY DEF Targets, Reasons

LEMMA FinishedJobType ==
  ASSUME NEW t \in Targets, NEW s \in {"active", "finished"},
         NEW r \in Reasons, NEW w \in Nat
  PROVE  [t EXCEPT !.state = s, !.reason = r, !.wait = w] \in Targets
BY DEF Targets

\* Some members of the frozen event set of a job change their state.
LEMMA FoldType ==
  ASSUME NEW t \in Targets, NEW S, NEW m \in MemberStates
  PROVE  [e \in Events |-> IF e \in S THEN m ELSE t.member[e]] \in [Events -> MemberStates]
BY DEF Targets

LEMMA IdleType == Idle \in PassFields /\ Idle \in Passes
BY ConstantTypes DEF Idle, Passes, PassFields, PCs, Replies, Reasons, Started, Uploading

LEMMA PassType ==
  ASSUME procs \in [Procs -> Passes], NEW p \in Procs
  PROVE  /\ procs[p] \in Passes /\ procs[p] \in PassFields
         /\ Started(procs[p]) => procs[p].job \in JobIds
         /\ Uploading(procs[p]) => Started(procs[p]) /\ procs[p].batch \in BatchIds
BY DEF Passes, Started, Uploading

\* The record of a process that goes on to pc with a job and a batch.
LEMMA MovedPassType ==
  ASSUME NEW r \in PassFields, NEW pc \in PCs,
         pc \notin {"idle", "start", "release"} => r.job \in JobIds,
         pc \in {"reserve", "inflight", "answered"} => r.batch \in BatchIds
  PROVE  [r EXCEPT !.pc = pc] \in Passes
BY DEF Passes, PassFields, Started, Uploading

LEMMA BegunPassType ==
  ASSUME NEW j \in JobIds, NEW pc \in {"status", "renew"}
  PROVE  [Idle EXCEPT !.pc = pc, !.job = j] \in Passes
BY IdsInRange, IdleType DEF Passes, PassFields, PCs, Started, Uploading

LEMMA BrokenPassType ==
  ASSUME NEW j \in JobIds, NEW pc \in {"finish", "backoff"}, NEW err \in BOOLEAN,
         NEW reason \in Reasons, NEW wait \in Nat
  PROVE  [Idle EXCEPT !.pc = pc, !.job = j, !.err = err,
                      !.reason = reason, !.wait = wait] \in Passes
BY IdsInRange, IdleType DEF Passes, PassFields, PCs, Started, Uploading

LEMMA ClaimingPassType ==
  ASSUME NEW j \in JobIds, NEW b \in BatchIds
  PROVE  [Idle EXCEPT !.pc = "reserve", !.job = j, !.batch = b] \in Passes
BY IdsInRange, IdleType DEF Passes, PassFields, PCs, Started, Uploading

LEMMA AnsweredPassType ==
  ASSUME NEW j \in JobIds, NEW b \in BatchIds, NEW answer \in Replies
  PROVE  [Idle EXCEPT !.pc = "answered", !.job = j, !.batch = b,
                      !.answer = answer] \in Passes
BY IdsInRange, IdleType DEF Passes, PassFields, PCs, Started, Uploading

LEMMA SendingPassType ==
  ASSUME NEW r \in Passes, r.job \in JobIds, r.batch \in BatchIds,
         NEW n \in Nat, NEW left \in Nat
  PROVE  [r EXCEPT !.pc = "inflight", !.attempt = n, !.left = left] \in Passes
BY DEF Passes, PassFields, PCs, Started, Uploading

LEMMA CapturingPassType ==
  ASSUME NEW r \in Passes, r.job \in JobIds,
         NEW pc \in {"fill", "prepare"}, NEW captured \in BOOLEAN
  PROVE  [r EXCEPT !.pc = pc, !.captured = captured] \in Passes
BY DEF Passes, PassFields, PCs, Started, Uploading

\* The record of a process that has not begun its pass yet.
LEMMA StartingPassType ==
  ASSUME NEW r \in Passes, NEW want \in {Resume} \union Nat
  PROVE  [r EXCEPT !.pc = "start", !.want = want] \in Passes
BY DEF Passes, PassFields, PCs, Started, Uploading

\* Time passes in a process: its counters go down and nothing else changes.
LEMMA TickedPassType ==
  ASSUME NEW r \in Passes, NEW wait \in Nat, NEW left \in Nat
  PROVE  [r EXCEPT !.wait = wait, !.left = left] \in Passes
BY DEF Passes, PassFields, Started, Uploading

LEMMA WritingPassType ==
  ASSUME NEW r \in Passes, r.job \in JobIds, NEW done \in BOOLEAN,
         NEW reason \in Reasons, NEW wait \in Nat
  PROVE  /\ [r EXCEPT !.pc = "write", !.done = done] \in Passes
         /\ [r EXCEPT !.pc = "write", !.done = done,
                      !.reason = reason, !.wait = wait] \in Passes
BY DEF Passes, PassFields, PCs, Started, Uploading

(***************************************************************************)
(* The moves of a pass                                                     *)
(***************************************************************************)
LEMMA GotoType ==
  ASSUME procs \in [Procs -> Passes], NEW p \in Procs, Started(procs[p]),
         NEW pc \in {"renew", "fill", "prepare", "release"}, Goto(p, pc)
  PROVE  procs' \in [Procs -> Passes]
<1>1. [procs[p] EXCEPT !.pc = pc] \in Passes
  BY MovedPassType, PassType DEF PCs
<1> QED
  BY <1>1 DEF Goto

LEMMA AgainType ==
  ASSUME procs \in [Procs -> Passes], NEW p \in Procs, Started(procs[p]), Again(p)
  PROVE  procs' \in [Procs -> Passes]
BY PassType, BegunPassType DEF Again

LEMMA BreakType ==
  ASSUME procs \in [Procs -> Passes], NEW p \in Procs, Started(procs[p]),
         NEW err \in BOOLEAN, NEW reason \in Reasons, NEW wait \in Nat,
         Break(p, err, reason, wait)
  PROVE  procs' \in [Procs -> Passes]
BY PassType, BrokenPassType DEF Break

LEMMA AbortType ==
  ASSUME procs \in [Procs -> Passes], NEW p \in Procs, Started(procs[p]), Abort(p)
  PROVE  procs' \in [Procs -> Passes]
BY BreakType, ReasonTypes DEF Abort

LEMMA QuitType ==
  ASSUME procs \in [Procs -> Passes], NEW p \in Procs, Quit(p)
  PROVE  procs' \in [Procs -> Passes]
<1>1. [Idle EXCEPT !.pc = "release"] \in Passes
  BY IdleType, MovedPassType DEF PCs
<1> QED
  BY <1>1 DEF Quit

LEMMA ClaimType ==
  ASSUME procs \in [Procs -> Passes], NEW p \in Procs, Started(procs[p]),
         NEW b \in BatchIds, Claim(p, b)
  PROVE  procs' \in [Procs -> Passes]
BY PassType, ClaimingPassType DEF Claim

LEMMA RetryJobsType ==
  ASSUME jobs \in [JobIds -> Targets], NEW j, NEW r \in Reasons, NEW w \in Nat
  PROVE  [jobs EXCEPT ![j].reason = r, ![j].wait = w] \in [JobIds -> Targets]
BY DEF Targets

LEMMA PauseType ==
  ASSUME batches \in [BatchIds -> Rows], jobs \in [JobIds -> Targets],
         NEW p \in Procs, NEW reason \in Reasons, NEW wait \in Nat,
         PauseUpload(p, reason, wait)
  PROVE  batches' \in [BatchIds -> Rows] /\ jobs' \in [JobIds -> Targets]
<1>1. ASSUME NEW r \in Rows
      PROVE  Postponed(r, reason, wait) \in Rows
  <2>1. (IF reason = "quota_paused" THEN 0 ELSE r.run) \in Nat
    BY DEF Rows
  <2> QED
    BY <2>1, PausedRowType DEF Postponed
<1>2. batches' \in [BatchIds -> Rows]
  BY <1>1 DEF PauseUpload
<1>3. jobs' \in [JobIds -> Targets]
  BY RetryJobsType DEF PauseUpload
<1> QED
  BY <1>2, <1>3

LEMMA RetiredType ==
  ASSUME batches \in [BatchIds -> Rows], NEW B
  PROVE  Retired(B) \in [BatchIds -> Rows]
<1>1. \A b \in BatchIds : batches[b].consent \in Nat /\ batches[b].members \subseteq Events
  BY DEF Rows
<1> QED
  BY <1>1, NewRowType DEF Retired

LEMMA UnclaimedType ==
  ASSUME active \in [Events -> 0 .. MaxBatches], NEW B
  PROVE  Unclaimed(B) \in [Events -> 0 .. MaxBatches]
BY ConstantTypes DEF Unclaimed

LEMMA ReleasedType ==
  ASSUME active \in [Events -> 0 .. MaxBatches]
  PROVE  Released \in [Events -> 0 .. MaxBatches]
BY ConstantTypes DEF Released

(***************************************************************************)
(* Type correctness                                                        *)
(***************************************************************************)
LEMMA TypeInit == Init => TypeOK
<1> SUFFICES ASSUME Init PROVE TypeOK
  OBVIOUS
<1>1. /\ high \in 0 .. MaxEvent /\ raw \subseteq 1 .. high
      /\ active \in [Events -> 0 .. MaxBatches]
  BY ConstantTypes DEF Init
<1>2. /\ batches \in [BatchIds -> Rows] /\ jobs \in [JobIds -> Targets]
      /\ procs \in [Procs -> Passes]
  BY IdleType, NewRowType, NewJobType DEF Init
<1>3. /\ lease \in [holder : Procs \union {None}, left : Nat]
      /\ consent \in [enabled : BOOLEAN, interval : Nat, cleared : BOOLEAN, intent : BOOLEAN]
      /\ remote \in [clearSent : BOOLEAN, cleared : BOOLEAN]
  BY DEF Init, FreeLease
<1> QED
  BY <1>1, <1>2, <1>3 DEF Init, TypeOK

\* The parts of the type invariant that the steps of a pass rest on.
LEMMA TypeParts ==
  ASSUME TypeOK
  PROVE  /\ consent.interval \in Nat
         /\ raw \subseteq Events /\ queued \subseteq Events /\ retained \subseteq queued
         /\ active \in [Events -> 0 .. MaxBatches]
         /\ batches \in [BatchIds -> Rows]
         /\ jobs \in [JobIds -> Targets]
         /\ terminal \subseteq Events
         /\ procs \in [Procs -> Passes]
BY ConstantTypes DEF TypeOK, Events

LEMMA TypeStart ==
  ASSUME TypeOK, NEW p \in Procs, ContinueJob(p) \/ CreateJob(p) \/ StartRefused(p)
  PROVE  TypeOK'
<1> USE TypeParts DEF ledgerVars, consentVars, queueVars, serverVars, historyVars
<1>1. CASE ContinueJob(p)
  <2>1. PICK j \in JobIds :
          /\ jobs' = [jobs EXCEPT ![j].consent = consent.interval]
          /\ \/ Quit(p)
             \/ procs' = [procs EXCEPT ![p] = [Idle EXCEPT !.pc = "status", !.job = j]]
    BY <1>1 DEF ContinueJob, ActiveJobs
  <2>2. jobs' \in [JobIds -> Targets]
    BY <2>1, ContinuedJobType
  <2>3. procs' \in [Procs -> Passes]
    BY <2>1, QuitType, BegunPassType
  <2> QED
    BY <1>1, <2>2, <2>3 DEF ContinueJob, TypeOK
<1>2. CASE CreateJob(p)
  <2> DEFINE want == procs[p].want
             fresh == [e \in Events |-> IF e \in Target(want) THEN "pending" ELSE "none"]
  <2>1. PICK j \in JobIds :
          /\ jobs' = [jobs EXCEPT ![j] =
               [UnusedJob EXCEPT !.state = "active", !.consent = consent.interval,
                                 !.history = want, !.member = fresh]]
          /\ procs' = [procs EXCEPT ![p] = [Idle EXCEPT !.pc = "status", !.job = j]]
    BY <1>2 DEF CreateJob
  <2>2. fresh \in [Events -> MemberStates]
    BY DEF MemberStates
  <2>3. want \in Nat
    BY <1>2, PassType DEF CreateJob, PassFields
  <2>4. jobs' \in [JobIds -> Targets]
    BY <2>1, <2>2, <2>3, NewJobType
  <2>5. procs' \in [Procs -> Passes]
    BY <2>1, BegunPassType
  <2>6. permitted' \subseteq permitted \union Events
    BY <1>2 DEF CreateJob, Target
  <2> QED
    BY <1>2, <2>4, <2>5, <2>6 DEF CreateJob, TypeOK
<1>3. CASE StartRefused(p)
  BY <1>3, QuitType DEF StartRefused, TypeOK
<1> QED
  BY <1>1, <1>2, <1>3

LEMMA TypeLoop ==
  ASSUME TypeOK, NEW p \in Procs,
         \/ \E confirmed \in BOOLEAN : RemoteStatus(p, confirmed)
         \/ RenewLease(p) \/ Capture(p) \/ Deadline(p)
  PROVE  TypeOK'
<1> USE TypeParts DEF ledgerVars, consentVars, queueVars, serverVars, historyVars
<1>1. CASE \E confirmed \in BOOLEAN : RemoteStatus(p, confirmed)
  BY <1>1, QuitType, GotoType DEF RemoteStatus, Started, TypeOK
<1>2. CASE RenewLease(p)
  <2>1. procs' \in [Procs -> Passes]
    BY <1>2, GotoType, AbortType DEF RenewLease, Started
  <2>2. lease' \in [holder : Procs \union {None}, left : Nat]
    BY <1>2, ConstantTypes DEF RenewLease, TypeOK
  <2> QED
    BY <1>2, <2>1, <2>2 DEF RenewLease, TypeOK
<1>3. CASE Capture(p)
  <2> DEFINE taken == FirstOf({e \in raw : jobs[procs[p].job].member[e] = "pending"},
                              CaptureLimit)
             member(f) == [e \in Events |->
                CASE e \in Pending(procs[p].job) \ raw -> "expired"
                  [] e \in taken \intersect Ineligible -> "excluded"
                  [] e \in taken \ Ineligible -> "captured"
                  [] OTHER -> f[e]]
  <2>1. Started(procs[p]) /\ procs[p].job \in JobIds
    BY <1>3, PassType DEF Capture, Started
  <2>2. taken \subseteq Events
    BY DEF FirstOf
  <2>3. \A f \in [Events -> MemberStates] : member(f) \in [Events -> MemberStates]
    BY DEF MemberStates
  <2>4. CASE /\ UNCHANGED <<jobs, queued>>
             /\ Goto(p, "prepare") \/ Abort(p)
    BY <1>3, <2>1, <2>4, GotoType, AbortType DEF Capture, TypeOK
  <2>5. CASE /\ jobs' = [jobs EXCEPT ![procs[p].job].member = member(@)]
             /\ queued' = queued \union (taken \ Ineligible)
             /\ \E next \in {"fill", "prepare"} :
                  procs' = [procs EXCEPT ![p].pc = next,
                                         ![p].captured = @ \/ taken # {}]
    <3>1. jobs' \in [JobIds -> Targets]
      <4>1. jobs[procs[p].job].member \in [Events -> MemberStates]
        BY <2>1 DEF Targets
      <4>2. member(jobs[procs[p].job].member) \in [Events -> MemberStates]
        BY <4>1, <2>3
      <4>3. [jobs[procs[p].job] EXCEPT !.member = member(@)] \in Targets
        BY <2>1, <4>2, MemberType
      <4> HIDE DEF member
      <4> QED
        BY <2>5, <4>3
    <3>2. procs' \in [Procs -> Passes]
      <4> DEFINE captured == procs[p].captured \/ taken # {}
      <4>1. captured \in BOOLEAN
        OBVIOUS
      <4>2. PICK next \in {"fill", "prepare"} :
              procs' = [procs EXCEPT ![p].pc = next, ![p].captured = captured]
        BY <2>5
      <4> HIDE DEF captured
      <4>3. [procs[p] EXCEPT !.pc = next, !.captured = captured] \in Passes
        BY <2>1, <4>1, PassType, CapturingPassType
      <4> QED
        BY <4>2, <4>3
    <3> QED
      BY <1>3, <2>2, <2>5, <3>1, <3>2 DEF Capture, TypeOK
  <2> QED
    BY <1>3, <2>4, <2>5 DEF Capture
<1>4. CASE Deadline(p)
  <2>1. procs[p].err \in BOOLEAN /\ procs[p].reason \in Reasons /\ procs[p].wait \in Nat
    BY PassType DEF PassFields
  <2> QED
    BY <1>4, <2>1, BreakType DEF Deadline, Started, TypeOK
<1> QED
  BY <1>1, <1>2, <1>3, <1>4

LEMMA TypePrepare ==
  ASSUME TypeOK, NEW p \in Procs,
         ReuseBatch(p) \/ BuildBatch(p) \/ NothingToSend(p) \/ PrepareRefused(p)
  PROVE  TypeOK'
<1> USE TypeParts DEF ledgerVars, consentVars, queueVars, serverVars, historyVars
<1>1. CASE ReuseBatch(p)
  <2>1. procs' \in [Procs -> Passes]
    BY <1>1, ClaimType DEF ReuseBatch, Prior, Started
  <2> QED
    BY <1>1, <2>1, ReleasedType DEF ReuseBatch, TypeOK
<1>2. CASE BuildBatch(p)
  <2>1. PICK b \in BatchIds, n \in 1 .. MaxBatch :
          LET members == FirstOf(Candidates(procs[p].job), n) IN
          /\ batches' = [batches EXCEPT ![b] =
               [UnusedBatch EXCEPT !.state = "live", !.consent = consent.interval,
                                   !.members = members]]
          /\ active' = [e \in Events |-> IF e \in members THEN b ELSE Released[e]]
          /\ Claim(p, b)
    BY <1>2 DEF BuildBatch
  <2>2. FirstOf(Candidates(procs[p].job), n) \subseteq Events
    BY DEF FirstOf, Candidates, CapturedPending
  <2>3. batches' \in [BatchIds -> Rows]
    BY <2>1, <2>2, NewRowType
  <2>4. active' \in [Events -> 0 .. MaxBatches]
    BY <2>1, ReleasedType, IdsInRange
  <2>5. procs' \in [Procs -> Passes]
    BY <1>2, <2>1, ClaimType DEF BuildBatch, Started
  <2> QED
    BY <1>2, <2>3, <2>4, <2>5 DEF BuildBatch, TypeOK
<1>3. CASE NothingToSend(p)
  <2>1. procs' \in [Procs -> Passes]
    BY <1>3, AgainType, BreakType, ReasonTypes DEF NothingToSend, Started
  <2> QED
    BY <1>3, <2>1 DEF NothingToSend, TypeOK
<1>4. CASE PrepareRefused(p)
  BY <1>4, AbortType DEF PrepareRefused, Started, TypeOK
<1> QED
  BY <1>1, <1>2, <1>3, <1>4

LEMMA TypeSend ==
  ASSUME TypeOK, NEW p \in Procs,
         \/ Reserve(p) \/ ReserveRefused(p) \/ BackoffElapsed(p)
         \/ \E kind \in Answers \intersect Failures : UploadFails(p, kind)
         \/ \E answer \in Answers \intersect Replies : UploadAnswered(p, answer)
  PROVE  TypeOK'
<1> USE TypeParts DEF ledgerVars, consentVars, queueVars, serverVars, historyVars
<1>1. CASE Reserve(p)
  <2> DEFINE b == procs[p].batch
             n == NextAttempt(b)
             run == IF batches[b].idle >= Cooldown THEN 1 ELSE batches[b].run + 1
  <2>1. b \in BatchIds /\ Started(procs[p]) /\ procs[p].job \in JobIds
    BY <1>1, PassType DEF Reserve, Reservable, Live, Started
  <2>2. batches[b].attempts \in Nat /\ batches[b].run \in Nat
    BY <2>1 DEF Rows
  <2>3. n \in Nat /\ run \in Nat
    BY <2>2, ConstantTypes DEF NextAttempt
  <2>4. ReservedReason(n) \in Reasons /\ ReservedWait(n) \in Nat
    BY ConstantTypes, ReasonTypes DEF ReservedReason, ReservedWait
  <2>5. batches' \in [BatchIds -> Rows]
    <3>1. [batches[b] EXCEPT !.attempts = n, !.reason = ReservedReason(n),
                             !.wait = ReservedWait(n), !.run = run, !.idle = 0] \in Rows
      BY <2>1, <2>3, <2>4, ReservedRowType
    <3>2. batches' = [batches EXCEPT ![b] =
             [@ EXCEPT !.attempts = n, !.reason = ReservedReason(n),
                       !.wait = ReservedWait(n), !.run = run, !.idle = 0]]
      BY <1>1, <2>1 DEF Reserve
    <3> QED
      BY <3>1, <3>2
  <2>6. jobs' \in [JobIds -> Targets]
    BY <1>1, <2>4, RetryJobsType DEF Reserve
  <2>7. procs' \in [Procs -> Passes]
    <3>1. [procs[p] EXCEPT !.pc = "inflight", !.attempt = n, !.left = UploadTimeout] \in Passes
      BY <2>1, <2>3, PassType, SendingPassType, ConstantTypes
    <3> QED
      BY <1>1, <3>1 DEF Reserve
  <2> QED
    BY <1>1, <2>1, <2>5, <2>6, <2>7 DEF Reserve, TypeOK
<1>2. CASE ReserveRefused(p)
  BY <1>2, AbortType DEF ReserveRefused, Started, TypeOK
<1>3. CASE BackoffElapsed(p)
  BY <1>3, AgainType DEF BackoffElapsed, Started, TypeOK
<1>4. CASE \E kind \in Answers \intersect Failures : UploadFails(p, kind)
  <2>1. PICK kind \in Failures : UploadFails(p, kind)
    BY <1>4
  <2> DEFINE reason == FailureReason(kind, procs[p].attempt)
             stored == IF reason = "none" THEN "outcome_unknown" ELSE reason
  <2>2. Started(procs[p]) /\ procs[p].job \in JobIds
    BY <2>1, PassType DEF UploadFails, Started
  <2>3. reason \in Reasons /\ stored \in Reasons
    BY ReasonTypes DEF FailureReason
  <2>4. FailureWaits(reason) \subseteq Nat
    BY ConstantTypes DEF FailureWaits
  <2>5. PICK wait \in FailureWaits(reason) :
          /\ \/ Break(p, TRUE, reason, wait)
             \/ procs' = [procs EXCEPT ![p] =
                  [Idle EXCEPT !.pc = "backoff", !.job = procs[p].job, !.err = TRUE,
                               !.reason = reason, !.wait = wait]]
          /\ PauseUpload(p, stored, wait) \/ UNCHANGED <<batches, jobs>>
    BY <2>1 DEF UploadFails
  <2> HIDE DEF reason, stored
  <2>6. procs' \in [Procs -> Passes]
    <3>1. \A pc \in {"finish", "backoff"} :
            [Idle EXCEPT !.pc = pc, !.job = procs[p].job, !.err = TRUE,
                         !.reason = reason, !.wait = wait] \in Passes
      BY <2>2, <2>3, <2>4, BrokenPassType
    <3> QED
      BY <2>5, <3>1 DEF Break
  <2>7. batches' \in [BatchIds -> Rows] /\ jobs' \in [JobIds -> Targets]
    BY <2>3, <2>4, <2>5, PauseType
  <2> QED
    BY <2>1, <2>6, <2>7 DEF UploadFails, TypeOK
<1>5. CASE \E answer \in Answers \intersect Replies : UploadAnswered(p, answer)
  <2>1. PICK answer \in Replies : UploadAnswered(p, answer)
    BY <1>5
  <2>2. /\ Started(procs[p]) /\ procs[p].job \in JobIds /\ procs[p].batch \in BatchIds
    BY <2>1, PassType DEF UploadAnswered, Started, Uploading
  <2>3. procs' \in [Procs -> Passes]
    <3>1. [Idle EXCEPT !.pc = "answered", !.job = procs[p].job,
                       !.batch = procs[p].batch, !.answer = answer] \in Passes
      BY <2>2, AnsweredPassType
    <3>2. \/ Abort(p)
          \/ procs' = [procs EXCEPT ![p] =
               [Idle EXCEPT !.pc = "answered", !.job = procs[p].job,
                            !.batch = procs[p].batch, !.answer = answer]]
      BY <2>1 DEF UploadAnswered
    <3> QED
      BY <2>2, <3>1, <3>2, AbortType
  <2>4. batches' \in [BatchIds -> Rows] /\ jobs' \in [JobIds -> Targets]
    BY <2>1, PauseType, ReasonTypes DEF UploadAnswered
  <2> QED
    BY <2>1, <2>3, <2>4 DEF UploadAnswered, TypeOK
<1> QED
  BY <1>1, <1>2, <1>3, <1>4, <1>5

LEMMA TypeHandle ==
  ASSUME TypeOK, NEW p \in Procs,
         HandleQuota(p) \/ HandleExpired(p) \/ HandleAck(p) \/ AnswerUnusable(p)
  PROVE  TypeOK'
<1> USE TypeParts DEF ledgerVars, consentVars, queueVars, serverVars, historyVars
<1> DEFINE b == procs[p].batch
           j == procs[p].job
<1>1. Started(procs[p]) /\ j \in JobIds /\ b \in BatchIds
  BY PassType DEF HandleQuota, HandleExpired, HandleAck, AnswerUnusable, Started, Uploading
<1>2. batches[b].members \subseteq Events
  BY <1>1 DEF Rows
<1>3. CASE HandleQuota(p)
  <2>1. PICK wait \in 1 .. QuotaWait :
          /\ Break(p, ~HoldsLease(p), "quota_paused", wait)
          /\ \/ PauseUpload(p, "quota_paused", wait) /\ quotaLeft' = wait
             \/ UNCHANGED <<batches, jobs, quotaLeft>>
    BY <1>3 DEF HandleQuota
  <2>2. wait \in Nat /\ (~HoldsLease(p)) \in BOOLEAN
    BY ConstantTypes
  <2>3. procs' \in [Procs -> Passes]
    BY <1>1, <2>1, <2>2, BreakType, ReasonTypes
  <2>4. batches' \in [BatchIds -> Rows] /\ jobs' \in [JobIds -> Targets]
    BY <2>1, <2>2, PauseType, ReasonTypes
  <2>5. quotaLeft' \in Nat
    BY <2>1, <2>2 DEF TypeOK
  <2> QED
    BY <1>3, <2>3, <2>4, <2>5 DEF HandleQuota, TypeOK
<1>4. CASE HandleExpired(p)
  <2>1. CASE ~HoldsLease(p)
    BY <1>1, <1>4, <2>1, AbortType DEF HandleExpired, TypeOK
  <2>2. CASE HoldsLease(p)
    <3>1. PICK ids \in SUBSET batches[b].members \ {{}} :
            /\ terminal' = terminal \union ids
            /\ jobs' = [jobs EXCEPT ![j].member =
                 [e \in Events |-> IF e \in ids \intersect Pending(j)
                                   THEN "expired" ELSE @[e]]]
            /\ active' = Unclaimed({b})
            /\ batches' = Retired({b} \intersect {c \in BatchIds : Live(c)})
            /\ Again(p)
      BY <1>4, <2>2 DEF HandleExpired
    <3>2. jobs' \in [JobIds -> Targets]
      <4> DEFINE f == [e \in Events |-> IF e \in ids \intersect Pending(j)
                                        THEN "expired" ELSE jobs[j].member[e]]
      <4>1. f \in [Events -> MemberStates]
        BY <1>1, FoldType DEF MemberStates
      <4>2. [jobs[j] EXCEPT !.member = f] \in Targets
        BY <1>1, <4>1, MemberType
      <4>3. jobs' = [jobs EXCEPT ![j] = [jobs[j] EXCEPT !.member = f]]
        BY <1>1, <3>1
      <4> HIDE DEF f
      <4> QED
        BY <4>2, <4>3
    <3>3. terminal' \subseteq Events
      BY <1>2, <3>1
    <3>4. procs' \in [Procs -> Passes]
      BY <1>1, <3>1, AgainType
    <3> QED
      BY <1>4, <3>1, <3>2, <3>3, <3>4, RetiredType, UnclaimedType DEF HandleExpired, TypeOK
  <2> QED
    BY <2>1, <2>2
<1>5. CASE HandleAck(p)
  <2> DEFINE f(i) == [e \in Events |-> IF e \in batches[b].members \intersect Pending(i)
                                       THEN "uploaded" ELSE jobs[i].member[e]]
             acknowledged(i) == [jobs[i] EXCEPT !.reason = "none", !.wait = 0,
                                                !.member = f(i)]
  <2>1. ASSUME NEW i \in JobIds PROVE acknowledged(i) \in Targets
    <3>1. f(i) \in [Events -> MemberStates]
      BY FoldType DEF MemberStates
    <3> HIDE DEF f
    <3> QED
      BY <3>1, UploadedJobType
  <2>2. jobs' = [i \in JobIds |-> IF i \in ActiveJobs THEN acknowledged(i) ELSE jobs[i]]
    BY <1>5 DEF HandleAck
  <2> HIDE DEF acknowledged
  <2>3. jobs' \in [JobIds -> Targets]
    BY <2>1, <2>2
  <2>4. active' \in [Events -> 0 .. MaxBatches]
    <3>1. active' = [e \in Events |-> IF e \in batches[b].members THEN 0 ELSE active[e]]
      BY <1>5 DEF HandleAck
    <3> QED
      BY <3>1, ConstantTypes
  <2>5. retained' \subseteq queued
    BY <1>5 DEF HandleAck, Acknowledgeable
  <2>6. procs' \in [Procs -> Passes]
    BY <1>1, <1>5, AgainType DEF HandleAck
  <2> QED
    BY <1>5, <2>3, <2>4, <2>5, <2>6, RetiredType DEF HandleAck, TypeOK
<1>6. CASE AnswerUnusable(p)
  BY <1>1, <1>6, AbortType DEF AnswerUnusable, TypeOK
<1> QED
  BY <1>3, <1>4, <1>5, <1>6

LEMMA TypeFinish ==
  ASSUME TypeOK, NEW p \in Procs, FinishRead(p) \/ FinishWrite(p) \/ ReleaseLease(p)
  PROVE  TypeOK'
<1> USE TypeParts DEF ledgerVars, consentVars, queueVars, serverVars, historyVars
<1>1. CASE FinishRead(p)
  <2> DEFINE done == Pending(procs[p].job) = {}
  <2>1. procs[p].job \in JobIds /\ done \in BOOLEAN
    BY <1>1, PassType DEF FinishRead, Started
  <2>2. \/ procs' = [procs EXCEPT ![p].pc = "write", ![p].done = done]
        \/ \E i \in JobIds :
             procs' = [procs EXCEPT ![p].pc = "write", ![p].done = done,
                                    ![p].reason = "retry_cooldown", ![p].wait = jobs[i].wait]
    BY <1>1 DEF FinishRead, ActiveJobs
  <2>3. \A i \in JobIds : jobs[i].wait \in Nat
    BY DEF Targets
  <2> HIDE DEF done
  <2>4. CASE procs' = [procs EXCEPT ![p].pc = "write", ![p].done = done]
    <3>1. procs[p].reason \in Reasons /\ procs[p].wait \in Nat /\ procs[p] \in Passes
      BY PassType DEF PassFields
    <3>2. [procs[p] EXCEPT !.pc = "write", !.done = done] \in Passes
      BY <2>1, <3>1, WritingPassType
    <3>3. procs' \in [Procs -> Passes]
      BY <2>4, <3>2
    <3> QED
      BY <1>1, <3>3 DEF FinishRead, TypeOK
  <2>5. CASE \E i \in JobIds :
               procs' = [procs EXCEPT ![p].pc = "write", ![p].done = done,
                                      ![p].reason = "retry_cooldown", ![p].wait = jobs[i].wait]
    <3>1. PICK i \in JobIds :
               procs' = [procs EXCEPT ![p].pc = "write", ![p].done = done,
                                      ![p].reason = "retry_cooldown", ![p].wait = jobs[i].wait]
      BY <2>5
    <3>2. [procs[p] EXCEPT !.pc = "write", !.done = done, !.reason = "retry_cooldown",
                           !.wait = jobs[i].wait] \in Passes
      BY <2>1, <2>3, PassType, WritingPassType, ReasonTypes
    <3>3. procs' \in [Procs -> Passes]
      BY <3>1, <3>2
    <3> QED
      BY <1>1, <3>3 DEF FinishRead, TypeOK
  <2> QED
    BY <2>2, <2>4, <2>5
<1>2. CASE FinishWrite(p)
  <2> DEFINE r == procs[p]
             s == IF r.done THEN "finished" ELSE "active"
  <2>1. /\ r.reason \in Reasons /\ r.wait \in Nat /\ r.job \in JobIds /\ Started(r)
    BY <1>2, PassType DEF FinishWrite, PassFields, Started
  <2>2. [jobs[r.job] EXCEPT !.state = s, !.reason = r.reason, !.wait = r.wait] \in Targets
    BY <2>1, FinishedJobType
  <2>3. \/ jobs' = jobs
        \/ jobs' = [jobs EXCEPT ![r.job] =
             [@ EXCEPT !.state = s, !.reason = r.reason, !.wait = r.wait]]
    BY <1>2, <2>1 DEF FinishWrite
  <2>4. jobs' \in [JobIds -> Targets]
    BY <2>1, <2>2, <2>3
  <2>5. procs' \in [Procs -> Passes]
    BY <1>2, <2>1, GotoType DEF FinishWrite
  <2> QED
    BY <1>2, <2>4, <2>5 DEF FinishWrite, TypeOK
<1>3. CASE ReleaseLease(p)
  BY <1>3, IdleType DEF ReleaseLease, FreeLease, TypeOK
<1> QED
  BY <1>1, <1>2, <1>3

LEMMA TypePassStep ==
  ASSUME TypeOK, NEW p \in Procs, PassStep(p)
  PROVE  TypeOK'
BY TypeStart, TypeLoop, TypePrepare, TypeSend, TypeHandle, TypeFinish DEF PassStep

LEMMA TypeUser ==
  ASSUME TypeOK, UserStep
  PROVE  TypeOK'
<1> USE TypeParts DEF ledgerVars, consentVars, queueVars, serverVars, historyVars
<1>1. CASE Record
  <2>1. high' \in 0 .. MaxEvent /\ high + 1 \in Events
    BY <1>1, ConstantTypes DEF Record, TypeOK, Events
  <2>2. raw' \subseteq 1 .. high'
    BY <1>1, ConstantTypes DEF Record, TypeOK
  <2>3. permitted' \subseteq Events
    BY <1>1, <2>1 DEF Record, TypeOK
  <2> QED
    BY <1>1, <2>1, <2>2, <2>3 DEF Record, TypeOK
<1>2. FreeLease \in [holder : Procs \union {None}, left : Nat]
  BY DEF FreeLease
<1>3. CASE Enable
  <2>1. consent' \in [enabled : BOOLEAN, interval : Nat, cleared : BOOLEAN, intent : BOOLEAN]
    <3>1. consent \in [enabled : BOOLEAN, interval : Nat, cleared : BOOLEAN, intent : BOOLEAN]
      BY DEF TypeOK
    <3>2. consent' = [consent EXCEPT !.enabled = TRUE, !.interval = @ + 1]
      BY <1>3 DEF Enable
    <3>3. consent.interval + 1 \in Nat
      BY <3>1
    <3> QED
      BY <3>1, <3>2, <3>3
  <2>2. windows' \subseteq [start : Nat, end : Nat]
    BY <1>3, ConstantTypes DEF Enable, TypeOK, Open
  <2> QED
    BY <1>2, <1>3, <2>1, <2>2 DEF Enable, TypeOK
<1>4. CASE Disable \/ BeginClear \/ FinishClear \/ ReconcileGeneration
  <2>1. consent' \in [enabled : BOOLEAN, interval : Nat, cleared : BOOLEAN, intent : BOOLEAN]
    BY <1>4 DEF Disable, BeginClear, FinishClear, ReconcileGeneration, Withdraw, TypeOK
  <2>2. windows' \subseteq [start : Nat, end : Nat]
    <3>1. CloseWindows \subseteq [start : Nat, end : Nat]
      BY ConstantTypes DEF CloseWindows, TypeOK
    <3> QED
      BY <1>4, <3>1 DEF Disable, BeginClear, FinishClear, ReconcileGeneration, Withdraw
  <2>3. remote' \in [clearSent : BOOLEAN, cleared : BOOLEAN]
    BY <1>4 DEF Disable, BeginClear, FinishClear, ReconcileGeneration, TypeOK
  <2> QED
    BY <1>2, <1>4, <2>1, <2>2, <2>3
    DEF Disable, BeginClear, FinishClear, ReconcileGeneration, Withdraw, TypeOK
<1>5. CASE \E before \in 2 .. Open : UsageDelete(before)
  BY <1>5 DEF UsageDelete, TypeOK
<1>6. CASE \E S \in SUBSET (raw \union queued) : Expire(S)
  <2>1. PICK S \in SUBSET (raw \union queued) : Expire(S)
    BY <1>6
  <2> DEFINE f(j) == [e \in Events |-> IF e \in S \intersect Pending(j)
                                       THEN "expired" ELSE jobs[j].member[e]]
             expired(j) == [jobs[j] EXCEPT !.member = f(j)]
             hit == {b \in BatchIds : Live(b) /\ batches[b].members \intersect S # {}}
  <2>2. jobs' \in [JobIds -> Targets]
    <3>1. ASSUME NEW j \in JobIds PROVE expired(j) \in Targets
      <4>1. f(j) \in [Events -> MemberStates]
        BY FoldType DEF MemberStates
      <4> HIDE DEF f
      <4> QED
        BY <4>1, MemberType
    <3>2. jobs' = [j \in JobIds |-> expired(j)]
      BY <2>1 DEF Expire
    <3> HIDE DEF expired
    <3> QED
      BY <3>1, <3>2
  <2>3. active' \in [Events -> 0 .. MaxBatches]
    <3>1. active' = [e \in Events |-> IF e \in S THEN 0 ELSE Unclaimed(hit)[e]]
      BY <2>1 DEF Expire
    <3> QED
      BY <3>1, UnclaimedType, ConstantTypes
  <2>4. batches' \in [BatchIds -> Rows]
    BY <2>1, RetiredType DEF Expire
  <2>5. lease' \in [holder : Procs \union {None}, left : Nat]
    BY <1>2, <2>1 DEF Expire, TypeOK
  <2> QED
    BY <2>1, <2>2, <2>3, <2>4, <2>5 DEF Expire, TypeOK
<1> QED
  BY <1>1, <1>3, <1>4, <1>5, <1>6 DEF UserStep

LEMMA LessType == \A n \in Nat : Less(n) \in Nat
BY DEF Less

LEMMA TypeTick == ASSUME TypeOK, Tick PROVE TypeOK'
<1> USE TypeParts DEF ledgerVars, consentVars, queueVars, serverVars, historyVars
<1>1. lease' \in [holder : Procs \union {None}, left : Nat]
  <2>1. lease \in [holder : Procs \union {None}, left : Nat]
    BY DEF TypeOK
  <2>2. lease.left > 1 => lease.left - 1 \in Nat
    BY <2>1
  <2>3. lease' = IF lease.left > 1 THEN [lease EXCEPT !.left = lease.left - 1] ELSE FreeLease
    BY DEF Tick
  <2> QED
    BY <2>1, <2>2, <2>3 DEF FreeLease
<1>2. batches' \in [BatchIds -> Rows]
  <2>1. ASSUME NEW b \in BatchIds
        PROVE  [batches[b] EXCEPT !.wait = Less(@),
                  !.idle = IF @ < Cooldown THEN @ + 1 ELSE @] \in Rows
    <3>1. batches[b].wait \in Nat /\ batches[b].idle \in Nat
      BY DEF Rows
    <3>2. /\ Less(batches[b].wait) \in Nat
          /\ (IF batches[b].idle < Cooldown THEN batches[b].idle + 1
              ELSE batches[b].idle) \in Nat
      BY <3>1, LessType
    <3> QED
      BY <3>2 DEF Rows
  <2> QED
    BY <2>1 DEF Tick
<1>3. jobs' \in [JobIds -> Targets]
  <2>1. ASSUME NEW j \in JobIds PROVE [jobs[j] EXCEPT !.wait = Less(@)] \in Targets
    BY LessType DEF Targets
  <2> QED
    BY <2>1 DEF Tick
<1>4. procs' \in [Procs -> Passes]
  <2>1. ASSUME NEW p \in Procs
        PROVE  [procs[p] EXCEPT !.wait = Less(@), !.left = Less(@)] \in Passes
    <3>1. procs[p].wait \in Nat /\ procs[p].left \in Nat
      BY PassType DEF PassFields
    <3> QED
      BY <3>1, PassType, LessType, TickedPassType
  <2> QED
    BY <2>1 DEF Tick
<1>5. quotaLeft' \in Nat
  BY LessType DEF Tick, TypeOK
<1> QED
  BY <1>1, <1>2, <1>3, <1>4, <1>5 DEF Tick, TypeOK

LEMMA TypeNext == TypeOK /\ [Next]_vars => TypeOK'
<1> SUFFICES ASSUME TypeOK, [Next]_vars PROVE TypeOK'
  OBVIOUS
<1> USE DEF ledgerVars, consentVars, queueVars, serverVars, historyVars
<1>1. ASSUME NEW p \in Procs, NEW want \in {Resume, 0} \union HistoryFrom,
             AcquireLease(p, want)
      PROVE  TypeOK'
  <2>1. want \in {Resume} \union Nat
    <3>1. \A e \in Events : e \in Nat
      BY ConstantTypes DEF Events
    <3>2. HistoryFrom \subseteq Events
      BY ConstantsAssumption
    <3> QED
      BY <3>1, <3>2
  <2>2. [procs[p] EXCEPT !.pc = "start", !.want = want] \in Passes
    BY <2>1, TypeParts, PassType, StartingPassType
  <2>3. procs' \in [Procs -> Passes]
    BY <1>1, <2>2, TypeParts DEF AcquireLease
  <2> QED
    BY <1>1, <2>3, ConstantTypes DEF AcquireLease, TypeOK
<1>2. ASSUME NEW p \in Procs, Crash(p) PROVE TypeOK'
  BY <1>2, IdleType DEF Crash, TypeOK
<1>3. ASSUME NEW b \in BatchIds, ServerIndex(b) PROVE TypeOK'
  <2>1. batches[b].members \subseteq Events
    BY TypeParts DEF Rows
  <2> QED
    BY <1>3, <2>1 DEF ServerIndex, TypeOK
<1>4. CASE ServerClear
  BY <1>4 DEF ServerClear, TypeOK
<1>5. CASE UNCHANGED vars
  BY <1>5 DEF vars, TypeOK
<1> QED
  BY <1>1, <1>2, <1>3, <1>4, <1>5, TypePassStep, TypeUser, TypeTick DEF Next

\* Every variable keeps its type; in particular a process past the start of a
\* pass always holds a job, and one with an upload under way a batch.
THEOREM TypeCorrect == Spec => []TypeOK
BY TypeInit, TypeNext, PTL DEF Spec

(***************************************************************************)
(* Batches and queue rows agree                                            *)
(***************************************************************************)
\* What a retry state, a reservation or the passing of time leave of a batch.
SameBatches ==
  \A b \in BatchIds : /\ batches'[b].state = batches[b].state
                      /\ batches'[b].consent = batches[b].consent
                      /\ batches'[b].members = batches[b].members

LEMMA PauseKeepsBatches ==
  ASSUME TypeOK, NEW p \in Procs, NEW reason, NEW wait, PauseUpload(p, reason, wait)
  PROVE  SameBatches
<1>1. ASSUME NEW r \in Rows
      PROVE  /\ Postponed(r, reason, wait).state = r.state
             /\ Postponed(r, reason, wait).consent = r.consent
             /\ Postponed(r, reason, wait).members = r.members
  BY DEF Postponed, Rows
<1> QED
  BY <1>1, TypeParts DEF PauseUpload, SameBatches

LEMMA ReserveKeepsBatches ==
  ASSUME TypeOK, NEW p \in Procs, Reserve(p)
  PROVE  SameBatches
<1> DEFINE x == procs[p].batch
<1>1. \A b \in BatchIds : b # x => batches'[b] = batches[b]
  BY TypeParts DEF Reserve
<1>2. x \in BatchIds /\ batches[x] \in Rows
  BY TypeParts DEF Reserve, Reservable, Live
<1>3. /\ batches'[x].state = batches[x].state
      /\ batches'[x].consent = batches[x].consent
      /\ batches'[x].members = batches[x].members
  BY <1>2, TypeParts DEF Reserve, Rows
<1> QED
  BY <1>1, <1>3 DEF SameBatches

LEMMA TickKeepsBatches ==
  ASSUME TypeOK, Tick
  PROVE  SameBatches
<1>1. ASSUME NEW b \in BatchIds
      PROVE  /\ batches'[b].state = batches[b].state
             /\ batches'[b].consent = batches[b].consent
             /\ batches'[b].members = batches[b].members
  BY TypeParts DEF Tick, Rows
<1> QED
  BY <1>1 DEF SameBatches

LEMMA OwnershipKept ==
  ASSUME BatchesOwnTheirRows, SameBatches,
         queued \subseteq queued', UNCHANGED <<retained, active>>,
         consent'.interval = consent.interval
  PROVE  BatchesOwnTheirRows'
BY DEF BatchesOwnTheirRows, SameBatches, Live

\* Retiring a set of batches and giving up their claims, as an expiry does.
LEMMA OwnershipRetired ==
  ASSUME TypeOK, BatchesOwnTheirRows, NEW B, NEW S,
         \A b \in BatchIds : Live(b) /\ b \notin B => batches[b].members \intersect S = {},
         batches' = Retired(B \intersect {b \in BatchIds : Live(b)}),
         active' = [e \in Events |-> IF e \in S THEN 0 ELSE Unclaimed(B)[e]],
         queued' = queued \ S, retained' = retained \ S, UNCHANGED consent
  PROVE  BatchesOwnTheirRows'
<1>1. \A b \in BatchIds : Live(b)' => b \notin B /\ Live(b) /\ batches'[b] = batches[b]
  BY TypeParts DEF Live, Retired, UnusedBatch, Rows
<1>2. \A b \in BatchIds : Live(b) /\ b \notin B => batches'[b] = batches[b] /\ Live(b)'
  BY DEF Live, Retired
<1>3. \A e \in Events : active'[e] # 0 =>
        e \notin S /\ active[e] \notin B /\ active'[e] = active[e]
  BY DEF Unclaimed
<1>4. \A e \in Events, b \in BatchIds :
        e \notin S /\ b \notin B /\ active[e] = b => active'[e] = b
  BY DEF Unclaimed
<1>5. ASSUME NEW e \in Events, active'[e] # 0
      PROVE  /\ e \in queued' \ retained'
             /\ active'[e] \in BatchIds /\ batches'[active'[e]].state = "live"
             /\ e \in batches'[active'[e]].members
  <2>1. e \in queued \ retained /\ Live(active[e]) /\ e \in batches[active[e]].members
    BY <1>3, <1>5 DEF BatchesOwnTheirRows
  <2>2. active[e] \in BatchIds
    BY <2>1 DEF Live
  <2> QED
    BY <1>2, <1>3, <1>5, <2>1, <2>2 DEF Live
<1>6. ASSUME NEW b \in BatchIds, Live(b)'
      PROVE  /\ batches'[b].members # {} /\ batches'[b].members \subseteq queued'
             /\ batches'[b].consent <= consent'.interval
             /\ batches'[b].consent = consent'.interval =>
                  \A e \in batches'[b].members : active'[e] = b
  <2>1. Live(b) /\ b \notin B /\ batches'[b] = batches[b]
    BY <1>1, <1>6
  <2>2. batches[b].members \subseteq Events
    BY TypeParts DEF Rows
  <2> QED
    BY <1>4, <2>1, <2>2 DEF BatchesOwnTheirRows
<1> QED
  BY <1>5, <1>6 DEF BatchesOwnTheirRows, Live

LEMMA OwnershipReleased ==
  ASSUME TypeOK, BatchesOwnTheirRows
  PROVE  /\ \A e \in Events : Released[e] # 0 => Released[e] = active[e]
         /\ \A e \in Events, b \in BatchIds :
              Live(b) /\ batches[b].consent = consent.interval /\ active[e] = b
              => Released[e] = b
BY DEF Released

LEMMA OwnershipPrepare ==
  ASSUME TypeOK, BatchesOwnTheirRows, NEW p \in Procs, ReuseBatch(p) \/ BuildBatch(p)
  PROVE  BatchesOwnTheirRows'
<1> USE TypeParts DEF consentVars, queueVars
<1>1. CASE ReuseBatch(p)
  <2>1. active' = Released /\ UNCHANGED <<queued, retained, batches, consent>>
    BY <1>1 DEF ReuseBatch
  <2>2. \A b : Live(b)' <=> Live(b)
    BY <2>1 DEF Live
  <2> QED
    BY <2>1, <2>2, OwnershipReleased DEF BatchesOwnTheirRows, Rows
<1>2. CASE BuildBatch(p)
  <2> DEFINE C == Candidates(procs[p].job)
  <2>1. PICK b \in BatchIds, n \in 1 .. MaxBatch :
          /\ batches[b].state = "unused"
          /\ Cardinality(FirstOf(C, n)) = n
          /\ batches' = [batches EXCEPT ![b] =
               [UnusedBatch EXCEPT !.state = "live", !.consent = consent.interval,
                                   !.members = FirstOf(C, n)]]
          /\ active' = [e \in Events |-> IF e \in FirstOf(C, n) THEN b ELSE Released[e]]
    BY <1>2 DEF BuildBatch
  <2> DEFINE M == FirstOf(C, n)
  <2>2. UNCHANGED <<queued, retained, consent>>
    BY <1>2 DEF BuildBatch
  <2>3. M # {}
    <3> SUFFICES ASSUME M = {} PROVE FALSE
      OBVIOUS
    <3>1. Cardinality(M) = 0
      BY FS_EmptySet
    <3>2. n > 0 /\ Cardinality(M) = n
      BY <2>1, ConstantTypes
    <3> QED
      BY <3>1, <3>2
  <2>4. /\ M \subseteq queued \ retained
        /\ \A e \in M : e \in Events /\ Released[e] = 0
    BY DEF FirstOf, Candidates, CapturedPending
  <2>5. /\ batches'[b].state = "live" /\ batches'[b].members = M
        /\ batches'[b].consent = consent.interval
        /\ \A c \in BatchIds : c # b => batches'[c] = batches[c]
    BY <2>1 DEF UnusedBatch
  <2>6. /\ \A c \in BatchIds : c # b => (Live(c)' <=> Live(c))
        /\ ~Live(b) /\ Live(b)'
    BY <2>1, <2>5 DEF Live
  <2>7. /\ \A e \in Events : e \in M => active'[e] = b
        /\ \A e \in Events : e \notin M => active'[e] = Released[e]
    BY <2>1
  <2> HIDE DEF M, C
  <2>8. ASSUME NEW e \in Events, active'[e] # 0
        PROVE  /\ e \in queued' \ retained'
               /\ active'[e] \in BatchIds /\ batches'[active'[e]].state = "live"
               /\ e \in batches'[active'[e]].members
    <3>1. CASE e \in M
      BY <2>2, <2>4, <2>5, <2>6, <2>7, <3>1
    <3>2. CASE e \notin M
      <4>1. active'[e] = active[e] /\ active[e] # 0
        BY <2>7, <2>8, <3>2, OwnershipReleased
      <4>2. /\ e \in queued \ retained /\ Live(active[e])
            /\ e \in batches[active[e]].members
        BY <4>1 DEF BatchesOwnTheirRows
      <4>3. active[e] \in BatchIds /\ active[e] # b
        BY <4>2, <2>6 DEF Live
      <4> QED
        BY <2>2, <2>5, <2>6, <4>1, <4>2, <4>3 DEF Live
    <3> QED
      BY <3>1, <3>2
  <2>9. ASSUME NEW c \in BatchIds, Live(c)'
        PROVE  /\ batches'[c].members # {} /\ batches'[c].members \subseteq queued'
               /\ batches'[c].consent <= consent'.interval
               /\ batches'[c].consent = consent'.interval =>
                    \A e \in batches'[c].members : active'[e] = c
    <3>1. CASE c = b
      BY <2>2, <2>3, <2>4, <2>5, <2>7, <3>1
    <3>2. CASE c # b
      <4>1. Live(c) /\ batches'[c] = batches[c]
        BY <2>5, <2>6, <2>9, <3>2
      <4>2. /\ batches[c].members # {} /\ batches[c].members \subseteq queued
            /\ batches[c].consent <= consent.interval
            /\ batches[c].consent = consent.interval =>
                 \A e \in batches[c].members : active[e] = c
        BY <4>1 DEF BatchesOwnTheirRows
      <4>3. ASSUME batches[c].consent = consent.interval, NEW e \in batches[c].members
            PROVE  active'[e] = c
        <5>1. e \in Events /\ Released[e] = c /\ c # 0
          BY <4>1, <4>2, <4>3, OwnershipReleased, ConstantTypes DEF Rows, BatchIds
        <5> QED
          BY <2>4, <2>7, <5>1
      <4> QED
        BY <2>2, <4>1, <4>2, <4>3
    <3> QED
      BY <3>1, <3>2
  <2> QED
    BY <2>8, <2>9 DEF BatchesOwnTheirRows, Live
<1> QED
  BY <1>1, <1>2

LEMMA OwnershipAck ==
  ASSUME TypeOK, BatchesOwnTheirRows, NEW p \in Procs, HandleAck(p)
  PROVE  BatchesOwnTheirRows'
<1> USE TypeParts DEF consentVars
<1> DEFINE b == procs[p].batch
           M == batches[b].members
<1>1. /\ b \in BatchIds /\ Live(b)
      /\ \A e \in M : active[e] = b
      /\ retained' = retained \union M
      /\ active' = [e \in Events |-> IF e \in M THEN 0 ELSE active[e]]
      /\ batches' = Retired({b})
      /\ UNCHANGED <<queued, consent>>
  BY DEF HandleAck, Acknowledgeable, Live
<1>2. \A c \in BatchIds : batches'[c].state = "live" => c # b /\ Live(c) /\ batches'[c] = batches[c]
  BY <1>1 DEF Live, Retired, UnusedBatch
<1>3. \A c \in BatchIds : Live(c) /\ c # b => batches'[c] = batches[c] /\ batches'[c].state = "live"
  BY <1>1 DEF Live, Retired
<1> HIDE DEF M, b
<1>4. ASSUME NEW e \in Events, active'[e] # 0
      PROVE  /\ e \in queued' \ retained'
             /\ active'[e] \in BatchIds /\ batches'[active'[e]].state = "live"
             /\ e \in batches'[active'[e]].members
  <2>1. e \notin M /\ active'[e] = active[e]
    BY <1>1, <1>4
  <2>2. e \in queued \ retained /\ Live(active[e]) /\ e \in batches[active[e]].members
    BY <1>4, <2>1 DEF BatchesOwnTheirRows
  <2>3. active[e] \in BatchIds /\ active[e] # b
    BY <2>1, <2>2 DEF Live, M
  <2> QED
    BY <1>1, <1>3, <2>1, <2>2, <2>3
<1>5. ASSUME NEW c \in BatchIds, batches'[c].state = "live"
      PROVE  /\ batches'[c].members # {} /\ batches'[c].members \subseteq queued'
             /\ batches'[c].consent <= consent'.interval
             /\ batches'[c].consent = consent'.interval =>
                  \A e \in batches'[c].members : active'[e] = c
  <2>1. c # b /\ Live(c) /\ batches'[c] = batches[c]
    BY <1>2, <1>5
  <2>2. /\ batches[c].members # {} /\ batches[c].members \subseteq queued
        /\ batches[c].consent <= consent.interval
        /\ batches[c].consent = consent.interval =>
             \A e \in batches[c].members : active[e] = c
    BY <2>1 DEF BatchesOwnTheirRows
  <2>3. \A e \in Events : active[e] = c => e \notin M /\ active'[e] = c
    BY <1>1, <2>1
  <2> QED
    BY <1>1, <2>1, <2>2, <2>3
<1> QED
  BY <1>4, <1>5 DEF BatchesOwnTheirRows, Live

LEMMA OwnershipPassStep ==
  ASSUME TypeOK, BatchesOwnTheirRows, NEW p \in Procs, PassStep(p)
  PROVE  BatchesOwnTheirRows'
<1> USE DEF consentVars, queueVars
<1>1. CASE UNCHANGED <<batches, queueVars, consent>>
  BY <1>1, OwnershipKept DEF SameBatches
<1>2. CASE \/ ContinueJob(p) \/ CreateJob(p) \/ StartRefused(p)
           \/ \E confirmed \in BOOLEAN : RemoteStatus(p, confirmed)
           \/ RenewLease(p) \/ Deadline(p) \/ NothingToSend(p) \/ PrepareRefused(p)
           \/ ReserveRefused(p) \/ BackoffElapsed(p) \/ AnswerUnusable(p)
           \/ FinishRead(p) \/ FinishWrite(p) \/ ReleaseLease(p)
  BY <1>1, <1>2 DEF ContinueJob, CreateJob, StartRefused, RemoteStatus, RenewLease,
     Deadline, NothingToSend, PrepareRefused, ReserveRefused, BackoffElapsed,
     AnswerUnusable, FinishRead, FinishWrite, ReleaseLease
<1>3. CASE Capture(p)
  <2>1. /\ queued \subseteq queued' /\ UNCHANGED <<retained, active, batches, consent>>
    BY <1>3 DEF Capture
  <2> QED
    BY <2>1, OwnershipKept DEF SameBatches
<1>4. CASE ReuseBatch(p) \/ BuildBatch(p)
  BY <1>4, OwnershipPrepare
<1>5. CASE Reserve(p)
  BY <1>5, ReserveKeepsBatches, OwnershipKept DEF Reserve
<1>6. CASE \E kind \in Answers \intersect Failures : UploadFails(p, kind)
  <2>1. PICK kind : UploadFails(p, kind)
    BY <1>6
  <2>2. SameBatches
    BY <2>1, PauseKeepsBatches DEF UploadFails, SameBatches
  <2> QED
    BY <2>1, <2>2, OwnershipKept DEF UploadFails
<1>7. CASE \E answer \in Answers \intersect Replies : UploadAnswered(p, answer)
  <2>1. PICK answer : UploadAnswered(p, answer)
    BY <1>7
  <2>2. SameBatches
    BY <2>1, PauseKeepsBatches DEF UploadAnswered, SameBatches
  <2> QED
    BY <2>1, <2>2, OwnershipKept DEF UploadAnswered
<1>8. CASE HandleQuota(p)
  <2>1. SameBatches
    BY <1>8, PauseKeepsBatches DEF HandleQuota, SameBatches
  <2> QED
    BY <1>8, <2>1, OwnershipKept DEF HandleQuota
<1>9. CASE HandleExpired(p)
  <2>1. CASE ~HoldsLease(p)
    BY <1>9, <2>1, <1>1 DEF HandleExpired
  <2>2. CASE HoldsLease(p)
    <3> DEFINE B == {procs[p].batch}
    <3>1. /\ batches' = Retired(B \intersect {b \in BatchIds : Live(b)})
          /\ active' = Unclaimed(B)
          /\ UNCHANGED <<queued, retained, consent>>
      BY <1>9, <2>2 DEF HandleExpired
    <3>2. active' = [e \in Events |-> IF e \in {} THEN 0 ELSE Unclaimed(B)[e]]
      BY <3>1 DEF Unclaimed
    <3>3. /\ queued' = queued \ {} /\ retained' = retained \ {}
          /\ \A b \in BatchIds : Live(b) /\ b \notin B => batches[b].members \intersect {} = {}
      BY <3>1
    <3> HIDE DEF B
    <3> QED
      BY <3>1, <3>2, <3>3, OwnershipRetired
  <2> QED
    BY <2>1, <2>2
<1>10. CASE HandleAck(p)
  BY <1>10, OwnershipAck
<1> QED
  BY <1>2, <1>3, <1>4, <1>5, <1>6, <1>7, <1>8, <1>9, <1>10 DEF PassStep

LEMMA OwnershipExpire ==
  ASSUME TypeOK, BatchesOwnTheirRows, NEW S, Expire(S)
  PROVE  BatchesOwnTheirRows'
<1> DEFINE B == {b \in BatchIds : Live(b) /\ batches[b].members \intersect S # {}}
<1>1. /\ batches' = Retired(B)
      /\ active' = [e \in Events |-> IF e \in S THEN 0 ELSE Unclaimed(B)[e]]
      /\ queued' = queued \ S /\ retained' = retained \ S /\ UNCHANGED consent
  BY DEF Expire, consentVars
<1>2. B = B \intersect {b \in BatchIds : Live(b)}
  OBVIOUS
<1>3. \A b \in BatchIds : Live(b) /\ b \notin B => batches[b].members \intersect S = {}
  OBVIOUS
<1> HIDE DEF B
<1> QED
  BY <1>1, <1>2, <1>3, OwnershipRetired

LEMMA OwnershipNext ==
  TypeOK /\ BatchesOwnTheirRows /\ [Next]_vars => BatchesOwnTheirRows'
<1> SUFFICES ASSUME TypeOK, BatchesOwnTheirRows, [Next]_vars PROVE BatchesOwnTheirRows'
  OBVIOUS
<1> USE DEF consentVars, queueVars
<1>1. CASE UNCHANGED <<batches, queueVars>> /\ consent'.interval = consent.interval
  BY <1>1, OwnershipKept DEF SameBatches
<1>2. ASSUME NEW p \in Procs, NEW want, AcquireLease(p, want) PROVE BatchesOwnTheirRows'
  BY <1>1, <1>2 DEF AcquireLease
<1>3. ASSUME NEW p \in Procs, Crash(p) PROVE BatchesOwnTheirRows'
  BY <1>1, <1>3 DEF Crash
<1>4. CASE UserStep
  <2>1. CASE Enable
    <3>1. /\ consent'.interval = consent.interval + 1 /\ consent.interval \in Nat
          /\ UNCHANGED <<batches, queueVars>>
      <4>1. consent \in [enabled : BOOLEAN, interval : Nat, cleared : BOOLEAN, intent : BOOLEAN]
        BY DEF TypeOK
      <4> QED
        BY <2>1, <4>1 DEF Enable
    <3>2. \A b \in BatchIds : batches[b].consent \in Nat
      BY TypeParts DEF Rows
    <3> QED
      BY <3>1, <3>2 DEF BatchesOwnTheirRows, Live
  <2>2. CASE Record \/ \E before \in 2 .. Open : UsageDelete(before)
    BY <1>1, <2>2 DEF Record, UsageDelete
  <2>3. CASE Disable \/ BeginClear \/ FinishClear \/ ReconcileGeneration
    <3>1. consent'.interval = consent.interval
      <4>1. consent \in [enabled : BOOLEAN, interval : Nat, cleared : BOOLEAN, intent : BOOLEAN]
        BY DEF TypeOK
      <4> QED
        BY <2>3, <4>1 DEF Disable, BeginClear, FinishClear, ReconcileGeneration, Withdraw
    <3> QED
      BY <1>1, <2>3, <3>1 DEF Disable, BeginClear, FinishClear, ReconcileGeneration, Withdraw
  <2>4. CASE \E S \in SUBSET (raw \union queued) : Expire(S)
    BY <2>4, OwnershipExpire
  <2> QED
    BY <1>4, <2>1, <2>2, <2>3, <2>4 DEF UserStep
<1>5. ASSUME NEW b \in BatchIds, ServerIndex(b) PROVE BatchesOwnTheirRows'
  BY <1>1, <1>5 DEF ServerIndex
<1>6. CASE ServerClear
  BY <1>1, <1>6 DEF ServerClear
<1>7. CASE Tick
  BY <1>7, TickKeepsBatches, OwnershipKept DEF Tick
<1>8. CASE UNCHANGED vars
  BY <1>1, <1>8 DEF vars
<1> QED
  BY <1>2, <1>3, <1>4, <1>5, <1>6, <1>7, <1>8, OwnershipPassStep DEF Next

\* A claimed row is always in the live batch that claims it, and a batch of the
\* current consent still claims every one of its members, none acknowledged:
\* whatever expires, is taken over or is withdrawn, an acknowledgment that
\* arrives under the consent of its batch finds all the rows it is about.
THEOREM OwnershipCorrect == Spec => []BatchesOwnTheirRows
<1>1. Init => BatchesOwnTheirRows
  BY DEF Init, BatchesOwnTheirRows, Live, UnusedBatch
<1> QED
  BY <1>1, OwnershipNext, TypeCorrect, PTL DEF Spec

=============================================================================
