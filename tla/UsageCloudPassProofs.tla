------------------------ MODULE UsageCloudPassProofs ------------------------
(***************************************************************************)
(* What holds of the passes, jobs and batches of UsageCloud as they go     *)
(* through a sync, for every number of processes, events, batches and jobs *)
(* and every length of the timers.                                         *)
(***************************************************************************)
EXTENDS UsageCloudProofs

(***************************************************************************)
(* The steps of a process                                                  *)
(***************************************************************************)
\* The process keeps its place; at most its counters go down.
Stays(p) ==
  LET r == procs[p]
      s == procs'[p]
  IN /\ s.pc = r.pc /\ s.job = r.job /\ s.batch = r.batch /\ s.attempt = r.attempt
     /\ s.answer = r.answer /\ s.done = r.done
     /\ s.left = r.left \/ s.left = Less(r.left)
     /\ s.wait = r.wait \/ s.wait = Less(r.wait)

\* An upload lasts as long as its process is in flight.
Lets(p) ==
  \/ procs'[p].left = 0
  \/ procs[p].pc # "inflight" /\ procs'[p].left = procs[p].left

\* It is outside of the part of a pass that holds a job.
Leaves(p) == procs'[p].pc \in {"idle", "start", "release"} /\ Lets(p)

\* It takes up an unfinished or a new job under the lease.
Begins(p) ==
  /\ procs[p].pc = "start" /\ procs'[p].pc = "status"
  /\ HoldsLease(p)
  /\ jobs'[procs'[p].job].state = "active"
  /\ Lets(p)

\* It goes on with its job and without an upload.
GoesOn(p) ==
  /\ Started(procs[p]) /\ procs'[p].job = procs[p].job
  /\ procs'[p].pc \in {"renew", "fill", "prepare", "backoff", "finish"}
  /\ Lets(p)

\* It reads the progress of its job at the end of the pass.
Reads(p) ==
  /\ procs[p].pc = "finish" /\ procs'[p].pc = "write"
  /\ procs'[p].job = procs[p].job
  /\ procs'[p].done => Pending(procs[p].job) = {}
  /\ UNCHANGED jobs
  /\ Lets(p)

\* It claims a live batch of the current consent under the lease.
Claims(p) ==
  /\ procs[p].pc = "prepare" /\ procs'[p].pc = "reserve"
  /\ procs'[p].job = procs[p].job
  /\ HoldsLease(p)
  /\ procs'[p].batch \in BatchIds
  /\ batches'[procs'[p].batch].state = "live"
  /\ batches'[procs'[p].batch].consent = consent.interval
  /\ Lets(p)

\* It commits an attempt and sends it.
Commits(p) ==
  /\ procs[p].pc = "reserve" /\ procs'[p].pc = "inflight"
  /\ procs'[p].job = procs[p].job /\ procs'[p].batch = procs[p].batch
  /\ procs'[p].attempt = NextAttempt(procs[p].batch)
  /\ procs'[p].left = UploadTimeout
  /\ Reserve(p)

\* It has the answer to its upload.
Hears(p) ==
  /\ procs[p].pc = "inflight" /\ procs'[p].pc = "answered"
  /\ procs'[p].job = procs[p].job /\ procs'[p].batch = procs[p].batch
  /\ procs'[p].answer = "ack" => batches[procs[p].batch].members \subseteq accepted
  /\ UNCHANGED accepted
  /\ Lets(p)

Moves(p) ==
  \/ Stays(p) \/ Leaves(p) \/ Begins(p) \/ GoesOn(p) \/ Reads(p) \/ Claims(p)
  \/ Commits(p) \/ Hears(p)

\* Only p moves.
Alone(p) == \A q \in Procs \ {p} : procs'[q] = procs[q]

LEMMA GotoMove ==
  ASSUME procs \in [Procs -> Passes], NEW p \in Procs, NEW pc, Goto(p, pc)
  PROVE  /\ Alone(p)
         /\ procs'[p].pc = pc /\ procs'[p].job = procs[p].job
         /\ procs'[p].left = procs[p].left
BY PassType DEF Goto, Alone, PassFields

LEMMA AgainMove ==
  ASSUME procs \in [Procs -> Passes], NEW p \in Procs, Started(procs[p]), Again(p)
  PROVE  Alone(p) /\ GoesOn(p)
BY DEF Again, Alone, GoesOn, Lets, Idle

LEMMA BreakMove ==
  ASSUME procs \in [Procs -> Passes], NEW p \in Procs, Started(procs[p]),
         NEW err, NEW reason, NEW wait, Break(p, err, reason, wait)
  PROVE  Alone(p) /\ GoesOn(p) /\ procs'[p].pc = "finish"
BY DEF Break, Alone, GoesOn, Lets, Idle

LEMMA AbortMove ==
  ASSUME procs \in [Procs -> Passes], NEW p \in Procs, Started(procs[p]), Abort(p)
  PROVE  Alone(p) /\ GoesOn(p) /\ procs'[p].pc = "finish"
BY BreakMove DEF Abort

LEMMA QuitMove ==
  ASSUME procs \in [Procs -> Passes], NEW p \in Procs, Quit(p)
  PROVE  Alone(p) /\ Leaves(p)
BY DEF Quit, Alone, Leaves, Lets, Idle

LEMMA ClaimMove ==
  ASSUME procs \in [Procs -> Passes], NEW p \in Procs, NEW b, Claim(p, b)
  PROVE  /\ Alone(p) /\ Lets(p)
         /\ procs'[p].pc = "reserve" /\ procs'[p].job = procs[p].job
         /\ procs'[p].batch = b
BY DEF Claim, Alone, Lets, Idle

LEMMA StartMoves ==
  ASSUME TypeOK, NEW p \in Procs, ContinueJob(p) \/ CreateJob(p) \/ StartRefused(p)
  PROVE  Alone(p) /\ (Leaves(p) \/ Begins(p))
<1> USE TypeParts
<1>1. CASE ContinueJob(p)
  <2>1. PICK j \in ActiveJobs :
          /\ jobs' = [jobs EXCEPT ![j].consent = consent.interval]
          /\ \/ Quit(p)
             \/ procs' = [procs EXCEPT ![p] = [Idle EXCEPT !.pc = "status", !.job = j]]
    BY <1>1 DEF ContinueJob
  <2>2. jobs'[j].state = "active"
    BY <2>1 DEF ActiveJobs, Targets
  <2>3. CASE Quit(p)
    BY <2>3, QuitMove
  <2>4. CASE procs' = [procs EXCEPT ![p] = [Idle EXCEPT !.pc = "status", !.job = j]]
    BY <1>1, <2>2, <2>4 DEF ContinueJob, Alone, Begins, Lets, Idle
  <2> QED
    BY <2>1, <2>3, <2>4
<1>2. CASE CreateJob(p)
  <2>1. PICK j \in JobIds :
          /\ \E f : jobs' = [jobs EXCEPT ![j] =
               [UnusedJob EXCEPT !.state = "active", !.consent = consent.interval,
                                 !.history = procs[p].want, !.member = f]]
          /\ procs' = [procs EXCEPT ![p] = [Idle EXCEPT !.pc = "status", !.job = j]]
    BY <1>2 DEF CreateJob
  <2>2. PICK f :
          jobs' = [jobs EXCEPT ![j] =
            [UnusedJob EXCEPT !.state = "active", !.consent = consent.interval,
                              !.history = procs[p].want, !.member = f]]
    BY <2>1
  <2>3. jobs'[j].state = "active"
    BY <2>2 DEF UnusedJob
  <2> QED
    BY <1>2, <2>1, <2>3 DEF CreateJob, Alone, Begins, Lets, Idle
<1>3. CASE StartRefused(p)
  BY <1>3, QuitMove DEF StartRefused
<1> QED
  BY <1>1, <1>2, <1>3

LEMMA LoopMoves ==
  ASSUME TypeOK, NEW p \in Procs,
         \/ \E confirmed \in BOOLEAN : RemoteStatus(p, confirmed)
         \/ RenewLease(p) \/ Capture(p) \/ Deadline(p)
         \/ NothingToSend(p) \/ PrepareRefused(p) \/ ReserveRefused(p) \/ BackoffElapsed(p)
  PROVE  Alone(p) /\ (Leaves(p) \/ GoesOn(p))
<1> USE TypeParts
<1>1. CASE \E confirmed \in BOOLEAN : RemoteStatus(p, confirmed)
  BY <1>1, QuitMove, GotoMove DEF RemoteStatus, GoesOn, Started, Lets
<1>2. CASE RenewLease(p)
  BY <1>2, AbortMove, GotoMove DEF RenewLease, GoesOn, Started, Lets
<1>3. CASE Capture(p)
  <2>1. procs[p].pc = "fill" /\ Started(procs[p])
    BY <1>3 DEF Capture, Started
  <2>2. CASE Goto(p, "prepare")
    BY <2>1, <2>2, GotoMove DEF GoesOn, Lets
  <2>3. CASE Abort(p)
    BY <2>1, <2>3, AbortMove
  <2>4. ASSUME NEW next \in {"fill", "prepare"}, NEW c,
               procs' = [procs EXCEPT ![p].pc = next, ![p].captured = c]
        PROVE  Alone(p) /\ GoesOn(p)
    BY <2>1, <2>4, PassType DEF Alone, GoesOn, Lets, PassFields
  <2> QED
    BY <1>3, <2>2, <2>3, <2>4 DEF Capture
<1>4. CASE Deadline(p)
  BY <1>4, BreakMove DEF Deadline, Started
<1>5. CASE NothingToSend(p)
  BY <1>5, AgainMove, BreakMove DEF NothingToSend, Started
<1>6. CASE PrepareRefused(p) \/ ReserveRefused(p)
  BY <1>6, AbortMove DEF PrepareRefused, ReserveRefused, Started
<1>7. CASE BackoffElapsed(p)
  BY <1>7, AgainMove DEF BackoffElapsed, Started
<1> QED
  BY <1>1, <1>2, <1>3, <1>4, <1>5, <1>6, <1>7

LEMMA ClaimMoves ==
  ASSUME TypeOK, NEW p \in Procs, ReuseBatch(p) \/ BuildBatch(p)
  PROVE  Alone(p) /\ Claims(p)
<1> USE TypeParts
<1>1. CASE ReuseBatch(p)
  <2>1. PICK b \in Prior(procs[p].job) : Claim(p, b)
    BY <1>1 DEF ReuseBatch
  <2>2. b \in BatchIds /\ batches[b].state = "live" /\ batches[b].consent = consent.interval
    BY DEF Prior, Live
  <2> QED
    BY <1>1, <2>1, <2>2, ClaimMove DEF ReuseBatch, Claims
<1>2. CASE BuildBatch(p)
  <2>1. PICK b \in BatchIds, n \in 1 .. MaxBatch :
          /\ batches' = [batches EXCEPT ![b] =
               [UnusedBatch EXCEPT !.state = "live", !.consent = consent.interval,
                                   !.members = FirstOf(Candidates(procs[p].job), n)]]
          /\ Claim(p, b)
    BY <1>2 DEF BuildBatch
  <2>2. batches'[b].state = "live" /\ batches'[b].consent = consent.interval
    BY <2>1 DEF UnusedBatch
  <2>3. procs[p].pc = "prepare" /\ HoldsLease(p)
    BY <1>2 DEF BuildBatch
  <2>4. /\ Alone(p) /\ Lets(p)
        /\ procs'[p].pc = "reserve" /\ procs'[p].job = procs[p].job
        /\ procs'[p].batch = b
    BY <2>1, ClaimMove
  <2> QED
    BY <2>2, <2>3, <2>4 DEF Claims
<1> QED
  BY <1>1, <1>2

LEMMA ReserveMoves ==
  ASSUME TypeOK, NEW p \in Procs, Reserve(p)
  PROVE  Alone(p) /\ Commits(p)
<1> DEFINE n == NextAttempt(procs[p].batch)
<1>1. procs[p] \in PassFields
  BY TypeParts, PassType
<1>2. /\ procs[p].pc = "reserve"
      /\ procs' = [procs EXCEPT ![p].pc = "inflight", ![p].attempt = n,
                                ![p].left = UploadTimeout]
  BY DEF Reserve
<1> HIDE DEF n
<1>3. Alone(p)
  BY <1>2, TypeParts DEF Alone
<1>4. /\ procs'[p].pc = "inflight" /\ procs'[p].job = procs[p].job
      /\ procs'[p].batch = procs[p].batch /\ procs'[p].attempt = n
      /\ procs'[p].left = UploadTimeout
  BY <1>1, <1>2, TypeParts DEF PassFields
<1> QED
  BY <1>2, <1>3, <1>4 DEF Commits, n

LEMMA AnswerMoves ==
  ASSUME TypeOK, NEW p \in Procs,
         \/ \E kind \in Answers \intersect Failures : UploadFails(p, kind)
         \/ \E answer \in Answers \intersect Replies : UploadAnswered(p, answer)
         \/ HandleQuota(p) \/ HandleExpired(p) \/ HandleAck(p) \/ AnswerUnusable(p)
  PROVE  Alone(p) /\ (GoesOn(p) \/ Hears(p))
<1> USE TypeParts
<1>1. ASSUME NEW kind, UploadFails(p, kind) PROVE Alone(p) /\ GoesOn(p)
  <2>1. procs[p].pc = "inflight" /\ Started(procs[p])
    BY <1>1 DEF UploadFails, Started
  <2>2. PICK reason, wait :
          \/ Break(p, TRUE, reason, wait)
          \/ procs' = [procs EXCEPT ![p] =
               [Idle EXCEPT !.pc = "backoff", !.job = procs[p].job, !.err = TRUE,
                            !.reason = reason, !.wait = wait]]
    BY <1>1 DEF UploadFails
  <2>3. CASE Break(p, TRUE, reason, wait)
    BY <2>1, <2>3, BreakMove
  <2>4. CASE procs' = [procs EXCEPT ![p] =
               [Idle EXCEPT !.pc = "backoff", !.job = procs[p].job, !.err = TRUE,
                            !.reason = reason, !.wait = wait]]
    BY <2>1, <2>4 DEF Alone, GoesOn, Lets, Idle
  <2> QED
    BY <2>2, <2>3, <2>4
<1>2. ASSUME NEW answer, UploadAnswered(p, answer)
      PROVE  Alone(p) /\ (GoesOn(p) \/ Hears(p))
  <2>1. CASE Abort(p)
    BY <1>2, <2>1, AbortMove DEF UploadAnswered, Started
  <2>2. CASE procs' = [procs EXCEPT ![p] =
               [Idle EXCEPT !.pc = "answered", !.job = procs[p].job,
                            !.batch = procs[p].batch, !.answer = answer]]
    BY <1>2, <2>2 DEF UploadAnswered, Alone, Hears, Lets, Idle, serverVars
  <2> QED
    BY <1>2, <2>1, <2>2 DEF UploadAnswered
<1>3. CASE HandleQuota(p)
  BY <1>3, BreakMove DEF HandleQuota, Started
<1>4. CASE HandleExpired(p)
  BY <1>4, AbortMove, AgainMove DEF HandleExpired, Started
<1>5. CASE HandleAck(p)
  BY <1>5, AgainMove DEF HandleAck, Started
<1>6. CASE AnswerUnusable(p)
  BY <1>6, AbortMove DEF AnswerUnusable, Started
<1> QED
  BY <1>1, <1>2, <1>3, <1>4, <1>5, <1>6

LEMMA EndMoves ==
  ASSUME TypeOK, NEW p \in Procs, FinishRead(p) \/ FinishWrite(p) \/ ReleaseLease(p)
  PROVE  Alone(p) /\ (Leaves(p) \/ Reads(p))
<1> USE TypeParts
<1>1. CASE FinishRead(p)
  <2>1. procs[p] \in PassFields
    BY PassType
  <2> DEFINE done == Pending(procs[p].job) = {}
  <2>2. \/ procs' = [procs EXCEPT ![p].pc = "write", ![p].done = done]
        \/ \E j \in ActiveJobs :
             procs' = [procs EXCEPT ![p].pc = "write", ![p].done = done,
                                    ![p].reason = "retry_cooldown", ![p].wait = jobs[j].wait]
    BY <1>1 DEF FinishRead
  <2> HIDE DEF done
  <2>3. Alone(p)
    BY <2>2 DEF Alone
  <2>4. /\ procs'[p].pc = "write" /\ procs'[p].job = procs[p].job
        /\ procs'[p].done = done /\ procs'[p].left = procs[p].left
    BY <2>1, <2>2 DEF PassFields
  <2> QED
    BY <1>1, <2>3, <2>4 DEF FinishRead, Reads, Lets, done
<1>2. CASE FinishWrite(p)
  BY <1>2, GotoMove DEF FinishWrite, Leaves, Lets
<1>3. CASE ReleaseLease(p)
  BY <1>3 DEF ReleaseLease, Alone, Leaves, Lets, Idle
<1> QED
  BY <1>1, <1>2, <1>3

\* Every step of a process is one of these moves, and its own.
LEMMA PassMoves ==
  ASSUME TypeOK, NEW p \in Procs, PassStep(p)
  PROVE  Alone(p) /\ Moves(p)
BY StartMoves, LoopMoves, ClaimMoves, ReserveMoves, AnswerMoves, EndMoves
   DEF PassStep, Moves

LEMMA AcquireMoves ==
  ASSUME TypeOK, NEW p \in Procs, NEW want, AcquireLease(p, want)
  PROVE  Alone(p) /\ Leaves(p) /\ procs'[p].pc = "start"
<1>1. procs[p] \in PassFields /\ procs[p].pc = "idle"
  BY TypeParts, PassType DEF AcquireLease
<1>2. procs' = [procs EXCEPT ![p].pc = "start", ![p].want = want]
  BY DEF AcquireLease
<1>3. procs'[p].pc = "start" /\ procs'[p].left = procs[p].left
  BY <1>1, <1>2, TypeParts DEF PassFields
<1> QED
  BY <1>1, <1>2, <1>3, TypeParts DEF Alone, Leaves, Lets

LEMMA CrashMoves ==
  ASSUME TypeOK, NEW p \in Procs, Crash(p)
  PROVE  Alone(p) /\ Leaves(p)
BY TypeParts DEF Crash, Alone, Leaves, Lets, Idle

LEMMA TickMoves ==
  ASSUME TypeOK, Tick, NEW p \in Procs
  PROVE  /\ Stays(p)
         /\ procs'[p].left = Less(procs[p].left) /\ procs'[p].wait = Less(procs[p].wait)
<1>1. procs[p] \in PassFields
  BY TypeParts, PassType
<1>2. procs'[p] = [procs[p] EXCEPT !.wait = Less(@), !.left = Less(@)]
  BY DEF Tick
<1> QED
  BY <1>1, <1>2 DEF Stays, PassFields

LEMMA UserStays ==
  ASSUME UserStep \/ (\E b \in BatchIds : ServerIndex(b)) \/ ServerClear \/ UNCHANGED vars
  PROVE  UNCHANGED procs
BY DEF UserStep, Record, Enable, Disable, BeginClear, FinishClear, ReconcileGeneration,
   UsageDelete, Expire, ServerIndex, ServerClear, Withdraw, vars

LEMMA NextMoves ==
  ASSUME TypeOK, [Next]_vars, NEW p \in Procs
  PROVE  Moves(p)
<1>1. procs'[p] = procs[p] => Stays(p)
  BY DEF Stays
<1>2. ASSUME NEW q \in Procs, Alone(q), Moves(q) PROVE Moves(p)
  BY <1>1, <1>2 DEF Alone, Moves
<1>3. ASSUME NEW q \in Procs, NEW want, AcquireLease(q, want) PROVE Moves(p)
  BY <1>2, <1>3, AcquireMoves DEF Moves
<1>4. ASSUME NEW q \in Procs, PassStep(q) \/ Crash(q) PROVE Moves(p)
  BY <1>2, <1>4, PassMoves, CrashMoves DEF Moves
<1>5. CASE Tick
  BY <1>5, TickMoves DEF Moves
<1>6. CASE UserStep \/ (\E b \in BatchIds : ServerIndex(b)) \/ ServerClear \/ UNCHANGED vars
  BY <1>1, <1>6, UserStays DEF Moves
<1> QED
  BY <1>3, <1>4, <1>5, <1>6 DEF Next

(***************************************************************************)
(* The steps on jobs and queue rows                                        *)
(***************************************************************************)
\* The retry state and the consent of a job may change, its members do not.
SameJobs ==
  \A j \in JobIds : /\ jobs'[j].state = jobs[j].state
                    /\ jobs'[j].member = jobs[j].member

KeepsJobs ==
  /\ SameJobs
  /\ UNCHANGED <<queued, retained, terminal>>
  /\ accepted \subseteq accepted'

\* A member of a job that is no longer owed to the service, or is now captured.
MemberSettles(j, e) ==
  \/ jobs'[j].member[e] = jobs[j].member[e]
  \/ e \in Pending(j) /\ jobs'[j].member[e] \in {"expired", "excluded"}
  \/ e \in Pending(j) /\ jobs'[j].member[e] = "uploaded" /\ e \in retained'
  \/ e \in Pending(j) /\ jobs'[j].member[e] = "captured" /\ e \in raw /\ e \in queued'

\* What every step on existing jobs does to job j.
MembersSettle(j) ==
  /\ jobs'[j].state = jobs[j].state
  /\ \A e \in Events : MemberSettles(j, e)

LEMMA RetryKeepsJobs ==
  ASSUME jobs \in [JobIds -> Targets], NEW j, NEW r, NEW w,
         jobs' = [jobs EXCEPT ![j].reason = r, ![j].wait = w]
  PROVE  SameJobs
BY DEF SameJobs, Targets

LEMMA PauseKeepsJobs ==
  ASSUME TypeOK, NEW p, NEW reason, NEW wait, PauseUpload(p, reason, wait)
  PROVE  SameJobs
BY RetryKeepsJobs, TypeParts DEF PauseUpload

LEMMA TickKeepsJobs ==
  ASSUME TypeOK, Tick
  PROVE  SameJobs
<1>1. ASSUME NEW j \in JobIds
      PROVE  jobs'[j].state = jobs[j].state /\ jobs'[j].member = jobs[j].member
  BY TypeParts DEF Tick, Targets
<1> QED
  BY <1>1 DEF SameJobs

\* Jobs and rows change only in these steps.
LEMMA JobsNext ==
  ASSUME TypeOK, [Next]_vars
  PROVE  \/ KeepsJobs
         \/ \E p \in Procs : \/ CreateJob(p) \/ Capture(p) \/ HandleExpired(p)
                             \/ HandleAck(p) \/ FinishWrite(p)
         \/ \E S \in SUBSET (raw \union queued) : Expire(S)
<1> USE DEF consentVars, queueVars, serverVars, KeepsJobs
<1>1. ASSUME UNCHANGED <<jobs, queued, retained, terminal>>, accepted \subseteq accepted'
      PROVE  KeepsJobs
  BY <1>1 DEF SameJobs
<1>2. ASSUME NEW p \in Procs,
             \/ StartRefused(p) \/ \E confirmed \in BOOLEAN : RemoteStatus(p, confirmed)
             \/ RenewLease(p) \/ Deadline(p) \/ ReuseBatch(p) \/ BuildBatch(p)
             \/ NothingToSend(p) \/ PrepareRefused(p)
             \/ ReserveRefused(p) \/ BackoffElapsed(p) \/ AnswerUnusable(p)
             \/ FinishRead(p) \/ ReleaseLease(p) \/ Crash(p)
      PROVE  KeepsJobs
  <2>1. UNCHANGED <<jobs, queued, retained, terminal, accepted>>
    BY <1>2 DEF StartRefused, RemoteStatus, RenewLease, Deadline, ReuseBatch,
       BuildBatch, NothingToSend, PrepareRefused, ReserveRefused, BackoffElapsed,
       AnswerUnusable, FinishRead, ReleaseLease, Crash
  <2> QED
    BY <1>1, <2>1
<1>3. ASSUME NEW p \in Procs, ContinueJob(p) PROVE KeepsJobs
  <2>1. PICK j \in JobIds : jobs' = [jobs EXCEPT ![j].consent = consent.interval]
    BY <1>3 DEF ContinueJob, ActiveJobs
  <2>2. SameJobs
    BY <2>1, TypeParts DEF SameJobs, Targets
  <2> QED
    BY <1>3, <2>2 DEF ContinueJob
<1>4. ASSUME NEW p \in Procs, Reserve(p) PROVE KeepsJobs
  <2>1. SameJobs
    BY <1>4, RetryKeepsJobs, TypeParts DEF Reserve
  <2> QED
    BY <1>4, <2>1 DEF Reserve
<1>5. ASSUME NEW p \in Procs, NEW kind, UploadFails(p, kind) PROVE KeepsJobs
  <2>1. SameJobs
    BY <1>5, PauseKeepsJobs DEF UploadFails, SameJobs
  <2> QED
    BY <1>5, <2>1 DEF UploadFails
<1>6. ASSUME NEW p \in Procs, NEW answer, UploadAnswered(p, answer) PROVE KeepsJobs
  <2>1. SameJobs
    BY <1>6, PauseKeepsJobs DEF UploadAnswered, SameJobs
  <2> QED
    BY <1>6, <2>1 DEF UploadAnswered
<1>7. ASSUME NEW p \in Procs, HandleQuota(p) PROVE KeepsJobs
  <2>1. SameJobs
    BY <1>7, PauseKeepsJobs DEF HandleQuota, SameJobs
  <2> QED
    BY <1>7, <2>1 DEF HandleQuota
<1>8. ASSUME NEW p \in Procs, NEW want, AcquireLease(p, want) PROVE KeepsJobs
  <2>1. UNCHANGED <<jobs, queued, retained, terminal, accepted>>
    BY <1>8 DEF AcquireLease
  <2> QED
    BY <1>1, <2>1
<1>9. CASE Tick
  BY <1>9, TickKeepsJobs DEF Tick
<1>10. CASE \/ Record \/ Enable \/ Disable \/ BeginClear \/ FinishClear
            \/ ReconcileGeneration \/ \E before \in 2 .. Open : UsageDelete(before)
  BY <1>1, <1>10 DEF Record, Enable, Disable, BeginClear, FinishClear,
     ReconcileGeneration, UsageDelete, Withdraw
<1>11. CASE (\E b \in BatchIds : ServerIndex(b)) \/ ServerClear \/ UNCHANGED vars
  BY <1>1, <1>11 DEF ServerIndex, ServerClear, vars
<1> QED
  BY <1>2, <1>3, <1>4, <1>5, <1>6, <1>7, <1>8, <1>9, <1>10, <1>11
  DEF Next, PassStep, UserStep

\* A new job is the only unfinished one and holds what its target selects.
LEMMA CreateEffect ==
  ASSUME TypeOK, NEW p \in Procs, CreateJob(p)
  PROVE  /\ ActiveJobs = {} /\ HoldsLease(p)
         /\ procs'[p].pc = "status" /\ Alone(p)
         /\ UNCHANGED <<queueVars, terminal, accepted, batches, wire, ledgerVars,
                        consentVars, lease>>
         /\ permitted \subseteq permitted'
         /\ \E j \in JobIds :
              /\ procs'[p].job = j
              /\ jobs[j].state = "unused" /\ jobs'[j].state = "active"
              /\ \A k \in JobIds \ {j} : jobs'[k] = jobs[k]
              /\ \A e \in Events :
                   \/ jobs'[j].member[e] = "none"
                   \/ /\ jobs'[j].member[e] = "pending"
                      /\ e \in raw \ (retained \union terminal)
                      /\ InWindow(e) \/ e \in permitted'
<1> DEFINE members == Target(procs[p].want)
           f == [e \in Events |-> IF e \in members THEN "pending" ELSE "none"]
<1>1. PICK j \in JobIds :
        /\ jobs[j].state = "unused"
        /\ jobs' = [jobs EXCEPT ![j] =
             [UnusedJob EXCEPT !.state = "active", !.consent = consent.interval,
                               !.history = procs[p].want, !.member = f]]
        /\ permitted' = permitted \union (IF procs[p].want > 0 THEN members ELSE {})
        /\ procs' = [procs EXCEPT ![p] = [Idle EXCEPT !.pc = "status", !.job = j]]
  BY DEF CreateJob
<1>2. \A e \in Events : f[e] = IF e \in members THEN "pending" ELSE "none"
  OBVIOUS
<1>3. \A e \in members : /\ e \in raw \ (retained \union terminal)
                         /\ InWindow(e) \/ procs[p].want > 0
  BY DEF Target
<1> HIDE DEF members, f
<1>4. jobs'[j].member = f /\ jobs'[j].state = "active"
  BY <1>1, TypeParts DEF UnusedJob
<1>5. \A k \in JobIds \ {j} : jobs'[k] = jobs[k]
  BY <1>1, TypeParts
<1>6. procs'[p].pc = "status" /\ procs'[p].job = j /\ Alone(p)
  BY <1>1, TypeParts DEF Idle, Alone
<1>7. permitted \subseteq permitted'
  BY <1>1
<1>8. ASSUME NEW e \in Events
      PROVE  \/ jobs'[j].member[e] = "none"
             \/ /\ jobs'[j].member[e] = "pending"
                /\ e \in raw \ (retained \union terminal)
                /\ InWindow(e) \/ e \in permitted'
  <2>1. CASE e \in members
    <3>1. InWindow(e) \/ e \in permitted'
      BY <1>1, <1>3, <2>1
    <3> QED
      BY <1>2, <1>3, <1>4, <2>1, <3>1
  <2>2. CASE e \notin members
    BY <1>2, <1>4, <2>2
  <2> QED
    BY <2>1, <2>2
<1>9. /\ ActiveJobs = {} /\ HoldsLease(p)
      /\ UNCHANGED <<queueVars, terminal, accepted, batches, wire, ledgerVars,
                     consentVars, lease>>
  BY DEF CreateJob, serverVars
<1> QED
  BY <1>1, <1>4, <1>5, <1>6, <1>7, <1>8, <1>9

LEMMA CaptureEffect ==
  ASSUME TypeOK, NEW p \in Procs, Capture(p)
  PROVE  /\ UNCHANGED <<retained, terminal, accepted, batches, wire, ledgerVars,
                        consentVars, lease, permitted>>
         /\ queued \subseteq queued' /\ queued' \subseteq queued \union raw
         /\ \A j \in JobIds : MembersSettle(j)
<1> DEFINE i == procs[p].job
           gone == Pending(i) \ raw
           taken == FirstOf({e \in raw : jobs[i].member[e] = "pending"}, CaptureLimit)
           f == [e \in Events |->
                   CASE e \in gone -> "expired"
                     [] e \in taken \intersect Ineligible -> "excluded"
                     [] e \in taken \ Ineligible -> "captured"
                     [] OTHER -> jobs[i].member[e]]
<1>1. UNCHANGED <<retained, terminal, accepted, batches, wire, ledgerVars,
                  consentVars, lease, permitted>>
  BY DEF Capture, serverVars, historyVars
<1>2. CASE UNCHANGED <<jobs, queued>>
  BY <1>1, <1>2 DEF MembersSettle, MemberSettles
<1>3. CASE /\ jobs' = [jobs EXCEPT ![i].member = f]
           /\ queued' = queued \union (taken \ Ineligible)
  <2>1. taken \subseteq {e \in raw : jobs[i].member[e] = "pending"}
    BY DEF FirstOf
  <2>2. taken \subseteq Pending(i) \intersect raw
    BY <2>1, TypeParts DEF Pending
  <2>3. \A e \in Events :
          \/ f[e] = jobs[i].member[e]
          \/ e \in Pending(i) /\ f[e] \in {"expired", "excluded"}
          \/ e \in Pending(i) /\ f[e] = "captured" /\ e \in raw /\ e \in queued'
    <3> HIDE DEF taken
    <3> QED
      BY <1>3, <2>2
  <2> HIDE DEF f, taken, gone
  <2>4. \A j \in JobIds : j # i => jobs'[j] = jobs[j]
    BY <1>3, TypeParts
  <2>5. i \in JobIds => jobs'[i].member = f /\ jobs'[i].state = jobs[i].state
    BY <1>3, TypeParts DEF Targets
  <2>6. queued \subseteq queued' /\ queued' \subseteq queued \union raw
    BY <1>3, <2>2
  <2> QED
    BY <1>1, <2>3, <2>4, <2>5, <2>6 DEF MembersSettle, MemberSettles
<1> QED
  BY <1>2, <1>3 DEF Capture

LEMMA ExpiredEffect ==
  ASSUME TypeOK, NEW p \in Procs, HandleExpired(p)
  PROVE  /\ UNCHANGED <<queued, retained, serverVars, ledgerVars, consentVars, lease,
                        permitted, deleted>>
         /\ \A j \in JobIds : MembersSettle(j)
         /\ \/ UNCHANGED <<terminal, batches>>
            \/ /\ HoldsLease(p) /\ Uploading(procs[p])
               /\ \E ids \in SUBSET batches[procs[p].batch].members :
                    /\ terminal' = terminal \union ids
                    /\ \A e \in ids, j \in JobIds :
                         j = procs[p].job => e \notin Pending(j)'
               /\ batches' = Retired({procs[p].batch} \intersect {c \in BatchIds : Live(c)})
<1> DEFINE i == procs[p].job
<1>0. /\ procs[p].pc = "answered"
      /\ UNCHANGED <<queued, retained, serverVars, ledgerVars, consentVars, lease,
                     permitted, deleted>>
  BY DEF HandleExpired, historyVars
<1>1. CASE ~HoldsLease(p)
  BY <1>0, <1>1 DEF HandleExpired, MembersSettle, MemberSettles
<1>2. CASE HoldsLease(p)
  <2>1. PICK ids \in SUBSET batches[procs[p].batch].members :
          /\ terminal' = terminal \union ids
          /\ jobs' = [jobs EXCEPT ![i].member =
               [e \in Events |-> IF e \in ids \intersect Pending(i)
                                 THEN "expired" ELSE @[e]]]
          /\ batches' = Retired({procs[p].batch} \intersect {c \in BatchIds : Live(c)})
    BY <1>2 DEF HandleExpired
  <2> DEFINE f == [e \in Events |-> IF e \in ids \intersect Pending(i)
                                    THEN "expired" ELSE jobs[i].member[e]]
  <2>2. i \in JobIds /\ Uploading(procs[p])
    BY <1>0, TypeParts, PassType DEF Started, Uploading
  <2>3. jobs' = [jobs EXCEPT ![i].member = f]
    BY <2>1
  <2>4. \A e \in Events : f[e] = IF e \in ids \intersect Pending(i)
                                 THEN "expired" ELSE jobs[i].member[e]
    OBVIOUS
  <2> HIDE DEF f
  <2>5. /\ \A j \in JobIds : j # i => jobs'[j] = jobs[j]
        /\ jobs'[i].member = f /\ jobs'[i].state = jobs[i].state
    BY <2>2, <2>3, TypeParts DEF Targets
  <2>6. \A j \in JobIds : MembersSettle(j)
    BY <2>4, <2>5 DEF MembersSettle, MemberSettles
  <2>7. \A e \in ids, j \in JobIds : j = i => e \notin Pending(j)'
    BY <2>4, <2>5 DEF Pending
  <2> QED
    BY <1>0, <1>2, <2>1, <2>2, <2>6, <2>7
<1> QED
  BY <1>1, <1>2

LEMMA AckEffect ==
  ASSUME TypeOK, NEW p \in Procs, HandleAck(p)
  PROVE  /\ UNCHANGED <<queued, terminal, serverVars, ledgerVars, consentVars, lease,
                        permitted, deleted>>
         /\ procs[p].pc = "answered" /\ procs[p].answer = "ack"
         /\ HoldsLease(p) /\ procs[p].batch \in BatchIds
         /\ retained' = retained \union batches[procs[p].batch].members
         /\ batches' = Retired({procs[p].batch})
         /\ \A j \in JobIds : MembersSettle(j)
         /\ \A j \in ActiveJobs : \A e \in batches[procs[p].batch].members :
              e \notin Pending(j)'
<1> DEFINE M == batches[procs[p].batch].members
           f(j) == [e \in Events |-> IF e \in M \intersect Pending(j)
                                     THEN "uploaded" ELSE jobs[j].member[e]]
<1>1. /\ UNCHANGED <<queued, terminal, serverVars, ledgerVars, consentVars, lease,
                     permitted, deleted>>
      /\ procs[p].pc = "answered" /\ procs[p].answer = "ack"
      /\ HoldsLease(p) /\ procs[p].batch \in BatchIds
      /\ retained' = retained \union M
      /\ batches' = Retired({procs[p].batch})
  BY DEF HandleAck, Acknowledgeable, Live, historyVars
<1>2. jobs' = [j \in JobIds |->
        IF j \in ActiveJobs
        THEN [jobs[j] EXCEPT !.reason = "none", !.wait = 0, !.member = f(j)]
        ELSE jobs[j]]
  BY DEF HandleAck
<1>3. \A j \in JobIds, e \in Events :
        f(j)[e] = IF e \in M \intersect Pending(j) THEN "uploaded" ELSE jobs[j].member[e]
  OBVIOUS
<1> HIDE DEF M, f
<1>4. ASSUME NEW j \in JobIds
      PROVE  /\ jobs'[j].state = jobs[j].state
             /\ j \in ActiveJobs => jobs'[j].member = f(j)
             /\ j \notin ActiveJobs => jobs'[j] = jobs[j]
  BY <1>2, TypeParts DEF Targets
<1>5. \A j \in JobIds : MembersSettle(j)
  BY <1>1, <1>3, <1>4 DEF MembersSettle, MemberSettles
<1>6. \A j \in ActiveJobs : \A e \in M : e \notin Pending(j)'
  BY <1>3, <1>4 DEF Pending, ActiveJobs
<1> QED
  BY <1>1, <1>5, <1>6 DEF M

LEMMA FinishEffect ==
  ASSUME TypeOK, NEW p \in Procs, FinishWrite(p)
  PROVE  /\ UNCHANGED <<queueVars, terminal, serverVars, ledgerVars, consentVars, lease,
                        permitted, deleted, batches>>
         /\ procs[p].pc = "write" /\ procs[p].job \in JobIds
         /\ \A j \in JobIds : jobs'[j].member = jobs[j].member
         /\ \A j \in JobIds \ {procs[p].job} : jobs'[j] = jobs[j]
         /\ \/ UNCHANGED jobs
            \/ procs[p].done /\ jobs'[procs[p].job].state = "finished"
            \/ ActiveJobs \ {procs[p].job} = {} /\ jobs'[procs[p].job].state = "active"
<1> DEFINE r == procs[p]
           s == IF r.done THEN "finished" ELSE "active"
<1>1. /\ UNCHANGED <<queueVars, terminal, serverVars, ledgerVars, consentVars, lease,
                     permitted, deleted, batches>>
      /\ r.pc = "write"
  BY DEF FinishWrite, historyVars
<1>2. r.job \in JobIds /\ jobs[r.job] \in Targets
  BY <1>1, TypeParts, PassType DEF Started
<1>3. CASE UNCHANGED jobs
  BY <1>1, <1>2, <1>3
<1>4. CASE /\ r.done \/ ActiveJobs \ {r.job} = {}
           /\ jobs' = [jobs EXCEPT ![r.job].state = s, ![r.job].reason = r.reason,
                                   ![r.job].wait = r.wait]
  <2>1. /\ jobs'[r.job].state = s /\ jobs'[r.job].member = jobs[r.job].member
        /\ \A j \in JobIds \ {r.job} : jobs'[j] = jobs[j]
    <3> HIDE DEF s
    <3> QED
      BY <1>2, <1>4, TypeParts DEF Targets
  <2> QED
    BY <1>1, <1>2, <1>4, <2>1
<1> QED
  BY <1>3, <1>4 DEF FinishWrite

LEMMA ExpireEffect ==
  ASSUME TypeOK, NEW S, Expire(S)
  PROVE  /\ UNCHANGED <<terminal, serverVars, high, consentVars, procs, permitted, deleted>>
         /\ queued' = queued \ S /\ retained' = retained \ S /\ raw' = raw \ S
         /\ \A j \in JobIds : MembersSettle(j) /\ (Pending(j)' = Pending(j) \ S)
<1> DEFINE f(j) == [e \in Events |-> IF e \in S \intersect Pending(j)
                                     THEN "expired" ELSE jobs[j].member[e]]
<1>1. /\ UNCHANGED <<terminal, serverVars, high, consentVars, procs, permitted, deleted>>
      /\ queued' = queued \ S /\ retained' = retained \ S /\ raw' = raw \ S
  BY DEF Expire, historyVars
<1>2. jobs' = [j \in JobIds |-> [jobs[j] EXCEPT !.member = f(j)]]
  BY DEF Expire
<1>3. \A j \in JobIds, e \in Events :
        f(j)[e] = IF e \in S \intersect Pending(j) THEN "expired" ELSE jobs[j].member[e]
  OBVIOUS
<1> HIDE DEF f
<1>4. ASSUME NEW j \in JobIds
      PROVE  jobs'[j].state = jobs[j].state /\ jobs'[j].member = f(j)
  BY <1>2, TypeParts DEF Targets
<1>5. \A j \in JobIds : MembersSettle(j)
  BY <1>3, <1>4 DEF MembersSettle, MemberSettles
<1>6. \A j \in JobIds : Pending(j)' = Pending(j) \ S
  BY <1>3, <1>4 DEF Pending
<1> QED
  BY <1>1, <1>5, <1>6

(***************************************************************************)
(* The steps on batches                                                    *)
(***************************************************************************)
\* A batch that was built stays in the tables or is gone, with the same
\* members under the same consent.
BatchesLast ==
  \A b \in BatchIds : batches[b].state # "unused" =>
    /\ batches'[b].state # "unused"
    /\ batches'[b].state = "live" => batches[b].state = "live"
    /\ batches'[b].members = batches[b].members
    /\ batches'[b].consent = batches[b].consent

\* The batches of B are gone.
Retires(B) ==
  \A b \in BatchIds :
    /\ b \in B => batches'[b].state = "gone"
    /\ b \notin B => batches'[b] = batches[b]
    /\ batches'[b].members = batches[b].members
    /\ batches'[b].consent = batches[b].consent

LEMMA RetiredEffect ==
  ASSUME batches \in [BatchIds -> Rows], NEW B, batches' = Retired(B)
  PROVE  Retires(B) /\ BatchesLast
<1>1. ASSUME NEW b \in BatchIds
      PROVE  /\ b \in B => batches'[b].state = "gone"
             /\ b \notin B => batches'[b] = batches[b]
             /\ batches'[b].members = batches[b].members
             /\ batches'[b].consent = batches[b].consent
  BY DEF Retired, UnusedBatch
<1> QED
  BY <1>1 DEF Retires, BatchesLast

\* A new batch takes captured members of the job under the current consent.
LEMMA BuildEffect ==
  ASSUME TypeOK, NEW p \in Procs, BuildBatch(p)
  PROVE  /\ UNCHANGED <<queued, retained, terminal, jobs, serverVars, ledgerVars,
                        consentVars, lease, permitted, deleted>>
         /\ \E b \in BatchIds, M \in SUBSET Events :
              /\ batches[b].state = "unused"
              /\ M \subseteq CapturedPending(procs[p].job)
              /\ batches' = [batches EXCEPT ![b] =
                   [UnusedBatch EXCEPT !.state = "live", !.consent = consent.interval,
                                       !.members = M]]
              /\ batches'[b].state = "live" /\ batches'[b].members = M
              /\ batches'[b].consent = consent.interval
              /\ \A c \in BatchIds \ {b} : batches'[c] = batches[c]
<1>1. PICK b \in BatchIds, n \in 1 .. MaxBatch :
        /\ batches[b].state = "unused"
        /\ batches' = [batches EXCEPT ![b] =
             [UnusedBatch EXCEPT !.state = "live", !.consent = consent.interval,
                                 !.members = FirstOf(Candidates(procs[p].job), n)]]
  BY DEF BuildBatch
<1> DEFINE M == FirstOf(Candidates(procs[p].job), n)
<1>2. M \subseteq CapturedPending(procs[p].job) /\ M \in SUBSET Events
  BY TypeParts DEF FirstOf, Candidates, CapturedPending
<1> HIDE DEF M
<1>3. /\ batches' = [batches EXCEPT ![b] =
           [UnusedBatch EXCEPT !.state = "live", !.consent = consent.interval,
                               !.members = M]]
  BY <1>1 DEF M
<1>4. /\ batches'[b].state = "live" /\ batches'[b].members = M
      /\ batches'[b].consent = consent.interval
      /\ \A c \in BatchIds \ {b} : batches'[c] = batches[c]
  BY <1>3, TypeParts DEF UnusedBatch
<1>5. UNCHANGED <<queued, retained, terminal, jobs, serverVars, ledgerVars,
                  consentVars, lease, permitted, deleted>>
  BY DEF BuildBatch, historyVars
<1> QED
  BY <1>1, <1>2, <1>3, <1>4, <1>5

\* Batches come and go only in these steps.
LEMMA BatchesNext ==
  ASSUME TypeOK, [Next]_vars
  PROVE  \/ SameBatches
         \/ \E p \in Procs : BuildBatch(p) \/ HandleExpired(p) \/ HandleAck(p)
         \/ \E S \in SUBSET (raw \union queued) : Expire(S)
<1>1. ASSUME UNCHANGED batches PROVE SameBatches
  BY <1>1 DEF SameBatches
<1>2. ASSUME NEW p \in Procs,
             \/ ContinueJob(p) \/ CreateJob(p) \/ StartRefused(p)
             \/ \E confirmed \in BOOLEAN : RemoteStatus(p, confirmed)
             \/ RenewLease(p) \/ Capture(p) \/ Deadline(p) \/ ReuseBatch(p)
             \/ NothingToSend(p) \/ PrepareRefused(p)
             \/ ReserveRefused(p) \/ BackoffElapsed(p) \/ AnswerUnusable(p)
             \/ FinishRead(p) \/ FinishWrite(p) \/ ReleaseLease(p) \/ Crash(p)
      PROVE  SameBatches
  <2>1. UNCHANGED batches
    BY <1>2 DEF ContinueJob, CreateJob, StartRefused, RemoteStatus, RenewLease, Capture,
       Deadline, ReuseBatch, NothingToSend, PrepareRefused, ReserveRefused,
       BackoffElapsed, AnswerUnusable, FinishRead, FinishWrite, ReleaseLease, Crash
  <2> QED
    BY <1>1, <2>1
<1>3. ASSUME NEW p \in Procs, Reserve(p) PROVE SameBatches
  BY <1>3, ReserveKeepsBatches
<1>4. ASSUME NEW p \in Procs, NEW kind, UploadFails(p, kind) PROVE SameBatches
  BY <1>1, <1>4, PauseKeepsBatches DEF UploadFails
<1>5. ASSUME NEW p \in Procs, NEW answer, UploadAnswered(p, answer) PROVE SameBatches
  BY <1>1, <1>5, PauseKeepsBatches DEF UploadAnswered
<1>6. ASSUME NEW p \in Procs, HandleQuota(p) PROVE SameBatches
  BY <1>1, <1>6, PauseKeepsBatches DEF HandleQuota
<1>7. ASSUME NEW p \in Procs, NEW want, AcquireLease(p, want) PROVE SameBatches
  BY <1>1, <1>7 DEF AcquireLease
<1>8. CASE Tick
  BY <1>8, TickKeepsBatches
<1>9. CASE \/ Record \/ Enable \/ Disable \/ BeginClear \/ FinishClear
           \/ ReconcileGeneration \/ \E before \in 2 .. Open : UsageDelete(before)
  BY <1>1, <1>9 DEF Record, Enable, Disable, BeginClear, FinishClear,
     ReconcileGeneration, UsageDelete, Withdraw
<1>10. CASE (\E b \in BatchIds : ServerIndex(b)) \/ ServerClear \/ UNCHANGED vars
  BY <1>1, <1>10 DEF ServerIndex, ServerClear, vars
<1> QED
  BY <1>2, <1>3, <1>4, <1>5, <1>6, <1>7, <1>8, <1>9, <1>10 DEF Next, PassStep, UserStep

LEMMA BatchesLastNext ==
  ASSUME TypeOK, [Next]_vars
  PROVE  BatchesLast
<1>1. CASE SameBatches
  BY <1>1 DEF SameBatches, BatchesLast
<1>2. ASSUME NEW p \in Procs, BuildBatch(p) PROVE BatchesLast
  BY <1>2, BuildEffect DEF BatchesLast
<1>3. ASSUME NEW p \in Procs, HandleExpired(p) PROVE BatchesLast
  <2>1. UNCHANGED batches \/ batches' = Retired({procs[p].batch} \intersect {c \in BatchIds : Live(c)})
    BY <1>3 DEF HandleExpired
  <2> QED
    BY <2>1, RetiredEffect, TypeParts DEF BatchesLast
<1>4. ASSUME NEW p \in Procs, HandleAck(p) PROVE BatchesLast
  <2>1. batches' = Retired({procs[p].batch})
    BY <1>4 DEF HandleAck
  <2> QED
    BY <2>1, RetiredEffect, TypeParts
<1>5. ASSUME NEW S, Expire(S) PROVE BatchesLast
  <2>1. PICK B : batches' = Retired(B)
    BY <1>5 DEF Expire
  <2> QED
    BY <2>1, RetiredEffect, TypeParts
<1> QED
  BY <1>1, <1>2, <1>3, <1>4, <1>5, BatchesNext

\* A batch that is new to the tables was built.
LEMMA BuiltNext ==
  ASSUME TypeOK, [Next]_vars, NEW b \in BatchIds, batches[b].state = "unused",
         batches'[b].state = "live"
  PROVE  \E p \in Procs : BuildBatch(p)
<1>1. ~SameBatches
  BY DEF SameBatches
<1>2. ASSUME NEW B, batches' = Retired(B) PROVE FALSE
  BY <1>2, RetiredEffect, TypeParts DEF Retires
<1>3. ASSUME NEW p \in Procs, HandleExpired(p) \/ HandleAck(p)
      PROVE  UNCHANGED batches \/ \E B : batches' = Retired(B)
  BY <1>3 DEF HandleExpired, HandleAck
<1>4. ASSUME NEW S, Expire(S) PROVE \E B : batches' = Retired(B)
  BY <1>4 DEF Expire
<1>5. ~UNCHANGED batches
  OBVIOUS
<1> QED
  BY <1>1, <1>2, <1>3, <1>4, <1>5, BatchesNext

LEMMA AcceptedGrows ==
  ASSUME TypeOK, [Next]_vars
  PROVE  accepted \subseteq accepted'
BY JobsNext, CreateEffect, CaptureEffect, ExpiredEffect, AckEffect, FinishEffect,
   ExpireEffect DEF KeepsJobs, serverVars

\* A job that was created lasts and is never owed more.
JobsLast ==
  \A j \in JobIds : jobs[j].state # "unused" =>
    /\ jobs'[j].state # "unused"
    /\ Pending(j)' \subseteq Pending(j)

LEMMA SettledPending ==
  ASSUME jobs \in [JobIds -> Targets], NEW j \in JobIds, MembersSettle(j)
  PROVE  Pending(j)' \subseteq Pending(j)
BY DEF MembersSettle, MemberSettles, Pending

LEMMA JobsLastNext ==
  ASSUME TypeOK, [Next]_vars
  PROVE  JobsLast
<1>1. CASE KeepsJobs
  BY <1>1 DEF KeepsJobs, SameJobs, JobsLast, Pending
<1>2. CASE \A j \in JobIds : MembersSettle(j)
  BY <1>2, SettledPending, TypeParts DEF MembersSettle, JobsLast
<1>3. ASSUME NEW p \in Procs, CreateJob(p) PROVE JobsLast
  <2>1. PICK j \in JobIds : /\ jobs[j].state = "unused"
                            /\ \A k \in JobIds \ {j} : jobs'[k] = jobs[k]
    BY <1>3, CreateEffect
  <2> QED
    BY <2>1 DEF JobsLast, Pending
<1>4. ASSUME NEW p \in Procs, FinishWrite(p) PROVE JobsLast
  <2>1. \A j \in JobIds : /\ jobs'[j].member = jobs[j].member
                          /\ jobs'[j].state = jobs[j].state
                             \/ jobs'[j].state \in {"active", "finished"}
    BY <1>4, FinishEffect
  <2> QED
    BY <2>1 DEF JobsLast, Pending
<1> QED
  BY <1>1, <1>2, <1>3, <1>4, JobsNext, CaptureEffect, ExpiredEffect, AckEffect, ExpireEffect

(***************************************************************************)
(* Jobs tell the truth                                                     *)
(***************************************************************************)
\* What a process knows between two transactions stays true while it waits.
Knows(p) ==
  LET r == procs[p] IN
  /\ Started(r) => jobs[r.job].state # "unused"
  /\ Uploading(r) => batches[r.batch].state # "unused"
  /\ r.pc = "answered" /\ r.answer = "ack" => batches[r.batch].members \subseteq accepted
  /\ r.pc = "write" /\ r.done => Pending(r.job) = {}

\* A job that is not under way owes nothing, nothing recorded as acknowledged
\* is owed or unknown to the service, and a captured member has its row.
Truth ==
  /\ \A p \in Procs : Knows(p)
  /\ \A j \in JobIds : jobs[j].state # "active" => Pending(j) = {}
  /\ retained \subseteq accepted
  /\ \A j \in JobIds : Pending(j) \intersect retained = {}
  /\ \A j \in JobIds : \A e \in Events :
       /\ jobs[j].member[e] = "uploaded" => e \in accepted
       /\ jobs[j].member[e] = "captured" => e \in queued

LEMMA KnowsNext ==
  ASSUME TypeOK, [Next]_vars, NEW p \in Procs, Knows(p)
  PROVE  Knows(p)'
<1> DEFINE r == procs[p]
           s == procs'[p]
<1>1. BatchesLast /\ JobsLast /\ accepted \subseteq accepted'
  BY BatchesLastNext, JobsLastNext, AcceptedGrows
<1>2. /\ Started(r) => r.job \in JobIds
      /\ Uploading(r) => Started(r) /\ r.batch \in BatchIds
  BY TypeParts, PassType
<1>3. /\ Started(s) => s.job \in JobIds
      /\ Uploading(s) => Started(s) /\ s.batch \in BatchIds
  <2>1. TypeOK'
    BY TypeNext
  <2>2. procs' \in [Procs -> Passes]
    BY <2>1 DEF TypeOK
  <2> QED
    BY <2>2 DEF Passes, Started, Uploading
<1>4. Moves(p)
  BY NextMoves
<1> USE <1>1, <1>2, <1>3 DEF Knows, Started, Uploading
<1>5. CASE Stays(p)
  BY <1>5 DEF Stays, BatchesLast, JobsLast
<1>6. CASE Leaves(p)
  BY <1>6 DEF Leaves
<1>7. CASE Begins(p)
  BY <1>7 DEF Begins
<1>8. CASE GoesOn(p)
  BY <1>8 DEF GoesOn, JobsLast
<1>9. CASE Reads(p)
  BY <1>9 DEF Reads, JobsLast, Pending
<1>10. CASE Claims(p)
  BY <1>10 DEF Claims, JobsLast
<1>11. CASE Commits(p)
  BY <1>11 DEF Commits, BatchesLast, JobsLast
<1>12. CASE Hears(p)
  BY <1>12 DEF Hears, BatchesLast, JobsLast
<1> QED
  BY <1>4, <1>5, <1>6, <1>7, <1>8, <1>9, <1>10, <1>11, <1>12 DEF Moves

\* Members settle without anything being forgotten.
LEMMA TruthSettles ==
  ASSUME TypeOK, Truth, \A j \in JobIds : MembersSettle(j),
         retained' \subseteq accepted', accepted \subseteq accepted',
         \A j \in JobIds : Pending(j)' \intersect retained' = {},
         \A j \in JobIds : \A e \in Events :
           jobs'[j].member[e] = "captured" => e \in queued' \/ e \notin queued,
         \A p \in Procs : Knows(p)'
  PROVE  Truth'
<1>1. ASSUME NEW j \in JobIds, jobs'[j].state # "active"
      PROVE  Pending(j)' = {}
  <2>1. Pending(j) = {}
    BY <1>1 DEF MembersSettle, Truth
  <2> QED
    BY <2>1, SettledPending, TypeParts
<1>2. ASSUME NEW j \in JobIds, NEW e \in Events
      PROVE  /\ jobs'[j].member[e] = "uploaded" => e \in accepted'
             /\ jobs'[j].member[e] = "captured" => e \in queued'
  <2>1. MemberSettles(j, e)
    BY DEF MembersSettle
  <2>2. /\ jobs[j].member[e] = "uploaded" => e \in accepted
        /\ jobs[j].member[e] = "captured" => e \in queued
    BY DEF Truth
  <2> QED
    BY <2>1, <2>2 DEF MemberSettles
<1> QED
  BY <1>1, <1>2 DEF Truth

LEMMA TruthAck ==
  ASSUME TypeOK, Truth, NEW p \in Procs, HandleAck(p), \A q \in Procs : Knows(q)'
  PROVE  Truth'
<1> DEFINE M == batches[procs[p].batch].members
<1>1. /\ UNCHANGED <<queued, accepted>>
      /\ procs[p].pc = "answered" /\ procs[p].answer = "ack"
      /\ retained' = retained \union M
      /\ \A j \in JobIds : MembersSettle(j)
      /\ \A j \in ActiveJobs : \A e \in M : e \notin Pending(j)'
  BY AckEffect DEF serverVars
<1>2. M \subseteq accepted
  BY <1>1 DEF Truth, Knows
<1> HIDE DEF M
<1>3. retained' \subseteq accepted'
  BY <1>1, <1>2 DEF Truth
<1>4. ASSUME NEW j \in JobIds PROVE Pending(j)' \intersect retained' = {}
  <2>1. Pending(j)' \subseteq Pending(j)
    BY <1>1, SettledPending, TypeParts
  <2>2. Pending(j) \intersect retained = {}
    BY DEF Truth
  <2>3. CASE j \in ActiveJobs
    BY <1>1, <2>1, <2>2, <2>3
  <2>4. CASE j \notin ActiveJobs
    BY <2>1, <2>4 DEF ActiveJobs, Truth
  <2> QED
    BY <2>3, <2>4
<1> QED
  BY <1>1, <1>3, <1>4, TruthSettles

LEMMA TruthExpire ==
  ASSUME TypeOK, Truth, NEW S, Expire(S), \A q \in Procs : Knows(q)'
  PROVE  Truth'
<1>1. /\ UNCHANGED accepted
      /\ queued' = queued \ S /\ retained' = retained \ S
      /\ \A j \in JobIds : MembersSettle(j) /\ Pending(j)' = Pending(j) \ S
  BY ExpireEffect DEF serverVars
<1>2. retained' \subseteq accepted'
  BY <1>1 DEF Truth
<1>3. \A j \in JobIds : Pending(j)' \intersect retained' = {}
  BY <1>1 DEF Truth
<1>4. ASSUME NEW j \in JobIds, NEW e \in Events, jobs'[j].member[e] = "captured"
      PROVE  e \in queued' \/ e \notin queued
  <2>1. e \in Pending(j)'
    BY <1>4 DEF Pending
  <2> QED
    BY <1>1, <2>1
<1> QED
  BY <1>1, <1>2, <1>3, <1>4, TruthSettles

LEMMA TruthCreate ==
  ASSUME TypeOK, Truth, NEW p \in Procs, CreateJob(p), \A q \in Procs : Knows(q)'
  PROVE  Truth'
<1>1. UNCHANGED <<queued, retained, accepted>>
  BY CreateEffect DEF queueVars
<1>2. PICK j \in JobIds :
        /\ jobs'[j].state = "active"
        /\ \A k \in JobIds \ {j} : jobs'[k] = jobs[k]
        /\ \A e \in Events :
             \/ jobs'[j].member[e] = "none"
             \/ /\ jobs'[j].member[e] = "pending"
                /\ e \in raw \ (retained \union terminal)
  BY CreateEffect
<1>3. \A k \in JobIds : jobs'[k].state # "active" => Pending(k)' = {}
  BY <1>2 DEF Truth, Pending
<1>4. \A k \in JobIds : Pending(k)' \intersect retained' = {}
  BY <1>1, <1>2 DEF Truth, Pending
<1>5. \A k \in JobIds : \A e \in Events :
        /\ jobs'[k].member[e] = "uploaded" => e \in accepted'
        /\ jobs'[k].member[e] = "captured" => e \in queued'
  BY <1>1, <1>2 DEF Truth
<1> QED
  BY <1>1, <1>3, <1>4, <1>5 DEF Truth

LEMMA TruthFinish ==
  ASSUME TypeOK, Truth, NEW p \in Procs, FinishWrite(p), \A q \in Procs : Knows(q)'
  PROVE  Truth'
<1> DEFINE i == procs[p].job
<1>1. /\ UNCHANGED <<queued, retained, accepted>>
      /\ procs[p].pc = "write" /\ i \in JobIds
      /\ \A j \in JobIds : jobs'[j].member = jobs[j].member
      /\ \A j \in JobIds \ {i} : jobs'[j] = jobs[j]
      /\ \/ UNCHANGED jobs
         \/ procs[p].done /\ jobs'[i].state = "finished"
         \/ jobs'[i].state = "active"
  BY FinishEffect DEF queueVars, serverVars
<1>2. \A j \in JobIds : Pending(j)' = Pending(j)
  BY <1>1 DEF Pending
<1>3. procs[p].done => Pending(i) = {}
  BY <1>1 DEF Truth, Knows
<1>4. \A j \in JobIds : jobs'[j].state # "active" => Pending(j)' = {}
  BY <1>1, <1>2, <1>3 DEF Truth
<1> QED
  BY <1>1, <1>2, <1>4 DEF Truth

LEMMA TruthNext ==
  ASSUME TypeOK, Truth, [Next]_vars
  PROVE  Truth'
<1>1. \A p \in Procs : Knows(p)'
  BY KnowsNext DEF Truth
<1>2. CASE KeepsJobs
  BY <1>1, <1>2 DEF KeepsJobs, SameJobs, Truth, Pending
<1>3. ASSUME NEW p \in Procs, Capture(p) \/ HandleExpired(p) PROVE Truth'
  <2>1. /\ UNCHANGED <<retained, accepted>> /\ queued \subseteq queued'
        /\ \A j \in JobIds : MembersSettle(j)
    BY <1>3, CaptureEffect, ExpiredEffect DEF serverVars
  <2>2. \A j \in JobIds : Pending(j)' \intersect retained' = {}
    BY <2>1, SettledPending, TypeParts DEF Truth
  <2> QED
    BY <1>1, <2>1, <2>2, TruthSettles DEF Truth
<1> QED
  BY <1>1, <1>2, <1>3, JobsNext, TruthAck, TruthExpire, TruthCreate, TruthFinish

LEMMA TruthInit == Init => Truth
BY DEF Init, Truth, Knows, Idle, UnusedJob, Started, Uploading, Pending

LEMMA SpecTruth == Spec => []Truth
BY TruthInit, TruthNext, TypeCorrect, PTL DEF Spec

\* Whatever crashes, takeovers, expiries and withdrawals come in between, a job
\* counts an event as uploaded only if the service indexed it, a captured member
\* has its unacknowledged row, and a finished job owes nothing.
THEOREM TruthCorrect == Spec => []JobsTellTheTruth
<1>1. TypeOK /\ Truth => JobsTellTheTruth
  BY DEF Truth, JobsTellTheTruth, Pending
<1> QED
  BY <1>1, TypeCorrect, SpecTruth, PTL

(***************************************************************************)
(* Recorded acknowledgments are honest                                     *)
(***************************************************************************)
\* A clear of this generation was asked for here, or nowhere.
ClearsAreOurs ==
  /\ remote.cleared => remote.clearSent
  /\ remote.clearSent => consent.intent \/ consent.cleared

LEMMA ClearsNext ==
  ASSUME TypeOK, ClearsAreOurs, "elsewhere" \notin UserOps, [Next]_vars
  PROVE  ClearsAreOurs'
<1>0. /\ consent \in [enabled : BOOLEAN, interval : Nat, cleared : BOOLEAN, intent : BOOLEAN]
      /\ remote \in [clearSent : BOOLEAN, cleared : BOOLEAN]
  BY DEF TypeOK
<1>1. CASE UNCHANGED remote /\ (consent.intent => consent'.intent)
                            /\ (consent.cleared => consent'.cleared)
  BY <1>1 DEF ClearsAreOurs
<1>2. ASSUME NEW p \in Procs, PassStep(p) PROVE UNCHANGED <<remote, consent>>
  BY <1>2 DEF PassStep, ContinueJob, CreateJob, StartRefused, RemoteStatus, RenewLease,
     Capture, Deadline, ReuseBatch, BuildBatch, NothingToSend, PrepareRefused, Reserve,
     ReserveRefused, UploadFails, UploadAnswered, BackoffElapsed, HandleQuota,
     HandleExpired, HandleAck, AnswerUnusable, FinishRead, FinishWrite, ReleaseLease,
     consentVars, serverVars
<1>3. ASSUME NEW p \in Procs, NEW want, AcquireLease(p, want) \/ Crash(p)
      PROVE  UNCHANGED <<remote, consent>>
  BY <1>3 DEF AcquireLease, Crash, consentVars, serverVars
<1>4. CASE Record \/ Tick \/ (\E before \in 2 .. Open : UsageDelete(before))
           \/ (\E S \in SUBSET (raw \union queued) : Expire(S))
           \/ (\E b \in BatchIds : ServerIndex(b)) \/ UNCHANGED vars
  <2>1. UNCHANGED <<remote, consent>>
    BY <1>4 DEF Record, Tick, UsageDelete, Expire, ServerIndex, vars, consentVars, serverVars
  <2> QED
    BY <1>1, <2>1
<1>5. CASE Enable \/ Disable
  <2>1. UNCHANGED remote /\ consent'.intent = consent.intent /\ consent'.cleared = consent.cleared
    BY <1>0, <1>5 DEF Enable, Disable, Withdraw, serverVars
  <2> QED
    BY <1>1, <2>1
<1>6. CASE BeginClear
  BY <1>0, <1>6 DEF BeginClear, Withdraw, ClearsAreOurs
<1>7. CASE FinishClear \/ ReconcileGeneration
  BY <1>0, <1>7 DEF FinishClear, ReconcileGeneration, Withdraw, ClearsAreOurs, serverVars
<1>8. CASE ServerClear
  BY <1>0, <1>8 DEF ServerClear, ClearsAreOurs, consentVars
<1> QED
  BY <1>1, <1>2, <1>3, <1>4, <1>5, <1>6, <1>7, <1>8 DEF Next, UserStep

\* As long as no other environment of the account clears the generation, an
\* event that is recorded as acknowledged is held by the service, unless a clear
\* asked for here calls it in question.
THEOREM RecordedAckCorrect ==
  ASSUME "elsewhere" \notin UserOps
  PROVE  Spec => []RecordedAckHonest
<1>1. Init => ClearsAreOurs
  BY DEF Init, ClearsAreOurs
<1>2. TypeOK /\ ClearsAreOurs /\ [Next]_vars => ClearsAreOurs'
  BY ClearsNext
<1>3. Truth /\ ClearsAreOurs => RecordedAckHonest
  BY DEF Truth, ClearsAreOurs, RecordedAckHonest
<1> QED
  BY <1>1, <1>2, <1>3, TypeCorrect, SpecTruth, PTL DEF Spec

(***************************************************************************)
(* Only permitted events are sent                                          *)
(***************************************************************************)
\* Every window is closed or belongs to the present consent, and what it
\* selects was recorded under consent.
WindowsPermit ==
  /\ consent.enabled => ~consent.cleared /\ ~consent.intent
  /\ \A w \in windows : (w.end = Open /\ consent.enabled) \/ w.end <= high
  /\ \A e \in 1 .. high : InWindow(e) => e \in permitted

JobsPermitted ==
  \A j \in JobIds : \A e \in Events : jobs[j].member[e] # "none" => e \in permitted

BatchesPermitted ==
  /\ \A b \in BatchIds : batches[b].state # "unused" => batches[b].members \subseteq permitted
  /\ \A b \in wire : batches[b].state # "unused"
  /\ accepted \subseteq permitted

\* The consent and its windows change only in these steps.
LEMMA ConsentNext ==
  ASSUME TypeOK, [Next]_vars
  PROVE  \/ UNCHANGED <<high, consent, windows>> /\ permitted \subseteq permitted'
         \/ Record \/ Enable \/ Disable \/ BeginClear \/ FinishClear \/ ReconcileGeneration
<1> USE DEF ledgerVars, consentVars, historyVars
<1>1. ASSUME NEW p \in Procs,
             \/ ContinueJob(p) \/ StartRefused(p)
             \/ \E confirmed \in BOOLEAN : RemoteStatus(p, confirmed)
             \/ RenewLease(p) \/ Capture(p) \/ Deadline(p) \/ ReuseBatch(p) \/ BuildBatch(p)
             \/ NothingToSend(p) \/ PrepareRefused(p) \/ Reserve(p)
             \/ ReserveRefused(p) \/ BackoffElapsed(p) \/ AnswerUnusable(p)
             \/ FinishRead(p) \/ FinishWrite(p) \/ ReleaseLease(p) \/ Crash(p)
             \/ HandleQuota(p) \/ HandleExpired(p) \/ HandleAck(p)
      PROVE  UNCHANGED <<high, consent, windows, permitted>>
  BY <1>1 DEF ContinueJob, StartRefused, RemoteStatus, RenewLease, Capture, Deadline,
     ReuseBatch, BuildBatch, NothingToSend, PrepareRefused, Reserve, ReserveRefused,
     BackoffElapsed, AnswerUnusable, FinishRead, FinishWrite, ReleaseLease, Crash,
     HandleQuota, HandleExpired, HandleAck
<1>2. ASSUME NEW p \in Procs, CreateJob(p)
      PROVE  UNCHANGED <<high, consent, windows>> /\ permitted \subseteq permitted'
  BY <1>2, CreateEffect
<1>3. ASSUME NEW p \in Procs, NEW x,
             UploadFails(p, x) \/ UploadAnswered(p, x) \/ AcquireLease(p, x)
      PROVE  UNCHANGED <<high, consent, windows, permitted>>
  BY <1>3 DEF UploadFails, UploadAnswered, AcquireLease
<1>4. ASSUME \/ Tick \/ (\E before \in 2 .. Open : UsageDelete(before))
             \/ (\E S \in SUBSET (raw \union queued) : Expire(S))
             \/ (\E b \in BatchIds : ServerIndex(b)) \/ ServerClear \/ UNCHANGED vars
      PROVE  UNCHANGED <<high, consent, windows, permitted>>
  BY <1>4 DEF Tick, UsageDelete, Expire, ServerIndex, ServerClear, vars
<1> QED
  BY <1>1, <1>2, <1>3, <1>4 DEF Next, PassStep, UserStep

LEMMA WithdrawPermits ==
  ASSUME TypeOK, WindowsPermit, windows' = CloseWindows, ~consent'.enabled,
         UNCHANGED <<high, permitted>>
  PROVE  WindowsPermit'
<1>0. /\ high \in Nat /\ high < Open
      /\ windows \subseteq [start : Nat, end : Nat]
  BY ConstantTypes DEF TypeOK, Open
<1>1. ASSUME NEW v \in windows'
      PROVE  \E w \in windows : /\ v.start = w.start /\ v.end <= high
                                /\ v.end <= w.end
  <2>1. PICK w \in windows : v = [w EXCEPT !.end = IF w.end = Open THEN high ELSE @]
    BY DEF CloseWindows
  <2>2. v.start = w.start /\ v.end = IF w.end = Open THEN high ELSE w.end
    BY <1>0, <2>1
  <2>3. w.end = Open \/ w.end <= high
    BY DEF WindowsPermit
  <2>4. w.end \in Nat /\ Open \in Nat
    BY <1>0, ConstantTypes DEF Open
  <2> QED
    BY <1>0, <2>2, <2>3, <2>4
<1>2. ASSUME NEW e \in 1 .. high, InWindow(e)' PROVE InWindow(e)
  <2>1. PICK v \in windows' : e > v.start /\ e <= v.end
    BY <1>2 DEF InWindow
  <2>2. PICK w \in windows : v.start = w.start /\ v.end <= high /\ v.end <= w.end
    BY <1>1
  <2>3. v.end \in Nat /\ w.end \in Nat /\ e \in Nat
    <3>1. windows' \subseteq [start : Nat, end : Nat]
      BY <1>0 DEF CloseWindows
    <3> QED
      BY <1>0, <3>1
  <2> QED
    BY <2>1, <2>2, <2>3 DEF InWindow
<1> QED
  BY <1>1, <1>2 DEF WindowsPermit

LEMMA WindowsNext ==
  ASSUME TypeOK, WindowsPermit, [Next]_vars
  PROVE  WindowsPermit' /\ permitted \subseteq permitted'
<1>0. /\ consent \in [enabled : BOOLEAN, interval : Nat, cleared : BOOLEAN, intent : BOOLEAN]
      /\ high \in 0 .. MaxEvent /\ MaxEvent \in Nat
      /\ windows \subseteq [start : Nat, end : Nat]
  BY ConstantTypes DEF TypeOK
<1>1. CASE UNCHANGED <<high, consent, windows>> /\ permitted \subseteq permitted'
  BY <1>1 DEF WindowsPermit, InWindow
<1>2. CASE Record
  <2>1. /\ high' = high + 1 /\ UNCHANGED <<consent, windows>>
        /\ permitted' = permitted \union (IF Enabled THEN {high + 1} ELSE {})
    BY <1>2 DEF Record, consentVars
  <2>2. ASSUME NEW e \in 1 .. high', InWindow(e)' PROVE e \in permitted'
    <3>1. PICK w \in windows : e > w.start /\ e <= w.end
      BY <2>1, <2>2 DEF InWindow
    <3>2. CASE e <= high
      <4>1. e \in 1 .. high
        BY <1>0, <2>1, <3>2
      <4> QED
        BY <2>1, <3>1, <4>1 DEF WindowsPermit, InWindow
    <3>3. CASE ~(e <= high)
      <4>1. e = high + 1
        BY <1>0, <2>1, <3>3
      <4>2. ~(w.end <= high)
        BY <1>0, <3>1, <4>1
      <4>3. Enabled
        BY <4>2 DEF WindowsPermit, Enabled
      <4> QED
        BY <2>1, <4>1, <4>3
    <3> QED
      BY <3>2, <3>3
  <2>3. \A w \in windows : w.end <= high => w.end <= high'
    BY <1>0, <2>1
  <2> QED
    BY <2>1, <2>2, <2>3 DEF WindowsPermit
<1>3. CASE Enable
  <2>1. /\ ~consent.cleared /\ ~consent.intent
        /\ consent'.enabled /\ consent'.cleared = consent.cleared
        /\ consent'.intent = consent.intent
    BY <1>0, <1>3 DEF Enable
  <2>2. /\ windows' = windows \union {[start |-> high, end |-> Open]}
        /\ UNCHANGED <<high, permitted>>
    BY <1>3 DEF Enable, ledgerVars, historyVars
  <2>3. ASSUME NEW e \in 1 .. high', InWindow(e)' PROVE e \in permitted'
    <3>1. PICK w \in windows' : e > w.start /\ e <= w.end
      BY <2>3 DEF InWindow
    <3>2. w \in windows
      BY <1>0, <2>2, <3>1
    <3> QED
      BY <2>2, <3>1, <3>2 DEF WindowsPermit, InWindow
  <2> QED
    BY <2>1, <2>2, <2>3 DEF WindowsPermit
<1>4. CASE Disable \/ BeginClear \/ FinishClear \/ ReconcileGeneration
  <2>1. windows' = CloseWindows /\ UNCHANGED <<high, permitted>>
    BY <1>4 DEF Disable, BeginClear, FinishClear, ReconcileGeneration, Withdraw,
       ledgerVars, historyVars
  <2>2. ~consent'.enabled
    BY <1>0, <1>4 DEF Disable, BeginClear, FinishClear, ReconcileGeneration, Withdraw
  <2> QED
    BY <2>1, <2>2, WithdrawPermits
<1> QED
  BY <1>1, <1>2, <1>3, <1>4, ConsentNext

LEMMA JobsPermittedNext ==
  ASSUME TypeOK, WindowsPermit, JobsPermitted, [Next]_vars
  PROVE  JobsPermitted'
<1>0. permitted \subseteq permitted'
  BY WindowsNext
<1>1. CASE KeepsJobs
  BY <1>0, <1>1 DEF KeepsJobs, SameJobs, JobsPermitted
<1>2. CASE \A j \in JobIds : MembersSettle(j)
  BY <1>0, <1>2 DEF MembersSettle, MemberSettles, Pending, JobsPermitted
<1>3. ASSUME NEW p \in Procs, CreateJob(p) PROVE JobsPermitted'
  <2>1. raw \subseteq 1 .. high
    BY DEF TypeOK
  <2>2. PICK j \in JobIds :
          /\ \A k \in JobIds \ {j} : jobs'[k] = jobs[k]
          /\ \A e \in Events :
               \/ jobs'[j].member[e] = "none"
               \/ /\ e \in raw \ (retained \union terminal)
                  /\ InWindow(e) \/ e \in permitted'
    BY <1>3, CreateEffect
  <2> QED
    BY <1>0, <2>1, <2>2 DEF JobsPermitted, WindowsPermit
<1>4. ASSUME NEW p \in Procs, FinishWrite(p) PROVE JobsPermitted'
  BY <1>0, <1>4, FinishEffect DEF JobsPermitted
<1> QED
  BY <1>1, <1>2, <1>3, <1>4, JobsNext, CaptureEffect, ExpiredEffect, AckEffect, ExpireEffect

\* The requests under way and the index of the service change only in these steps.
LEMMA WireNext ==
  ASSUME TypeOK, [Next]_vars
  PROVE  \/ UNCHANGED <<wire, accepted>>
         \/ \E p \in Procs : Reserve(p)
         \/ \E b \in BatchIds : ServerIndex(b)
<1> USE DEF serverVars
<1>1. ASSUME NEW p \in Procs,
             \/ ContinueJob(p) \/ CreateJob(p) \/ StartRefused(p)
             \/ \E confirmed \in BOOLEAN : RemoteStatus(p, confirmed)
             \/ RenewLease(p) \/ Capture(p) \/ Deadline(p) \/ ReuseBatch(p) \/ BuildBatch(p)
             \/ NothingToSend(p) \/ PrepareRefused(p)
             \/ ReserveRefused(p) \/ BackoffElapsed(p) \/ AnswerUnusable(p)
             \/ FinishRead(p) \/ FinishWrite(p) \/ ReleaseLease(p) \/ Crash(p)
             \/ HandleQuota(p) \/ HandleExpired(p) \/ HandleAck(p)
      PROVE  UNCHANGED <<wire, accepted>>
  BY <1>1 DEF ContinueJob, CreateJob, StartRefused, RemoteStatus, RenewLease, Capture,
     Deadline, ReuseBatch, BuildBatch, NothingToSend, PrepareRefused, ReserveRefused,
     BackoffElapsed, AnswerUnusable, FinishRead, FinishWrite, ReleaseLease, Crash,
     HandleQuota, HandleExpired, HandleAck
<1>2. ASSUME NEW p \in Procs, NEW x,
             UploadFails(p, x) \/ UploadAnswered(p, x) \/ AcquireLease(p, x)
      PROVE  UNCHANGED <<wire, accepted>>
  BY <1>2 DEF UploadFails, UploadAnswered, AcquireLease
<1>3. CASE UserStep \/ ServerClear \/ Tick \/ UNCHANGED vars
  BY <1>3 DEF UserStep, Record, Enable, Disable, BeginClear, FinishClear,
     ReconcileGeneration, UsageDelete, Expire, Withdraw, ServerClear, Tick, vars
<1> QED
  BY <1>1, <1>2, <1>3 DEF Next, PassStep

LEMMA BatchesPermittedNext ==
  ASSUME TypeOK, WindowsPermit, JobsPermitted, BatchesPermitted, [Next]_vars
  PROVE  BatchesPermitted'
<1>0. permitted \subseteq permitted' /\ BatchesLast
  BY WindowsNext, BatchesLastNext
<1>1. \A b \in BatchIds : batches'[b].state # "unused" => batches'[b].members \subseteq permitted'
  <2>1. CASE \A b \in BatchIds : batches'[b].state # "unused" => batches[b].state # "unused"
    BY <1>0, <2>1 DEF BatchesLast, BatchesPermitted
  <2>2. ASSUME NEW p \in Procs, BuildBatch(p)
        PROVE  \A b \in BatchIds :
                 batches'[b].state # "unused" => batches'[b].members \subseteq permitted'
    <3>1. procs[p].job \in JobIds
      BY <2>2, TypeParts, PassType DEF BuildBatch, Started
    <3>2. CapturedPending(procs[p].job) \subseteq permitted
      BY <3>1, TypeParts DEF CapturedPending, JobsPermitted
    <3>3. PICK b \in BatchIds, M \in SUBSET Events :
            /\ M \subseteq CapturedPending(procs[p].job)
            /\ batches'[b].members = M
            /\ \A c \in BatchIds \ {b} : batches'[c] = batches[c]
      BY <2>2, BuildEffect
    <3> QED
      BY <1>0, <3>2, <3>3 DEF BatchesPermitted
  <2>3. CASE SameBatches
    BY <2>1, <2>3 DEF SameBatches
  <2>4. ASSUME NEW p \in Procs, HandleExpired(p) \/ HandleAck(p)
        PROVE  \A b \in BatchIds : batches'[b].state # "unused" => batches[b].state # "unused"
    <3>1. \/ UNCHANGED batches
          \/ batches' = Retired({procs[p].batch} \intersect {c \in BatchIds : Live(c)})
      <4>1. HandleAck(p) => Live(procs[p].batch) /\ batches' = Retired({procs[p].batch})
        BY DEF HandleAck, Acknowledgeable
      <4>2. Live(procs[p].batch) =>
              {procs[p].batch} \intersect {c \in BatchIds : Live(c)} = {procs[p].batch}
        BY DEF Live
      <4> QED
        BY <2>4, <4>1, <4>2 DEF HandleExpired
    <3>2. Retires({procs[p].batch} \intersect {c \in BatchIds : Live(c)}) \/ UNCHANGED batches
      BY <3>1, RetiredEffect, TypeParts
    <3> QED
      BY <3>2 DEF Retires, Live
  <2>5. ASSUME NEW S, Expire(S)
        PROVE  \A b \in BatchIds : batches'[b].state # "unused" => batches[b].state # "unused"
    <3> DEFINE hit == {b \in BatchIds : Live(b) /\ batches[b].members \intersect S # {}}
    <3>1. batches' = Retired(hit)
      BY <2>5 DEF Expire
    <3>2. \A b \in hit : Live(b)
      OBVIOUS
    <3> HIDE DEF hit
    <3>3. Retires(hit)
      BY <3>1, RetiredEffect, TypeParts
    <3> QED
      BY <3>2, <3>3 DEF Retires, Live
  <2> QED
    BY <2>1, <2>2, <2>3, <2>4, <2>5, BatchesNext
<1>2. /\ \A b \in wire' : batches'[b].state # "unused"
      /\ accepted' \subseteq permitted'
  <2>0. wire \subseteq BatchIds
    BY DEF TypeOK
  <2>1. CASE UNCHANGED <<wire, accepted>>
    BY <1>0, <2>0, <2>1 DEF BatchesPermitted, BatchesLast
  <2>2. ASSUME NEW p \in Procs, Reserve(p)
        PROVE  /\ \A b \in wire' : batches'[b].state # "unused"
               /\ accepted' \subseteq permitted'
    <3>1. /\ Live(procs[p].batch) /\ wire' = wire \union {procs[p].batch}
          /\ UNCHANGED accepted
      BY <2>2 DEF Reserve, Reservable
    <3> QED
      BY <1>0, <2>0, <3>1 DEF BatchesPermitted, BatchesLast, Live
  <2>3. ASSUME NEW b \in BatchIds, ServerIndex(b)
        PROVE  /\ \A c \in wire' : batches'[c].state # "unused"
               /\ accepted' \subseteq permitted'
    <3>1. /\ b \in wire /\ wire' = wire \ {b}
          /\ accepted' = accepted \union batches[b].members
      BY <2>3 DEF ServerIndex
    <3> QED
      BY <1>0, <2>0, <3>1 DEF BatchesPermitted, BatchesLast
  <2> QED
    BY <2>1, <2>2, <2>3, WireNext
<1> QED
  BY <1>1, <1>2 DEF BatchesPermitted

\* Consent is on only while no clear is under way or done, and what a window
\* selects was recorded under consent.
LEMMA SpecWindows == Spec => []WindowsPermit
<1>1. Init => WindowsPermit
  BY DEF Init, WindowsPermit, InWindow
<1> QED
  BY <1>1, WindowsNext, TypeCorrect, PTL DEF Spec

\* What is captured and what is batched is permitted, in every state.
LEMMA SpecPermitted == Spec => [](JobsPermitted /\ BatchesPermitted)
<1>1. Init => JobsPermitted /\ BatchesPermitted
  BY DEF Init, JobsPermitted, BatchesPermitted, UnusedJob, UnusedBatch
<1>2. TypeOK /\ WindowsPermit /\ JobsPermitted /\ BatchesPermitted /\ [Next]_vars
      => JobsPermitted' /\ BatchesPermitted'
  BY JobsPermittedNext, BatchesPermittedNext
<1> QED
  BY <1>1, <1>2, TypeCorrect, SpecWindows, PTL DEF Spec

\* Whatever is recorded, enabled, disabled, cleared, captured and batched in
\* between, an event leaves for the service only if it was recorded while consent
\* was on, or was selected by an explicit history window.
THEOREM PermittedCorrect == Spec => []OnlyPermittedSent
<1>1. TypeOK /\ BatchesPermitted => OnlyPermittedSent
  BY DEF TypeOK, BatchesPermitted, OnlyPermittedSent
<1> QED
  BY <1>1, TypeCorrect, SpecPermitted, PTL

(***************************************************************************)
(* The lease and the counters of a batch                                   *)
(***************************************************************************)
\* Only a process that begins a pass obtains the lease, and only it renews it.
LEMMA LeaseMoves ==
  ASSUME TypeOK, [Next]_vars, NEW q \in Procs, HoldsLease(q)'
  PROVE  \/ procs'[q].pc = "start"
         \/ HoldsLease(q) /\ (Tick \/ RenewLease(q) \/ UNCHANGED lease)
<1>0. ~(lease' = FreeLease)
  BY DEF HoldsLease, FreeLease
<1>00. lease \in [holder : Procs \union {None}, left : Nat]
  BY DEF TypeOK
<1>1. CASE UNCHANGED lease
  BY <1>1 DEF HoldsLease
<1>2. ASSUME NEW p \in Procs, NEW want, AcquireLease(p, want)
      PROVE  procs'[q].pc = "start"
  <2>1. lease'.holder = p
    BY <1>2 DEF AcquireLease
  <2> QED
    BY <1>2, <2>1, AcquireMoves DEF HoldsLease
<1>3. ASSUME NEW p \in Procs, RenewLease(p)
      PROVE  HoldsLease(q) /\ (RenewLease(q) \/ UNCHANGED lease)
  <2>1. (HoldsLease(p) /\ lease'.holder = lease.holder) \/ UNCHANGED lease
    BY <1>3, <1>00 DEF RenewLease
  <2> QED
    BY <1>3, <2>1 DEF HoldsLease
<1>4. ASSUME NEW p \in Procs, ReleaseLease(p) PROVE UNCHANGED lease
  BY <1>0, <1>4 DEF ReleaseLease
<1>5. ASSUME Tick PROVE HoldsLease(q)
  <2>1. lease.left > 1 /\ lease' = [lease EXCEPT !.left = lease.left - 1]
    BY <1>0, <1>5 DEF Tick
  <2>2. lease'.holder = lease.holder /\ lease.left > 0
    BY <1>00, <2>1
  <2> QED
    BY <2>2 DEF HoldsLease
<1>6. CASE Enable \/ Disable \/ BeginClear \/ FinishClear \/ ReconcileGeneration
  BY <1>0, <1>6 DEF Enable, Disable, BeginClear, FinishClear, ReconcileGeneration, Withdraw
<1>7. ASSUME NEW S, Expire(S) PROVE UNCHANGED lease
  BY <1>0, <1>7 DEF Expire
<1>8. ASSUME NEW p \in Procs,
             \/ ContinueJob(p) \/ CreateJob(p) \/ StartRefused(p)
             \/ \E confirmed \in BOOLEAN : RemoteStatus(p, confirmed)
             \/ Capture(p) \/ Deadline(p) \/ ReuseBatch(p) \/ BuildBatch(p)
             \/ NothingToSend(p) \/ PrepareRefused(p) \/ Reserve(p)
             \/ ReserveRefused(p) \/ BackoffElapsed(p) \/ AnswerUnusable(p)
             \/ FinishRead(p) \/ FinishWrite(p) \/ Crash(p)
             \/ HandleQuota(p) \/ HandleExpired(p) \/ HandleAck(p)
      PROVE  UNCHANGED lease
  BY <1>8 DEF ContinueJob, CreateJob, StartRefused, RemoteStatus, Capture,
     Deadline, ReuseBatch, BuildBatch, NothingToSend, PrepareRefused, Reserve,
     ReserveRefused, BackoffElapsed, AnswerUnusable, FinishRead, FinishWrite, Crash,
     HandleQuota, HandleExpired, HandleAck
<1>9. ASSUME NEW p \in Procs, NEW x, UploadFails(p, x) \/ UploadAnswered(p, x)
      PROVE  UNCHANGED lease
  BY <1>9 DEF UploadFails, UploadAnswered
<1>10. ASSUME \/ Record \/ (\E before \in 2 .. Open : UsageDelete(before))
              \/ (\E b \in BatchIds : ServerIndex(b)) \/ ServerClear \/ UNCHANGED vars
       PROVE  UNCHANGED lease
  BY <1>10 DEF Record, UsageDelete, ServerIndex, ServerClear, vars
<1> QED
  BY <1>1, <1>2, <1>3, <1>4, <1>5, <1>6, <1>7, <1>8, <1>9, <1>10
  DEF Next, PassStep, UserStep

\* In particular the lease is obtained at the start only.
LEMMA LeaseNext ==
  ASSUME TypeOK, [Next]_vars, NEW q \in Procs, HoldsLease(q)'
  PROVE  HoldsLease(q) \/ procs'[q].pc = "start"
BY LeaseMoves

\* What becomes of the row of a batch: it stays, ...
RowStays(b) == batches'[b] = batches[b]

\* ... it begins or ends without an attempt, ...
RowFresh(b) ==
  /\ batches[b].state = "unused" \/ batches'[b].state = "gone"
  /\ batches'[b].run = 0 /\ batches'[b].attempts = 0 /\ batches'[b].reason = "none"

\* ... time passes, ...
RowTicks(b) ==
  /\ Tick
  /\ batches'[b].state = batches[b].state
  /\ batches'[b].run = batches[b].run /\ batches'[b].attempts = batches[b].attempts
  /\ batches'[b].reason = batches[b].reason
  /\ \/ /\ ~Live(b)
        /\ batches'[b].wait = batches[b].wait /\ batches'[b].idle = batches[b].idle
     \/ /\ batches'[b].wait = Less(batches[b].wait)
        /\ batches'[b].idle = IF batches[b].idle < Cooldown THEN batches[b].idle + 1
                              ELSE batches[b].idle

\* ... the answer to an upload that p still holds the lease for is stored, ...
RowPauses(b, p) ==
  /\ procs[p].batch = b /\ HoldsLease(p) /\ Live(b)
  /\ procs[p].pc \in {"inflight", "answered"} /\ procs'[p].pc # "inflight"
  /\ Alone(p)
  /\ batches'[b].attempts = batches[b].attempts /\ batches'[b].idle = batches[b].idle
  /\ \/ batches'[b].reason = "quota_paused" /\ batches'[b].run = 0
     \/ /\ procs[p].pc = "inflight"
        /\ batches'[b].run = batches[b].run
        /\ batches'[b].reason # "quota_paused"
        /\ \/ procs[p].attempt < Budget
           \/ batches'[b].reason = "invalid_request"
           \/ batches'[b].reason = "retry_cooldown" /\ batches'[b].wait = Cooldown

\* ... or an attempt is reserved.
RowReserves(b, p) ==
  /\ Reserve(p) /\ procs[p].batch = b
  /\ batches'[b].attempts = NextAttempt(b)
  /\ batches'[b].reason = ReservedReason(NextAttempt(b))
  /\ batches'[b].wait = ReservedWait(NextAttempt(b))
  /\ batches'[b].run = (IF batches[b].idle >= Cooldown THEN 1 ELSE batches[b].run + 1)
  /\ batches'[b].idle = 0

RowMoves(b) ==
  \/ RowStays(b) \/ RowFresh(b) \/ RowTicks(b)
  \/ \E p \in Procs : RowPauses(b, p) \/ RowReserves(b, p)

LEMMA PauseRow ==
  ASSUME TypeOK, NEW p \in Procs, NEW reason, NEW wait, PauseUpload(p, reason, wait),
         NEW b \in BatchIds
  PROVE  \/ RowStays(b)
         \/ /\ b = procs[p].batch /\ Live(b)
            /\ batches'[b].attempts = batches[b].attempts
            /\ batches'[b].idle = batches[b].idle
            /\ batches'[b].reason = reason /\ batches'[b].wait = wait
            /\ batches'[b].run = (IF reason = "quota_paused" THEN 0 ELSE batches[b].run)
<1>1. ASSUME NEW r \in Rows
      PROVE  /\ Postponed(r, reason, wait).attempts = r.attempts
             /\ Postponed(r, reason, wait).idle = r.idle
             /\ Postponed(r, reason, wait).reason = reason
             /\ Postponed(r, reason, wait).wait = wait
             /\ Postponed(r, reason, wait).run = (IF reason = "quota_paused" THEN 0 ELSE r.run)
  BY DEF Postponed, Rows
<1>2. batches' = [batches EXCEPT ![procs[p].batch] =
        IF batches[procs[p].batch].state = "live"
        THEN Postponed(batches[procs[p].batch], reason, wait)
        ELSE batches[procs[p].batch]]
  BY DEF PauseUpload
<1>3. CASE b # procs[p].batch \/ batches[b].state # "live"
  BY <1>2, <1>3, TypeParts DEF RowStays
<1>4. CASE b = procs[p].batch /\ batches[b].state = "live"
  <2>1. batches'[b] = Postponed(batches[b], reason, wait) /\ batches[b] \in Rows
    BY <1>2, <1>4, TypeParts
  <2> QED
    BY <1>1, <1>4, <2>1 DEF Live
<1> QED
  BY <1>3, <1>4

LEMMA ReserveRow ==
  ASSUME TypeOK, NEW p \in Procs, Reserve(p), NEW b \in BatchIds
  PROVE  RowMoves(b)
<1> DEFINE x == procs[p].batch
           n == NextAttempt(x)
           run == IF batches[x].idle >= Cooldown THEN 1 ELSE batches[x].run + 1
<1>1. batches' = [batches EXCEPT ![x].attempts = n, ![x].reason = ReservedReason(n),
                                 ![x].wait = ReservedWait(n), ![x].run = run,
                                 ![x].idle = 0]
  BY DEF Reserve
<1> HIDE DEF n, run
<1>2. CASE b # x
  BY <1>1, <1>2, TypeParts DEF RowMoves, RowStays
<1>3. CASE b = x
  <2>1. /\ batches'[b].attempts = n /\ batches'[b].reason = ReservedReason(n)
        /\ batches'[b].wait = ReservedWait(n) /\ batches'[b].run = run
        /\ batches'[b].idle = 0
    BY <1>1, <1>3, TypeParts DEF Rows
  <2>2. RowReserves(b, p)
    BY <1>3, <2>1 DEF RowReserves, n, run
  <2> QED
    BY <2>2 DEF RowMoves
<1> QED
  BY <1>2, <1>3

LEMMA FailsRow ==
  ASSUME TypeOK, NEW p \in Procs, NEW kind \in Failures, UploadFails(p, kind),
         procs[p].attempt \in 1 .. Budget, NEW b \in BatchIds
  PROVE  RowMoves(b)
<1> DEFINE n == procs[p].attempt
           reason == FailureReason(kind, n)
           stored == IF reason = "none" THEN "outcome_unknown" ELSE reason
<1>1. CASE UNCHANGED batches
  BY <1>1 DEF RowMoves, RowStays
<1>2. CASE HoldsLease(p)
  <2>1. PICK wait \in FailureWaits(reason) : PauseUpload(p, stored, wait)
    BY <1>2 DEF UploadFails
  <2>2. /\ stored # "quota_paused"
        /\ \/ n < Budget
           \/ stored = "invalid_request"
           \/ stored = "retry_cooldown" /\ wait = Cooldown
    BY <2>1, ConstantTypes DEF FailureReason, FailureWaits, Failures
  <2> HIDE DEF n, reason, stored
  <2>3. /\ procs[p].pc = "inflight" /\ procs'[p].pc # "inflight" /\ Alone(p)
    <3>1. procs[p].pc = "inflight" /\ UploadFails(p, kind)
      BY DEF UploadFails
    <3>2. \/ \E r, w : Break(p, TRUE, r, w)
          \/ \E r, w : procs' = [procs EXCEPT ![p] =
               [Idle EXCEPT !.pc = "backoff", !.job = procs[p].job, !.err = TRUE,
                            !.reason = r, !.wait = w]]
      BY DEF UploadFails
    <3> QED
      BY <3>1, <3>2, TypeParts DEF Break, Idle, Alone
  <2>4. CASE RowStays(b)
    BY <2>4 DEF RowMoves
  <2>5. CASE /\ b = procs[p].batch /\ Live(b)
             /\ batches'[b].attempts = batches[b].attempts
             /\ batches'[b].idle = batches[b].idle
             /\ batches'[b].reason = stored /\ batches'[b].wait = wait
             /\ batches'[b].run = (IF stored = "quota_paused" THEN 0 ELSE batches[b].run)
    <3>1. RowPauses(b, p)
      BY <1>2, <2>2, <2>3, <2>5 DEF RowPauses, n
    <3> QED
      BY <3>1 DEF RowMoves
  <2> QED
    BY <2>1, <2>4, <2>5, PauseRow
<1> QED
  BY <1>1, <1>2 DEF UploadFails

LEMMA AnsweredRow ==
  ASSUME TypeOK, NEW p \in Procs, NEW answer, UploadAnswered(p, answer), NEW b \in BatchIds,
         procs[p].attempt \in Nat
  PROVE  RowMoves(b)
<1>1. CASE UNCHANGED batches
  BY <1>1 DEF RowMoves, RowStays
<1>2. CASE ~(procs[p].attempt >= Budget) /\ HoldsLease(p)
  <2>1. PauseUpload(p, "outcome_unknown", 0)
    BY <1>2 DEF UploadAnswered
  <2>2. procs[p].pc = "inflight" /\ procs'[p].pc # "inflight" /\ Alone(p)
    BY TypeParts DEF UploadAnswered, Abort, Break, Idle, Alone
  <2>3. procs[p].attempt < Budget
    BY <1>2, ConstantTypes
  <2>4. CASE RowStays(b)
    BY <2>4 DEF RowMoves
  <2>5. CASE /\ b = procs[p].batch /\ Live(b)
             /\ batches'[b].attempts = batches[b].attempts
             /\ batches'[b].idle = batches[b].idle
             /\ batches'[b].reason = "outcome_unknown"
             /\ batches'[b].run = batches[b].run
    <3>1. RowPauses(b, p)
      BY <1>2, <2>2, <2>3, <2>5 DEF RowPauses
    <3> QED
      BY <3>1 DEF RowMoves
  <2> QED
    BY <2>1, <2>4, <2>5, PauseRow
<1> QED
  BY <1>1, <1>2 DEF UploadAnswered

LEMMA QuotaRow ==
  ASSUME TypeOK, NEW p \in Procs, HandleQuota(p), NEW b \in BatchIds
  PROVE  RowMoves(b)
<1>1. CASE UNCHANGED batches
  BY <1>1 DEF RowMoves, RowStays
<1>2. CASE HoldsLease(p)
  <2>1. PICK wait : PauseUpload(p, "quota_paused", wait)
    BY <1>2 DEF HandleQuota
  <2>2. procs[p].pc = "answered" /\ procs'[p].pc # "inflight" /\ Alone(p)
    BY TypeParts DEF HandleQuota, Break, Idle, Alone
  <2>4. CASE RowStays(b)
    BY <2>4 DEF RowMoves
  <2>5. CASE /\ b = procs[p].batch /\ Live(b)
             /\ batches'[b].attempts = batches[b].attempts
             /\ batches'[b].idle = batches[b].idle
             /\ batches'[b].reason = "quota_paused" /\ batches'[b].run = 0
    <3>1. RowPauses(b, p)
      BY <1>2, <2>2, <2>5 DEF RowPauses
    <3> QED
      BY <3>1 DEF RowMoves
  <2> QED
    BY <2>1, <2>4, <2>5, PauseRow
<1> QED
  BY <1>1, <1>2 DEF HandleQuota

LEMMA RetiredRow ==
  ASSUME batches \in [BatchIds -> Rows], NEW B, batches' = Retired(B), NEW b \in BatchIds
  PROVE  RowMoves(b)
BY DEF Retired, UnusedBatch, RowMoves, RowStays, RowFresh

LEMMA TickRow ==
  ASSUME TypeOK, Tick, NEW b \in BatchIds
  PROVE  RowTicks(b)
<1>1. batches[b] \in Rows
  BY TypeParts
<1>2. CASE ~Live(b)
  <2>1. batches'[b] = batches[b]
    BY <1>2 DEF Tick
  <2> QED
    BY <1>2, <2>1 DEF RowTicks
<1>3. CASE Live(b)
  <2> DEFINE w == Less(batches[b].wait)
             i == IF batches[b].idle < Cooldown THEN batches[b].idle + 1 ELSE batches[b].idle
  <2>1. batches'[b] = [batches[b] EXCEPT !.wait = w, !.idle = i]
    BY <1>3 DEF Tick
  <2> HIDE DEF w, i
  <2>2. /\ batches'[b].wait = w /\ batches'[b].idle = i
        /\ batches'[b].state = batches[b].state
        /\ batches'[b].run = batches[b].run /\ batches'[b].attempts = batches[b].attempts
        /\ batches'[b].reason = batches[b].reason
    BY <1>1, <2>1 DEF Rows
  <2> QED
    BY <2>2 DEF RowTicks, w, i
<1> QED
  BY <1>2, <1>3

LEMMA RowNext ==
  ASSUME TypeOK, [Next]_vars, NEW b \in BatchIds,
         \A p \in Procs : procs[p].pc = "inflight" => procs[p].attempt \in 1 .. Budget
  PROVE  RowMoves(b)
<1>1. CASE UNCHANGED batches
  BY <1>1 DEF RowMoves, RowStays
<1>2. ASSUME NEW p \in Procs,
             \/ ContinueJob(p) \/ CreateJob(p) \/ StartRefused(p)
             \/ \E confirmed \in BOOLEAN : RemoteStatus(p, confirmed)
             \/ RenewLease(p) \/ Capture(p) \/ Deadline(p) \/ ReuseBatch(p)
             \/ NothingToSend(p) \/ PrepareRefused(p)
             \/ ReserveRefused(p) \/ BackoffElapsed(p) \/ AnswerUnusable(p)
             \/ FinishRead(p) \/ FinishWrite(p) \/ ReleaseLease(p) \/ Crash(p)
      PROVE  UNCHANGED batches
  <2>1. ASSUME \/ ContinueJob(p) \/ CreateJob(p) \/ StartRefused(p)
               \/ \E confirmed \in BOOLEAN : RemoteStatus(p, confirmed)
               \/ RenewLease(p) \/ Capture(p) \/ Deadline(p) \/ ReuseBatch(p)
        PROVE  UNCHANGED batches
    BY <2>1 DEF ContinueJob, CreateJob, StartRefused, RemoteStatus, RenewLease, Capture,
       Deadline, ReuseBatch
  <2>2. ASSUME \/ NothingToSend(p) \/ PrepareRefused(p)
               \/ ReserveRefused(p) \/ BackoffElapsed(p) \/ AnswerUnusable(p)
        PROVE  UNCHANGED batches
    BY <2>2 DEF NothingToSend, PrepareRefused, ReserveRefused, BackoffElapsed,
       AnswerUnusable
  <2>3. ASSUME FinishRead(p) \/ FinishWrite(p) \/ ReleaseLease(p) \/ Crash(p)
        PROVE  UNCHANGED batches
    BY <2>3 DEF FinishRead, FinishWrite, ReleaseLease, Crash
  <2> QED
    BY <1>2, <2>1, <2>2, <2>3
<1>3. ASSUME NEW p \in Procs, BuildBatch(p) PROVE RowMoves(b)
  <2>1. PICK c \in BatchIds, M \in SUBSET Events :
          /\ batches[c].state = "unused"
          /\ M \subseteq CapturedPending(procs[p].job)
          /\ batches' = [batches EXCEPT ![c] =
               [UnusedBatch EXCEPT !.state = "live", !.consent = consent.interval,
                                   !.members = M]]
          /\ batches'[c].state = "live" /\ batches'[c].members = M
          /\ batches'[c].consent = consent.interval
          /\ \A d \in BatchIds \ {c} : batches'[d] = batches[d]
    BY ONLY TypeOK, p \in Procs, <1>3, BuildEffect
  <2> QED
    BY <2>1, TypeParts DEF UnusedBatch, RowMoves, RowStays, RowFresh
<1>4. ASSUME NEW p \in Procs, NEW kind \in Answers \intersect Failures, UploadFails(p, kind)
      PROVE  RowMoves(b)
  BY <1>4, FailsRow DEF UploadFails
<1>5. ASSUME NEW p \in Procs, NEW answer, UploadAnswered(p, answer) PROVE RowMoves(b)
  <2>1. procs[p].attempt \in Nat
    BY TypeParts, PassType DEF PassFields
  <2> QED
    BY <1>5, <2>1, AnsweredRow
<1>6. ASSUME NEW p \in Procs, HandleExpired(p) \/ HandleAck(p) PROVE RowMoves(b)
  <2>1. UNCHANGED batches \/ \E B : batches' = Retired(B)
    BY <1>6 DEF HandleExpired, HandleAck
  <2> QED
    BY <1>1, <2>1, RetiredRow, TypeParts
<1>7. ASSUME NEW S, Expire(S) PROVE RowMoves(b)
  <2>1. \E B : batches' = Retired(B)
    BY <1>7 DEF Expire
  <2> QED
    BY <2>1, RetiredRow, TypeParts
<1>8. ASSUME NEW p \in Procs, NEW want, AcquireLease(p, want) PROVE UNCHANGED batches
  BY <1>8 DEF AcquireLease
<1>9. ASSUME \/ Record \/ Enable \/ Disable \/ BeginClear \/ FinishClear
             \/ ReconcileGeneration \/ (\E before \in 2 .. Open : UsageDelete(before))
             \/ (\E c \in BatchIds : ServerIndex(c)) \/ ServerClear \/ UNCHANGED vars
      PROVE  UNCHANGED batches
  BY <1>9 DEF Record, Enable, Disable, BeginClear, FinishClear,
     ReconcileGeneration, UsageDelete, Withdraw, ServerIndex, ServerClear, vars
<1>10. CASE Tick
  BY <1>10, TickRow DEF RowMoves
<1> QED
  BY <1>1, <1>2, <1>3, <1>4, <1>5, <1>6, <1>7, <1>8, <1>9, <1>10, ReserveRow, QuotaRow
  DEF Next, PassStep, UserStep

LEMMA OneHolder ==
  ASSUME NEW p, NEW q, HoldsLease(p), HoldsLease(q)
  PROVE  p = q
BY DEF HoldsLease

LEMMA ReservesRow ==
  ASSUME TypeOK, NEW p \in Procs, Reserve(p)
  PROVE  RowReserves(procs[p].batch, p)
<1> DEFINE x == procs[p].batch
           n == NextAttempt(x)
           run == IF batches[x].idle >= Cooldown THEN 1 ELSE batches[x].run + 1
<1>1. x \in BatchIds
  BY DEF Reserve, Reservable, Live
<1>2. batches' = [batches EXCEPT ![x].attempts = n, ![x].reason = ReservedReason(n),
                                 ![x].wait = ReservedWait(n), ![x].run = run,
                                 ![x].idle = 0]
  BY DEF Reserve
<1> HIDE DEF n, run
<1>3. /\ batches'[x].attempts = n /\ batches'[x].reason = ReservedReason(n)
      /\ batches'[x].wait = ReservedWait(n) /\ batches'[x].run = run
      /\ batches'[x].idle = 0
  BY <1>1, <1>2, TypeParts DEF Rows
<1> QED
  BY <1>3 DEF RowReserves, n, run

(***************************************************************************)
(* The budget of attempts                                                  *)
(***************************************************************************)
\* The attempts since the last long pause are among the counted ones, and a
\* spent budget is followed by the cooldown.
CycleCounted(b) ==
  LET r == batches[b] IN
  /\ r.run <= r.attempts /\ r.attempts <= Budget
  /\ r.reason = "quota_paused" => r.run = 0
  /\ r.attempts = Budget /\ r.reason \notin {"quota_paused", "invalid_request"}
     => r.wait + r.idle >= Cooldown

\* A process in flight counts from one, and as the batch does while it holds
\* the lease.
AttemptKnown(p) ==
  LET r == procs[p] IN
  r.pc = "inflight" =>
    /\ r.attempt \in 1 .. Budget
    /\ HoldsLease(p) /\ Live(r.batch) => r.attempt = batches[r.batch].attempts

AttemptsCounted ==
  /\ \A b \in BatchIds : CycleCounted(b)
  /\ \A p \in Procs : AttemptKnown(p)

LEMMA NextAttemptRange ==
  ASSUME TypeOK, NEW b \in BatchIds, CycleCounted(b)
  PROVE  /\ NextAttempt(b) \in 1 .. Budget
         /\ \/ NextAttempt(b) = 1
            \/ NextAttempt(b) = batches[b].attempts + 1
<1>1. batches[b].attempts \in Nat
  BY TypeParts DEF Rows
<1> QED
  BY <1>1, ConstantTypes DEF CycleCounted, NextAttempt

LEMMA CycleNext ==
  ASSUME TypeOK, AttemptsCounted, [Next]_vars, NEW b \in BatchIds
  PROVE  CycleCounted(b)'
<1> DEFINE r == batches[b]
           s == batches'[b]
<1>1. /\ r.run \in Nat /\ r.attempts \in Nat /\ r.wait \in Nat /\ r.idle \in Nat
      /\ s.run \in Nat /\ s.attempts \in Nat /\ s.wait \in Nat /\ s.idle \in Nat
  <2>1. batches' \in [BatchIds -> Rows]
    BY TypeNext, TypeParts DEF TypeOK
  <2> QED
    BY <2>1, TypeParts DEF Rows
<1>2. CycleCounted(b)
  BY DEF AttemptsCounted
<1>3. RowMoves(b)
  BY RowNext DEF AttemptsCounted, AttemptKnown
<1>4. CASE RowStays(b)
  BY <1>2, <1>4 DEF RowStays, CycleCounted
<1>5. CASE RowFresh(b)
  BY <1>1, <1>5, ConstantTypes DEF RowFresh, CycleCounted
<1>6. CASE RowTicks(b)
  <2>1. r.wait + r.idle >= Cooldown => s.wait + s.idle >= Cooldown
    BY <1>1, <1>6, ConstantTypes DEF RowTicks, Less
  <2> QED
    BY <1>2, <1>6, <2>1 DEF RowTicks, CycleCounted
<1>7. ASSUME NEW p \in Procs, RowPauses(b, p) PROVE CycleCounted(b)'
  <2>1. s.attempts = r.attempts
    BY <1>7 DEF RowPauses
  <2>2. CASE s.reason = "quota_paused" /\ s.run = 0
    BY <1>1, <1>2, <2>1, <2>2 DEF CycleCounted
  <2>3. CASE /\ procs[p].pc = "inflight"
             /\ s.run = r.run /\ s.reason # "quota_paused"
             /\ \/ procs[p].attempt < Budget
                \/ s.reason = "invalid_request"
                \/ s.reason = "retry_cooldown" /\ s.wait = Cooldown
    <3>1. procs[p].attempt = r.attempts
      BY <1>7, <2>3 DEF RowPauses, AttemptsCounted, AttemptKnown
    <3>2. s.wait = Cooldown => s.wait + s.idle >= Cooldown
      BY <1>1, ConstantTypes
    <3> QED
      BY <1>1, <1>2, <2>1, <2>3, <3>1, <3>2 DEF CycleCounted
  <2> QED
    BY <1>7, <2>2, <2>3 DEF RowPauses
<1>8. ASSUME NEW p \in Procs, RowReserves(b, p) PROVE CycleCounted(b)'
  <2> DEFINE n == NextAttempt(b)
  <2>1. n \in 1 .. Budget /\ (n = 1 \/ n = r.attempts + 1)
    BY <1>2, NextAttemptRange
  <2>2. /\ s.attempts = n /\ s.reason = ReservedReason(n) /\ s.wait = ReservedWait(n)
        /\ s.run = (IF r.idle >= Cooldown THEN 1 ELSE r.run + 1) /\ s.idle = 0
    BY <1>8 DEF RowReserves
  <2>3. r.reason # "invalid_request" /\ r.wait = 0
    BY <1>8 DEF RowReserves, Reserve, Reservable
  <2>4. n = 1 => r.run = 0 \/ r.idle >= Cooldown
    BY <1>1, <1>2, <2>3, ConstantTypes DEF NextAttempt, CycleCounted
  <2>5. s.reason # "quota_paused"
    BY <2>2 DEF ReservedReason
  <2>6. n = Budget => s.wait + s.idle >= Cooldown
    BY <2>2, ConstantTypes DEF ReservedWait
  <2> HIDE DEF n
  <2>7. s.run <= n
    BY <1>1, <1>2, <2>1, <2>2, <2>4, ConstantTypes DEF CycleCounted
  <2> QED
    BY <2>1, <2>2, <2>5, <2>6, <2>7, ConstantTypes DEF CycleCounted
<1> QED
  BY <1>3, <1>4, <1>5, <1>6, <1>7, <1>8 DEF RowMoves

LEMMA AttemptNext ==
  ASSUME TypeOK, Truth, AttemptsCounted, [Next]_vars, NEW p \in Procs
  PROVE  AttemptKnown(p)'
<1> DEFINE b == procs[p].batch
<1>1. Moves(p)
  BY NextMoves
<1>2. CASE Stays(p) /\ procs[p].pc = "inflight"
  <2>1. /\ b \in BatchIds /\ batches[b].state # "unused"
    BY <1>2, TypeParts, PassType DEF Uploading, Truth, Knows
  <2>2. /\ procs'[p].pc = "inflight" /\ procs'[p].batch = b
        /\ procs'[p].attempt = procs[p].attempt
    BY <1>2 DEF Stays
  <2>3. AttemptKnown(p)
    BY DEF AttemptsCounted
  <2>4. ASSUME HoldsLease(p)', Live(b)'
        PROVE  procs[p].attempt = batches'[b].attempts
    <3>1. HoldsLease(p)
      BY <2>2, <2>4, LeaseNext
    <3>2. batches'[b].state = "live"
      <4>1. b' = b
        BY <2>2
      <4> QED
        BY <2>4, <4>1 DEF Live
    <3>3. Live(b)
      BY <2>1, <3>2, BatchesLastNext DEF BatchesLast, Live
    <3>4. procs[p].attempt = batches[b].attempts
      BY <1>2, <2>3, <3>1, <3>3 DEF AttemptKnown
    <3>5. \A q \in Procs : ~RowReserves(b, q)
      BY <1>2, <3>1, OneHolder DEF RowReserves, Reserve, Reservable
    <3>6. RowMoves(b)
      BY <2>1, RowNext DEF AttemptsCounted, AttemptKnown
    <3>7. batches'[b].attempts = batches[b].attempts
      BY <2>1, <3>2, <3>5, <3>6
      DEF RowMoves, RowStays, RowFresh, RowTicks, RowPauses
    <3> QED
      BY <3>4, <3>7
  <2> QED
    BY <1>2, <2>2, <2>3, <2>4 DEF AttemptKnown
<1>3. CASE Commits(p)
  <2>1. Reserve(p) /\ b \in BatchIds
    BY <1>3 DEF Commits, Reserve, Reservable, Live
  <2>2. batches'[b].attempts = NextAttempt(b)
    BY <2>1, ReservesRow DEF RowReserves
  <2>3. NextAttempt(b) \in 1 .. Budget
    BY <2>1, NextAttemptRange DEF AttemptsCounted
  <2> QED
    BY <1>3, <2>2, <2>3 DEF Commits, AttemptKnown
<1>4. CASE \/ Stays(p) /\ procs[p].pc # "inflight"
           \/ Leaves(p) \/ Begins(p) \/ GoesOn(p)
           \/ Reads(p) \/ Claims(p) \/ Hears(p)
  <2>1. procs'[p].pc # "inflight"
    BY <1>4 DEF Stays, Leaves, Begins, GoesOn, Reads, Claims, Hears
  <2> QED
    BY <2>1 DEF AttemptKnown
<1> QED
  BY <1>1, <1>2, <1>3, <1>4 DEF Moves

LEMMA SpecAttempts == Spec => []AttemptsCounted
<1>1. Init => AttemptsCounted
  BY ConstantTypes DEF Init, AttemptsCounted, CycleCounted, AttemptKnown, UnusedBatch, Idle
<1>2. TypeOK /\ Truth /\ AttemptsCounted /\ [Next]_vars => AttemptsCounted'
  BY CycleNext, AttemptNext DEF AttemptsCounted
<1> QED
  BY <1>1, <1>2, TypeCorrect, SpecTruth, PTL DEF Spec

\* Whichever processes take a batch over and wherever they crash, it is not sent
\* more than Budget times without a pause of the cooldown's length or a quota
\* pause in between.
THEOREM BudgetCorrect == Spec => []BudgetHonoured
<1>1. TypeOK /\ AttemptsCounted => BudgetHonoured
  <2> SUFFICES ASSUME TypeOK, AttemptsCounted, NEW b \in BatchIds
               PROVE  batches[b].run <= Budget
    BY DEF BudgetHonoured
  <2>1. batches[b].run \in Nat /\ batches[b].attempts \in Nat
    BY TypeParts DEF Rows
  <2> QED
    BY <2>1, ConstantTypes DEF AttemptsCounted, CycleCounted
<1> QED
  BY <1>1, TypeCorrect, SpecAttempts, PTL

(***************************************************************************)
(* A batch is in one request at a time                                     *)
(***************************************************************************)
\* An upload lasts as long as its process is in flight, and its batch is not due
\* before its end.
UploadReserved(p) ==
  procs[p].left > 0 =>
    /\ procs[p].pc = "inflight"
    /\ Live(procs[p].batch) => batches[procs[p].batch].wait >= procs[p].left

\* Another process with an upload of the same batch is one whose request has
\* ended and whose lease is gone.
UploadAlone(p, q) ==
  /\ procs[p].left > 0
  /\ procs[q].pc \in {"inflight", "answered"}
  /\ procs[p].batch = procs[q].batch
  /\ p # q
  => procs[q].left = 0 /\ ~HoldsLease(q)

\* No batch is in two requests within their lifetime.
NoBatchSentTwiceAtOnce ==
  \A p, q \in Procs :
    procs[p].left > 0 /\ procs[q].left > 0 /\ procs[p].batch = procs[q].batch => p = q

UploadsReserved ==
  /\ \A p \in Procs : UploadReserved(p)
  /\ \A p, q \in Procs : UploadAlone(p, q)

\* What is left of an upload does not grow unless it is sent.
LEMMA LeftNext ==
  ASSUME TypeOK, UploadsReserved, [Next]_vars, NEW p \in Procs, procs'[p].left > 0
  PROVE  \/ Commits(p)
         \/ /\ Stays(p) /\ procs[p].left > 0
            /\ procs'[p].left <= procs[p].left
            /\ Tick => procs'[p].left = Less(procs[p].left)
<1>1. procs[p].left \in Nat
  BY TypeParts, PassType DEF PassFields
<1>2. procs[p].left > 0 => procs[p].pc = "inflight"
  BY DEF UploadsReserved, UploadReserved
<1>3. CASE Stays(p)
  <2>1. procs[p].left > 0 /\ procs'[p].left <= procs[p].left
    BY <1>1, <1>3 DEF Stays, Less
  <2>2. Tick => procs'[p].left = Less(procs[p].left)
    BY TickMoves
  <2> QED
    BY <1>3, <2>1, <2>2
<1>4. CASE Lets(p)
  BY <1>1, <1>2, <1>4 DEF Lets
<1> QED
  BY <1>3, <1>4, NextMoves
  DEF Moves, Leaves, Begins, GoesOn, Reads, Claims, Hears

LEMMA ReservedNext ==
  ASSUME TypeOK, Truth, AttemptsCounted, UploadsReserved, [Next]_vars, NEW p \in Procs
  PROVE  UploadReserved(p)'
<1> SUFFICES ASSUME procs'[p].left > 0
             PROVE  /\ procs'[p].pc = "inflight"
                    /\ Live(procs[p].batch)' => batches'[procs'[p].batch].wait >= procs'[p].left
  BY DEF UploadReserved
<1> DEFINE b == procs[p].batch
<1>1. CASE Commits(p)
  <2>1. procs'[p].pc = "inflight" /\ procs'[p].batch = b /\ procs'[p].left = UploadTimeout
    BY <1>1 DEF Commits
  <2>2. batches'[b].wait = ReservedWait(NextAttempt(b))
    BY <1>1, ReservesRow DEF Commits, RowReserves
  <2> QED
    BY <2>1, <2>2, ConstantTypes DEF ReservedWait
<1>2. CASE /\ Stays(p) /\ procs[p].left > 0
           /\ procs'[p].left <= procs[p].left
           /\ Tick => procs'[p].left = Less(procs[p].left)
  <2>1. procs[p].pc = "inflight" /\ (Live(b) => batches[b].wait >= procs[p].left)
    BY <1>2 DEF UploadsReserved, UploadReserved
  <2>2. procs'[p].pc = "inflight" /\ procs'[p].batch = b
    BY <1>2, <2>1 DEF Stays
  <2>3. b \in BatchIds /\ batches[b].state # "unused"
    BY <2>1, TypeParts, PassType DEF Uploading, Truth, Knows
  <2>4. ASSUME batches'[b].state = "live" PROVE batches'[b].wait >= procs'[p].left
    <3>1. Live(b)
      BY <2>3, <2>4, BatchesLastNext DEF BatchesLast, Live
    <3>2. /\ batches[b].wait \in Nat /\ procs[p].left \in Nat
          /\ procs'[p].left \in Nat
      <4>1. procs' \in [Procs -> Passes]
        BY TypeNext DEF TypeOK
      <4> QED
        BY <2>3, <4>1, TypeParts DEF Rows, Passes, PassFields
    <3>3. CASE RowStays(b)
      BY <1>2, <2>1, <3>1, <3>2, <3>3 DEF RowStays
    <3>4. CASE RowFresh(b)
      BY <2>3, <2>4, <3>4 DEF RowFresh
    <3>5. CASE RowTicks(b)
      <4>1. procs'[p].left = Less(procs[p].left) /\ batches'[b].wait = Less(batches[b].wait)
        BY <1>2, <3>1, <3>5 DEF RowTicks
      <4> QED
        BY <2>1, <3>1, <3>2, <4>1 DEF Less
    <3>6. ASSUME NEW q \in Procs, RowPauses(b, q) PROVE FALSE
      <4>1. /\ procs[q].batch = b /\ HoldsLease(q)
            /\ procs[q].pc \in {"inflight", "answered"} /\ procs'[q].pc # "inflight"
        BY <3>6 DEF RowPauses
      <4>2. q # p
        BY <2>2, <4>1
      <4> QED
        BY <1>2, <4>1, <4>2 DEF UploadsReserved, UploadAlone
    <3>7. ASSUME NEW q \in Procs, RowReserves(b, q) PROVE FALSE
      <4>1. batches[b].wait = 0
        BY <3>7 DEF RowReserves, Reserve, Reservable
      <4> QED
        BY <1>2, <2>1, <3>1, <3>2, <4>1
    <3>8. RowMoves(b)
      BY <2>3, RowNext DEF AttemptsCounted, AttemptKnown
    <3> QED
      BY <3>3, <3>4, <3>5, <3>6, <3>7, <3>8 DEF RowMoves
  <2> QED
    BY <2>2, <2>4 DEF Live
<1> QED
  BY <1>1, <1>2, LeftNext

LEMMA AloneNext ==
  ASSUME TypeOK, UploadsReserved, [Next]_vars, NEW p \in Procs, NEW q \in Procs
  PROVE  UploadAlone(p, q)'
<1> SUFFICES ASSUME procs'[p].left > 0, procs'[q].pc \in {"inflight", "answered"},
                    procs'[p].batch = procs'[q].batch, p # q
             PROVE  procs'[q].left = 0 /\ ~HoldsLease(q)'
  BY DEF UploadAlone
<1>0. procs[p].left \in Nat /\ procs[q].left \in Nat
  BY TypeParts, PassType DEF PassFields
<1>1. \/ Commits(p)
      \/ Stays(p) /\ procs[p].left > 0
  BY LeftNext
<1>2. \/ Commits(q)
      \/ /\ procs[q].pc \in {"inflight", "answered"} /\ procs'[q].batch = procs[q].batch
         /\ procs[q].left = 0 => procs'[q].left = 0
  <2>1. CASE Stays(q)
    BY <2>1, <1>0 DEF Stays, Less
  <2>2. CASE Hears(q)
    BY <2>2, <1>0 DEF Hears, Lets
  <2> QED
    BY <2>1, <2>2, NextMoves DEF Moves, Leaves, Begins, GoesOn, Reads, Claims
<1>3. Reserve(p) => ~Reserve(q)
  BY OneHolder DEF Reserve, Reservable
<1>4. CASE Commits(p) /\ ~Commits(q)
  <2>1. /\ Reserve(p) /\ HoldsLease(p) /\ Live(procs[p].batch)
        /\ batches[procs[p].batch].wait = 0 /\ procs'[p].batch = procs[p].batch
    BY <1>4 DEF Commits, Reserve, Reservable
  <2>2. ~HoldsLease(q)
    BY <2>1, OneHolder
  <2>3. ~HoldsLease(q)'
    BY <2>2, LeaseNext
  <2>4. procs[q].batch = procs[p].batch
    BY <1>2, <1>4, <2>1
  <2>5. procs[q].left = 0
    BY <1>0, <2>1, <2>4 DEF UploadsReserved, UploadReserved
  <2> QED
    BY <1>2, <1>4, <2>3, <2>5
<1>5. CASE Stays(p) /\ procs[p].left > 0 /\ Commits(q)
  <2>1. /\ HoldsLease(q) /\ Live(procs[q].batch)
        /\ batches[procs[q].batch].wait = 0 /\ procs'[q].batch = procs[q].batch
    BY <1>5 DEF Commits, Reserve, Reservable
  <2>2. procs[p].batch = procs[q].batch
    BY <1>5, <2>1 DEF Stays
  <2> QED
    BY <1>0, <1>5, <2>1, <2>2 DEF UploadsReserved, UploadReserved
<1>6. CASE Stays(p) /\ procs[p].left > 0 /\ ~Commits(q)
  <2>1. procs[q].left = 0 /\ ~HoldsLease(q)
    BY <1>2, <1>6 DEF Stays, UploadsReserved, UploadAlone
  <2>2. ~HoldsLease(q)'
    BY <2>1, LeaseNext
  <2> QED
    BY <1>2, <1>6, <2>1, <2>2
<1> QED
  BY <1>1, <1>3, <1>4, <1>5, <1>6 DEF Commits

LEMMA SpecReserved == Spec => []UploadsReserved
<1>1. Init => UploadsReserved
  BY DEF Init, UploadsReserved, UploadReserved, UploadAlone, Idle
<1>2. TypeOK /\ Truth /\ AttemptsCounted /\ UploadsReserved /\ [Next]_vars => UploadsReserved'
  BY ReservedNext, AloneNext DEF UploadsReserved
<1> QED
  BY <1>1, <1>2, TypeCorrect, SpecTruth, SpecAttempts, PTL DEF Spec

\* Whatever leases expire and processes take over, a batch is never in two
\* requests within their lifetime: its reservation outlasts the request.
THEOREM BatchSentOnceAtATime == Spec => []NoBatchSentTwiceAtOnce
<1>1. UploadsReserved => NoBatchSentTwiceAtOnce
  <2> SUFFICES ASSUME UploadsReserved, NEW p \in Procs, NEW q \in Procs,
                      procs[p].left > 0, procs[q].left > 0,
                      procs[p].batch = procs[q].batch, p # q
               PROVE  FALSE
    BY DEF NoBatchSentTwiceAtOnce
  <2>1. procs[q].pc = "inflight"
    BY DEF UploadsReserved, UploadReserved
  <2>2. procs[q].left = 0
    BY <2>1 DEF UploadsReserved, UploadAlone
  <2> QED
    BY <2>2
<1> QED
  BY <1>1, SpecReserved, PTL

(***************************************************************************)
(* What is sent is still wanted                                            *)
(***************************************************************************)
\* A row stands for an event that is in the ledger or was deleted by the user,
\* and no job owes what has expired at the service.
QueueKept == queued \subseteq raw \union deleted
PendingOpen == \A j \in JobIds : Pending(j) \intersect terminal = {}

OneActiveJob == \A j, k \in ActiveJobs : j = k

\* The process that holds the lease works on the only job that owes anything,
\* and its batch is live and of the current consent.
HolderRules(p) ==
  HoldsLease(p) =>
    /\ Started(procs[p]) => \A k \in JobIds \ {procs[p].job} : Pending(k) = {}
    /\ Uploading(procs[p]) => /\ Live(procs[p].batch)
                              /\ batches[procs[p].batch].consent = consent.interval

LiveBatchOpen ==
  \A b \in BatchIds : Live(b) /\ batches[b].consent = consent.interval =>
    batches[b].members \intersect terminal = {}

SendsWanted ==
  /\ QueueKept /\ PendingOpen /\ OneActiveJob /\ LiveBatchOpen
  /\ \A p \in Procs : HolderRules(p)

LEMMA QueuedNext ==
  ASSUME TypeOK, [Next]_vars
  PROVE  queued' \subseteq queued \union raw
<1>1. ASSUME NEW p \in Procs, CreateJob(p) \/ FinishWrite(p) PROVE queued' = queued
  BY <1>1, CreateEffect, FinishEffect DEF queueVars
<1>2. ASSUME NEW p \in Procs, HandleExpired(p) \/ HandleAck(p) PROVE queued' = queued
  BY <1>2, ExpiredEffect, AckEffect
<1> QED
  BY <1>1, <1>2, JobsNext, CaptureEffect, ExpireEffect DEF KeepsJobs

LEMMA LedgerNext ==
  ASSUME TypeOK, [Next]_vars
  PROVE  \/ raw \union deleted \subseteq raw' \union deleted'
         \/ \E S \in SUBSET (raw \union queued) : Expire(S) /\ UNCHANGED deleted
<1> USE DEF ledgerVars, historyVars
<1>1. ASSUME NEW p \in Procs,
             \/ ContinueJob(p) \/ CreateJob(p) \/ StartRefused(p)
             \/ \E confirmed \in BOOLEAN : RemoteStatus(p, confirmed)
             \/ RenewLease(p) \/ Capture(p) \/ Deadline(p) \/ ReuseBatch(p) \/ BuildBatch(p)
             \/ NothingToSend(p) \/ PrepareRefused(p) \/ Reserve(p)
             \/ ReserveRefused(p) \/ BackoffElapsed(p) \/ AnswerUnusable(p)
             \/ FinishRead(p) \/ FinishWrite(p) \/ ReleaseLease(p) \/ Crash(p)
             \/ HandleQuota(p) \/ HandleExpired(p) \/ HandleAck(p)
      PROVE  UNCHANGED <<raw, deleted>>
  BY <1>1 DEF ContinueJob, CreateJob, StartRefused, RemoteStatus, RenewLease, Capture,
     Deadline, ReuseBatch, BuildBatch, NothingToSend, PrepareRefused, Reserve, ReserveRefused,
     BackoffElapsed, AnswerUnusable, FinishRead, FinishWrite, ReleaseLease, Crash,
     HandleQuota, HandleExpired, HandleAck
<1>2. ASSUME NEW p \in Procs, NEW x,
             UploadFails(p, x) \/ UploadAnswered(p, x) \/ AcquireLease(p, x)
      PROVE  UNCHANGED <<raw, deleted>>
  BY <1>2 DEF UploadFails, UploadAnswered, AcquireLease
<1>3. ASSUME \/ Enable \/ Disable \/ BeginClear \/ FinishClear \/ ReconcileGeneration
             \/ (\E b \in BatchIds : ServerIndex(b)) \/ ServerClear \/ Tick \/ UNCHANGED vars
      PROVE  UNCHANGED <<raw, deleted>>
  BY <1>3 DEF Enable, Disable, BeginClear, FinishClear, ReconcileGeneration, Withdraw,
     ServerIndex, ServerClear, Tick, vars
<1>4. CASE Record \/ (\E before \in 2 .. Open : UsageDelete(before))
  BY <1>4 DEF Record, UsageDelete
<1>5. ASSUME NEW S, Expire(S) PROVE UNCHANGED deleted
  BY <1>5 DEF Expire
<1> QED
  BY <1>1, <1>2, <1>3, <1>4, <1>5 DEF Next, PassStep, UserStep

LEMMA QueueKeptNext ==
  ASSUME TypeOK, QueueKept, [Next]_vars
  PROVE  QueueKept'
<1>1. ASSUME NEW S, Expire(S), UNCHANGED deleted PROVE QueueKept'
  <2>1. queued' = queued \ S /\ raw' = raw \ S
    BY <1>1, ExpireEffect
  <2> QED
    BY <1>1, <2>1 DEF QueueKept
<1>2. CASE raw \union deleted \subseteq raw' \union deleted'
  BY <1>2, QueuedNext DEF QueueKept
<1> QED
  BY <1>1, <1>2, LedgerNext

LEMMA OneActiveNext ==
  ASSUME TypeOK, OneActiveJob, [Next]_vars
  PROVE  OneActiveJob'
<1>1. CASE \A j \in JobIds : jobs'[j].state = jobs[j].state
  BY <1>1 DEF OneActiveJob, ActiveJobs
<1>2. ASSUME NEW p \in Procs, CreateJob(p) PROVE OneActiveJob'
  <2>1. PICK j \in JobIds : /\ ActiveJobs = {}
                            /\ \A k \in JobIds \ {j} : jobs'[k] = jobs[k]
    BY <1>2, CreateEffect
  <2> QED
    BY <2>1 DEF OneActiveJob, ActiveJobs
<1>3. ASSUME NEW p \in Procs, FinishWrite(p) PROVE OneActiveJob'
  BY <1>3, FinishEffect DEF OneActiveJob, ActiveJobs
<1>4. CASE KeepsJobs
  BY <1>1, <1>4 DEF KeepsJobs, SameJobs
<1>5. CASE \A j \in JobIds : MembersSettle(j)
  BY <1>1, <1>5 DEF MembersSettle
<1> QED
  BY <1>2, <1>3, <1>4, <1>5, JobsNext, CaptureEffect, ExpiredEffect, AckEffect, ExpireEffect

\* A job owes more only when it is created.
LEMMA PendingNext ==
  ASSUME TypeOK, [Next]_vars, NEW k \in JobIds
  PROVE  \/ Pending(k)' \subseteq Pending(k)
         \/ \E p \in Procs : CreateJob(p) /\ Pending(k)' \intersect terminal' = {}
<1>1. CASE KeepsJobs
  BY <1>1 DEF KeepsJobs, SameJobs, Pending
<1>2. CASE \A j \in JobIds : MembersSettle(j)
  BY <1>2, SettledPending, TypeParts
<1>3. ASSUME NEW p \in Procs, FinishWrite(p) PROVE Pending(k)' = Pending(k)
  BY <1>3, FinishEffect DEF Pending
<1>4. ASSUME NEW p \in Procs, CreateJob(p)
      PROVE  Pending(k)' \subseteq Pending(k) \/ Pending(k)' \intersect terminal' = {}
  <2>1. PICK j \in JobIds :
          /\ UNCHANGED terminal
          /\ \A i \in JobIds \ {j} : jobs'[i] = jobs[i]
          /\ \A e \in Events :
               \/ jobs'[j].member[e] = "none"
               \/ e \in raw \ (retained \union terminal)
    BY <1>4, CreateEffect
  <2> QED
    BY <2>1 DEF Pending
<1> QED
  BY <1>1, <1>2, <1>3, <1>4, JobsNext, CaptureEffect, ExpiredEffect, AckEffect, ExpireEffect

LEMMA TerminalNext ==
  ASSUME TypeOK, [Next]_vars
  PROVE  \/ UNCHANGED terminal
         \/ \E p \in Procs : HandleExpired(p) /\ HoldsLease(p)
<1>1. ASSUME NEW p \in Procs, CreateJob(p) \/ FinishWrite(p) \/ HandleAck(p)
      PROVE  UNCHANGED terminal
  BY <1>1, CreateEffect, FinishEffect, AckEffect
<1> QED
  BY <1>1, JobsNext, CaptureEffect, ExpiredEffect, ExpireEffect DEF KeepsJobs

LEMMA PendingOpenNext ==
  ASSUME TypeOK, SendsWanted, [Next]_vars
  PROVE  PendingOpen'
<1> SUFFICES ASSUME NEW k \in JobIds PROVE Pending(k)' \intersect terminal' = {}
  BY DEF PendingOpen
<1>0. Pending(k) \intersect terminal = {}
  BY DEF SendsWanted, PendingOpen
<1>1. CASE UNCHANGED terminal
  BY <1>0, <1>1, PendingNext
<1>2. ASSUME NEW p \in Procs, HandleExpired(p), HoldsLease(p)
      PROVE  Pending(k)' \intersect terminal' = {}
  <2>1. Pending(k)' \subseteq Pending(k)
    BY <1>2, ExpiredEffect, SettledPending, TypeParts
  <2>2. CASE UNCHANGED terminal
    BY <1>0, <2>1, <2>2
  <2>3. CASE /\ Uploading(procs[p])
             /\ \E ids \in SUBSET batches[procs[p].batch].members :
                  /\ terminal' = terminal \union ids
                  /\ \A e \in ids, j \in JobIds : j = procs[p].job => e \notin Pending(j)'
    <3>1. k # procs[p].job => Pending(k) = {}
      BY <1>2, <2>3 DEF SendsWanted, HolderRules, Started, Uploading
    <3> QED
      BY <1>0, <2>1, <2>3, <3>1
  <2> QED
    BY <1>2, <2>2, <2>3, ExpiredEffect
<1> QED
  BY <1>1, <1>2, TerminalNext

\* A live batch ends under the lease, or takes the lease with it.
LEMMA LiveNext ==
  ASSUME TypeOK, [Next]_vars, NEW b \in BatchIds, Live(b)
  PROVE  \/ batches'[b].state = "live"
         \/ \E p \in Procs : /\ HoldsLease(p) /\ procs[p].pc = "answered"
                             /\ procs'[p].pc = "renew"
         \/ \A p \in Procs : ~HoldsLease(p)'
<1>1. CASE SameBatches
  BY <1>1 DEF SameBatches, Live
<1>2. ASSUME NEW p \in Procs, BuildBatch(p) PROVE batches'[b].state = "live"
  BY <1>2, BuildEffect DEF Live
<1>3. ASSUME NEW p \in Procs, HandleExpired(p) \/ HandleAck(p)
      PROVE  \/ batches'[b].state = "live"
             \/ /\ HoldsLease(p) /\ procs[p].pc = "answered"
                /\ procs'[p].pc = "renew"
  <2>1. CASE UNCHANGED batches
    BY <2>1 DEF Live
  <2>2. CASE HoldsLease(p) /\ procs[p].pc = "answered" /\ Again(p)
    BY <2>2, TypeParts DEF Again
  <2> QED
    BY <1>3, <2>1, <2>2 DEF HandleExpired, HandleAck, Acknowledgeable
<1>4. ASSUME NEW S, Expire(S)
      PROVE  batches'[b].state = "live" \/ \A p \in Procs : ~HoldsLease(p)'
  <2> DEFINE hit == {c \in BatchIds : Live(c) /\ batches[c].members \intersect S # {}}
  <2>1. batches' = Retired(hit) /\ lease' = IF hit = {} THEN lease ELSE FreeLease
    BY <1>4 DEF Expire
  <2> HIDE DEF hit
  <2>2. CASE hit = {}
    BY <2>1, <2>2, RetiredEffect, TypeParts DEF Retires, Live
  <2>3. CASE hit # {}
    BY <2>1, <2>3 DEF HoldsLease, FreeLease
  <2> QED
    BY <2>2, <2>3
<1> QED
  BY <1>1, <1>2, <1>3, <1>4, BatchesNext

LEMMA IntervalNext ==
  ASSUME TypeOK, [Next]_vars
  PROVE  \/ consent'.interval = consent.interval
         \/ /\ consent'.interval = consent.interval + 1
            /\ \A p \in Procs : ~HoldsLease(p)'
            /\ UNCHANGED <<batches, terminal>>
<1>0. consent \in [enabled : BOOLEAN, interval : Nat, cleared : BOOLEAN, intent : BOOLEAN]
  BY DEF TypeOK
<1>1. CASE UNCHANGED consent
  BY <1>1
<1>2. CASE Record
  BY <1>1, <1>2 DEF Record, consentVars
<1>3. CASE Enable
  BY <1>0, <1>3 DEF Enable, HoldsLease, FreeLease
<1>4. CASE Disable \/ BeginClear \/ FinishClear \/ ReconcileGeneration
  BY <1>0, <1>4 DEF Disable, BeginClear, FinishClear, ReconcileGeneration, Withdraw
<1> QED
  BY <1>1, <1>2, <1>3, <1>4, ConsentNext

LEMMA HolderNext ==
  ASSUME TypeOK, Truth, SendsWanted, [Next]_vars, NEW p \in Procs
  PROVE  HolderRules(p)'
<1> SUFFICES ASSUME HoldsLease(p)', procs'[p].pc # "start"
             PROVE  /\ Started(procs'[p]) =>
                         \A k \in JobIds \ {procs'[p].job} : Pending(k)' = {}
                    /\ Uploading(procs'[p]) =>
                         /\ Live(procs[p].batch)'
                         /\ batches'[procs'[p].batch].consent = consent'.interval
  BY DEF HolderRules, Started, Uploading
<1>1. HoldsLease(p)
  BY LeaseNext
<1>2. Moves(p)
  BY NextMoves
<1>3. consent'.interval = consent.interval
  BY IntervalNext
<1>4. ASSUME Started(procs[p]), NEW k \in JobIds \ {procs[p].job}
      PROVE  Pending(k)' = {}
  <2>1. Pending(k) = {}
    BY <1>1, <1>4 DEF SendsWanted, HolderRules
  <2>2. ASSUME NEW q \in Procs, CreateJob(q) PROVE FALSE
    BY <1>1, <1>4, <2>2, OneHolder DEF CreateJob, Started
  <2> QED
    BY <2>1, <2>2, PendingNext
<1>5. ASSUME Uploading(procs[p]), Uploading(procs'[p]), procs'[p].batch = procs[p].batch
      PROVE  /\ Live(procs[p].batch)'
             /\ batches'[procs'[p].batch].consent = consent'.interval
  <2> DEFINE b == procs[p].batch
  <2>1. Live(b) /\ batches[b].consent = consent.interval /\ b \in BatchIds
    BY <1>1, <1>5 DEF SendsWanted, HolderRules, Live
  <2>2. batches'[b].state = "live"
    BY <1>1, <1>5, <2>1, LiveNext, OneHolder DEF Uploading
  <2>3. batches'[b].consent = batches[b].consent
    BY <2>1, BatchesLastNext DEF BatchesLast, Live
  <2> QED
    BY <1>3, <1>5, <2>1, <2>2, <2>3 DEF Live
<1>6. CASE Stays(p)
  <2>1. /\ Started(procs'[p]) = Started(procs[p]) /\ procs'[p].job = procs[p].job
        /\ Uploading(procs'[p]) = Uploading(procs[p]) /\ procs'[p].batch = procs[p].batch
    BY <1>6 DEF Stays, Started, Uploading
  <2> QED
    BY <1>4, <1>5, <2>1
<1>7. CASE Leaves(p)
  BY <1>7 DEF Leaves, Started, Uploading
<1>8. CASE Begins(p)
  <2>1. Truth' /\ OneActiveJob'
    BY TruthNext, OneActiveNext DEF SendsWanted
  <2>2. procs' \in [Procs -> Passes]
    BY TypeNext DEF TypeOK
  <2>3. procs'[p].job \in JobIds
    BY <1>8, <2>2 DEF Begins, Passes, Started
  <2>4. \A k \in JobIds \ {procs'[p].job} : jobs'[k].state # "active"
    BY <1>8, <2>1, <2>3 DEF Begins, OneActiveJob, ActiveJobs
  <2>5. \A k \in JobIds \ {procs'[p].job} : Pending(k)' = {}
    BY <2>1, <2>4 DEF Truth
  <2> QED
    BY <1>8, <2>5 DEF Begins, Uploading
<1>9. CASE GoesOn(p)
  BY <1>4, <1>9 DEF GoesOn, Uploading
<1>10. CASE Reads(p)
  BY <1>4, <1>10 DEF Reads, Started, Uploading
<1>11. CASE Claims(p)
  BY <1>3, <1>4, <1>11 DEF Claims, Started, Live
<1>12. CASE Commits(p)
  BY <1>4, <1>5, <1>12 DEF Commits, Started, Uploading
<1>13. CASE Hears(p)
  BY <1>4, <1>5, <1>13 DEF Hears, Started, Uploading
<1> QED
  BY <1>2, <1>6, <1>7, <1>8, <1>9, <1>10, <1>11, <1>12, <1>13 DEF Moves

LEMMA LiveBatchOpenNext ==
  ASSUME TypeOK, BatchesOwnTheirRows, SendsWanted, [Next]_vars
  PROVE  LiveBatchOpen'
<1> SUFFICES ASSUME NEW b \in BatchIds, batches'[b].state = "live",
                    batches'[b].consent = consent'.interval
             PROVE  batches'[b].members \intersect terminal' = {}
  BY DEF LiveBatchOpen, Live
<1>0. /\ batches[b].members \subseteq Events /\ batches[b].consent \in Nat
      /\ consent.interval \in Nat
  BY TypeParts DEF Rows
<1>1. CASE batches[b].state = "unused"
  <2>1. PICK p \in Procs : BuildBatch(p)
    BY <1>1, BuiltNext
  <2>2. procs[p].job \in JobIds
    BY <2>1, TypeParts, PassType DEF BuildBatch, Started
  <2>3. PICK c \in BatchIds, M \in SUBSET Events :
          /\ UNCHANGED terminal
          /\ M \subseteq CapturedPending(procs[p].job)
          /\ batches'[c].members = M
          /\ \A d \in BatchIds \ {c} : batches'[d] = batches[d]
    BY <2>1, BuildEffect
  <2>4. CapturedPending(procs[p].job) \subseteq Pending(procs[p].job)
    BY TypeParts DEF CapturedPending, Pending
  <2>5. b = c
    BY <1>1, <2>3
  <2> QED
    BY <2>2, <2>3, <2>4, <2>5 DEF SendsWanted, PendingOpen
<1>2. CASE batches[b].state # "unused"
  <2>1. /\ Live(b) /\ batches'[b].members = batches[b].members
        /\ batches'[b].consent = batches[b].consent
    BY <1>2, BatchesLastNext DEF BatchesLast, Live
  <2>2. batches[b].consent <= consent.interval
    BY <2>1 DEF BatchesOwnTheirRows
  <2>3. consent'.interval = consent.interval
    BY <1>0, <2>1, <2>2, IntervalNext
  <2>4. batches[b].members \intersect terminal = {}
    BY <2>1, <2>3 DEF SendsWanted, LiveBatchOpen
  <2>5. CASE UNCHANGED terminal
    BY <2>1, <2>4, <2>5
  <2>6. ASSUME NEW p \in Procs, HandleExpired(p), HoldsLease(p)
        PROVE  batches'[b].members \intersect terminal' = {}
    <3> DEFINE c == procs[p].batch
    <3>1. Uploading(procs[p])
      BY <2>6 DEF HandleExpired, Uploading
    <3>2. Live(c) /\ c \in BatchIds /\ batches[c].consent = consent.interval
      BY <2>6, <3>1 DEF SendsWanted, HolderRules, Live
    <3>3. CASE UNCHANGED terminal
      BY <2>5, <3>3
    <3>4. CASE /\ \E ids \in SUBSET batches[c].members : terminal' = terminal \union ids
               /\ batches' = Retired({c} \intersect {d \in BatchIds : Live(d)})
      <4>1. {c} \intersect {d \in BatchIds : Live(d)} = {c}
        BY <3>2
      <4>2. b # c
        BY <3>4, <4>1, RetiredEffect, TypeParts DEF Retires
      <4>3. /\ \A e \in batches[b].members : active[e] = b
            /\ \A e \in batches[c].members : active[e] = c
        BY <2>1, <2>3, <3>2 DEF BatchesOwnTheirRows
      <4>4. \A e \in batches[b].members : e \notin batches[c].members
        BY <4>2, <4>3
      <4> QED
        BY <2>1, <2>4, <3>4, <4>4
    <3> QED
      BY <2>6, <3>3, <3>4, ExpiredEffect
  <2> QED
    BY <2>5, <2>6, TerminalNext
<1> QED
  BY <1>1, <1>2

LEMMA SpecSends == Spec => []SendsWanted
<1>1. Init => SendsWanted
  BY DEF Init, SendsWanted, QueueKept, PendingOpen, OneActiveJob, LiveBatchOpen,
     HolderRules, ActiveJobs, UnusedJob, UnusedBatch, Live, HoldsLease, FreeLease
<1>2. TypeOK /\ BatchesOwnTheirRows /\ Truth /\ SendsWanted /\ [Next]_vars => SendsWanted'
  <2> SUFFICES ASSUME TypeOK, BatchesOwnTheirRows, Truth, SendsWanted, [Next]_vars
               PROVE  SendsWanted'
    OBVIOUS
  <2>1. QueueKept' /\ OneActiveJob'
    BY QueueKeptNext, OneActiveNext DEF SendsWanted
  <2>2. PendingOpen' /\ LiveBatchOpen'
    BY PendingOpenNext, LiveBatchOpenNext
  <2>3. \A p \in Procs : HolderRules(p)'
    BY HolderNext
  <2> QED
    BY <2>1, <2>2, <2>3 DEF SendsWanted
<1> QED
  BY <1>1, <1>2, TypeCorrect, OwnershipCorrect, SpecTruth, PTL DEF Spec

\* Whichever process commits an attempt, and whatever happened between the
\* freezing of its batch and the commit, consent is on and is the one the batch
\* was frozen under, no clear is under way, and no event of the batch has expired
\* locally or at the service.
THEOREM SendsCorrect == Spec => SendsWithinConsent
<1>1. TypeOK /\ BatchesOwnTheirRows /\ WindowsPermit /\ SendsWanted /\ [Next]_vars
      => [\A p \in Procs : Sends(p) =>
            LET b == procs[p].batch IN
            /\ Enabled /\ batches[b].consent = consent.interval
            /\ batches[b].members \subseteq (raw \union deleted) \ terminal]_vars
  <2> SUFFICES ASSUME TypeOK, BatchesOwnTheirRows, WindowsPermit, SendsWanted, [Next]_vars,
                      NEW p \in Procs, Sends(p)
               PROVE  LET b == procs[p].batch IN
                      /\ Enabled /\ batches[b].consent = consent.interval
                      /\ batches[b].members \subseteq (raw \union deleted) \ terminal
    OBVIOUS
  <2> DEFINE b == procs[p].batch
  <2>1. Commits(p)
    BY NextMoves DEF Sends, Moves, Stays, Leaves, Begins, GoesOn, Reads, Claims, Hears
  <2>2. /\ Live(b) /\ b \in BatchIds
        /\ consent.enabled /\ batches[b].consent = consent.interval
    BY <2>1 DEF Commits, Reserve, Reservable, Authorized, Live
  <2>3. Enabled
    BY <2>2 DEF WindowsPermit, Enabled
  <2>4. batches[b].members \subseteq queued
    BY <2>2 DEF BatchesOwnTheirRows
  <2>5. batches[b].members \intersect terminal = {}
    BY <2>2 DEF SendsWanted, LiveBatchOpen
  <2> QED
    BY <2>2, <2>3, <2>4, <2>5 DEF SendsWanted, QueueKept
<1> QED
  BY <1>1, TypeCorrect, OwnershipCorrect, SpecWindows, SpecSends, PTL
  DEF Spec, SendsWithinConsent

(***************************************************************************)
(* The lease outlives a pass                                               *)
(***************************************************************************)
\* How much of the lease is left to a pass that holds it.
LeaseKept(p) ==
  LET r == procs[p] IN
  HoldsLease(p) =>
    /\ r.pc \in {"fill", "prepare", "reserve"} => lease.left = LeaseTtl
    /\ r.pc = "inflight" => lease.left + UploadTimeout >= LeaseTtl + r.left
    /\ r.pc = "backoff" => lease.left + UploadTimeout + Backoff >= LeaseTtl + r.wait

\* The other steps of a pass end outside of the part that one renewal covers.
LEMMA OutsideRenewal ==
  ASSUME TypeOK, NEW p \in Procs, PassStep(p),
         procs'[p].pc \in {"fill", "prepare", "reserve", "inflight", "backoff"}
  PROVE  \/ RenewLease(p) \/ Capture(p) \/ ReuseBatch(p) \/ BuildBatch(p) \/ Reserve(p)
         \/ \E kind : UploadFails(p, kind)
<1>0. /\ ~Again(p) /\ ~Quit(p) /\ ~Abort(p)
      /\ \A err, reason, wait : ~Break(p, err, reason, wait)
  <2>1. ~Again(p)
    BY TypeParts DEF Again, Idle
  <2>2. ~Quit(p)
    BY TypeParts DEF Quit, Idle
  <2>3. ASSUME NEW err, NEW reason, NEW wait, Break(p, err, reason, wait) PROVE FALSE
    <3> DEFINE end == [Idle EXCEPT !.pc = "finish", !.job = procs[p].job, !.err = err,
                                   !.reason = reason, !.wait = wait]
    <3>1. end.pc = "finish"
      BY DEF Idle
    <3> HIDE DEF end
    <3>2. procs'[p] = end
      BY <2>3, TypeParts DEF Break, end
    <3> QED
      BY <3>1, <3>2
  <2>4. ~Abort(p)
    BY <2>3 DEF Abort
  <2> QED
    BY <2>1, <2>2, <2>3, <2>4
<1>1. ~(ContinueJob(p) \/ CreateJob(p) \/ StartRefused(p))
  BY StartMoves DEF Leaves, Begins
<1>2. ~(\E confirmed \in BOOLEAN : RemoteStatus(p, confirmed))
  BY <1>0, TypeParts, GotoMove DEF RemoteStatus
<1>3. ~(Deadline(p) \/ NothingToSend(p) \/ PrepareRefused(p) \/ ReserveRefused(p)
        \/ BackoffElapsed(p))
  BY <1>0 DEF Deadline, NothingToSend, PrepareRefused, ReserveRefused, BackoffElapsed
<1>4. ASSUME NEW answer, UploadAnswered(p, answer) PROVE FALSE
  <2>1. procs' = [procs EXCEPT ![p] =
           [Idle EXCEPT !.pc = "answered", !.job = procs[p].job,
                        !.batch = procs[p].batch, !.answer = answer]]
    BY <1>0, <1>4 DEF UploadAnswered
  <2> QED
    BY <2>1, TypeParts DEF Idle
<1>5. ~(HandleQuota(p) \/ HandleExpired(p) \/ HandleAck(p) \/ AnswerUnusable(p))
  <2>1. ~HandleQuota(p)
    BY <1>0 DEF HandleQuota
  <2>2. ~HandleExpired(p)
    BY <1>0 DEF HandleExpired
  <2>3. ~HandleAck(p)
    BY <1>0 DEF HandleAck
  <2>4. ~AnswerUnusable(p)
    BY <1>0 DEF AnswerUnusable
  <2> QED
    BY <2>1, <2>2, <2>3, <2>4
<1>6. ~(FinishRead(p) \/ FinishWrite(p) \/ ReleaseLease(p))
  BY EndMoves DEF Leaves, Reads
<1> QED
  BY <1>1, <1>2, <1>3, <1>4, <1>5, <1>6 DEF PassStep

LEMMA LeaseKeptPass ==
  ASSUME TypeOK, \A q \in Procs : LeaseKept(q), [Next]_vars,
         NEW p \in Procs, PassStep(p)
  PROVE  LeaseKept(p)'
<1> SUFFICES ASSUME HoldsLease(p)',
                    procs'[p].pc \in {"fill", "prepare", "reserve", "inflight", "backoff"}
             PROVE  LeaseKept(p)'
  BY DEF LeaseKept
<1>0. /\ lease.left \in Nat /\ procs[p].left \in Nat
  BY PassType, TypeParts DEF TypeOK, PassFields
<1>1. HoldsLease(p) /\ LeaseKept(p)
  BY LeaseNext
<1>2. ASSUME RenewLease(p) PROVE LeaseKept(p)'
  <2>1. lease' = [lease EXCEPT !.left = LeaseTtl] /\ procs'[p].pc = "fill"
    BY <1>1, <1>2, GotoMove, TypeParts DEF RenewLease
  <2>2. lease'.left = LeaseTtl
    BY <2>1 DEF TypeOK
  <2> QED
    BY <2>1, <2>2 DEF LeaseKept
<1>3. ASSUME Capture(p) \/ ReuseBatch(p) \/ BuildBatch(p) PROVE LeaseKept(p)'
  <2>1. UNCHANGED lease /\ procs[p].pc \in {"fill", "prepare"}
    BY <1>3 DEF Capture, ReuseBatch, BuildBatch
  <2>2. procs'[p].pc \in {"fill", "prepare", "reserve"}
    <3>1. ASSUME Capture(p) PROVE procs'[p].pc \notin {"inflight", "backoff"}
      <4>1. \/ Goto(p, "prepare") \/ Abort(p)
            \/ \E next \in {"fill", "prepare"} : \E c :
                 procs' = [procs EXCEPT ![p].pc = next, ![p].captured = c]
        BY <3>1 DEF Capture
      <4>2. ASSUME NEW next \in {"fill", "prepare"}, NEW c,
                   procs' = [procs EXCEPT ![p].pc = next, ![p].captured = c]
            PROVE  procs'[p].pc = next
        BY <4>2, TypeParts, PassType DEF PassFields
      <4>3. Goto(p, "prepare") => procs'[p].pc = "prepare"
        BY GotoMove, TypeParts
      <4>4. Abort(p) => procs'[p].pc = "finish"
        BY TypeParts DEF Abort, Break, Idle
      <4> QED
        BY <4>1, <4>2, <4>3, <4>4
    <3>2. ASSUME ReuseBatch(p) \/ BuildBatch(p) PROVE procs'[p].pc = "reserve"
      BY <3>2, ClaimMoves DEF Claims
    <3> QED
      BY <1>3, <3>1, <3>2
  <2>3. lease.left = LeaseTtl
    BY <1>1, <2>1 DEF LeaseKept
  <2> QED
    BY <2>1, <2>2, <2>3 DEF LeaseKept
<1>4. ASSUME Reserve(p) PROVE LeaseKept(p)'
  <2>1. UNCHANGED lease /\ lease.left = LeaseTtl
    BY <1>1, <1>4 DEF Reserve, LeaseKept
  <2>2. procs'[p].pc = "inflight" /\ procs'[p].left = UploadTimeout
    BY <1>4, ReserveMoves DEF Commits
  <2> QED
    BY <2>1, <2>2, ConstantTypes DEF LeaseKept
<1>5. ASSUME NEW kind, UploadFails(p, kind) PROVE LeaseKept(p)'
  <2>1. UNCHANGED lease /\ procs[p].pc = "inflight"
    BY <1>5 DEF UploadFails
  <2>2. procs'[p].pc = "backoff" /\ procs'[p].wait \in 0 .. Backoff
    <3> DEFINE n == procs[p].attempt
               reason == FailureReason(kind, n)
    <3>1. PICK wait \in FailureWaits(reason) :
            \/ Break(p, TRUE, reason, wait)
            \/ /\ kind = "retryable" /\ n < Budget
               /\ procs' = [procs EXCEPT ![p] =
                    [Idle EXCEPT !.pc = "backoff", !.job = procs[p].job, !.err = TRUE,
                                 !.reason = reason, !.wait = wait]]
      BY <1>5 DEF UploadFails
    <3>2. ~Break(p, TRUE, reason, wait)
      <4>1. Break(p, TRUE, reason, wait) => procs'[p].pc = "finish"
        <5> HIDE DEF reason
        <5> QED
          BY ONLY TypeParts, TypeOK DEF Break, Idle
      <4> QED
        BY <4>1
    <3>3. n \in Nat
      BY TypeParts, PassType DEF PassFields
    <3>4. reason = "retry_backoff"
      <4>1. kind = "retryable" /\ n < Budget
        BY ONLY <3>1, <3>2
      <4>2. ~(n >= Budget)
        BY ONLY <3>3, <4>1, ConstantTypes
      <4>3. kind # "invalid_request"
        BY ONLY <4>1
      <4> QED
        BY ONLY <4>1, <4>2, <4>3 DEF FailureReason
    <3>5. wait \in 0 .. Backoff
      BY <3>1, <3>4 DEF FailureWaits
    <3> HIDE DEF reason
    <3> QED
      BY <3>1, <3>2, <3>5, TypeParts DEF Idle
  <2>3. lease.left + UploadTimeout >= LeaseTtl
    BY <1>0, <1>1, <2>1, ConstantTypes DEF LeaseKept
  <2>4. lease.left + UploadTimeout + Backoff >= LeaseTtl + procs'[p].wait
    BY <1>0, <2>2, <2>3, ConstantTypes
  <2> QED
    BY <2>1, <2>2, <2>4 DEF LeaseKept
<1> QED
  BY <1>2, <1>3, <1>4, <1>5, OutsideRenewal

LEMMA LeaseKeptTick ==
  ASSUME TypeOK, Prompt, Tick, NEW p \in Procs, LeaseKept(p)
  PROVE  LeaseKept(p)'
<1> SUFFICES ASSUME HoldsLease(p)' PROVE LeaseKept(p)'
  BY DEF LeaseKept
<1>0. /\ lease \in [holder : Procs \union {None}, left : Nat]
      /\ procs[p].left \in Nat /\ procs[p].wait \in Nat
  BY PassType, TypeParts DEF TypeOK, PassFields
<1>1. lease.left > 1 /\ lease' = [lease EXCEPT !.left = lease.left - 1]
  <2>1. ~(lease' = FreeLease)
    BY DEF HoldsLease, FreeLease
  <2> QED
    BY <2>1 DEF Tick
<1>2. /\ lease'.left = lease.left - 1 /\ lease'.holder = lease.holder
      /\ HoldsLease(p)
  BY <1>0, <1>1 DEF HoldsLease
<1>3. /\ procs'[p].pc = procs[p].pc
      /\ procs'[p].left = Less(procs[p].left) /\ procs'[p].wait = Less(procs[p].wait)
  BY TickMoves DEF Stays
<1>4. \/ procs[p].pc = "idle"
      \/ procs[p].pc = "inflight" /\ procs[p].left > 0
      \/ procs[p].pc = "backoff" /\ procs[p].wait > 0
  BY DEF Tick
<1>5. CASE procs[p].pc = "idle"
  BY <1>3, <1>5 DEF LeaseKept
<1>6. CASE procs[p].pc = "inflight" /\ procs[p].left > 0
  <2>1. procs'[p].left = procs[p].left - 1
    BY <1>3, <1>6 DEF Less
  <2>2. lease.left + UploadTimeout >= LeaseTtl + procs[p].left
    BY <1>2, <1>6 DEF LeaseKept
  <2>3. lease'.left + UploadTimeout >= LeaseTtl + procs'[p].left
    BY <1>0, <1>2, <2>1, <2>2, ConstantTypes
  <2> QED
    BY <1>3, <1>6, <2>3 DEF LeaseKept
<1>7. CASE procs[p].pc = "backoff" /\ procs[p].wait > 0
  <2>1. procs'[p].wait = procs[p].wait - 1
    BY <1>3, <1>7 DEF Less
  <2>2. lease.left + UploadTimeout + Backoff >= LeaseTtl + procs[p].wait
    BY <1>2, <1>7 DEF LeaseKept
  <2>3. lease'.left + UploadTimeout + Backoff >= LeaseTtl + procs'[p].wait
    BY <1>0, <1>2, <2>1, <2>2, ConstantTypes
  <2> QED
    BY <1>3, <1>7, <2>3 DEF LeaseKept
<1> QED
  BY <1>4, <1>5, <1>6, <1>7

\* What a step that is not its own leaves of a process.
LEMMA StepOf ==
  ASSUME TypeOK, [Next]_vars, NEW p \in Procs
  PROVE  \/ Tick \/ PassStep(p) \/ procs'[p] = procs[p]
         \/ procs'[p].pc \in {"start", "idle"}
<1>1. ASSUME NEW q \in Procs, PassStep(q), q # p PROVE procs'[p] = procs[p]
  BY <1>1, PassMoves DEF Alone
<1>2. ASSUME NEW q \in Procs, NEW want, AcquireLease(q, want)
      PROVE  procs'[p] = procs[p] \/ procs'[p].pc = "start"
  BY <1>2, AcquireMoves DEF Alone
<1>3. ASSUME NEW q \in Procs, Crash(q)
      PROVE  procs'[p] = procs[p] \/ procs'[p].pc = "idle"
  BY <1>3, TypeParts DEF Crash, Idle
<1> QED
  BY <1>1, <1>2, <1>3, UserStays DEF Next

\* As long as the steps of a process take no time beside the upload and the
\* backoff, and the lease is longer than both, one renewal in each iteration
\* suffices: time never takes the lease from a pass that is under way.
THEOREM LeaseCorrect ==
  ASSUME Prompt, LeaseTtl > UploadTimeout + Backoff
  PROVE  Spec => LeaseOutlivesPass
<1> DEFINE LeasesKept == \A p \in Procs : LeaseKept(p)
<1>1. Init => LeasesKept
  BY DEF Init, LeaseKept, HoldsLease, FreeLease
<1>2. TypeOK /\ LeasesKept /\ [Next]_vars => LeasesKept'
  <2> SUFFICES ASSUME TypeOK, LeasesKept, [Next]_vars, NEW p \in Procs PROVE LeaseKept(p)'
    OBVIOUS
  <2>1. CASE Tick
    BY <2>1, LeaseKeptTick
  <2>2. CASE PassStep(p)
    BY <2>2, LeaseKeptPass
  <2>3. CASE ~Tick /\ procs'[p] = procs[p]
    <3> SUFFICES ASSUME HoldsLease(p)', procs[p].pc # "start" PROVE LeaseKept(p)'
      BY <2>3 DEF LeaseKept
    <3>1. ~RenewLease(p)
      <4>1. Goto(p, "fill") => procs'[p].pc = "fill"
        BY GotoMove, TypeParts
      <4>2. Abort(p) => procs'[p].pc = "finish"
        BY TypeParts DEF Abort, Break, Idle
      <4> QED
        BY <2>3, <4>1, <4>2 DEF RenewLease
    <3>2. HoldsLease(p) /\ UNCHANGED lease
      BY <2>3, <3>1, LeaseMoves
    <3> QED
      BY <2>3, <3>2 DEF LeaseKept
  <2>4. CASE procs'[p].pc \in {"start", "idle"}
    BY <2>4 DEF LeaseKept
  <2> QED
    BY <2>1, <2>2, <2>3, <2>4, StepOf
<1>3. TypeOK /\ LeasesKept /\ [Next]_vars
      => [Tick => \A p \in Procs :
            procs[p].pc # "idle" /\ HoldsLease(p) => HoldsLease(p)']_vars
  <2> SUFFICES ASSUME TypeOK, LeasesKept, Tick, NEW p \in Procs,
                      procs[p].pc # "idle", HoldsLease(p)
               PROVE  HoldsLease(p)'
    OBVIOUS
  <2>0. /\ lease \in [holder : Procs \union {None}, left : Nat]
        /\ procs[p].left \in Nat /\ procs[p].wait \in Nat
    BY PassType, TypeParts DEF TypeOK, PassFields
  <2>1. \/ procs[p].pc = "inflight" /\ procs[p].left > 0
        \/ procs[p].pc = "backoff" /\ procs[p].wait > 0
    BY DEF Tick
  <2>2. LeaseKept(p)
    OBVIOUS
  <2>3. lease.left > 1
    BY <2>0, <2>1, <2>2, ConstantTypes DEF LeaseKept
  <2>4. lease' = [lease EXCEPT !.left = lease.left - 1]
    BY <2>3 DEF Tick
  <2>5. lease'.holder = lease.holder /\ lease'.left = lease.left - 1
    BY <2>0, <2>4
  <2> QED
    BY <2>0, <2>3, <2>5 DEF HoldsLease
<1> QED
  BY <1>1, <1>2, <1>3, TypeCorrect, PTL DEF Spec, LeaseOutlivesPass

(***************************************************************************)
(* One upload at a time                                                    *)
(***************************************************************************)
\* A batch of the current consent that is in the tables.
Current(b) == Live(b) /\ batches[b].consent = consent.interval

\* Neither retention nor `usage delete` takes events from the passes, and
\* consent that was withdrawn is not given again (a clear is final).
BatchesUndisturbed == {"expire", "delete", "disable"} \intersect UserOps = {}

\* The row of an event is never left without the event.
QueueInLedger == queued \subseteq raw

\* Consent is given once, and is not given again before it is taken back.
ConsentGivenOnce ==
  /\ consent.interval > 0 <=> consent.enabled \/ consent.cleared \/ consent.intent
  /\ \A b \in BatchIds : Live(b) => batches[b].consent > 0

\* Every member of a batch of the current consent is still to be sent by a job.
MembersOwed ==
  \A b \in BatchIds : Current(b) =>
    \A e \in batches[b].members : \E j \in JobIds : jobs[j].member[e] = "captured"

\* There is at most one batch of the current consent.
OneCurrentBatch ==
  \A b, c \in BatchIds : Current(b) /\ Current(c) => b = c

OneBatch == QueueInLedger /\ ConsentGivenOnce /\ MembersOwed /\ OneCurrentBatch

\* All that is known of the passes.
PassInv ==
  /\ TypeOK /\ BatchesOwnTheirRows /\ Truth /\ AttemptsCounted /\ UploadsReserved
  /\ WindowsPermit /\ SendsWanted

LEMMA SpecPasses == Spec => []PassInv
BY TypeCorrect, OwnershipCorrect, SpecTruth, SpecAttempts, SpecReserved, SpecWindows,
   SpecSends, PTL DEF PassInv

\* Without retention only the answer to a batch takes it out of the tables.
LEMMA LiveLasts ==
  ASSUME TypeOK, BatchesUndisturbed, [Next]_vars, NEW b \in BatchIds, Live(b)
  PROVE  \/ batches'[b].state = "live"
         \/ \E p \in Procs : HoldsLease(p) /\ procs[p].pc = "answered"
<1>1. CASE SameBatches
  BY <1>1 DEF SameBatches, Live
<1>2. ASSUME NEW p \in Procs, BuildBatch(p) PROVE batches'[b].state = "live"
  BY <1>2, BuildEffect DEF Live
<1>3. ASSUME NEW p \in Procs, HandleExpired(p) \/ HandleAck(p)
      PROVE  \/ batches'[b].state = "live"
             \/ HoldsLease(p) /\ procs[p].pc = "answered"
  <2>1. CASE UNCHANGED batches
    BY <2>1 DEF Live
  <2>2. CASE HoldsLease(p) /\ procs[p].pc = "answered"
    BY <2>2
  <2> QED
    BY <1>3, <2>1, <2>2 DEF HandleExpired, HandleAck, Acknowledgeable
<1>4. ASSUME NEW S, Expire(S) PROVE FALSE
  BY <1>4 DEF Expire, BatchesUndisturbed
<1> QED
  BY <1>1, <1>2, <1>3, <1>4, BatchesNext

\* Where there is a batch consent is not given anew.
LEMMA IntervalLasts ==
  ASSUME TypeOK, BatchesOwnTheirRows, ConsentGivenOnce, [Next]_vars,
         NEW b \in BatchIds, Live(b)
  PROVE  consent'.interval = consent.interval
<1>0. /\ consent \in [enabled : BOOLEAN, interval : Nat, cleared : BOOLEAN, intent : BOOLEAN]
      /\ batches[b].consent \in Nat
  BY TypeParts DEF TypeOK, Rows
<1>1. consent.interval > 0
  BY <1>0 DEF BatchesOwnTheirRows, ConsentGivenOnce
<1>2. ~Enable
  BY <1>1 DEF Enable, ConsentGivenOnce
<1>3. CASE UNCHANGED consent
  BY <1>3
<1>4. CASE Record
  BY <1>4 DEF Record, consentVars
<1>5. CASE Disable \/ BeginClear \/ FinishClear \/ ReconcileGeneration
  BY <1>0, <1>5 DEF Disable, BeginClear, FinishClear, ReconcileGeneration, Withdraw
<1> QED
  BY <1>2, <1>3, <1>4, <1>5, ConsentNext

LEMMA QueueInLedgerNext ==
  ASSUME TypeOK, BatchesUndisturbed, QueueInLedger, [Next]_vars
  PROVE  QueueInLedger'
<1>0. ASSUME UNCHANGED raw PROVE QueueInLedger'
  BY <1>0, QueuedNext DEF QueueInLedger
<1>1. ASSUME NEW p \in Procs,
             \/ ContinueJob(p) \/ CreateJob(p) \/ StartRefused(p)
             \/ \E confirmed \in BOOLEAN : RemoteStatus(p, confirmed)
             \/ RenewLease(p) \/ Capture(p) \/ Deadline(p) \/ ReuseBatch(p) \/ BuildBatch(p)
             \/ NothingToSend(p) \/ PrepareRefused(p) \/ Reserve(p)
             \/ ReserveRefused(p) \/ BackoffElapsed(p) \/ AnswerUnusable(p)
             \/ FinishRead(p) \/ FinishWrite(p) \/ ReleaseLease(p) \/ Crash(p)
             \/ HandleQuota(p) \/ HandleExpired(p) \/ HandleAck(p)
      PROVE  UNCHANGED raw
  BY <1>1 DEF ledgerVars, ContinueJob, CreateJob, StartRefused, RemoteStatus, RenewLease,
     Capture, Deadline, ReuseBatch, BuildBatch, NothingToSend, PrepareRefused, Reserve,
     ReserveRefused, BackoffElapsed, AnswerUnusable, FinishRead, FinishWrite, ReleaseLease,
     Crash, HandleQuota, HandleExpired, HandleAck
<1>2. ASSUME NEW p \in Procs, NEW x,
             UploadFails(p, x) \/ UploadAnswered(p, x) \/ AcquireLease(p, x)
      PROVE  UNCHANGED raw
  BY <1>2 DEF ledgerVars, UploadFails, UploadAnswered, AcquireLease
<1>3. ASSUME \/ Enable \/ Disable \/ BeginClear \/ FinishClear \/ ReconcileGeneration
             \/ (\E b \in BatchIds : ServerIndex(b)) \/ ServerClear \/ Tick \/ UNCHANGED vars
      PROVE  UNCHANGED raw
  BY <1>3 DEF ledgerVars, Enable, Disable, BeginClear, FinishClear, ReconcileGeneration,
     Withdraw, ServerIndex, ServerClear, Tick, vars
<1>4. CASE Record
  BY <1>4, QueuedNext DEF Record, QueueInLedger
<1>5. ASSUME (\E before \in 2 .. Open : UsageDelete(before))
             \/ (\E S \in SUBSET (raw \union queued) : Expire(S))
      PROVE  FALSE
  BY <1>5 DEF UsageDelete, Expire, BatchesUndisturbed
<1> QED
  BY <1>0, <1>1, <1>2, <1>3, <1>4, <1>5 DEF Next, PassStep, UserStep

LEMMA ConsentGivenNext ==
  ASSUME TypeOK, BatchesUndisturbed, ConsentGivenOnce, BatchesOwnTheirRows, [Next]_vars
  PROVE  ConsentGivenOnce'
<1>0. consent \in [enabled : BOOLEAN, interval : Nat, cleared : BOOLEAN, intent : BOOLEAN]
  BY DEF TypeOK
<1>1. consent'.interval > 0 <=> consent'.enabled \/ consent'.cleared \/ consent'.intent
  <2>1. CASE UNCHANGED consent
    BY <2>1 DEF ConsentGivenOnce
  <2>2. CASE Record
    BY <2>1, <2>2 DEF Record, consentVars
  <2>3. CASE Enable
    <3>1. consent' = [consent EXCEPT !.enabled = TRUE, !.interval = @ + 1]
      BY <2>3 DEF Enable
    <3> QED
      BY <1>0, <3>1
  <2>4. CASE BeginClear
    <3>1. /\ consent' = [consent EXCEPT !.enabled = FALSE, !.intent = TRUE]
          /\ consent.interval > 0
      BY <2>4 DEF BeginClear, Withdraw
    <3> QED
      BY <1>0, <3>1
  <2>5. CASE FinishClear \/ ReconcileGeneration
    <3>1. consent' = [consent EXCEPT !.enabled = FALSE, !.cleared = TRUE]
      BY <2>5 DEF FinishClear, ReconcileGeneration, Withdraw
    <3>2. consent.interval > 0
      BY <2>5 DEF FinishClear, ReconcileGeneration, ConsentGivenOnce
    <3> QED
      BY <1>0, <3>1, <3>2
  <2>6. ~Disable
    BY DEF Disable, BatchesUndisturbed
  <2> QED
    BY <2>1, <2>2, <2>3, <2>4, <2>5, <2>6, ConsentNext
<1>2. ASSUME NEW b \in BatchIds, batches'[b].state = "live"
      PROVE  batches'[b].consent > 0
  <2>1. CASE batches[b].state = "unused"
    <3>1. PICK p \in Procs : BuildBatch(p)
      BY <1>2, <2>1, BuiltNext
    <3>2. PICK c \in BatchIds : /\ batches'[c].consent = consent.interval
                                /\ \A d \in BatchIds \ {c} : batches'[d] = batches[d]
      BY <3>1, BuildEffect
    <3>3. b = c
      BY <1>2, <2>1, <3>2
    <3>4. consent.enabled
      BY <3>1 DEF BuildBatch
    <3> QED
      BY <3>2, <3>3, <3>4 DEF ConsentGivenOnce
  <2>2. CASE batches[b].state # "unused"
    BY <1>2, <2>2, BatchesLastNext DEF BatchesLast, ConsentGivenOnce, Live
  <2> QED
    BY <2>1, <2>2
<1> QED
  BY <1>1, <1>2 DEF ConsentGivenOnce, Live

\* A batch of the current consent was one before, or takes captured events of
\* its job where there was none the job could send.
LEMMA CurrentNext ==
  ASSUME TypeOK, BatchesOwnTheirRows, ConsentGivenOnce, [Next]_vars,
         NEW b \in BatchIds, Current(b)'
  PROVE  \/ /\ Current(b) /\ batches'[b].members = batches[b].members
         \/ \E p \in Procs :
              /\ HoldsLease(p) /\ procs[p].pc = "prepare"
              /\ Prior(procs[p].job) = {}
              /\ batches'[b].members \subseteq CapturedPending(procs[p].job)
              /\ UNCHANGED <<jobs, consent>>
              /\ \A c \in BatchIds \ {b} : batches'[c] = batches[c]
<1>1. CASE batches[b].state = "unused"
  <2>1. PICK p \in Procs : BuildBatch(p)
    BY <1>1, BuiltNext DEF Current, Live
  <2>2. PICK c \in BatchIds, M \in SUBSET Events :
          /\ UNCHANGED <<jobs, consent>>
          /\ M \subseteq CapturedPending(procs[p].job)
          /\ batches'[c].members = M
          /\ \A d \in BatchIds \ {c} : batches'[d] = batches[d]
    BY <2>1, BuildEffect DEF consentVars
  <2>3. b = c
    BY <1>1, <2>2 DEF Current, Live
  <2>4. HoldsLease(p) /\ procs[p].pc = "prepare" /\ Prior(procs[p].job) = {}
    BY <2>1 DEF BuildBatch
  <2> QED
    BY <2>2, <2>3, <2>4
<1>2. CASE batches[b].state # "unused"
  <2>1. /\ Live(b) /\ batches'[b].members = batches[b].members
        /\ batches'[b].consent = batches[b].consent
    BY <1>2, BatchesLastNext DEF BatchesLast, Live, Current
  <2> QED
    BY <2>1, IntervalLasts DEF Current
<1> QED
  BY <1>1, <1>2

\* The holder's answer is about the only batch of the current consent.
LEMMA AnsweredBatch ==
  ASSUME SendsWanted, OneCurrentBatch, NEW b \in BatchIds, Current(b),
         NEW p \in Procs, HoldsLease(p), Uploading(procs[p])
  PROVE  procs[p].batch = b
BY DEF SendsWanted, HolderRules, OneCurrentBatch, Current, Live

\* A captured event stays captured until its batch is answered.
LEMMA CapturedNext ==
  ASSUME TypeOK, Truth, BatchesUndisturbed, QueueInLedger, [Next]_vars,
         NEW j \in JobIds, NEW e \in Events, jobs[j].member[e] = "captured"
  PROVE  \/ jobs'[j].member[e] = "captured"
         \/ \E p \in Procs : /\ HoldsLease(p) /\ procs[p].pc = "answered"
                             /\ HandleExpired(p) \/ HandleAck(p)
<1>1. CASE KeepsJobs
  BY <1>1 DEF KeepsJobs, SameJobs
<1>2. ASSUME NEW p \in Procs, CreateJob(p) PROVE jobs'[j] = jobs[j]
  <2>1. PICK k \in JobIds : /\ jobs[k].state = "unused"
                            /\ \A i \in JobIds \ {k} : jobs'[i] = jobs[i]
    BY <1>2, CreateEffect
  <2>2. k # j
    BY <2>1 DEF Truth, Pending
  <2> QED
    BY <2>1, <2>2
<1>3. ASSUME NEW p \in Procs, FinishWrite(p) PROVE jobs'[j].member = jobs[j].member
  BY <1>3, FinishEffect
<1>4. ASSUME NEW p \in Procs, Capture(p) PROVE jobs'[j].member[e] = "captured"
  <2> DEFINE i == procs[p].job
             gone == Pending(i) \ raw
             taken == FirstOf({d \in raw : jobs[i].member[d] = "pending"}, CaptureLimit)
             f == [d \in Events |->
                     CASE d \in gone -> "expired"
                       [] d \in taken \intersect Ineligible -> "excluded"
                       [] d \in taken \ Ineligible -> "captured"
                       [] OTHER -> jobs[i].member[d]]
  <2>1. CASE UNCHANGED jobs
    BY <2>1
  <2>2. CASE jobs' = [jobs EXCEPT ![i].member = f]
    <3>1. e \in raw
      BY DEF Truth, QueueInLedger
    <3>2. i # j => jobs'[j] = jobs[j]
      BY <2>2, TypeParts
    <3>3. i = j => jobs'[j].member = f
      <4> HIDE DEF f
      <4> QED
        BY <2>2, TypeParts DEF Targets
    <3>4. i = j => e \notin gone /\ e \notin taken
      BY <3>1 DEF FirstOf
    <3>5. i = j => f[e] = "captured"
      <4> HIDE DEF gone, taken
      <4> QED
        BY <3>4
    <3> QED
      BY <3>2, <3>3, <3>5
  <2> QED
    BY <1>4, <2>1, <2>2 DEF Capture
<1>5. ASSUME NEW p \in Procs, HandleExpired(p)
      PROVE  \/ UNCHANGED jobs
             \/ HoldsLease(p) /\ procs[p].pc = "answered"
  BY <1>5 DEF HandleExpired
<1>6. ASSUME NEW p \in Procs, HandleAck(p)
      PROVE  HoldsLease(p) /\ procs[p].pc = "answered"
  BY <1>6, AckEffect
<1>7. ASSUME NEW S, Expire(S) PROVE FALSE
  BY <1>7 DEF Expire, BatchesUndisturbed
<1> QED
  BY <1>1, <1>2, <1>3, <1>4, <1>5, <1>6, <1>7, JobsNext

\* Such an answer ends its batch.
LEMMA AnswerEnds ==
  ASSUME TypeOK, SendsWanted, NEW p \in Procs, HoldsLease(p), procs[p].pc = "answered",
         HandleExpired(p) \/ HandleAck(p)
  PROVE  batches'[procs[p].batch].state = "gone"
<1> DEFINE b == procs[p].batch
<1>1. b \in BatchIds /\ Live(b)
  BY DEF SendsWanted, HolderRules, Uploading, Live
<1>2. CASE HandleExpired(p)
  <2>1. batches' = Retired({b} \intersect {c \in BatchIds : Live(c)})
    BY <1>2 DEF HandleExpired
  <2>2. b \in {b} \intersect {c \in BatchIds : Live(c)}
    BY <1>1
  <2> QED
    BY <1>1, <2>1, <2>2, RetiredEffect, TypeParts DEF Retires
<1>3. CASE HandleAck(p)
  BY <1>1, <1>3, AckEffect, RetiredEffect, TypeParts DEF Retires
<1> QED
  BY <1>2, <1>3

LEMMA OwedNext ==
  ASSUME PassInv, BatchesUndisturbed, OneBatch, [Next]_vars
  PROVE  MembersOwed'
<1> SUFFICES ASSUME NEW b \in BatchIds, Current(b)', NEW e \in batches'[b].members
             PROVE  \E j \in JobIds : jobs'[j].member[e] = "captured"
  BY DEF MembersOwed
<1>1. CASE Current(b) /\ batches'[b].members = batches[b].members
  <2>0. e \in Events
    BY <1>1, TypeParts DEF PassInv, Rows
  <2>1. PICK j \in JobIds : jobs[j].member[e] = "captured"
    BY <1>1 DEF OneBatch, MembersOwed
  <2>2. ASSUME NEW p \in Procs, HoldsLease(p), procs[p].pc = "answered",
               HandleExpired(p) \/ HandleAck(p)
        PROVE  FALSE
    <3>1. procs[p].batch = b
      BY <1>1, <2>2, AnsweredBatch DEF PassInv, OneBatch, Uploading
    <3> QED
      BY <2>2, <3>1, AnswerEnds DEF PassInv, Current, Live
  <2> QED
    BY <2>0, <2>1, <2>2, CapturedNext DEF PassInv, OneBatch
<1>2. ASSUME NEW p \in Procs, procs[p].pc = "prepare", UNCHANGED jobs,
             batches'[b].members \subseteq CapturedPending(procs[p].job)
      PROVE  \E j \in JobIds : jobs'[j].member[e] = "captured"
  <2>1. procs[p].job \in JobIds
    BY <1>2, TypeParts, PassType DEF PassInv, Started
  <2> QED
    BY <1>2, <2>1 DEF CapturedPending
<1> QED
  BY <1>1, <1>2, CurrentNext DEF PassInv, OneBatch

\* The job of the process that holds the lease may send any such batch.
LEMMA CurrentPrior ==
  ASSUME PassInv, OneBatch, NEW b \in BatchIds, Current(b),
         NEW p \in Procs, HoldsLease(p), procs[p].pc = "prepare"
  PROVE  b \in Prior(procs[p].job)
<1>1. ASSUME NEW e \in batches[b].members
      PROVE  jobs[procs[p].job].member[e] = "captured"
  <2>0. e \in Events
    BY TypeParts DEF PassInv, Rows
  <2>1. PICK j \in JobIds : jobs[j].member[e] = "captured"
    BY DEF OneBatch, MembersOwed
  <2>2. e \in Pending(j)
    BY <2>0, <2>1 DEF Pending
  <2>3. j = procs[p].job
    BY <2>2 DEF PassInv, SendsWanted, HolderRules, Started
  <2> QED
    BY <2>1, <2>3
<1> QED
  BY <1>1 DEF Prior, Current

LEMMA OneCurrentNext ==
  ASSUME PassInv, OneBatch, [Next]_vars
  PROVE  OneCurrentBatch'
<1> SUFFICES ASSUME NEW b \in BatchIds, NEW c \in BatchIds, Current(b)', Current(c)', b # c
             PROVE  FALSE
  BY DEF OneCurrentBatch, Current, Live
<1>1. ASSUME NEW x \in BatchIds, NEW y \in BatchIds, x # y, Current(y)', NEW p \in Procs,
             HoldsLease(p), procs[p].pc = "prepare", Prior(procs[p].job) = {},
             UNCHANGED consent, \A d \in BatchIds \ {x} : batches'[d] = batches[d]
      PROVE  FALSE
  <2>1. Current(y)
    BY <1>1 DEF Current, Live
  <2> QED
    BY <1>1, <2>1, CurrentPrior
<1>2. Current(b) /\ Current(c)
  BY <1>1, CurrentNext DEF PassInv, OneBatch
<1> QED
  BY <1>2 DEF OneBatch, OneCurrentBatch

LEMMA SpecOneBatch ==
  ASSUME BatchesUndisturbed
  PROVE  Spec => []OneBatch
<1>1. Init => OneBatch
  BY DEF Init, OneBatch, QueueInLedger, ConsentGivenOnce, MembersOwed, OneCurrentBatch,
     Current, Live, UnusedBatch
<1>2. PassInv /\ OneBatch /\ [Next]_vars => OneBatch'
  BY QueueInLedgerNext, ConsentGivenNext, OwedNext, OneCurrentNext DEF PassInv, OneBatch
<1> QED
  BY <1>1, <1>2, SpecPasses, PTL DEF Spec

\* Unless retention, `usage delete` or a withdrawn consent takes one apart, at
\* most one frozen batch of the current consent waits for its acknowledgment: a
\* pass builds a batch only when there is none left that it may send again.
THEOREM OneBatchAtATime ==
  ASSUME BatchesUndisturbed
  PROVE  Spec => []OneCurrentBatch
BY SpecOneBatch, PTL DEF OneBatch


(***************************************************************************)
(* ... and one request                                                     *)
(***************************************************************************)
\* What is in flight is the batch of the current consent.
LEMMA FlyingNext ==
  ASSUME PassInv, BatchesUndisturbed, OneBatch, [Next]_vars, NEW p \in Procs,
         procs[p].left > 0 => Current(procs[p].batch),
         procs'[p].left > 0
  PROVE  Current(procs[p].batch)'
<1> DEFINE b == procs[p].batch
<1>1. ASSUME Current(b), procs'[p].batch = b, batches'[b].state = "live"
      PROVE  Current(procs[p].batch)'
  <2>1. b \in BatchIds /\ Live(b)
    BY <1>1 DEF Current, Live
  <2>2. batches'[b].consent = batches[b].consent
    BY <2>1, BatchesLastNext DEF PassInv, BatchesLast, Live
  <2>3. consent'.interval = consent.interval
    BY <2>1, IntervalLasts DEF PassInv, OneBatch
  <2> QED
    BY <1>1, <2>1, <2>2, <2>3 DEF Current, Live
<1>2. CASE Commits(p)
  <2>1. /\ Current(b) /\ b \in BatchIds /\ procs'[p].batch = b
    BY <1>2 DEF Commits, Reserve, Reservable, Authorized, Current, Live
  <2>2. batches'[b].state = "live"
    BY <1>2, <2>1, ReserveKeepsBatches DEF PassInv, Commits, SameBatches, Current, Live
  <2> QED
    BY <1>1, <2>1, <2>2
<1>3. CASE Stays(p) /\ procs[p].left > 0
  <2>1. Current(b) /\ b \in BatchIds /\ Live(b) /\ procs'[p].batch = b
    BY <1>3 DEF Stays, Current, Live
  <2>2. ASSUME NEW q \in Procs, HoldsLease(q), procs[q].pc = "answered" PROVE FALSE
    <3>1. procs[q].batch = b
      BY <2>1, <2>2, AnsweredBatch DEF PassInv, OneBatch, Uploading
    <3>2. procs[p].pc = "inflight"
      BY <1>3 DEF PassInv, UploadsReserved, UploadReserved
    <3>3. p # q
      BY <2>2, <3>2
    <3> QED
      BY <1>3, <2>2, <3>1, <3>3 DEF PassInv, UploadsReserved, UploadAlone
  <2>3. batches'[b].state = "live"
    BY <2>1, <2>2, LiveLasts DEF PassInv
  <2> QED
    BY <1>1, <2>1, <2>3
<1> QED
  BY <1>2, <1>3, LeftNext DEF PassInv

\* Whichever processes are suspended, crash or take over, at most one request is
\* within its lifetime, as long as nothing takes a batch under way apart: the
\* reservation guards a batch, and the batch of the request is the only one that
\* may be sent.
THEOREM OneUploadAtATime ==
  ASSUME BatchesUndisturbed
  PROVE  Spec => []NoOverlappingSends
<1> DEFINE Flying == \A p \in Procs : procs[p].left > 0 => Current(procs[p].batch)
<1>1. Init => Flying
  BY DEF Init, Idle
<1>2. PassInv /\ OneBatch /\ Flying /\ [Next]_vars => Flying'
  BY FlyingNext
<1>3. PassInv /\ OneBatch /\ Flying => NoOverlappingSends
  <2> SUFFICES ASSUME PassInv, OneBatch, Flying, NEW p \in Procs, NEW q \in Procs,
                      procs[p].left > 0, procs[q].left > 0, p # q
               PROVE  FALSE
    BY DEF NoOverlappingSends
  <2>1. procs[p].batch = procs[q].batch
    BY DEF OneBatch, OneCurrentBatch, Current, Live
  <2>2. procs[q].pc = "inflight"
    BY DEF PassInv, UploadsReserved, UploadReserved
  <2>3. procs[q].left = 0
    BY <2>1, <2>2 DEF PassInv, UploadsReserved, UploadAlone
  <2> QED
    BY <2>3
<1> QED
  BY <1>1, <1>2, <1>3, SpecPasses, SpecOneBatch, PTL DEF Spec

(***************************************************************************)
(* A quota pause holds                                                     *)
(***************************************************************************)
\* The pause is on the row of the only batch that may be sent, and whoever has
\* the lease has not sent it.
QuotaStored ==
  quotaLeft > 0 =>
    /\ \E b \in BatchIds : Current(b) /\ batches[b].wait >= quotaLeft
    /\ \A p \in Procs : HoldsLease(p) => procs[p].pc \notin {"inflight", "answered"}

LEMMA QuotaNext ==
  ASSUME TypeOK, [Next]_vars
  PROVE  \/ UNCHANGED quotaLeft /\ ~Tick
         \/ Tick /\ quotaLeft' = Less(quotaLeft)
         \/ \E p \in Procs : HandleQuota(p) /\ HoldsLease(p)
<1> USE DEF historyVars
<1>0. CASE Tick
  BY <1>0 DEF Tick
<1>1. ASSUME NEW p \in Procs,
             \/ ContinueJob(p) \/ CreateJob(p) \/ StartRefused(p)
             \/ \E confirmed \in BOOLEAN : RemoteStatus(p, confirmed)
             \/ RenewLease(p) \/ Capture(p) \/ Deadline(p) \/ ReuseBatch(p) \/ BuildBatch(p)
             \/ NothingToSend(p) \/ PrepareRefused(p) \/ Reserve(p)
             \/ ReserveRefused(p) \/ BackoffElapsed(p) \/ AnswerUnusable(p)
             \/ FinishRead(p) \/ FinishWrite(p) \/ ReleaseLease(p) \/ Crash(p)
             \/ HandleExpired(p) \/ HandleAck(p)
      PROVE  UNCHANGED quotaLeft
  BY <1>1 DEF ContinueJob, CreateJob, StartRefused, RemoteStatus, RenewLease,
     Capture, Deadline, ReuseBatch, BuildBatch, NothingToSend, PrepareRefused, Reserve,
     ReserveRefused, BackoffElapsed, AnswerUnusable, FinishRead, FinishWrite, ReleaseLease,
     Crash, HandleExpired, HandleAck
<1>2. ASSUME NEW p \in Procs, NEW x,
             UploadFails(p, x) \/ UploadAnswered(p, x) \/ AcquireLease(p, x)
      PROVE  UNCHANGED quotaLeft
  BY <1>2 DEF UploadFails, UploadAnswered, AcquireLease
<1>3. ASSUME \/ Record \/ Enable \/ Disable \/ BeginClear \/ FinishClear
             \/ ReconcileGeneration \/ (\E b \in BatchIds : ServerIndex(b)) \/ ServerClear
             \/ (\E before \in 2 .. Open : UsageDelete(before)) \/ UNCHANGED vars
             \/ (\E S \in SUBSET (raw \union queued) : Expire(S))
      PROVE  UNCHANGED quotaLeft
  BY <1>3 DEF Record, Enable, Disable, BeginClear, FinishClear, ReconcileGeneration,
     Withdraw, ServerIndex, ServerClear, UsageDelete, Expire, vars
<1>4. ASSUME NEW p \in Procs, HandleQuota(p), ~HoldsLease(p) PROVE UNCHANGED quotaLeft
  BY <1>4 DEF HandleQuota
<1> QED
  BY <1>0, <1>1, <1>2, <1>3, <1>4 DEF Next, PassStep, UserStep

\* The answer of the service is stored on the row before anything else happens.
LEMMA QuotaPauses ==
  ASSUME PassInv, NEW p \in Procs, HandleQuota(p), HoldsLease(p)
  PROVE  QuotaStored'
<1>0. PICK b \in BatchIds : b = procs[p].batch
  BY TypeParts, PassType DEF PassInv, HandleQuota, Uploading
<1>1. PICK wait \in 1 .. QuotaWait :
        /\ Break(p, ~HoldsLease(p), "quota_paused", wait)
        /\ PauseUpload(p, "quota_paused", wait)
        /\ quotaLeft' = wait
  BY DEF HandleQuota
<1>2. /\ procs[p].pc = "answered" /\ UNCHANGED <<consentVars, lease>>
  BY DEF HandleQuota
<1>3. /\ Live(b) /\ batches[b].consent = consent.interval
      /\ batches[b] \in Rows
  BY <1>0, <1>2, TypeParts DEF PassInv, SendsWanted, HolderRules, Uploading, Live
<1>4. /\ batches'[b].state = "live" /\ batches'[b].wait = wait
      /\ batches'[b].consent = batches[b].consent
  <2>1. batches'[b] = Postponed(batches[b], "quota_paused", wait)
    BY <1>0, <1>1, <1>3, TypeParts DEF PassInv, PauseUpload, Live
  <2> QED
    BY <1>3, <2>1 DEF Postponed, Rows, Live
<1>5. Current(b)' /\ batches'[b].wait >= quotaLeft'
  BY <1>1, <1>2, <1>3, <1>4, ConstantTypes DEF Current, Live, consentVars
<1>6. procs'[p].pc = "finish"
  BY <1>1, TypeParts DEF PassInv, Break, Idle
<1>7. ASSUME NEW q \in Procs, HoldsLease(q)' PROVE q = p
  BY <1>2, <1>7 DEF HoldsLease
<1> QED
  BY <1>3, <1>5, <1>6, <1>7 DEF QuotaStored

\* Without an upload of its own under way, no process makes the pause shorter.
LEMMA QuotaKept ==
  ASSUME PassInv, BatchesUndisturbed, OneBatch, QuotaStored, [Next]_vars,
         \/ UNCHANGED quotaLeft /\ ~Tick
         \/ Tick /\ quotaLeft' = Less(quotaLeft)
  PROVE  QuotaStored'
<1> SUFFICES ASSUME quotaLeft' > 0 PROVE QuotaStored'
  BY DEF QuotaStored
<1>0. quotaLeft \in Nat /\ quotaLeft > 0 /\ TypeOK
  BY DEF PassInv, TypeOK, Less
<1>1. PICK b \in BatchIds : Current(b) /\ batches[b].wait >= quotaLeft
  BY <1>0 DEF QuotaStored
<1>2. ASSUME NEW p \in Procs, HoldsLease(p)
      PROVE  procs[p].pc \notin {"inflight", "answered"} /\ ~Reserve(p)
  <2>1. procs[p].pc \notin {"inflight", "answered"}
    BY <1>0, <1>2 DEF QuotaStored
  <2>2. ASSUME Reserve(p) PROVE FALSE
    <3>1. procs[p].pc = "reserve" /\ batches[procs[p].batch].wait = 0
      BY <2>2 DEF Reserve, Reservable
    <3>2. procs[p].batch = b
      BY <1>1, <1>2, <3>1, AnsweredBatch DEF PassInv, OneBatch, Uploading
    <3> QED
      BY <1>0, <1>1, <3>1, <3>2
  <2> QED
    BY <2>1, <2>2
<1>3. batches[b].wait \in Nat /\ Live(b)
  BY <1>0, <1>1, TypeParts DEF Rows, Current
<1>4. batches'[b].state = "live"
  BY <1>0, <1>2, <1>3, LiveLasts
<1>5. Current(b)'
  <2>1. batches'[b].consent = batches[b].consent
    BY <1>0, <1>3, BatchesLastNext DEF BatchesLast, Live
  <2>2. consent'.interval = consent.interval
    BY <1>3, IntervalLasts DEF PassInv, OneBatch
  <2> QED
    BY <1>1, <1>4, <2>1, <2>2 DEF Current, Live
<1>6. batches'[b].wait >= quotaLeft'
  <2>1. CASE RowStays(b)
    BY <1>0, <1>1, <1>3, <2>1 DEF RowStays, Less
  <2>2. CASE RowFresh(b)
    BY <1>3, <1>4, <2>2 DEF RowFresh, Live
  <2>3. CASE RowTicks(b)
    <3>1. batches'[b].wait = Less(batches[b].wait) /\ quotaLeft' = Less(quotaLeft)
      BY <1>3, <2>3 DEF RowTicks
    <3> QED
      BY <1>0, <1>1, <1>3, <3>1 DEF Less
  <2>4. ASSUME NEW p \in Procs, RowPauses(b, p) PROVE FALSE
    BY <1>2, <2>4 DEF RowPauses
  <2>5. ASSUME NEW p \in Procs, RowReserves(b, p) PROVE FALSE
    BY <1>2, <2>5 DEF RowReserves, Reserve, Reservable
  <2>6. RowMoves(b)
    BY <1>0, RowNext DEF PassInv, AttemptsCounted, AttemptKnown
  <2> QED
    BY <2>1, <2>2, <2>3, <2>4, <2>5, <2>6 DEF RowMoves
<1>7. ASSUME NEW p \in Procs, HoldsLease(p)', procs'[p].pc \in {"inflight", "answered"}
      PROVE  FALSE
  <2>1. HoldsLease(p)
    BY <1>0, <1>7, LeaseNext
  <2>2. CASE Stays(p)
    BY <1>2, <1>7, <2>1, <2>2 DEF Stays
  <2>3. CASE Commits(p)
    BY <1>2, <2>1, <2>3 DEF Commits
  <2>4. CASE Hears(p)
    BY <1>2, <2>1, <2>4 DEF Hears
  <2> QED
    BY <1>0, <1>7, <2>2, <2>3, <2>4, NextMoves
    DEF Moves, Leaves, Begins, GoesOn, Reads, Claims
<1> QED
  BY <1>5, <1>6, <1>7 DEF QuotaStored

\* Whoever takes the batch over after a quota pause, and whichever pass ends late
\* and writes its own retry state on the job, nothing is sent before the reset,
\* as long as nothing takes the paused batch apart: the pause is a property of
\* the batch, and there is no other that may be sent.
THEOREM QuotaCorrect ==
  ASSUME BatchesUndisturbed
  PROVE  Spec => QuotaPauseHonoured
<1>1. Init => QuotaStored
  BY DEF Init, QuotaStored
<1>2. PassInv /\ OneBatch /\ QuotaStored /\ [Next]_vars => QuotaStored'
  BY QuotaNext, QuotaPauses, QuotaKept DEF PassInv
<1>3. PassInv /\ OneBatch /\ QuotaStored /\ [Next]_vars
      => [\A p \in Procs : Sends(p) => quotaLeft = 0]_vars
  <2> SUFFICES ASSUME PassInv, OneBatch, QuotaStored, [Next]_vars,
                      NEW p \in Procs, Sends(p), quotaLeft # 0
               PROVE  FALSE
    OBVIOUS
  <2>1. Commits(p)
    BY NextMoves DEF PassInv, Sends, Moves, Stays, Leaves, Begins, GoesOn, Reads, Claims, Hears
  <2>2. /\ procs[p].pc = "reserve" /\ HoldsLease(p)
        /\ batches[procs[p].batch].wait = 0
    BY <2>1 DEF Commits, Reserve, Reservable
  <2>3. quotaLeft \in Nat
    BY DEF PassInv, TypeOK
  <2>4. PICK b \in BatchIds : Current(b) /\ batches[b].wait >= quotaLeft
    BY <2>3 DEF QuotaStored
  <2>5. procs[p].batch = b
    BY <2>2, <2>4, AnsweredBatch DEF PassInv, OneBatch, Uploading
  <2> QED
    BY <2>2, <2>3, <2>4, <2>5
<1> QED
  BY <1>1, <1>2, <1>3, SpecPasses, SpecOneBatch, PTL DEF Spec, QuotaPauseHonoured

=============================================================================
