----------------------------- MODULE UsageCloud -----------------------------
(***************************************************************************)
(* The cloud queue of one usage source: the SQLite tables that consent,    *)
(* capture, batching, retry and acknowledgment share, the CLI processes    *)
(* that run `usage cloud sync` over them, and the user commands and the    *)
(* local retention that change them meanwhile.                             *)
(*                                                                         *)
(* Every database transaction of the code is one action; a process that    *)
(* leaves one transaction and enters the next passes through a program     *)
(* counter value, and any other actor may run in between.  Events are      *)
(* identified by their ledger sequence number.  Absolute due times are     *)
(* kept as the time that is left until they are due: 0 stands for "no due  *)
(* time" and for one that has passed.                                      *)
(***************************************************************************)
EXTENDS Integers, FiniteSets

CONSTANTS
  Procs,          \* CLI processes that may sync
  None,           \* no process
  MaxEvent,       \* bound: events ever recorded
  MaxBatches,     \* bound: upload batches ever built
  MaxJobs,        \* bound: sync jobs ever created
  MaxConsent,     \* bound: consent intervals ever opened
  LeaseTtl,       \* MAX_LEASE_MS
  UploadTimeout,  \* UPLOAD_REQUEST_TIMEOUT
  Cooldown,       \* the 300_000 ms after the last attempt of a cycle
  Backoff,        \* largest random delay before another attempt
  QuotaWait,      \* time to the quota reset
  Budget,         \* attempts in a cycle: 4
  CaptureLimit,   \* events a capture transaction takes: 100
  MaxBatch,       \* elastic::MAX_BATCH_EVENTS
  Ineligible,     \* events with a restored origin or an invalid time
  HistoryFrom,    \* --include-history windows: the first event each selects
  Answers,        \* what an upload may come back with
  UserOps,        \* what other actors may do in this instance
  Prompt          \* TRUE: no process is suspended between two local steps

Events == 1 .. MaxEvent
BatchIds == 1 .. MaxBatches
JobIds == 1 .. MaxJobs
Open == MaxEvent + 1      \* end_sequence IS NULL: later than every event
Resume == -1              \* the passive request of resume_active

Failures == {"invalid_request", "retryable", "refused"}
Replies == {"ack", "quota_paused", "expired", "garbled"}

ASSUME ConstantsAssumption ==
  /\ None \notin Procs
  /\ {MaxEvent, MaxBatches, MaxJobs, MaxConsent} \subseteq Nat
  /\ {LeaseTtl, UploadTimeout, Budget, CaptureLimit, MaxBatch} \subseteq Nat \ {0}
  /\ {Cooldown, Backoff, QuotaWait} \subseteq Nat
  /\ Ineligible \subseteq Events
  /\ HistoryFrom \subseteq Events
  /\ Answers \subseteq Failures \union Replies
  /\ Prompt \in BOOLEAN

VARIABLES
  high,       \* sqlite_sequence of usage_events: sequences ever given out
  raw,        \* events whose usage_events row exists
  consent,    \* usage_cloud_state: enabled, interval, cleared, clear intent
  windows,    \* usage_cloud_windows
  lease,      \* usage_cloud_schedule: lease token and its expiry
  queued,     \* events with a usage_cloud_queue row
  retained,   \*   ... whose row says retained=1
  active,     \*   ... and its active_batch_id
  batches,    \* usage_cloud_upload_batches and their members
  jobs,       \* usage_cloud_jobs and their members
  terminal,   \* usage_cloud_terminal_events
  procs,      \* the syncing processes
  wire,       \* batches sent and not yet indexed by the service
  accepted,   \* events the service has indexed
  remote,     \* the clear request: sent, and carried out by the service
  permitted,  \* history: events the user consented to send
  deleted,    \* history: events removed by `usage delete`
  quotaLeft   \* history: time left of the last quota pause

ledgerVars == <<high, raw>>
consentVars == <<consent, windows>>
queueVars == <<queued, retained, active>>
serverVars == <<wire, accepted, remote>>
historyVars == <<permitted, deleted, quotaLeft>>
vars == <<ledgerVars, consentVars, lease, queueVars, batches, jobs, terminal,
          procs, serverVars, historyVars>>

(***************************************************************************)
(* States and helpers                                                      *)
(***************************************************************************)
Reasons == {"none", "retry_backoff", "retry_cooldown", "invalid_request",
            "quota_paused", "outcome_unknown"}
MemberStates == {"none", "pending", "captured", "uploaded", "expired", "excluded"}
PCs == {"idle", "start", "status", "renew", "fill", "prepare", "reserve",
        "inflight", "backoff", "answered", "finish", "write", "release"}

\* A process outside a sync pass.
Idle == [pc |-> "idle", want |-> 0, job |-> 0, batch |-> 0, attempt |-> 0,
         left |-> 0, answer |-> "ack", err |-> FALSE, reason |-> "none",
         wait |-> 0, captured |-> FALSE, done |-> FALSE]

UnusedBatch == [state |-> "unused", consent |-> 0, members |-> {},
                attempts |-> 0, reason |-> "none", wait |-> 0,
                run |-> 0, idle |-> 0]   \* run, idle: history
UnusedJob == [state |-> "unused", consent |-> 0, history |-> 0, reason |-> "none",
              wait |-> 0, member |-> [e \in Events |-> "none"]]

Live(b) == b \in BatchIds /\ batches[b].state = "live"
ActiveJobs == {j \in JobIds : jobs[j].state = "active"}
\* Mutant: only what is not yet captured counts as pending.
UncapturedPending(j) == {e \in Events : jobs[j].member[e] = "pending"}
Pending(j) == {e \in Events : jobs[j].member[e] \in {"pending", "captured"}}

\* Mutant: any unexpired lease is taken for the process's own.
SomeLeaseHeld(p) == lease.left > 0

\* check_lease: the token and expiry held in memory are the stored ones.
HoldsLease(p) == lease.holder = p /\ lease.left > 0

\* authorized: consent is on and still the one the work was frozen under.
Authorized(interval) == consent.enabled /\ consent.interval = interval

\* enabled: consent is on and no clear is unresolved or done.
Enabled == consent.enabled /\ ~consent.cleared /\ ~consent.intent

FreeLease == [holder |-> None, left |-> 0]
\* Mutant: a withdrawn consent leaves its window open.
WindowsLeftOpen == windows
CloseWindows == {[w EXCEPT !.end = IF w.end = Open THEN high ELSE @] : w \in windows}
InWindow(e) == \E w \in windows : e > w.start /\ e <= w.end

CapturedPending(j) ==
  {e \in queued \ retained : jobs[j].member[e] = "captured"}

\* The first n elements of a set of sequence numbers.
FirstOf(S, n) == {e \in S : Cardinality({f \in S : f < e}) < n}

Goto(p, pc) == procs' = [procs EXCEPT ![p].pc = pc]

\* The head of the loop, which remembers only the job.
Again(p) == procs' = [procs EXCEPT ![p] =
  [Idle EXCEPT !.pc = "renew", !.job = procs[p].job]]

\* break: what finish_pass will be told.
Break(p, err, reason, wait) == procs' = [procs EXCEPT ![p] =
  [Idle EXCEPT !.pc = "finish", !.job = procs[p].job, !.err = err,
               !.reason = reason, !.wait = wait]]

\* local_step!: an error in the pass ends the loop.
Abort(p) == Break(p, TRUE, "none", 0)

\* An error or a pause before the loop: only the lease is given back.
Quit(p) == procs' = [procs EXCEPT ![p] = [Idle EXCEPT !.pc = "release"]]

(***************************************************************************)
(* One sync pass: sync_pass and sync_leased                                *)
(***************************************************************************)

\* acquire_lease, after sync_pass has found cloud uploads enabled.  An
\* explicit request names a history window or none (0); the passive
\* resume_active runs only when it has seen an unfinished job.
AcquireLease(p, want) ==
  /\ procs[p].pc = "idle"
  /\ want = Resume => ActiveJobs # {}
  /\ Enabled
  /\ lease.left = 0
  /\ lease' = [holder |-> p, left |-> LeaseTtl]
  /\ procs' = [procs EXCEPT ![p].pc = "start", ![p].want = want]
  /\ UNCHANGED <<ledgerVars, consentVars, queueVars, batches, jobs, terminal,
                 serverVars, historyVars>>

\* The events a new job freezes: everything in a consent window or in the
\* requested history that is neither acknowledged nor expired at the service.
Target(history) ==
  {e \in raw \ (retained \union terminal) :
     InWindow(e) \/ (history > 0 /\ e >= history)}

\* The gate after start/resume: a paused job sends nothing in this pass.
Paused(j) == jobs[j].reason = "invalid_request" \/ jobs[j].wait > 0

\* start_inner on an unfinished job: only an explicit sync renews its consent.
ContinueJob(p) ==
  /\ procs[p].pc = "start"
  /\ HoldsLease(p) /\ consent.enabled
  /\ \E j \in ActiveJobs :
       /\ procs[p].want = Resume => jobs[j].consent = consent.interval
       /\ procs[p].want \in {Resume, 0, jobs[j].history}
       /\ jobs' = [jobs EXCEPT ![j].consent = consent.interval]
       /\ IF Paused(j)
          THEN Quit(p)
          ELSE procs' = [procs EXCEPT ![p] = [Idle EXCEPT !.pc = "status", !.job = j]]
  /\ UNCHANGED <<ledgerVars, consentVars, lease, queueVars, batches, terminal,
                 serverVars, historyVars>>

\* start_inner without one: freeze the target and its exact members.
CreateJob(p) ==
  /\ procs[p].pc = "start"
  /\ HoldsLease(p) /\ consent.enabled
  /\ ActiveJobs = {}
  /\ procs[p].want # Resume
  /\ \E j \in JobIds :
       /\ jobs[j].state = "unused"
       /\ \A i \in JobIds : i < j => jobs[i].state # "unused"
       /\ LET members == Target(procs[p].want) IN
          /\ jobs' = [jobs EXCEPT ![j] =
               [UnusedJob EXCEPT !.state = "active",
                                 !.consent = consent.interval,
                                 !.history = procs[p].want,
                                 !.member = [e \in Events |->
                                    IF e \in members THEN "pending" ELSE "none"]]]
          /\ permitted' = permitted \union
               (IF procs[p].want > 0 THEN members ELSE {})
       /\ procs' = [procs EXCEPT ![p] = [Idle EXCEPT !.pc = "status", !.job = j]]
  /\ UNCHANGED <<ledgerVars, consentVars, lease, queueVars, batches, terminal,
                 serverVars, deleted, quotaLeft>>

\* start_inner refuses: the lease or the consent is gone, a passive request
\* finds no job of its consent, or another history window is asked for.
StartRefused(p) ==
  /\ procs[p].pc = "start"
  /\ \/ ~HoldsLease(p)
     \/ ~consent.enabled
     \/ procs[p].want = Resume /\ ActiveJobs = {}
     \/ \E j \in ActiveJobs :
          \/ procs[p].want = Resume /\ jobs[j].consent # consent.interval
          \/ procs[p].want \notin {Resume, 0, jobs[j].history}
  /\ Quit(p)
  /\ UNCHANGED <<ledgerVars, consentVars, lease, queueVars, batches, jobs,
                 terminal, serverVars, historyVars>>

\* The remote status call: the service confirms this authority or the pass ends.
RemoteStatus(p, confirmed) ==
  /\ procs[p].pc = "status"
  /\ IF confirmed THEN Goto(p, "renew") ELSE Quit(p)
  /\ UNCHANGED <<ledgerVars, consentVars, lease, queueVars, batches, jobs,
                 terminal, serverVars, historyVars>>

\* Mutant: the renewal leaves the expiry as it was.
RenewLeaseIdle(p) ==
  /\ procs[p].pc = "renew"
  /\ IF HoldsLease(p) THEN Goto(p, "fill") ELSE Abort(p)
  /\ UNCHANGED <<ledgerVars, consentVars, lease, queueVars, batches, jobs,
                 terminal, serverVars, historyVars>>

\* renew_lease at the head of every iteration.
RenewLease(p) ==
  /\ procs[p].pc = "renew"
  /\ IF HoldsLease(p)
     THEN lease' = [lease EXCEPT !.left = LeaseTtl] /\ Goto(p, "fill")
     ELSE Abort(p) /\ UNCHANGED lease
  /\ UNCHANGED <<ledgerVars, consentVars, queueVars, batches, jobs, terminal,
                 serverVars, historyVars>>

\* The pass budget (DEADLINE) has run out or the operation is canceled.
Deadline(p) ==
  /\ procs[p].pc \in {"renew", "fill", "prepare", "backoff"}
  /\ Break(p, procs[p].err, procs[p].reason, procs[p].wait)
  /\ UNCHANGED <<ledgerVars, consentVars, lease, queueVars, batches, jobs,
                 terminal, serverVars, historyVars>>

\* One turn of the fill loop: captured_pending, then the capture transaction.
Capture(p) ==
  LET j == procs[p].job
      gone == Pending(j) \ raw
      taken == FirstOf({e \in raw : jobs[j].member[e] = "pending"}, CaptureLimit)
  IN
  /\ procs[p].pc = "fill"
  /\ IF Cardinality(CapturedPending(j)) >= MaxBatch
     THEN Goto(p, "prepare") /\ UNCHANGED <<jobs, queued>>
     ELSE IF ~HoldsLease(p)
     THEN Abort(p) /\ UNCHANGED <<jobs, queued>>
     ELSE /\ jobs' = [jobs EXCEPT ![j].member = [e \in Events |->
                        CASE e \in gone -> "expired"
                          [] e \in taken \intersect Ineligible -> "excluded"
                          [] e \in taken \ Ineligible -> "captured"
                          [] OTHER -> @[e]]]
          /\ queued' = queued \union (taken \ Ineligible)
          /\ \E next \in {"fill", "prepare"} :
               /\ taken = {} => next = "prepare"
               /\ procs' = [procs EXCEPT ![p].pc = next,
                                         ![p].captured = @ \/ taken # {}]
  /\ UNCHANGED <<ledgerVars, consentVars, lease, retained, active, batches,
                 terminal, serverVars, historyVars>>

\* Rows released from batches frozen under another consent.
Released ==
  [e \in Events |->
     IF Live(active[e]) /\ batches[active[e]].consent # consent.interval
     THEN 0 ELSE active[e]]

\* The sealed batches of this consent that the job may still send as they are.
Prior(j) ==
  {b \in BatchIds :
     /\ Live(b) /\ batches[b].consent = consent.interval
     /\ \A e \in batches[b].members \intersect queued :
          jobs[j].member[e] = "captured"}

Candidates(j) == {e \in CapturedPending(j) : Released[e] = 0}

Claim(p, b) == procs' = [procs EXCEPT ![p] =
  [Idle EXCEPT !.pc = "reserve", !.job = procs[p].job, !.batch = b]]

\* prepare_job_upload returns the oldest prior batch ...
ReuseBatch(p) ==
  LET j == procs[p].job IN
  /\ procs[p].pc = "prepare"
  /\ HoldsLease(p) /\ consent.enabled
  /\ \E b \in Prior(j) :
       /\ \A c \in Prior(j) : b <= c
       /\ Claim(p, b)
  /\ active' = Released
  /\ UNCHANGED <<ledgerVars, consentVars, lease, queued, retained, batches,
                 jobs, terminal, serverVars, historyVars>>

\* ... or freezes a new one from the first candidates, as many as the codec takes.
BuildBatch(p) ==
  LET j == procs[p].job IN
  /\ procs[p].pc = "prepare"
  /\ HoldsLease(p) /\ consent.enabled
  /\ Prior(j) = {}
  /\ Candidates(j) # {}
  /\ \E b \in BatchIds, n \in 1 .. MaxBatch :
       LET members == FirstOf(Candidates(j), n) IN
       /\ batches[b].state = "unused"
       /\ \A c \in BatchIds : c < b => batches[c].state # "unused"
       /\ Cardinality(members) = n
       /\ batches' = [batches EXCEPT ![b] =
            [UnusedBatch EXCEPT !.state = "live", !.consent = consent.interval,
                                !.members = members]]
       /\ active' = [e \in Events |-> IF e \in members THEN b ELSE Released[e]]
       /\ Claim(p, b)
  /\ UNCHANGED <<ledgerVars, consentVars, lease, queued, retained, jobs,
                 terminal, serverVars, historyVars>>

\* ... or finds nothing: the transaction is rolled back, and the pass goes
\* round once more only if this iteration captured something.
NothingToSend(p) ==
  LET j == procs[p].job IN
  /\ procs[p].pc = "prepare"
  /\ HoldsLease(p) /\ consent.enabled
  /\ Prior(j) = {} /\ Candidates(j) = {}
  /\ IF Pending(j) # {} /\ procs[p].captured
     THEN Again(p) ELSE Break(p, FALSE, "none", 0)
  /\ UNCHANGED <<ledgerVars, consentVars, lease, queueVars, batches, jobs,
                 terminal, serverVars, historyVars>>

PrepareRefused(p) ==
  /\ procs[p].pc = "prepare"
  /\ ~HoldsLease(p) \/ ~consent.enabled
  /\ Abort(p)
  /\ UNCHANGED <<ledgerVars, consentVars, lease, queueVars, batches, jobs,
                 terminal, serverVars, historyVars>>

\* Mutants: the reservation looks only at the batch's row; or not at its due time.
ReservableWithoutAuthority(p) ==
  LET b == procs[p].batch IN
  Live(b) /\ batches[b].reason # "invalid_request" /\ batches[b].wait = 0
ReservableBeforeDue(p) ==
  LET b == procs[p].batch IN
  /\ HoldsLease(p) /\ Authorized(batches[b].consent)
  /\ Live(b) /\ batches[b].reason # "invalid_request"

\* reserve_upload_attempt commits the attempt before the request leaves.
Reservable(p) ==
  LET b == procs[p].batch IN
  /\ HoldsLease(p)
  /\ Authorized(batches[b].consent)
  /\ Live(b)
  /\ batches[b].reason # "invalid_request"
  /\ batches[b].wait = 0

NextAttempt(b) ==
  IF batches[b].attempts >= Budget \/ batches[b].reason = "quota_paused"
  THEN 1 ELSE batches[b].attempts + 1

ReservedReason(n) == IF n = Budget THEN "retry_cooldown" ELSE "retry_backoff"
ReservedWait(n) == UploadTimeout + (IF n = Budget THEN Cooldown ELSE 0)

Reserve(p) ==
  LET b == procs[p].batch
      n == NextAttempt(b)
  IN
  /\ procs[p].pc = "reserve"
  /\ Reservable(p)
  /\ batches' = [batches EXCEPT ![b].attempts = n,
                                ![b].reason = ReservedReason(n),
                                ![b].wait = ReservedWait(n),
                                ![b].run = IF batches[b].idle >= Cooldown THEN 1 ELSE @ + 1,
                                ![b].idle = 0]
  /\ jobs' = [jobs EXCEPT ![procs[p].job].reason = ReservedReason(n),
                          ![procs[p].job].wait = ReservedWait(n)]
  /\ procs' = [procs EXCEPT ![p].pc = "inflight", ![p].attempt = n,
                            ![p].left = UploadTimeout]
  /\ wire' = wire \union {b}
  /\ UNCHANGED <<ledgerVars, consentVars, lease, queueVars, terminal, accepted,
                 remote, permitted, deleted, quotaLeft>>

ReserveRefused(p) ==
  /\ procs[p].pc = "reserve"
  /\ ~Reservable(p)
  /\ Abort(p)
  /\ UNCHANGED <<ledgerVars, consentVars, lease, queueVars, batches, jobs,
                 terminal, serverVars, historyVars>>

\* pause_upload: the same retry state on the batch and on the job, or nothing
\* when the lease is gone.
Postponed(r, reason, wait) ==
  [r EXCEPT !.reason = reason, !.wait = wait,
            !.run = IF reason = "quota_paused" THEN 0 ELSE @]

PauseUpload(p, reason, wait) ==
  /\ batches' = [batches EXCEPT ![procs[p].batch] =
       IF @.state = "live" THEN Postponed(@, reason, wait) ELSE @]
  /\ jobs' = [jobs EXCEPT ![procs[p].job].reason = reason,
                          ![procs[p].job].wait = wait]

\* Mutant: the cooldown starts one attempt late.
FailureReasonLate(kind, n) ==
  CASE kind = "invalid_request" -> "invalid_request"
    [] kind # "invalid_request" /\ n > Budget -> "retry_cooldown"
    [] kind = "retryable" /\ n <= Budget -> "retry_backoff"
    [] OTHER -> "none"

\* The failed upload's next eligible attempt; Retry-After only makes it later.
FailureReason(kind, n) ==
  CASE kind = "invalid_request" -> "invalid_request"
    [] kind # "invalid_request" /\ n >= Budget -> "retry_cooldown"
    [] kind = "retryable" /\ n < Budget -> "retry_backoff"
    [] OTHER -> "none"

FailureWaits(reason) ==
  CASE reason = "retry_cooldown" -> {Cooldown}
    [] reason = "retry_backoff" -> 0 .. Backoff
    [] OTHER -> {0}

\* upload_exact returns an error.  The retry state is kept in memory for
\* finish_pass whether or not the transaction that stores it goes through.
UploadFails(p, kind) ==
  LET n == procs[p].attempt
      reason == FailureReason(kind, n)
  IN
  /\ procs[p].pc = "inflight"
  /\ \E wait \in FailureWaits(reason) :
       /\ \/ Break(p, TRUE, reason, wait)
          \/ /\ HoldsLease(p) /\ kind = "retryable" /\ n < Budget
             /\ procs' = [procs EXCEPT ![p] =
                  [Idle EXCEPT !.pc = "backoff", !.job = procs[p].job, !.err = TRUE,
                               !.reason = reason, !.wait = wait]]
       /\ IF HoldsLease(p)
          THEN PauseUpload(p, IF reason = "none" THEN "outcome_unknown" ELSE reason, wait)
          ELSE UNCHANGED <<batches, jobs>>
  /\ UNCHANGED <<ledgerVars, consentVars, lease, queueVars, terminal,
                 serverVars, historyVars>>

\* The in-process wait for the next attempt is over.
BackoffElapsed(p) ==
  /\ procs[p].pc = "backoff"
  /\ procs[p].wait = 0
  /\ Again(p)
  /\ UNCHANGED <<ledgerVars, consentVars, lease, queueVars, batches, jobs,
                 terminal, serverVars, historyVars>>

\* A response arrives: except at the last attempt of a cycle the in-flight
\* reservation is ended before the response is looked at.
UploadAnswered(p, answer) ==
  LET last == procs[p].attempt >= Budget IN
  /\ procs[p].pc = "inflight"
  /\ answer = "ack" => batches[procs[p].batch].members \subseteq accepted
  /\ IF last \/ HoldsLease(p)
     THEN procs' = [procs EXCEPT ![p] =
            [Idle EXCEPT !.pc = "answered", !.job = procs[p].job,
                         !.batch = procs[p].batch, !.answer = answer]]
     ELSE Abort(p)
  /\ IF ~last /\ HoldsLease(p)
     THEN PauseUpload(p, "outcome_unknown", 0)
     ELSE UNCHANGED <<batches, jobs>>
  /\ UNCHANGED <<ledgerVars, consentVars, lease, queueVars, terminal,
                 serverVars, historyVars>>

HandleQuota(p) ==
  /\ procs[p].pc = "answered" /\ procs[p].answer = "quota_paused"
  /\ \E wait \in 1 .. QuotaWait :
       /\ Break(p, ~HoldsLease(p), "quota_paused", wait)
       /\ IF HoldsLease(p)
          THEN PauseUpload(p, "quota_paused", wait) /\ quotaLeft' = wait
          ELSE UNCHANGED <<batches, jobs, quotaLeft>>
  /\ UNCHANGED <<ledgerVars, consentVars, lease, queueVars, terminal,
                 serverVars, permitted, deleted>>

\* A batch leaves the tables (a process may still hold its frozen copy) and its
\* rows are free for another one.
Retired(B) == [b \in BatchIds |->
  IF b \in B THEN [UnusedBatch EXCEPT !.state = "gone", !.consent = batches[b].consent,
                                      !.members = batches[b].members]
             ELSE batches[b]]

\* Mutant: the surviving members stay claimed by a batch that is gone.
ClaimsKept(B) == active
Unclaimed(B) == [e \in Events |-> IF active[e] \in B THEN 0 ELSE active[e]]

\* expire_batch_members: only the named events become terminal; their
\* batch-mates go back to the queue.
HandleExpired(p) ==
  LET b == procs[p].batch IN
  /\ procs[p].pc = "answered" /\ procs[p].answer = "expired"
  /\ IF ~HoldsLease(p)
     THEN Abort(p) /\ UNCHANGED <<jobs, batches, active, terminal>>
     ELSE \E ids \in SUBSET batches[b].members \ {{}} :
            /\ terminal' = terminal \union ids
            /\ jobs' = [jobs EXCEPT ![procs[p].job].member =
                 [e \in Events |-> IF e \in ids \intersect Pending(procs[p].job)
                                   THEN "expired" ELSE @[e]]]
            /\ active' = Unclaimed({b})
            /\ batches' = Retired({b} \intersect {c \in BatchIds : Live(c)})
            /\ Again(p)
  /\ UNCHANGED <<ledgerVars, consentVars, lease, queued, retained, serverVars,
                 historyVars>>

\* acknowledge_uploaded: every member must still be claimed by this batch.
Acknowledgeable(p) ==
  LET b == procs[p].batch IN
  /\ Live(b)
  /\ HoldsLease(p)
  /\ Authorized(batches[b].consent)
  /\ \A e \in batches[b].members : e \in queued /\ active[e] = b

HandleAck(p) ==
  LET b == procs[p].batch
      members == batches[b].members
  IN
  /\ procs[p].pc = "answered" /\ procs[p].answer = "ack"
  /\ Acknowledgeable(p)
  /\ retained' = retained \union members
  /\ active' = [e \in Events |-> IF e \in members THEN 0 ELSE active[e]]
  /\ jobs' = [j \in JobIds |->
       IF j \in ActiveJobs
       THEN [jobs[j] EXCEPT !.reason = "none", !.wait = 0,
               !.member = [e \in Events |-> IF e \in members \intersect Pending(j)
                                            THEN "uploaded" ELSE @[e]]]
       ELSE jobs[j]]
  /\ batches' = Retired({b})
  /\ Again(p)
  /\ UNCHANGED <<ledgerVars, consentVars, lease, queued, terminal, serverVars,
                 historyVars>>

\* An acknowledgment that can no longer be recorded, or a response that does
\* not establish one.
AnswerUnusable(p) ==
  /\ procs[p].pc = "answered"
  /\ \/ procs[p].answer = "ack" /\ ~Acknowledgeable(p)
     \/ procs[p].answer = "garbled"
  /\ Abort(p)
  /\ UNCHANGED <<ledgerVars, consentVars, lease, queueVars, batches, jobs,
                 terminal, serverVars, historyVars>>

\* The end of the pass reads the stored cooldown and the progress ...
FinishRead(p) ==
  LET cooled == {j \in ActiveJobs : jobs[j].reason = "retry_cooldown"}
      r == procs[p]
  IN
  /\ r.pc = "finish"
  /\ IF r.err /\ r.reason = "none" /\ cooled # {}
     THEN \E j \in cooled :
            procs' = [procs EXCEPT ![p].pc = "write", ![p].done = (Pending(r.job) = {}),
                                   ![p].reason = "retry_cooldown",
                                   ![p].wait = jobs[j].wait]
     ELSE procs' = [procs EXCEPT ![p].pc = "write", ![p].done = (Pending(r.job) = {})]
  /\ UNCHANGED <<ledgerVars, consentVars, lease, queueVars, batches, jobs,
                 terminal, serverVars, historyVars>>

\* ... and finish_pass then writes both, without the lease.  Un-finishing a job
\* beside a newer unfinished one violates the unique index and changes nothing.
FinishWrite(p) ==
  LET r == procs[p] IN
  /\ r.pc = "write"
  /\ jobs' = IF ~r.done /\ ActiveJobs \ {r.job} # {}
             THEN jobs
             ELSE [jobs EXCEPT ![r.job].state = IF r.done THEN "finished" ELSE "active",
                               ![r.job].reason = r.reason, ![r.job].wait = r.wait]
  /\ Goto(p, "release")
  /\ UNCHANGED <<ledgerVars, consentVars, lease, queueVars, batches, terminal,
                 serverVars, historyVars>>

\* release_lease gives back a lease that is still its own.
ReleaseLease(p) ==
  /\ procs[p].pc = "release"
  /\ lease' = IF HoldsLease(p) THEN FreeLease ELSE lease
  /\ procs' = [procs EXCEPT ![p] = Idle]
  /\ UNCHANGED <<ledgerVars, consentVars, queueVars, batches, jobs, terminal,
                 serverVars, historyVars>>

\* The process dies, or the operation's scope aborts its worker: the lease stays.
Crash(p) ==
  /\ "crash" \in UserOps
  /\ procs[p].pc # "idle"
  /\ procs' = [procs EXCEPT ![p] = Idle]
  /\ UNCHANGED <<ledgerVars, consentVars, lease, queueVars, batches, jobs,
                 terminal, serverVars, historyVars>>

(***************************************************************************)
(* The other actors                                                        *)
(***************************************************************************)

\* Any run of the program records an event.
Record ==
  /\ high < MaxEvent
  /\ high' = high + 1
  /\ raw' = raw \union {high + 1}
  /\ permitted' = permitted \union (IF Enabled THEN {high + 1} ELSE {})
  /\ UNCHANGED <<consentVars, lease, queueVars, batches, jobs, terminal, procs,
                 serverVars, deleted, quotaLeft>>

\* enable: a renewed interval whose window starts after everything recorded.
Enable ==
  /\ ~consent.enabled /\ ~consent.cleared /\ ~consent.intent
  /\ consent.interval < MaxConsent
  /\ consent' = [consent EXCEPT !.enabled = TRUE, !.interval = @ + 1]
  /\ windows' = windows \union {[start |-> high, end |-> Open]}
  /\ lease' = FreeLease
  /\ UNCHANGED <<ledgerVars, queueVars, batches, jobs, terminal, procs,
                 serverVars, historyVars>>

\* What disable, begin_upload_clear and mark_cleared have in common.
Withdraw(how) ==
  /\ consent' = how
  /\ windows' = CloseWindows
  /\ lease' = FreeLease
  /\ UNCHANGED <<ledgerVars, queueVars, batches, jobs, terminal, procs>>

Disable ==
  /\ "disable" \in UserOps
  /\ consent.enabled
  /\ Withdraw([consent EXCEPT !.enabled = FALSE])
  /\ UNCHANGED <<serverVars, historyVars>>

\* Mutant: the request leaves without a recorded intent.
BeginClearUnrecorded ==
  /\ "clear" \in UserOps
  /\ consent.interval > 0 /\ ~consent.cleared
  /\ Withdraw([consent EXCEPT !.enabled = FALSE])
  /\ remote' = [remote EXCEPT !.clearSent = TRUE]
  /\ UNCHANGED <<wire, accepted, historyVars>>

\* begin_upload_clear records the intent, then the request leaves.
BeginClear ==
  /\ "clear" \in UserOps
  /\ consent.interval > 0 /\ ~consent.cleared
  /\ Withdraw([consent EXCEPT !.enabled = FALSE, !.intent = TRUE])
  /\ remote' = [remote EXCEPT !.clearSent = TRUE]
  /\ UNCHANGED <<wire, accepted, historyVars>>

\* finish_upload_clear, on the exact result of a sent clear.
FinishClear ==
  /\ consent.intent /\ ~consent.cleared /\ remote.cleared
  /\ Withdraw([consent EXCEPT !.enabled = FALSE, !.cleared = TRUE])
  /\ UNCHANGED <<serverVars, historyVars>>

\* reconcile_generation: an authenticated status shows a newer generation.
ReconcileGeneration ==
  /\ consent.interval > 0 /\ ~consent.cleared /\ remote.cleared
  /\ Withdraw([consent EXCEPT !.enabled = FALSE, !.cleared = TRUE])
  /\ UNCHANGED <<serverVars, historyVars>>

\* `usage delete --before`: the raw rows go, the queue is not touched.
UsageDelete(before) ==
  LET gone == {e \in raw : e < before} IN
  /\ "delete" \in UserOps
  /\ gone # {}
  /\ raw' = raw \ gone
  /\ deleted' = deleted \union gone
  /\ UNCHANGED <<high, consentVars, lease, queueVars, batches, jobs, terminal,
                 procs, serverVars, permitted, quotaLeft>>

\* expire_events, in the retention transaction that removes the raw rows:
\* whole batches go, their other members are released, their sender is fenced.
Expire(S) ==
  LET hit == {b \in BatchIds : Live(b) /\ batches[b].members \intersect S # {}} IN
  /\ "expire" \in UserOps
  /\ S # {}
  /\ raw' = raw \ S
  /\ jobs' = [j \in JobIds |-> [jobs[j] EXCEPT !.member =
       [e \in Events |-> IF e \in S \intersect Pending(j) THEN "expired" ELSE @[e]]]]
  /\ lease' = IF hit = {} THEN lease ELSE FreeLease
  /\ active' = [e \in Events |-> IF e \in S THEN 0 ELSE Unclaimed(hit)[e]]
  /\ batches' = Retired(hit)
  /\ queued' = queued \ S
  /\ retained' = retained \ S
  /\ UNCHANGED <<high, consentVars, terminal, procs, serverVars, historyVars>>

\* The service indexes a request it received; a sent request may also be lost.
ServerIndex(b) ==
  /\ b \in wire
  /\ ~remote.cleared
  /\ accepted' = accepted \union batches[b].members
  /\ wire' = wire \ {b}
  /\ UNCHANGED <<ledgerVars, consentVars, lease, queueVars, batches, jobs,
                 terminal, procs, remote, historyVars>>

\* The service clears the generation on a confirmation of this environment, or
\* of another one of the account.
ServerClear ==
  /\ ~remote.cleared
  /\ remote.clearSent \/ "elsewhere" \in UserOps
  /\ remote' = [remote EXCEPT !.cleared = TRUE]
  /\ UNCHANGED <<ledgerVars, consentVars, lease, queueVars, batches, jobs,
                 terminal, procs, wire, accepted, historyVars>>

Less(n) == IF n > 0 THEN n - 1 ELSE 0

\* Time passes for everything that waits.  A process can be suspended anywhere;
\* in a Prompt instance only the service and the backoff take time.
Tick ==
  /\ Prompt => \A p \in Procs : \/ procs[p].pc = "idle"
                                \/ procs[p].pc = "inflight" /\ procs[p].left > 0
                                \/ procs[p].pc = "backoff" /\ procs[p].wait > 0
  /\ lease' = IF lease.left > 1 THEN [lease EXCEPT !.left = @ - 1] ELSE FreeLease
  /\ batches' = [b \in BatchIds |->
       IF Live(b) THEN [batches[b] EXCEPT !.wait = Less(@),
                          !.idle = IF @ < Cooldown THEN @ + 1 ELSE @]
                  ELSE batches[b]]
  /\ jobs' = [j \in JobIds |-> [jobs[j] EXCEPT !.wait = Less(@)]]
  /\ procs' = [p \in Procs |-> [procs[p] EXCEPT !.wait = Less(@), !.left = Less(@)]]
  /\ quotaLeft' = Less(quotaLeft)
  /\ UNCHANGED <<ledgerVars, consentVars, queueVars, terminal, serverVars,
                 permitted, deleted>>

(***************************************************************************)
(* Specification                                                           *)
(***************************************************************************)
Init ==
  /\ high = 0 /\ raw = {}
  /\ consent = [enabled |-> FALSE, interval |-> 0, cleared |-> FALSE, intent |-> FALSE]
  /\ windows = {}
  /\ lease = FreeLease
  /\ queued = {} /\ retained = {} /\ active = [e \in Events |-> 0]
  /\ batches = [b \in BatchIds |-> UnusedBatch]
  /\ jobs = [j \in JobIds |-> UnusedJob]
  /\ terminal = {}
  /\ procs = [p \in Procs |-> Idle]
  /\ wire = {} /\ accepted = {}
  /\ remote = [clearSent |-> FALSE, cleared |-> FALSE]
  /\ permitted = {} /\ deleted = {}
  /\ quotaLeft = 0

\* What a process does by itself once its pass has begun.
PassStep(p) ==
  \/ ContinueJob(p) \/ CreateJob(p) \/ StartRefused(p)
  \/ \E confirmed \in BOOLEAN : RemoteStatus(p, confirmed)
  \/ RenewLease(p) \/ Capture(p) \/ Deadline(p)
  \/ ReuseBatch(p) \/ BuildBatch(p) \/ NothingToSend(p) \/ PrepareRefused(p)
  \/ Reserve(p) \/ ReserveRefused(p)
  \/ \E kind \in Answers \intersect Failures : UploadFails(p, kind)
  \/ \E answer \in Answers \intersect Replies : UploadAnswered(p, answer)
  \/ BackoffElapsed(p)
  \/ HandleQuota(p) \/ HandleExpired(p) \/ HandleAck(p) \/ AnswerUnusable(p)
  \/ FinishRead(p) \/ FinishWrite(p) \/ ReleaseLease(p)

UserStep ==
  \/ Record \/ Enable \/ Disable
  \/ BeginClear \/ FinishClear \/ ReconcileGeneration
  \/ \E before \in 2 .. Open : UsageDelete(before)
  \/ \E S \in SUBSET (raw \union queued) : Expire(S)

Next ==
  \/ \E p \in Procs :
       \/ \E want \in {Resume, 0} \union HistoryFrom : AcquireLease(p, want)
       \/ PassStep(p)
       \/ Crash(p)
  \/ UserStep
  \/ \E b \in BatchIds : ServerIndex(b)
  \/ ServerClear
  \/ Tick

Spec == Init /\ [][Next]_vars

\* What interrupts a pass or keeps its upload from being acknowledged.  (A dying
\* pass that releases, or one that lost its lease, looks like one that ends.)
Mishap(p) ==
  \/ procs[p].pc # "release" /\ Crash(p)
  \/ RemoteStatus(p, FALSE)
  \/ /\ HoldsLease(p)
     /\ \/ Deadline(p) /\ ~NothingToSend(p)
        \/ \E kind \in Failures : UploadFails(p, kind)
        \/ \E answer \in Replies \ {"ack"} : UploadAnswered(p, answer)

\* The user keeps asking for a sync, the scheduler runs the process, the
\* service indexes what it received, and the mishaps come to an end.  Tick is
\* strongly fair because a Prompt pass holds time up.
Fairness ==
  /\ SF_vars(Tick)
  /\ \A b \in BatchIds : WF_vars(ServerIndex(b))
  /\ \A p \in Procs : WF_vars(AcquireLease(p, 0)) /\ WF_vars(PassStep(p))
  /\ <>[][\A p \in Procs : ~Mishap(p)]_vars

FairSpec == Spec /\ Fairness

(***************************************************************************)
(* Properties                                                              *)
(***************************************************************************)
Rows == [state : {"unused", "live", "gone"}, consent : Nat,
         members : SUBSET Events, attempts : Nat, reason : Reasons, wait : Nat,
         run : Nat, idle : Nat]
Targets == [state : {"unused", "active", "finished"}, consent : Nat, history : Nat,
            reason : Reasons, wait : Nat, member : [Events -> MemberStates]]
PassFields ==
  [pc : PCs, want : {Resume} \union Nat, job : 0 .. MaxJobs, batch : 0 .. MaxBatches,
   attempt : Nat, left : Nat, answer : Replies, err : BOOLEAN,
   reason : Reasons, wait : Nat, captured : BOOLEAN, done : BOOLEAN]
\* A process past the start holds a job, one with an upload under way a batch.
Started(r) == r.pc \notin {"idle", "start", "release"}
Uploading(r) == r.pc \in {"reserve", "inflight", "answered"}
Passes == {r \in PassFields : /\ Started(r) => r.job \in JobIds
                              /\ Uploading(r) => r.batch \in BatchIds}

TypeOK ==
  /\ high \in 0 .. MaxEvent
  /\ raw \subseteq 1 .. high
  /\ consent \in [enabled : BOOLEAN, interval : Nat, cleared : BOOLEAN, intent : BOOLEAN]
  /\ windows \subseteq [start : Nat, end : Nat]
  /\ lease \in [holder : Procs \union {None}, left : Nat]
  /\ queued \subseteq Events /\ retained \subseteq queued
  /\ active \in [Events -> 0 .. MaxBatches]
  /\ batches \in [BatchIds -> Rows]
  /\ jobs \in [JobIds -> Targets]
  /\ terminal \subseteq Events
  /\ procs \in [Procs -> Passes]
  /\ wire \subseteq BatchIds
  /\ accepted \subseteq Events
  /\ remote \in [clearSent : BOOLEAN, cleared : BOOLEAN]
  /\ permitted \subseteq Events /\ deleted \subseteq Events
  /\ quotaLeft \in Nat

\* Upload batches and queue rows agree, so that the exact acknowledgment of a
\* batch can be recorded as long as its consent is current: a claimed row is in
\* the live batch that claims it, every member of a live batch still has its
\* row, and a batch of the current consent claims each of its members, none of
\* them acknowledged (prepare, acknowledge, expire_batch_members, expire_events).
BatchesOwnTheirRows ==
  /\ \A e \in Events : active[e] # 0 =>
       /\ e \in queued \ retained
       /\ Live(active[e])
       /\ e \in batches[active[e]].members
  /\ \A b \in BatchIds : Live(b) =>
       /\ batches[b].members # {} /\ batches[b].members \subseteq queued
       /\ batches[b].consent <= consent.interval
       /\ batches[b].consent = consent.interval =>
            \A e \in batches[b].members : active[e] = b

\* A job never counts an event as uploaded that the service did not index, and
\* an event it still has to send has its unacknowledged row (capture,
\* acknowledge_uploaded, expire_events, captured_pending).
JobsTellTheTruth ==
  \A j \in JobIds : \A e \in Events :
    /\ jobs[j].member[e] = "uploaded" => e \in accepted
    /\ jobs[j].member[e] = "captured" => e \in queued \ retained
    /\ jobs[j].state = "finished" => e \notin Pending(j)

\* Whatever leaves for the service was recorded while cloud consent was on or
\* was selected by an explicit history window (windows of enable/disable).
OnlyPermittedSent ==
  accepted \union UNION {batches[b].members : b \in wire} \subseteq permitted

\* retained_event: a recorded acknowledgment that no clear calls in question
\* stands for a copy the service still holds.
RecordedAckHonest ==
  \A e \in retained : ~consent.cleared /\ ~consent.intent =>
    e \in accepted /\ ~remote.cleared

\* No batch is sent more than Budget times without a pause of the cooldown's
\* length or a quota pause, whatever crashes and takeovers there are
\* (reserve_upload_attempt, pause_upload).
BudgetHonoured == \A b \in BatchIds : batches[b].run <= Budget

\* Steps that commit an attempt just before its transmission.
Sends(p) == procs[p].pc = "reserve" /\ procs'[p].pc = "inflight"

\* No attempt is made under a withdrawn, cleared or outdated consent, and none
\* carries an event that expired locally or at the service before the attempt.
SendsWithinConsent ==
  [][\A p \in Procs : Sends(p) =>
       LET b == procs[p].batch IN
       /\ Enabled /\ batches[b].consent = consent.interval
       /\ batches[b].members \subseteq (raw \union deleted) \ terminal]_vars

\* A quota pause holds until the reset: nothing is sent before it.
QuotaPauseHonoured == [][\A p \in Procs : Sends(p) => quotaLeft = 0]_vars

\* At most one upload is within its request lifetime.
NoOverlappingSends ==
  \A p, q \in Procs :
    procs[p].left > 0 /\ procs[q].left > 0 => p = q

\* A pass that holds the lease never loses it to time while its own steps take
\* none: one renewal per iteration is enough for an upload and a backoff.
LeaseOutlivesPass ==
  [][Tick => \A p \in Procs :
       procs[p].pc # "idle" /\ HoldsLease(p) => HoldsLease(p)']_vars

\* An unfinished job is finished, unless consent is withdrawn.
JobSettles ==
  \A j \in JobIds :
    jobs[j].state = "active" ~> jobs[j].state = "finished" \/ ~consent.enabled

\* The events that may still be delivered, or were: neither deleted nor expired.
Kept == (raw \union queued) \ terminal

\* Seen from outside, with the batches, jobs, leases and attempts left out, the
\* passes and the user's commands deliver events as EventDelivery says: no
\* takeover, retry, re-batching or late answer resends what is acknowledged,
\* revives what is dropped, or acknowledges what the service does not have.
Delivery == INSTANCE EventDelivery WITH
              given <- Enabled, recorded <- 1 .. high, kept <- Kept,
              allowed <- permitted, sent <- {batches[b].members : b \in wire},
              stored <- accepted, confirmed <- retained

DeliversEvents == Delivery!DeliverySpec

=============================================================================
