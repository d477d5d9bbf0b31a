---------------------- MODULE UsageCloudDeliveryProofs ----------------------
(***************************************************************************)
(* UsageCloud implements EventDelivery: every step of every process, user  *)
(* command, retention and service maps to one step of the delivery, or to  *)
(* none.                                                                   *)
(***************************************************************************)
EXTENDS UsageCloudPassProofs

\* What the delivery sees of the requests under way.
Sent == {batches[b].members : b \in wire}

\* Nothing is permitted or expired at the service that was never recorded, and
\* what is expired is not acknowledged.
Settled ==
  /\ permitted \subseteq 1 .. high
  /\ terminal \subseteq permitted
  /\ retained \intersect terminal = {}

\* All that the passes keep true, together.
DeliveryInv ==
  /\ TypeOK /\ BatchesOwnTheirRows /\ Truth /\ WindowsPermit
  /\ JobsPermitted /\ BatchesPermitted /\ SendsWanted /\ Settled

(***************************************************************************)
(* The steps the delivery can see                                          *)
(***************************************************************************)
\* At most the consent changes for the delivery.
Unseen ==
  /\ UNCHANGED <<high, raw, queued, retained, terminal>>
  /\ UNCHANGED <<permitted, wire, accepted>>

LEMMA SeenNext ==
  ASSUME TypeOK, [Next]_vars
  PROVE  \/ Unseen
         \/ \E p \in Procs : \/ CreateJob(p) \/ Capture(p) \/ Reserve(p)
                             \/ HandleExpired(p) \/ HandleAck(p)
         \/ Record \/ \E before \in 2 .. Open : UsageDelete(before)
         \/ \E S \in SUBSET (raw \union queued) : Expire(S)
         \/ \E b \in BatchIds : ServerIndex(b)
<1> USE DEF ledgerVars, queueVars, serverVars, historyVars, Unseen
<1>1. ASSUME NEW p \in Procs,
             \/ ContinueJob(p) \/ StartRefused(p)
             \/ \E confirmed \in BOOLEAN : RemoteStatus(p, confirmed)
             \/ RenewLease(p) \/ Deadline(p) \/ ReuseBatch(p) \/ BuildBatch(p)
             \/ NothingToSend(p) \/ PrepareRefused(p)
      PROVE  Unseen
  BY <1>1 DEF ContinueJob, StartRefused, RemoteStatus, RenewLease,
     Deadline, ReuseBatch, BuildBatch, NothingToSend, PrepareRefused
<1>2. ASSUME NEW p \in Procs,
             \/ ReserveRefused(p) \/ BackoffElapsed(p) \/ AnswerUnusable(p)
             \/ FinishRead(p) \/ FinishWrite(p) \/ ReleaseLease(p) \/ Crash(p)
             \/ HandleQuota(p)
      PROVE  Unseen
  BY <1>2 DEF ReserveRefused, BackoffElapsed, AnswerUnusable, FinishRead,
     FinishWrite, ReleaseLease, Crash, HandleQuota
<1>3. ASSUME NEW p \in Procs, NEW x,
             UploadFails(p, x) \/ UploadAnswered(p, x) \/ AcquireLease(p, x)
      PROVE  Unseen
  BY <1>3 DEF UploadFails, UploadAnswered, AcquireLease
<1>4. ASSUME \/ Enable \/ Disable \/ BeginClear \/ FinishClear
             \/ ReconcileGeneration \/ ServerClear \/ Tick \/ UNCHANGED vars
      PROVE  Unseen
  BY <1>4 DEF Enable, Disable, BeginClear, FinishClear, ReconcileGeneration, Withdraw,
     ServerClear, Tick, vars
<1> QED
  BY <1>1, <1>2, <1>3, <1>4 DEF Next, PassStep, UserStep

\* A request keeps its events while its batch is acknowledged, retired or gone.
LEMMA SentMembers ==
  ASSUME DeliveryInv, [Next]_vars, NEW b \in wire
  PROVE  batches'[b].members = batches[b].members
<1>1. b \in BatchIds /\ batches[b].state # "unused"
  BY DEF DeliveryInv, TypeOK, BatchesPermitted
<1> QED
  BY <1>1, BatchesLastNext DEF DeliveryInv, BatchesLast

LEMMA SentKept ==
  ASSUME DeliveryInv, [Next]_vars, UNCHANGED wire
  PROVE  Sent' = Sent
BY SentMembers DEF Sent

\* What a live batch of the current consent carries.
LEMMA CurrentBatch ==
  ASSUME DeliveryInv, NEW b, Live(b), batches[b].consent = consent.interval
  PROVE  /\ batches[b].members \subseteq (queued \intersect permitted) \ retained
         /\ batches[b].members \intersect terminal = {}
<1>1. b \in BatchIds /\ b # 0
  BY ConstantTypes DEF Live, BatchIds
<1>2. \A e \in batches[b].members : e \in queued /\ e \in Events /\ active[e] = b
  BY <1>1, TypeParts DEF DeliveryInv, BatchesOwnTheirRows
<1>3. \A e \in batches[b].members : e \notin retained
  BY <1>1, <1>2 DEF DeliveryInv, BatchesOwnTheirRows
<1>4. batches[b].members \intersect terminal = {}
  BY <1>1 DEF DeliveryInv, SendsWanted, LiveBatchOpen
<1>5. batches[b].members \subseteq permitted
  BY <1>1 DEF DeliveryInv, BatchesPermitted, Live
<1> QED
  BY <1>2, <1>3, <1>4, <1>5

\* An answer under the lease is about such a batch.
LEMMA ExpiredBatch ==
  ASSUME DeliveryInv, NEW p \in Procs, HandleExpired(p), ~UNCHANGED terminal
  PROVE  /\ \E ids \in SUBSET batches[procs[p].batch].members :
              terminal' = terminal \union ids
         /\ batches[procs[p].batch].members \subseteq (queued \intersect permitted) \ retained
         /\ batches[procs[p].batch].members \intersect terminal = {}
<1>1. /\ HoldsLease(p) /\ Uploading(procs[p])
      /\ \E ids \in SUBSET batches[procs[p].batch].members : terminal' = terminal \union ids
  BY ExpiredEffect DEF DeliveryInv
<1>2. /\ Live(procs[p].batch)
      /\ batches[procs[p].batch].consent = consent.interval
  BY <1>1 DEF DeliveryInv, SendsWanted, HolderRules
<1> QED
  BY <1>1, <1>2, CurrentBatch

LEMMA SettledNext ==
  ASSUME DeliveryInv, [Next]_vars
  PROVE  Settled'
<1>0. TypeOK /\ high \in Nat /\ raw \subseteq 1 .. high
  BY ConstantTypes DEF DeliveryInv, TypeOK
<1>1. /\ high' \in Nat /\ high <= high'
      /\ permitted' \subseteq 1 .. high' /\ permitted \subseteq permitted'
  <2>1. CASE Record
    BY <1>0, <2>1 DEF Record, DeliveryInv, Settled
  <2>2. ASSUME NEW p \in Procs, CreateJob(p)
        PROVE  high' = high /\ permitted \subseteq permitted'
               /\ permitted' \subseteq permitted \union raw
    BY <2>2 DEF CreateJob, Target, ledgerVars
  <2>3. ASSUME Unseen \/ \E p \in Procs : Capture(p) \/ Reserve(p)
        PROVE  UNCHANGED <<high, permitted>>
    BY <2>3 DEF Unseen, Capture, Reserve, ledgerVars, historyVars
  <2>4. ASSUME NEW p \in Procs, HandleExpired(p) \/ HandleAck(p)
        PROVE  UNCHANGED <<high, permitted>>
    BY <2>4 DEF HandleExpired, HandleAck, ledgerVars, historyVars
  <2>5. ASSUME \/ \E before \in 2 .. Open : UsageDelete(before)
               \/ \E S \in SUBSET (raw \union queued) : Expire(S)
               \/ \E b \in BatchIds : ServerIndex(b)
        PROVE  UNCHANGED <<high, permitted>>
    BY <2>5 DEF UsageDelete, Expire, ServerIndex, ledgerVars, historyVars
  <2>6. CASE UNCHANGED <<high, permitted>>
    BY <1>0, <2>6 DEF DeliveryInv, Settled
  <2>7. ASSUME NEW p \in Procs, CreateJob(p)
        PROVE  /\ high' \in Nat /\ high <= high'
               /\ permitted' \subseteq 1 .. high' /\ permitted \subseteq permitted'
    <3>1. /\ high' = high /\ permitted \subseteq permitted'
          /\ permitted' \subseteq permitted \union raw
      BY <2>2, <2>7
    <3>2. permitted' \subseteq 1 .. high
      BY <1>0, <3>1 DEF DeliveryInv, Settled
    <3> QED
      BY <1>0, <3>1, <3>2
  <2>8. \/ Record \/ \E p \in Procs : CreateJob(p)
        \/ UNCHANGED <<high, permitted>>
    BY <1>0, <2>3, <2>4, <2>5, SeenNext
  <2> QED
    BY <2>1, <2>6, <2>7, <2>8
<1>2. terminal' \subseteq permitted' /\ retained' \intersect terminal' = {}
  <2>1. ASSUME Unseen \/ \E p \in Procs : CreateJob(p) \/ Reserve(p) \/ Capture(p)
        PROVE  UNCHANGED <<retained, terminal>>
    BY <2>1 DEF Unseen, CreateJob, Reserve, Capture, queueVars
  <2>2. ASSUME \/ Record \/ \E before \in 2 .. Open : UsageDelete(before)
               \/ \E b \in BatchIds : ServerIndex(b)
        PROVE  UNCHANGED <<retained, terminal>>
    BY <2>2 DEF Record, UsageDelete, ServerIndex, queueVars
  <2>3. CASE UNCHANGED <<retained, terminal>>
    BY <1>1, <2>3 DEF DeliveryInv, Settled
  <2>4. ASSUME NEW S, Expire(S)
        PROVE  terminal' \subseteq permitted' /\ retained' \intersect terminal' = {}
    <3>1. UNCHANGED terminal /\ retained' \subseteq retained
      BY <1>0, <2>4, ExpireEffect
    <3> QED
      BY <1>1, <3>1 DEF DeliveryInv, Settled
  <2>5. ASSUME NEW p \in Procs, HandleAck(p)
        PROVE  terminal' \subseteq permitted' /\ retained' \intersect terminal' = {}
    <3> DEFINE b == procs[p].batch
    <3>1. /\ UNCHANGED terminal /\ retained' = retained \union batches[b].members
      BY <1>0, <2>5, AckEffect
    <3>2. Live(b) /\ batches[b].consent = consent.interval
      BY <2>5 DEF HandleAck, Acknowledgeable, Authorized
    <3>3. batches[b].members \intersect terminal = {}
      BY <3>2, CurrentBatch
    <3> QED
      BY <1>1, <3>1, <3>3 DEF DeliveryInv, Settled
  <2>6. ASSUME NEW p \in Procs, HandleExpired(p), ~UNCHANGED terminal
        PROVE  terminal' \subseteq permitted' /\ retained' \intersect terminal' = {}
    <3> DEFINE S == batches[procs[p].batch].members
    <3>1. UNCHANGED retained
      BY <1>0, <2>6, ExpiredEffect
    <3>2. PICK ids \in SUBSET S : terminal' = terminal \union ids
      BY <2>6, ExpiredBatch
    <3>3. S \subseteq permitted \ retained
      BY <2>6, ExpiredBatch
    <3> HIDE DEF S
    <3> QED
      BY <1>1, <3>1, <3>2, <3>3 DEF DeliveryInv, Settled
  <2>7. ASSUME NEW p \in Procs, HandleExpired(p), UNCHANGED terminal
        PROVE  UNCHANGED <<retained, terminal>>
    BY <1>0, <2>7, ExpiredEffect
  <2> QED
    BY <1>0, <2>1, <2>2, <2>3, <2>4, <2>5, <2>6, <2>7, SeenNext
<1> QED
  BY <1>1, <1>2 DEF Settled

LEMMA SpecDelivers == Spec => []DeliveryInv
<1>1. Init => Settled
  BY DEF Init, Settled
<1>2. DeliveryInv /\ [Next]_vars => Settled'
  BY SettledNext
<1> QED
  BY <1>1, <1>2, TypeCorrect, OwnershipCorrect, SpecTruth, SpecWindows, SpecPermitted,
     SpecSends, PTL DEF Spec, DeliveryInv

(***************************************************************************)
(* Each of them is a step of the delivery                                  *)
(***************************************************************************)
Delivers == [Delivery!DeliveryNext]_(Delivery!dvars)

\* While consent is on, no clear calls it in question.
LEMMA EnabledMeans == ASSUME WindowsPermit, consent.enabled PROVE Enabled
BY DEF WindowsPermit, Enabled

LEMMA DeliversConsent ==
  ASSUME UNCHANGED <<high, Kept, permitted, accepted, retained>>, Sent' = Sent
  PROVE  Delivers
<1>1. CASE Enabled' = Enabled
  BY <1>1 DEF Delivers, Delivery!dvars, Sent
<1>2. CASE Enabled' # Enabled
  <2>1. Enabled \in BOOLEAN /\ Enabled' \in BOOLEAN
    BY DEF Enabled
  <2>2. Enabled' = ~Enabled
    BY <1>2, <2>1
  <2>3. Delivery!ChangeConsent
    BY <2>2 DEF Delivery!ChangeConsent, Sent
  <2> QED
    BY <2>3 DEF Delivers, Delivery!DeliveryNext
<1> QED
  BY <1>1, <1>2

LEMMA DeliversUnseen ==
  ASSUME DeliveryInv, [Next]_vars, Unseen
  PROVE  Delivers
<1>1. UNCHANGED <<high, Kept, permitted, accepted, retained>>
  BY DEF Unseen, Kept
<1>2. Sent' = Sent
  BY SentKept DEF Unseen
<1> QED
  BY <1>1, <1>2, DeliversConsent

LEMMA DeliversRecord ==
  ASSUME DeliveryInv, [Next]_vars, Record
  PROVE  Delivers
<1> DEFINE e == high + 1
<1>0. high \in Nat /\ MaxEvent \in Nat
  BY ConstantTypes DEF DeliveryInv, TypeOK
<1>1. /\ e \in Events \ (1 .. high)
      /\ 1 .. high' = (1 .. high) \union {e}
  BY <1>0 DEF Record, Events
<1>2. e \notin terminal
  BY <1>1 DEF DeliveryInv, Settled
<1>3. Kept' = Kept \union {e}
  BY <1>2 DEF Record, Kept, queueVars
<1>4. permitted' = permitted \union (IF Enabled THEN {e} ELSE {})
  BY DEF Record
<1>5. /\ UNCHANGED <<wire, accepted, retained>>
      /\ Enabled' = Enabled
  BY DEF Record, Enabled, consentVars, queueVars, serverVars
<1>6. Sent' = Sent
  BY <1>5, SentKept
<1> HIDE DEF e
<1>7. Delivery!RecordEvent
  BY <1>1, <1>3, <1>4, <1>5, <1>6 DEF Delivery!RecordEvent, Sent
<1> QED
  BY <1>7 DEF Delivers, Delivery!DeliveryNext

LEMMA DeliversCreate ==
  ASSUME DeliveryInv, [Next]_vars, NEW p \in Procs, CreateJob(p)
  PROVE  Delivers
<1> DEFINE want == procs[p].want
           S == IF want > 0 THEN Target(want) ELSE {}
<1>1. Enabled
  BY EnabledMeans DEF DeliveryInv, CreateJob
<1>2. S \in SUBSET (Kept \ retained)
  BY DEF Target, Kept
<1>3. permitted' = permitted \union S
  BY DEF CreateJob
<1>4. /\ UNCHANGED <<high, Kept, wire, accepted, retained>>
      /\ Enabled' = Enabled
  BY DEF CreateJob, Kept, Enabled, ledgerVars, consentVars, queueVars, serverVars
<1>5. Sent' = Sent
  BY <1>4, SentKept
<1> HIDE DEF S
<1>6. Delivery!AllowPast
  BY <1>1, <1>2, <1>3, <1>4, <1>5 DEF Delivery!AllowPast, Sent
<1> QED
  BY <1>6 DEF Delivers, Delivery!DeliveryNext

LEMMA DeliversCapture ==
  ASSUME DeliveryInv, [Next]_vars, NEW p \in Procs, Capture(p)
  PROVE  Delivers
<1>1. /\ UNCHANGED <<high, raw, retained, terminal, accepted, wire, permitted>>
      /\ queued \subseteq queued' /\ queued' \subseteq queued \union raw
  BY CaptureEffect DEF DeliveryInv, ledgerVars
<1>2. UNCHANGED Kept
  BY <1>1 DEF Kept
<1>3. Sent' = Sent
  BY <1>1, SentKept
<1> QED
  BY <1>1, <1>2, <1>3, DeliversConsent

\* A batch that the consent allows to send or to acknowledge.
LEMMA AuthorizedBatch ==
  ASSUME DeliveryInv, NEW b, Live(b), Authorized(batches[b].consent)
  PROVE  /\ Enabled
         /\ batches[b].members \subseteq (Kept \intersect permitted) \ retained
<1>1. consent.enabled /\ batches[b].consent = consent.interval
  BY DEF Authorized
<1> QED
  BY <1>1, CurrentBatch, EnabledMeans DEF DeliveryInv, Kept

LEMMA DeliversReserve ==
  ASSUME DeliveryInv, [Next]_vars, NEW p \in Procs, Reserve(p)
  PROVE  Delivers
<1> DEFINE b == procs[p].batch
           S == batches[b].members
<1>1. Live(b) /\ Authorized(batches[b].consent) /\ b \in BatchIds
  BY DEF Reserve, Reservable, Live
<1>2. Enabled /\ S \in SUBSET ((Kept \intersect permitted) \ retained)
  BY <1>1, AuthorizedBatch
<1>3. /\ wire' = wire \union {b}
      /\ UNCHANGED <<high, Kept, permitted, accepted, retained>>
      /\ Enabled' = Enabled
  BY DEF Reserve, Kept, Enabled, ledgerVars, consentVars, queueVars
<1>4. batches'[b].members = S
  BY <1>1, BatchesLastNext DEF DeliveryInv, BatchesLast, Live
<1> HIDE DEF b, S
<1>5. Sent' = Sent \union {S}
  <2>1. \A c \in wire : batches'[c].members = batches[c].members
    BY SentMembers
  <2> QED
    BY <1>3, <1>4, <2>1 DEF Sent
<1>6. Delivery!Send
  BY <1>2, <1>3, <1>5 DEF Delivery!Send, Sent
<1> QED
  BY <1>6 DEF Delivers, Delivery!DeliveryNext

LEMMA DeliversExpired ==
  ASSUME DeliveryInv, [Next]_vars, NEW p \in Procs, HandleExpired(p)
  PROVE  Delivers
<1>1. /\ UNCHANGED <<high, raw, queued, retained, wire, accepted, permitted, consent>>
  BY ExpiredEffect DEF DeliveryInv, ledgerVars, consentVars, serverVars
<1>2. Enabled' = Enabled
  BY <1>1 DEF Enabled
<1>3. Sent' = Sent
  BY <1>1, SentKept
<1>4. CASE UNCHANGED terminal
  BY <1>1, <1>3, <1>4, DeliversConsent DEF Kept
<1>5. CASE ~UNCHANGED terminal
  <2> DEFINE S == batches[procs[p].batch].members
  <2>1. PICK ids \in SUBSET S : terminal' = terminal \union ids
    BY <1>5, ExpiredBatch
  <2>2. S \subseteq queued \ retained /\ S \intersect terminal = {}
    BY <1>5, ExpiredBatch
  <2> HIDE DEF S
  <2>3. /\ ids \in SUBSET Kept
        /\ Kept' = Kept \ ids
        /\ retained' = retained \ ids
    BY <1>1, <2>1, <2>2 DEF Kept
  <2>4. Delivery!Drop
    BY <1>1, <1>2, <1>3, <2>3 DEF Delivery!Drop, Sent
  <2> QED
    BY <2>4 DEF Delivers, Delivery!DeliveryNext
<1> QED
  BY <1>4, <1>5

LEMMA DeliversAck ==
  ASSUME DeliveryInv, [Next]_vars, NEW p \in Procs, HandleAck(p)
  PROVE  Delivers
<1> DEFINE S == batches[procs[p].batch].members
<1>1. /\ UNCHANGED <<high, raw, queued, terminal, wire, accepted, permitted, consent>>
      /\ retained' = retained \union S
      /\ procs[p].pc = "answered" /\ procs[p].answer = "ack"
  BY AckEffect DEF DeliveryInv, ledgerVars, consentVars, serverVars
<1>2. Live(procs[p].batch) /\ Authorized(batches[procs[p].batch].consent)
  BY DEF HandleAck, Acknowledgeable
<1>3. Enabled /\ S \subseteq Kept \ retained
  BY <1>2, AuthorizedBatch
<1>4. S \subseteq accepted
  BY <1>1 DEF DeliveryInv, Truth, Knows
<1>5. UNCHANGED Kept /\ Enabled' = Enabled
  BY <1>1 DEF Kept, Enabled
<1>6. Sent' = Sent
  BY <1>1, SentKept
<1> HIDE DEF S
<1>7. S \in SUBSET ((Kept \intersect accepted) \ retained)
  BY <1>3, <1>4
<1>8. Delivery!Confirm
  BY <1>1, <1>3, <1>5, <1>6, <1>7 DEF Delivery!Confirm, Sent
<1> QED
  BY <1>8 DEF Delivers, Delivery!DeliveryNext

\* A deletion drops what has no row in the queue.
LEMMA DeliversDelete ==
  ASSUME DeliveryInv, [Next]_vars, NEW before, UsageDelete(before)
  PROVE  Delivers
<1> DEFINE gone == {e \in raw : e < before}
           S == Kept \ ((raw \ gone) \union queued)
<1>1. /\ raw' = raw \ gone
      /\ UNCHANGED <<high, queued, retained, terminal, wire, accepted, permitted, consent>>
  BY DEF UsageDelete, consentVars, queueVars, serverVars
<1>2. Enabled' = Enabled
  BY <1>1 DEF Enabled
<1>3. Sent' = Sent
  BY <1>1, SentKept
<1>4. retained \subseteq queued
  BY TypeParts DEF DeliveryInv
<1> HIDE DEF gone
<1>5. /\ S \in SUBSET Kept
      /\ Kept' = Kept \ S
      /\ retained' = retained \ S
  BY <1>1, <1>4 DEF Kept
<1> HIDE DEF S
<1>6. Delivery!Drop
  BY <1>1, <1>2, <1>3, <1>5 DEF Delivery!Drop, Sent
<1> QED
  BY <1>6 DEF Delivers, Delivery!DeliveryNext

\* Retention drops expired events with their rows, acknowledged or not.
LEMMA DeliversExpire ==
  ASSUME DeliveryInv, [Next]_vars, NEW S \in SUBSET (raw \union queued), Expire(S)
  PROVE  Delivers
<1>1. /\ raw' = raw \ S /\ queued' = queued \ S /\ retained' = retained \ S
      /\ UNCHANGED <<high, terminal, wire, accepted, permitted, consent>>
  BY ExpireEffect DEF DeliveryInv, consentVars, serverVars
<1>2. Enabled' = Enabled
  BY <1>1 DEF Enabled
<1>3. Sent' = Sent
  BY <1>1, SentKept
<1> DEFINE T == S \intersect Kept
<1>4. /\ T \in SUBSET Kept
      /\ Kept' = Kept \ T
  BY <1>1 DEF Kept
<1>5. retained' = retained \ T
  <2>1. retained \intersect terminal = {} /\ retained \subseteq queued
    BY TypeParts DEF DeliveryInv, Settled
  <2> QED
    BY <1>1, <2>1 DEF Kept
<1> HIDE DEF T
<1>6. Delivery!Drop
  BY <1>1, <1>2, <1>3, <1>4, <1>5 DEF Delivery!Drop, Sent
<1> QED
  BY <1>6 DEF Delivers, Delivery!DeliveryNext

LEMMA DeliversIndex ==
  ASSUME DeliveryInv, [Next]_vars, NEW b \in BatchIds, ServerIndex(b)
  PROVE  Delivers
<1> DEFINE S == batches[b].members
<1>1. /\ b \in wire /\ wire' = wire \ {b} /\ accepted' = accepted \union S
      /\ UNCHANGED <<high, raw, queued, retained, terminal, permitted, consent>>
  BY DEF ServerIndex, ledgerVars, consentVars, queueVars, historyVars
<1>2. UNCHANGED Kept /\ Enabled' = Enabled
  BY <1>1 DEF Kept, Enabled
<1>3. \A c \in wire : batches'[c].members = batches[c].members
  BY SentMembers
<1> HIDE DEF S
<1>4. S \in Sent
  BY <1>1 DEF Sent, S
<1>5. Sent' \in {Sent, Sent \ {S}}
  <2>1. Sent' = {batches[c].members : c \in wire \ {b}}
    BY <1>1, <1>3 DEF Sent
  <2>2. CASE \E c \in wire \ {b} : batches[c].members = S
    BY <1>1, <2>1, <2>2 DEF Sent, S
  <2>3. CASE ~\E c \in wire \ {b} : batches[c].members = S
    BY <1>1, <2>1, <2>3 DEF Sent, S
  <2> QED
    BY <2>2, <2>3
<1>6. Delivery!Store
  BY <1>1, <1>2, <1>4, <1>5 DEF Delivery!Store, Sent
<1> QED
  BY <1>6 DEF Delivers, Delivery!DeliveryNext

\* UsageCloud delivers events as EventDelivery says.  Whichever process sends,
\* takes over, retries, builds the batch again or is answered late, and whatever
\* the user and the retention do meanwhile: an event is sent only under consent,
\* if permitted, kept and not acknowledged; it is acknowledged only if the service
\* has it and consent still holds; and a dropped event is never sent again.
THEOREM DeliveryCorrect == Spec => DeliversEvents
<1>1. Init => Delivery!DeliveryInit
  BY DEF Init, Delivery!DeliveryInit, Enabled, Kept
<1>2. DeliveryInv /\ [Next]_vars => Delivers
  <2>1. DeliveryInv => TypeOK
    BY DEF DeliveryInv
  <2> QED
    BY <2>1, SeenNext, DeliversUnseen, DeliversRecord, DeliversCreate, DeliversCapture,
       DeliversReserve, DeliversExpired, DeliversAck, DeliversDelete, DeliversExpire,
       DeliversIndex
<1> QED
  BY <1>1, <1>2, SpecDelivers, PTL DEF Spec, DeliversEvents, Delivery!DeliverySpec,
     Delivers

=============================================================================
