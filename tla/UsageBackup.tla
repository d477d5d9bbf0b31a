---------------------------- MODULE UsageBackup ----------------------------
(***************************************************************************)
(* The hosted backup of the usage history: consent intervals and the queue *)
(* of selections in the history database, the consent in the settings      *)
(* file, the lease that serializes the commands, and the account service.  *)
(*                                                                         *)
(* A command is a process; each database transaction, settings write and   *)
(* service call of it is one action, so another command, the recording of  *)
(* usage, a crash or the end of the lease can fall between any two.        *)
(* An event is its ledger sequence number, which is also its identity      *)
(* unless `restore` imported it (see copy).                                *)
(***************************************************************************)
EXTENDS Integers, FiniteSets

CONSTANTS
  Procs,      \* processes that run backup commands
  None,       \* no process
  Accounts,   \* accounts the user may sign in to
  NoAccount,  \* settings without a binding
  MaxEvent,   \* bound: ledger sequences ever given out
  MaxGen,     \* bound: consent generations of an account
  PageSize,   \* rows of a capture, history page, batch or snapshot page: 100
  MaxBatches, \* batches of a pass: 10 for sync, 1 for the automatic pass
  MayRun,     \* the commands each process may run in this instance
  Mishaps     \* what else may happen in this instance

Events == 1 .. MaxEvent
Foreign == MaxEvent + 1     \* a record that another home backed up
Open == MaxEvent + 1        \* end_sequence IS NULL
Ids == 1 .. Foreign
Bindings == [account : Accounts, gen : 1 .. MaxGen]
NoBinding == [account |-> NoAccount, gen |-> 0]

ASSUME ConstantsAssumption ==
  /\ None \notin Procs
  /\ NoAccount \notin Accounts
  /\ {MaxEvent, MaxGen} \subseteq Nat
  /\ {PageSize, MaxBatches} \subseteq Nat \ {0}
  /\ MayRun \in [Procs -> SUBSET {"enable", "disable", "history", "sync",
                                    "restore", "delete"}]

VARIABLES
  high,        \* sqlite_sequence of usage_events
  raw,         \* events whose usage_events row exists
  copy,        \* the identity a restored event carries, 0 for an own event
  windows,     \* usage_backup_windows: binding, start, end, last_scan
  queued,      \* usage_backup_queue: [b, id]
  acked,       \*   ... the rows with acknowledged=1
  settings,    \* backup_enabled and the binding of config.toml
  lease,       \* the process whose unexpired lease row is stored
  account,     \* the account whose credentials are stored
  procs,       \* the running commands
  wire,        \* ingest requests sent and not yet handled
  server,      \* the service: generation, consent and records per account
  consented,   \* history: [b, id] recorded while backup was on under b
  chosen,      \* history: [b, id] the user selected from older history
  accepted,    \* history: [b, id] the service accepted
  interrupted  \* history: bindings whose consent a dead or late command changed

localVars == <<high, raw, copy>>
queueVars == <<windows, queued, acked>>
historyVars == <<consented, chosen, accepted, interrupted>>
vars == <<localVars, queueVars, settings, lease, account, procs, wire, server,
          historyVars>>

-----------------------------------------------------------------------------
EnablePCs == {"enable_status", "enable_call", "enable_pause", "enable_open",
              "enable_save", "enable_undo"}
DrainPCs == {"drain_lease", "drain_status", "drain_capture", "drain_send",
             "drain_wait", "drain_ack"}
PCs == {"idle", "disable_pause", "disable_save", "history", "restore_fetch",
        "restore_apply", "delete_call", "delete_pause", "delete_save"}
       \union EnablePCs \union DrainPCs

\* A process that runs no backup command.
Idle == [pc |-> "idle", b |-> NoBinding, prior |-> NoBinding, token |-> NoAccount,
         keep |-> FALSE, after |-> 0, through |-> 0, ids |-> {}, left |-> 0,
         late |-> FALSE]   \* history: its lease has ended

\* A command past Lease::acquire.
Working(p) == procs[p].pc \notin {"idle", "drain_lease"}

Id(e) == IF copy[e] = 0 THEN e ELSE copy[e]
Known(id) == \E e \in raw : Id(e) = id

OpenOf(b) == {w \in windows : w.b = b /\ w.end = Open}
\* The last sequence a window covers now: COALESCE(end_sequence, high).
Reach(w) == IF w.end = Open THEN high ELSE w.end

FirstOf(S, n) == {e \in S : Cardinality({f \in S : f < e}) < n}
Last(S) == CHOOSE e \in S : \A f \in S : f <= e

\* Mutant: the import marker is not looked at.
SelectAll(b, page) == {[b |-> b, id |-> Id(e)] : e \in page}

\* select: restored facts are skipped, rows already queued stay as they are.
Select(b, page) == {[b |-> b, id |-> Id(e)] : e \in {f \in page : copy[f] = 0}}

\* pause_at: the open interval of the binding ends at the newest sequence.
Closed(b) == (windows \ OpenOf(b)) \union {[w EXCEPT !.end = high] : w \in OpenOf(b)}

Step(p, fields) == procs' = [procs EXCEPT ![p] = fields]
Goto(p, pc) == procs' = [procs EXCEPT ![p].pc = pc]

\* Mutant: the row is deleted whoever wrote it.
ReleaseAny(p) == lease' = None

\* Drop of Lease: the row is deleted when it holds the command's own token.
Release(p) == lease' = IF lease = p THEN None ELSE lease

\* The command returns, with an error or without.
Exit(p) == Step(p, Idle) /\ Release(p)

\* Lease::acquire, and the credentials of transport().
Start(p, fields) ==
  /\ procs[p].pc = "idle"
  /\ lease = None
  /\ lease' = p
  /\ Step(p, fields)

-----------------------------------------------------------------------------
(* The account service.                                                    *)

Current(a) == [account |-> a, gen |-> server[a].gen]

\* enable: the first one creates the backup; a later one names its binding.
ServerEnables(a, b) ==
  \/ /\ b = NoBinding
     /\ server[a].gen = 0
     /\ MaxGen > 0
     /\ server' = [server EXCEPT ![a].gen = 1, ![a].enabled = TRUE]
  \/ /\ b = Current(a)
     /\ server[a].gen > 0
     /\ server' = [server EXCEPT ![a].enabled = TRUE]

\* delete: the records go and the generation is revoked.
ServerDeletes(a, b) ==
  /\ b = Current(a)
  /\ server[a].gen \in 1 .. MaxGen - 1
  /\ server' = [server EXCEPT ![a] =
       [gen |-> @.gen + 1, enabled |-> FALSE, records |-> {}]]

\* ingest is admitted under the current generation with consent on.
Admitted(m) ==
  /\ m.token = m.b.account
  /\ server[m.token].enabled
  /\ m.b = Current(m.token)

\* The service handles a request.  It may come back to a command that still
\* waits for it, or to nobody.
ServerIngests(m) ==
  /\ m \in wire
  /\ wire' = wire \ {m}
  /\ IF Admitted(m)
     THEN /\ server' = [server EXCEPT ![m.token].records = @ \union m.ids]
          /\ accepted' = accepted \union {[b |-> m.b, id |-> i] : i \in m.ids}
     ELSE UNCHANGED <<server, accepted>>
  /\ UNCHANGED <<localVars, queueVars, settings, lease, account, procs,
                 consented, chosen, interrupted>>

\* Another home of an account enables it, deletes it or backs a record up.
OtherHome(a) ==
  /\ "otherhome" \in Mishaps
  /\ \/ ServerEnables(a, IF server[a].gen = 0 THEN NoBinding ELSE Current(a))
     \/ ServerDeletes(a, Current(a))
     \/ /\ server[a].enabled
        /\ server' = [server EXCEPT ![a].records = @ \union {Foreign}]
  /\ UNCHANGED <<localVars, queueVars, settings, lease, account, procs, wire,
                 historyVars>>

-----------------------------------------------------------------------------
(* enable.                                                                 *)

EnableStart(p) ==
  /\ "enable" \in MayRun[p]
  /\ Start(p, [Idle EXCEPT !.pc = "enable_status", !.token = account])
  /\ UNCHANGED <<localVars, queueVars, settings, account, wire, server, historyVars>>

\* The status call gives the binding to name, if the account has a backup.
EnableStatus(p) ==
  /\ procs[p].pc = "enable_status"
  /\ LET a == procs[p].token
     IN Step(p, [procs[p] EXCEPT !.pc = "enable_call",
                   !.b = IF server[a].gen = 0 THEN NoBinding ELSE Current(a)])
  /\ UNCHANGED <<localVars, queueVars, settings, lease, account, wire, server,
                 historyVars>>

\* The enable call; its answer is compared with the settings, which decide
\* whether the interval is kept or a prior binding is left first.
EnableCall(p) ==
  /\ procs[p].pc = "enable_call"
  /\ LET a == procs[p].token
         b == [account |-> a, gen |-> IF procs[p].b = NoBinding THEN 1 ELSE server[a].gen]
         keep == settings.enabled /\ settings.binding = b
         leave == settings.enabled /\ ~keep
     IN /\ ServerEnables(a, procs[p].b)
        /\ Step(p, [procs[p] EXCEPT !.b = b, !.keep = keep, !.token = NoAccount,
             !.pc = IF leave THEN "enable_pause" ELSE "enable_open",
             !.prior = IF leave THEN settings.binding ELSE NoBinding])
  /\ UNCHANGED <<localVars, queueVars, settings, lease, account, wire, historyVars>>

\* The call is refused, or its answer is lost after the service acted on it.
EnableCallFails(p) ==
  /\ procs[p].pc = "enable_call"
  /\ \/ ServerEnables(procs[p].token, procs[p].b)
     \/ UNCHANGED server
  /\ Exit(p)
  /\ UNCHANGED <<localVars, queueVars, settings, account, wire, historyVars>>

EnablePause(p) ==
  /\ procs[p].pc = "enable_pause"
  /\ windows' = Closed(procs[p].prior)
  /\ Step(p, [procs[p] EXCEPT !.pc = "enable_open", !.prior = NoBinding])
  /\ UNCHANGED <<localVars, queued, acked, settings, lease, account, wire, server,
                 historyVars>>

\* Mutant: a second interval is opened beside an open one.
OpenBeside(p) ==
  LET b == procs[p].b
  IN windows' = windows \union {[b |-> b, start |-> high, end |-> Open, scan |-> high]}

\* enable_at past its two checks.
OpenWindow(p) ==
  LET b == procs[p].b
  IN IF OpenOf(b) # {}
     THEN procs[p].keep /\ UNCHANGED windows
     ELSE windows' = windows \union
            {[b |-> b, start |-> high, end |-> Open, scan |-> high]}

EnableOpen(p) ==
  /\ procs[p].pc = "enable_open"
  /\ OpenWindow(p)
  /\ Step(p, [procs[p] EXCEPT !.pc = "enable_save", !.keep = FALSE])
  /\ UNCHANGED <<localVars, queued, acked, settings, lease, account, wire, server,
                 historyVars>>

\* "Backup has an unclosed consent interval; disable it before ...".
EnableRefused(p) ==
  /\ procs[p].pc = "enable_open"
  /\ ~procs[p].keep
  /\ OpenOf(procs[p].b) # {}
  /\ Exit(p)
  /\ UNCHANGED <<localVars, queueVars, settings, account, wire, server, historyVars>>

EnableSave(p) ==
  /\ procs[p].pc = "enable_save"
  /\ settings' = [enabled |-> TRUE, binding |-> procs[p].b]
  /\ Exit(p)
  /\ UNCHANGED <<localVars, queueVars, account, wire, server, historyVars>>

EnableSaveFails(p) ==
  /\ "failsave" \in Mishaps
  /\ procs[p].pc = "enable_save"
  /\ Goto(p, "enable_undo")
  /\ UNCHANGED <<localVars, queueVars, settings, lease, account, wire, server,
                 historyVars>>

EnableUndo(p) ==
  /\ procs[p].pc = "enable_undo"
  /\ windows' = Closed(procs[p].b)
  /\ Exit(p)
  /\ UNCHANGED <<localVars, queued, acked, settings, account, wire, server,
                 historyVars>>

-----------------------------------------------------------------------------
(* disable.                                                                *)

\* The settings are read under the lease; without a binding nothing is paused.
DisableStart(p) ==
  /\ "disable" \in MayRun[p]
  /\ Start(p, [Idle EXCEPT !.b = settings.binding,
       !.pc = IF settings.binding = NoBinding THEN "disable_save" ELSE "disable_pause"])
  /\ UNCHANGED <<localVars, queueVars, settings, account, wire, server, historyVars>>

DisablePause(p) ==
  /\ procs[p].pc = "disable_pause"
  /\ windows' = Closed(procs[p].b)
  /\ Goto(p, "disable_save")
  /\ UNCHANGED <<localVars, queued, acked, settings, lease, account, wire, server,
                 historyVars>>

\* The write patches the backup fields from the snapshot, or fails.
DisableSave(p) ==
  /\ procs[p].pc = "disable_save"
  /\ \/ settings' = [enabled |-> FALSE, binding |-> procs[p].b]
     \/ "failsave" \in Mishaps /\ UNCHANGED settings
  /\ Exit(p)
  /\ UNCHANGED <<localVars, queueVars, account, wire, server, historyVars>>

-----------------------------------------------------------------------------
(* include-history --confirm, for a snapshot and binding that a preview of *)
(* the same binding showed earlier.                                        *)

HistoryStart(p) ==
  /\ "history" \in MayRun[p]
  /\ settings.enabled
  /\ \E through \in 1 .. high :
       Start(p, [Idle EXCEPT !.pc = "history", !.b = settings.binding,
                             !.through = through])
  /\ UNCHANGED <<localVars, queueVars, settings, account, wire, server, historyVars>>

HistoryPage(p) ==
  /\ procs[p].pc = "history"
  /\ LET s == procs[p]
         page == FirstOf({e \in raw : e > s.after /\ e <= s.through}, PageSize)
         rows == Select(s.b, page)
     IN /\ page # {}
        /\ queued' = queued \union rows
        /\ chosen' = chosen \union rows
        /\ Step(p, [s EXCEPT !.after = Last(page)])
  /\ UNCHANGED <<localVars, windows, acked, settings, lease, account, wire, server,
                 consented, accepted, interrupted>>

\* No page is left, or the 30-second budget is used up.
HistoryEnd(p) ==
  /\ procs[p].pc = "history"
  /\ Exit(p)
  /\ UNCHANGED <<localVars, queueVars, settings, account, wire, server, historyVars>>

-----------------------------------------------------------------------------
(* The upload pass: sync, or the automatic pass after a run.               *)

\* The settings are read before the lease is asked for.
DrainStart(p) ==
  /\ "sync" \in MayRun[p]
  /\ procs[p].pc = "idle"
  /\ settings.enabled
  /\ Step(p, [Idle EXCEPT !.pc = "drain_lease", !.b = settings.binding])
  /\ UNCHANGED <<localVars, queueVars, settings, lease, account, wire, server,
                 historyVars>>

DrainLease(p) ==
  /\ procs[p].pc = "drain_lease"
  /\ IF lease = None
     THEN /\ lease' = p
          /\ Step(p, [procs[p] EXCEPT !.pc = "drain_status", !.token = account,
                                      !.left = MaxBatches])
     ELSE Step(p, Idle) /\ UNCHANGED lease
  /\ UNCHANGED <<localVars, queueVars, settings, account, wire, server, historyVars>>

\* binding.check and the consent of the status answer.
StatusMatches(p) ==
  /\ Current(procs[p].token) = procs[p].b
  /\ server[procs[p].token].enabled

DrainStatus(p) ==
  /\ procs[p].pc = "drain_status"
  /\ IF StatusMatches(p)
     THEN Goto(p, "drain_capture") /\ UNCHANGED lease
     ELSE Exit(p)
  /\ UNCHANGED <<localVars, queueVars, settings, account, wire, server, historyVars>>

\* Mutant: where a window ends is not looked at.
PastTheEnd(b) == {e \in raw : \E w \in windows : w.b = b /\ e > w.scan}

\* Rows no window of the binding has scanned yet, one page of them.
Unscanned(b) == {e \in raw : \E w \in windows :
                   w.b = b /\ e > w.scan /\ e <= Reach(w)}
CapturePage(b) == FirstOf(Unscanned(b), PageSize)

\* Mutant: the cursor always moves to the newest sequence.
ScannedAll(b) == high

\* The cursor moves to the newest sequence only when the page was not full.
Scanned(b) ==
  IF Cardinality(CapturePage(b)) < PageSize THEN high ELSE Last(CapturePage(b))

\* UPDATE ... SET last_scan=MIN(COALESCE(end_sequence,?3),?3)
Advance(w, b) ==
  IF w.b = b /\ w.scan < Scanned(b)
  THEN [w EXCEPT !.scan = IF w.end < Scanned(b) THEN w.end ELSE Scanned(b)]
  ELSE w

\* capture_at, while the settings still name the binding.
DrainCapture(p) ==
  /\ procs[p].pc = "drain_capture"
  /\ procs[p].left > 0
  /\ settings = [enabled |-> TRUE, binding |-> procs[p].b]
  /\ LET b == procs[p].b
     IN /\ \E w \in windows : w.b = b
        /\ queued' = queued \union Select(b, CapturePage(b))
        /\ windows' = {Advance(w, b) : w \in windows}
  /\ Goto(p, "drain_send")
  /\ UNCHANGED <<localVars, acked, settings, lease, account, wire, server,
                 historyVars>>

\* The pass ends: its batches are sent, the settings no longer name the
\* binding, or it has no interval.
DrainStops(p) ==
  /\ procs[p].pc = "drain_capture"
  /\ \/ procs[p].left = 0
     \/ settings # [enabled |-> TRUE, binding |-> procs[p].b]
     \/ \A w \in windows : w.b # procs[p].b
  /\ Exit(p)
  /\ UNCHANGED <<localVars, queueVars, settings, account, wire, server, historyVars>>

\* batch: the oldest unacknowledged selections of the binding.
Batch(b) ==
  {Id(e) : e \in FirstOf({e \in raw : [b |-> b, id |-> Id(e)] \in queued \ acked},
                         PageSize)}

\* Mutant: the account is not looked at again.
TransmitForAny(p) == settings = [enabled |-> TRUE, binding |-> procs[p].b]

\* check_upload_consent and check_account_unchanged, directly before a send.
MayTransmit(p) ==
  /\ settings = [enabled |-> TRUE, binding |-> procs[p].b]
  /\ account = procs[p].token

DrainSend(p) ==
  /\ procs[p].pc = "drain_send"
  /\ LET s == procs[p]
         ids == Batch(s.b)
     IN IF ids # {} /\ MayTransmit(p)
        THEN /\ Step(p, [s EXCEPT !.pc = "drain_wait", !.ids = ids])
             /\ wire' = wire \union {[b |-> s.b, token |-> s.token, ids |-> ids]}
             /\ UNCHANGED lease
        ELSE Exit(p) /\ UNCHANGED wire
  /\ UNCHANGED <<localVars, queueVars, settings, account, server, historyVars>>

Request(p) == [b |-> procs[p].b, token |-> procs[p].token, ids |-> procs[p].ids]

\* Mutant: whatever the answer, the batch counts as acknowledged.
AnyAnswer(p) == procs[p].ids

\* The identities an answer of the service to this request can name: those
\* it has accepted under the request's binding.
Acknowledged(p) == {i \in procs[p].ids : [b |-> procs[p].b, id |-> i] \in accepted}

\* An answer that names exactly the batch.
DrainAnswer(p) ==
  /\ procs[p].pc = "drain_wait"
  /\ Request(p) \notin wire
  /\ Acknowledged(p) = procs[p].ids
  /\ Goto(p, "drain_ack")
  /\ UNCHANGED <<localVars, queueVars, settings, lease, account, wire, server,
                 historyVars>>

\* Refused, timed out, incomplete or damaged; the request may still arrive.
DrainFails(p) ==
  /\ procs[p].pc \in {"drain_status", "drain_wait"}
  /\ Exit(p)
  /\ UNCHANGED <<localVars, queueVars, settings, account, wire, server, historyVars>>

\* access_token_expired proves that the request was not admitted; it is sent
\* once more with the refreshed token after the same checks.
DrainRefresh(p) ==
  /\ procs[p].pc = "drain_wait"
  /\ ~procs[p].keep
  /\ Request(p) \in wire
  /\ IF MayTransmit(p)
     THEN /\ Step(p, [procs[p] EXCEPT !.keep = TRUE])
          /\ UNCHANGED <<wire, lease>>
     ELSE Exit(p) /\ wire' = wire \ {Request(p)}
  /\ UNCHANGED <<localVars, queueVars, settings, account, server, historyVars>>

AckRows(p) == {q \in queued : q.b = procs[p].b /\ q.id \in procs[p].ids}

DrainAck(p) ==
  /\ procs[p].pc = "drain_ack"
  /\ acked' = acked \union AckRows(p)
  /\ Step(p, [procs[p] EXCEPT !.pc = "drain_capture", !.ids = {}, !.left = @ - 1])
  /\ UNCHANGED <<localVars, windows, queued, settings, lease, account, wire, server,
                 historyVars>>

-----------------------------------------------------------------------------
(* restore --confirm: one page of the snapshot.                            *)

RestoreStart(p) ==
  /\ "restore" \in MayRun[p]
  /\ server[account].gen > 0
  /\ Start(p, [Idle EXCEPT !.pc = "restore_fetch", !.token = account,
                           !.b = Current(account)])
  /\ UNCHANGED <<localVars, queueVars, settings, account, wire, server, historyVars>>

\* A page of the account's records, under the binding the preview showed.
RestoreFetch(p) ==
  /\ procs[p].pc = "restore_fetch"
  /\ Current(procs[p].token) = procs[p].b
  /\ \E page \in SUBSET server[procs[p].token].records :
       /\ Cardinality(page) \in 1 .. PageSize
       /\ Step(p, [procs[p] EXCEPT !.pc = "restore_apply", !.ids = page,
                                    !.token = NoAccount, !.b = NoBinding])
  /\ UNCHANGED <<localVars, queueVars, settings, lease, account, wire, server,
                 historyVars>>

\* Mutant: an identity that exists locally is inserted again.
AllNew(ids) == ids

NewIds(ids) == {i \in ids : ~Known(i)}

\* One transaction: unknown identities become new ledger events marked as
\* restored, in the order of the snapshot; those that exist are left alone.
RestoreApply(p) ==
  /\ procs[p].pc = "restore_apply"
  /\ LET new == NewIds(procs[p].ids)
         n == Cardinality(new)
     IN /\ high + n <= MaxEvent
        /\ high' = high + n
        /\ raw' = raw \union (high + 1 .. high + n)
        /\ \E order \in [high + 1 .. high + n -> new] :
             /\ \A e, f \in high + 1 .. high + n : order[e] = order[f] => e = f
             /\ copy' = [e \in Events |-> IF e \in high + 1 .. high + n THEN order[e]
                                        ELSE copy[e]]
  /\ Exit(p)
  /\ UNCHANGED <<queueVars, settings, account, wire, server, historyVars>>

\* The call fails, the binding changed, or a record conflicts with a fact.
RestoreFails(p) ==
  /\ procs[p].pc \in {"restore_fetch", "restore_apply"}
  /\ Exit(p)
  /\ UNCHANGED <<localVars, queueVars, settings, account, wire, server, historyVars>>

-----------------------------------------------------------------------------
(* delete --confirm: the cloud copy.                                       *)

DeleteStart(p) ==
  /\ "delete" \in MayRun[p]
  /\ server[account].gen > 0
  /\ Start(p, [Idle EXCEPT !.pc = "delete_call", !.token = account,
                           !.b = Current(account)])
  /\ UNCHANGED <<localVars, queueVars, settings, account, wire, server, historyVars>>

\* The settings are read after the answer: another account's are left alone.
DeleteCall(p) ==
  /\ procs[p].pc = "delete_call"
  /\ ServerDeletes(procs[p].token, procs[p].b)
  /\ IF settings.binding.account = procs[p].b.account
     THEN /\ Step(p, [procs[p] EXCEPT !.pc = "delete_pause", !.token = NoAccount,
                                      !.prior = settings.binding])
          /\ UNCHANGED lease
     ELSE Exit(p)
  /\ UNCHANGED <<localVars, queueVars, settings, account, wire, historyVars>>

DeleteCallFails(p) ==
  /\ procs[p].pc = "delete_call"
  /\ \/ ServerDeletes(procs[p].token, procs[p].b)
     \/ UNCHANGED server
  /\ Exit(p)
  /\ UNCHANGED <<localVars, queueVars, settings, account, wire, historyVars>>

DeletePause(p) ==
  /\ procs[p].pc = "delete_pause"
  /\ windows' = Closed(procs[p].b)
  /\ Goto(p, "delete_save")
  /\ UNCHANGED <<localVars, queued, acked, settings, lease, account, wire, server,
                 historyVars>>

DeleteSave(p) ==
  /\ procs[p].pc = "delete_save"
  /\ \/ settings' = [enabled |-> FALSE, binding |-> procs[p].prior]
     \/ "failsave" \in Mishaps /\ UNCHANGED settings
  /\ Exit(p)
  /\ UNCHANGED <<localVars, queueVars, account, wire, server, historyVars>>

-----------------------------------------------------------------------------
(* What else happens.                                                      *)

\* Backup is on under b for the user: the settings say so, or an enable
\* command is between opening the interval and saving.
BackingUp(b) ==
  \/ settings = [enabled |-> TRUE, binding |-> b]
  \/ \E p \in Procs : procs[p].b = b /\ procs[p].pc \in {"enable_save", "enable_undo"}

Record ==
  /\ high < MaxEvent
  /\ high' = high + 1
  /\ raw' = raw \union {high + 1}
  /\ consented' = consented \union
       {[b |-> b, id |-> high + 1] : b \in {c \in Bindings : BackingUp(c)}}
  /\ UNCHANGED <<copy, queueVars, settings, lease, account, procs, wire, server,
                 chosen, accepted, interrupted>>

\* `usage delete`: the queue rows go with the event.
UsageDelete(e) ==
  /\ "usagedelete" \in Mishaps
  /\ e \in raw
  /\ raw' = raw \ {e}
  /\ queued' = {q \in queued : q.id # Id(e)}
  /\ acked' = {q \in acked : q.id # Id(e)}
  /\ UNCHANGED <<high, copy, windows, settings, lease, account, procs, wire, server,
                 historyVars>>

SignIn(a) ==
  /\ "signin" \in Mishaps
  /\ a # account
  /\ account' = a
  /\ UNCHANGED <<localVars, queueVars, settings, lease, procs, wire, server,
                 historyVars>>

\* The process dies: no destructor runs and the lease row stays.
Crash(p) ==
  /\ "crash" \in Mishaps
  /\ procs[p].pc # "idle"
  /\ Step(p, Idle)
  /\ interrupted' = interrupted \union
       (IF procs[p].pc \in {"enable_save", "enable_undo"} THEN {procs[p].b} ELSE {})
  /\ UNCHANGED <<localVars, queueVars, settings, lease, account, wire, server,
                 consented, chosen, accepted>>

\* 40 s have passed since the lease was taken.  Commands bound their calls
\* below that, so its holder has died or has been suspended.
LeaseEnds ==
  /\ lease # None
  /\ lease' = None
  /\ IF Working(lease)
     THEN /\ "suspend" \in Mishaps
          /\ procs' = [procs EXCEPT ![lease].late = TRUE]
          /\ interrupted' = Bindings
     ELSE UNCHANGED <<procs, interrupted>>
  /\ UNCHANGED <<localVars, queueVars, settings, account, wire, server,
                 consented, chosen, accepted>>

-----------------------------------------------------------------------------
Init ==
  /\ high = 0 /\ raw = {} /\ copy = [e \in Events |-> 0]
  /\ windows = {} /\ queued = {} /\ acked = {}
  /\ settings = [enabled |-> FALSE, binding |-> NoBinding]
  /\ lease = None
  /\ account \in Accounts
  /\ procs = [p \in Procs |-> Idle]
  /\ wire = {}
  /\ server = [a \in Accounts |-> [gen |-> 0, enabled |-> FALSE, records |-> {}]]
  /\ consented = {} /\ chosen = {} /\ accepted = {}
  /\ interrupted = {}

Enabling(p) ==
  \/ EnableStart(p) \/ EnableStatus(p) \/ EnableCall(p) \/ EnableCallFails(p)
  \/ EnablePause(p) \/ EnableOpen(p) \/ EnableRefused(p)
  \/ EnableSave(p) \/ EnableSaveFails(p) \/ EnableUndo(p)

Disabling(p) == DisableStart(p) \/ DisablePause(p) \/ DisableSave(p)

Selecting(p) == HistoryStart(p) \/ HistoryPage(p) \/ HistoryEnd(p)

Draining(p) ==
  \/ DrainStart(p) \/ DrainLease(p) \/ DrainStatus(p) \/ DrainCapture(p)
  \/ DrainStops(p) \/ DrainSend(p) \/ DrainAnswer(p) \/ DrainFails(p)
  \/ DrainRefresh(p) \/ DrainAck(p)

Restoring(p) ==
  RestoreStart(p) \/ RestoreFetch(p) \/ RestoreApply(p) \/ RestoreFails(p)

Deleting(p) ==
  \/ DeleteStart(p) \/ DeleteCall(p) \/ DeleteCallFails(p)
  \/ DeletePause(p) \/ DeleteSave(p)

Next ==
  \/ \E p \in Procs : \/ Enabling(p) \/ Disabling(p) \/ Selecting(p)
                      \/ Draining(p) \/ Restoring(p) \/ Deleting(p) \/ Crash(p)
  \/ \E m \in wire : ServerIngests(m)
  \/ \E a \in Accounts : OtherHome(a) \/ SignIn(a)
  \/ \E e \in Events : UsageDelete(e)
  \/ Record \/ LeaseEnds

Spec == Init /\ [][Next]_vars

-----------------------------------------------------------------------------
(* Correctness.                                                            *)

Rows == [b : Bindings, id : Ids]
Windows == [b : Bindings, start : 0 .. MaxEvent, end : 0 .. Open, scan : 0 .. MaxEvent]
Processes == [pc : PCs, b : Bindings \union {NoBinding},
              prior : Bindings \union {NoBinding}, token : Accounts \union {NoAccount},
              keep : BOOLEAN, after : 0 .. MaxEvent, through : 0 .. MaxEvent,
              ids : SUBSET Ids, left : 0 .. MaxBatches, late : BOOLEAN]

\* The variables stay in their domains; rows belong to existing events.
TypeOK ==
  /\ high \in 0 .. MaxEvent
  /\ raw \subseteq 1 .. high
  /\ copy \in [Events -> 0 .. Foreign]
  /\ windows \subseteq Windows
  /\ queued \subseteq Rows /\ acked \subseteq queued
  /\ settings \in [enabled : BOOLEAN, binding : Bindings \union {NoBinding}]
  /\ lease \in Procs \union {None}
  /\ account \in Accounts
  /\ procs \in [Procs -> Processes]
  /\ wire \subseteq [b : Bindings, token : Accounts, ids : SUBSET Ids]
  /\ server \in [Accounts -> [gen : 0 .. MaxGen, enabled : BOOLEAN, records : SUBSET Ids]]
  /\ {consented, chosen, accepted} \subseteq SUBSET Rows
  /\ interrupted \subseteq Bindings

\* The intervals of a binding never overlap, at most one is open, and a cursor
\* stays inside its interval (the CHECKs of the table): whatever opens,
\* closes and advances them, in whatever order, no statement violates one.
WindowsWellFormed ==
  /\ \A w \in windows : w.start <= w.scan /\ w.scan <= Reach(w) /\ Reach(w) <= high
  /\ \A v, w \in windows :
       v.b = w.b /\ v # w => v.end <= w.start \/ w.end <= v.start

\* A cursor never passes an own event without selecting it: what the interval
\* covers and the cursor has passed is queued for the interval's binding, also
\* when a page was full, when intervals of other ages are scanned with it and
\* when events vanish between two pages.
CursorNeverSkips ==
  \A w \in windows, e \in raw :
    copy[e] = 0 /\ w.start < e /\ e <= w.scan => [b |-> w.b, id |-> e] \in queued

\* Only a selection the service accepted under the same account and generation
\* is marked acknowledged, whatever happened to the account, the generation or
\* the request while the pass waited.
AckHonest == acked \subseteq accepted

\* "Restored records are excluded from automatic upload and historical
\* selection": a selection always stands for an event recorded in this home,
\* also after the original was deleted here and imported again.
SelectionsAreOwn == \A q \in queued : q.id \in raw /\ copy[q.id] = 0

\* An identity exists once in the ledger, however often snapshots are imported
\* and events deleted: a restored fact is never counted twice.
IdentitiesUnique == \A e, f \in raw : Id(e) = Id(f) => e = f

\* A request never carries the credentials of an account other than the one
\* the selections were queued for, whenever the user signs in elsewhere.
SentWithOwnAccount == \A m \in wire : m.token = m.b.account

\* A command that has not outlived its lease is alone: no late or crashed
\* command, and no lease row left behind, lets a second one in beside it.
CommandsExclusive == \A p \in Procs : Working(p) /\ ~procs[p].late => lease = p

\* docs/usage-backup.md: "records collected during the pause require explicit
\* historical selection".  Everything queued was recorded while backup was on
\* under that binding, or chosen.
ConsentedOnly == queued \subseteq consented \union chosen

\* The exceptions to ConsentedOnly are the bindings whose enable died between
\* opening the interval and saving the settings, and commands that ran past
\* their lease: nothing else makes a pause leak.
LeaksNeedInterruption ==
  \A q \in queued : q \in consented \union chosen \/ q.b \in interrupted

-----------------------------------------------------------------------------
(* The copies the commands keep, without the commands.                     *)

Here == {Id(e) : e \in raw}
Own == {e \in raw : copy[e] = 0}
Recorded == {e \in 1 .. high : copy[e] = 0}
Agreed == consented \union chosen
Backing == {b \in Bindings : BackingUp(b)}

\* The bindings under which the service takes records, those it has revoked,
\* and what it keeps under the others.
Taking == {b \in Bindings : server[b.account].enabled /\ b = Current(b.account)}
Ended == {b \in Bindings : b.gen < server[b.account].gen}
Kept == UNION {{[b |-> Current(a), id |-> i] : i \in server[a].records} : a \in Accounts}

Copies == INSTANCE BackupCopies WITH
  Records <- Ids, Elsewhere <- {Foreign}, recorded <- Recorded, here <- Here,
  own <- Own, agreed <- Agreed, excused <- interrupted,
  backing <- Backing, user <- account, selected <- queued,
  confirmed <- acked, sent <- wire, taking <- Taking, ended <- Ended,
  copies <- Kept, taken <- accepted

\* Enabling, pauses, capture, the upload pass, history, restore and deletion,
\* with everything that interrupts them, are steps of BackupCopies: what is
\* sent was recorded here and agreed to, goes to its own account while backup
\* is on, and nothing comes back under a revoked generation.
BacksUp == Copies!CopiesSpec

=============================================================================
