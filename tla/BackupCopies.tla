---------------------------- MODULE BackupCopies ----------------------------
(***************************************************************************)
(* What the hosted backup promises of the records it copies, with no       *)
(* commands, intervals, cursors or leases: a record is selected for a      *)
(* binding only if it was recorded here and the user agreed, it leaves     *)
(* only while backup is on under that binding and with that account's      *)
(* credentials, the service keeps it only while it takes records under     *)
(* the binding, and it is confirmed only once the service has had it.      *)
(* A revoked binding never has copies again, and what is imported was      *)
(* backed up, is not here yet and is never selected.                       *)
(***************************************************************************)
CONSTANTS
  Accounts,
  Bindings,   \* each with the account it belongs to
  Records,
  Elsewhere   \* records of another home

VARIABLES
  recorded,   \* records ever made here
  here,       \* records in the ledger
  own,        \*   ... made here, and not imported since
  agreed,     \* [b, id]: recorded while backup was on under b, or chosen
  excused,    \* bindings whose consent an interrupted command changed
  backing,    \* bindings under which backup is on
  user,       \* the account that is signed in
  selected,   \* [b, id] to be sent
  confirmed,  \*   ... known to have been taken
  sent,       \* requests on their way
  taking,     \* bindings under which the service takes records
  ended,      \* bindings that the service has revoked
  copies,     \* [b, id] that the service keeps
  taken       \* [b, id] that it ever took from this home

ledger == <<recorded, here, own>>
consent == <<agreed, excused, backing, user>>
queue == <<selected, confirmed>>
service == <<taking, ended, copies>>
cvars == <<ledger, consent, queue, sent, service, taken>>

Under(b, ids) == {[b |-> b, id |-> i] : i \in ids}

CopiesInit ==
  /\ recorded = {} /\ here = {} /\ own = {}
  /\ agreed = {} /\ excused = {} /\ backing = {} /\ user \in Accounts
  /\ selected = {} /\ confirmed = {} /\ sent = {}
  /\ taking = {} /\ ended = {} /\ copies = {} /\ taken = {}

\* What is recorded is agreed for the bindings under which backup is on.
RecordOne ==
  /\ \E i \in Records \ (recorded \union here \union Elsewhere) :
       /\ recorded' = recorded \union {i}
       /\ here' = here \union {i}
       /\ own' = own \union {i}
       /\ agreed' = agreed \union {[b |-> b, id |-> i] : b \in backing}
  /\ UNCHANGED <<excused, backing, user, queue, sent, service, taken>>

\* Backup is turned on or off, or a command that does is interrupted.
ChangeConsent ==
  /\ backing' \in SUBSET Bindings
  /\ excused \subseteq excused' /\ excused' \subseteq Bindings
  /\ UNCHANGED <<ledger, agreed, user, queue, sent, service, taken>>

SwitchUser ==
  /\ user' \in Accounts
  /\ UNCHANGED <<ledger, agreed, excused, backing, queue, sent, service, taken>>

\* The user chooses records of the past.
ChoosePast ==
  /\ \E b \in Bindings, ids \in SUBSET own :
       /\ agreed' = agreed \union Under(b, ids)
       /\ selected' = selected \union Under(b, ids)
  /\ UNCHANGED <<ledger, excused, backing, user, confirmed, sent, service, taken>>

SelectAgreed ==
  /\ \E b \in backing, ids \in SUBSET own :
       /\ b \in excused \/ Under(b, ids) \subseteq agreed
       /\ selected' = selected \union Under(b, ids)
  /\ UNCHANGED <<ledger, consent, confirmed, sent, service, taken>>

SendSome ==
  /\ \E b \in backing, ids \in (SUBSET own) \ {{}} :
       /\ b.account = user
       /\ Under(b, ids) \subseteq selected \ confirmed
       /\ sent' = sent \union {[b |-> b, token |-> user, ids |-> ids]}
  /\ UNCHANGED <<ledger, consent, queue, service, taken>>

LoseOne ==
  /\ \E m \in sent : sent' = sent \ {m}
  /\ UNCHANGED <<ledger, consent, queue, service, taken>>

\* The service takes a request, unless consent or the binding has changed.
TakeOne ==
  /\ \E m \in sent :
       /\ m.b \in taking
       /\ sent' = sent \ {m}
       /\ copies' = copies \union Under(m.b, m.ids)
       /\ taken' = taken \union Under(m.b, m.ids)
  /\ UNCHANGED <<ledger, consent, queue, taking, ended>>

ConfirmTaken ==
  /\ \E rows \in SUBSET (selected \intersect taken) :
       confirmed' = confirmed \union rows
  /\ UNCHANGED <<ledger, consent, selected, sent, service, taken>>

\* Copies of this home or of another one come back, never as own records.
ImportSome ==
  /\ \E ids \in SUBSET (({r.id : r \in taken} \union Elsewhere) \ here) :
       here' = here \union ids
  /\ UNCHANGED <<recorded, own, consent, queue, sent, service, taken>>

ForgetOne ==
  /\ \E i \in here :
       /\ here' = here \ {i}
       /\ own' = own \ {i}
       /\ selected' = {r \in selected : r.id # i}
       /\ confirmed' = {r \in confirmed : r.id # i}
  /\ UNCHANGED <<recorded, consent, sent, service, taken>>

\* The account turns its backup on, here or in another home.
Grant ==
  /\ \E b \in Bindings \ ended :
       /\ \A c \in taking : c.account = b.account => c = b
       /\ taking' = taking \union {b}
  /\ UNCHANGED <<ledger, consent, queue, sent, ended, copies, taken>>

\* The account deletes its backup.
Revoke ==
  /\ \E b \in Bindings \ ended :
       /\ taking' = taking \ {b}
       /\ ended' = ended \union {b}
       /\ copies' = {r \in copies : r.b # b}
  /\ UNCHANGED <<ledger, consent, queue, sent, taken>>

OtherCopies ==
  /\ \E b \in taking : copies' = copies \union Under(b, Elsewhere)
  /\ UNCHANGED <<ledger, consent, queue, sent, taking, ended, taken>>

CopiesNext ==
  \/ ChangeConsent \/ RecordOne \/ SwitchUser \/ ChoosePast
  \/ SelectAgreed \/ SendSome \/ LoseOne \/ TakeOne \/ ConfirmTaken
  \/ ImportSome \/ ForgetOne \/ Grant \/ Revoke \/ OtherCopies

CopiesSpec == CopiesInit /\ [][CopiesNext]_cvars

=============================================================================
