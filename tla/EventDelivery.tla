---------------------------- MODULE EventDelivery ----------------------------
(***************************************************************************)
(* What cloud sync promises of the events it delivers, with no batches,    *)
(* jobs, leases or attempts: an event is sent only while consent is given, *)
(* only if it is allowed, kept and not confirmed; it is confirmed only     *)
(* once the service stores it, while consent is given and while it is      *)
(* kept; and what was dropped never comes back.  Requests may be lost, be  *)
(* late and arrive more than once.                                         *)
(***************************************************************************)
CONSTANT Events

VARIABLES
  given,      \* consent is given and not called in question by a clear
  recorded,   \* events ever recorded
  kept,       \* events that may still be delivered, or were
  allowed,    \* events the user agreed to send
  sent,       \* messages, each a set of events, on their way to the service
  stored,     \* events that the service has indexed
  confirmed   \* kept events that are known to be stored

dvars == <<given, recorded, kept, allowed, sent, stored, confirmed>>

DeliveryInit ==
  /\ given = FALSE
  /\ recorded = {} /\ kept = {} /\ allowed = {}
  /\ sent = {} /\ stored = {} /\ confirmed = {}

\* A new event may be sent if it is recorded under consent.
RecordEvent ==
  \E e \in Events \ recorded :
    /\ recorded' = recorded \union {e}
    /\ kept' = kept \union {e}
    /\ allowed' = allowed \union (IF given THEN {e} ELSE {})
    /\ UNCHANGED <<given, sent, stored, confirmed>>

ChangeConsent ==
  /\ given' = ~given
  /\ UNCHANGED <<recorded, kept, allowed, sent, stored, confirmed>>

\* The user also selects events of the past.
AllowPast ==
  /\ given
  /\ \E S \in SUBSET (kept \ confirmed) : allowed' = allowed \union S
  /\ UNCHANGED <<given, recorded, kept, sent, stored, confirmed>>

Send ==
  /\ given
  /\ \E S \in SUBSET ((kept \intersect allowed) \ confirmed) : sent' = sent \union {S}
  /\ UNCHANGED <<given, recorded, kept, allowed, stored, confirmed>>

\* The same message may be on its way more than once.
Store ==
  \E S \in sent :
    /\ stored' = stored \union S
    /\ sent' \in {sent, sent \ {S}}
    /\ UNCHANGED <<given, recorded, kept, allowed, confirmed>>

Confirm ==
  /\ given
  /\ \E S \in SUBSET ((kept \intersect stored) \ confirmed) :
       confirmed' = confirmed \union S
  /\ UNCHANGED <<given, recorded, kept, allowed, sent, stored>>

\* Expiry or deletion, of confirmed events too.
Drop ==
  \E S \in SUBSET kept :
    /\ kept' = kept \ S
    /\ confirmed' = confirmed \ S
    /\ UNCHANGED <<given, recorded, allowed, sent, stored>>

DeliveryNext ==
  \/ RecordEvent \/ ChangeConsent \/ AllowPast
  \/ Send \/ Store \/ Confirm \/ Drop

DeliverySpec == DeliveryInit /\ [][DeliveryNext]_dvars

=============================================================================
