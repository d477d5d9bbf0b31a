---------------------------- MODULE AtomicReplace ----------------------------
(***************************************************************************)
(* What the guidance transaction promises: the managed files of a project  *)
(* change from one complete set to another in a single step or not at all. *)
(* While a replacement is pending a reader may find anything; a reader who *)
(* finds nothing pending finds exactly the current set.                    *)
(***************************************************************************)
CONSTANTS Items,     \* the bundle and the files beside it
          Contents   \* what one of them may hold

VARIABLES
  current,   \* the set that a reader finds, or that a recovery will leave
  pending,   \* a replacement has begun and is not cleaned up
  target     \* the set that it installs; the current one when none is pending

avars == <<current, pending, target>>

AtomicInit ==
  /\ current \in [Items -> Contents]
  /\ pending = FALSE
  /\ target = current

Begin ==
  /\ ~pending
  /\ pending' = TRUE
  /\ target' \in [Items -> Contents]
  /\ UNCHANGED current

\* The one step at which every item of the set changes.
Commit ==
  /\ pending
  /\ current' = target
  /\ UNCHANGED <<pending, target>>

\* Whatever was not committed is given up.
End ==
  /\ pending
  /\ pending' = FALSE
  /\ target' = current
  /\ UNCHANGED current

AtomicNext == Begin \/ Commit \/ End

AtomicSpec == AtomicInit /\ [][AtomicNext]_avars

=============================================================================
