----------------------------- MODULE Transcript -----------------------------
(***************************************************************************)
(* What a turn's transcript promises, with no channel, relay or statement  *)
(* in sight.                                                               *)
(*                                                                         *)
(* A client watches an answer grow piece by piece while a copy of it is    *)
(* kept, for those who load the conversation later.  The copy never shows  *)
(* what was not shown, never falls back, and is never more than Window     *)
(* pieces behind; when the turn is closed it is complete.  A turn that is  *)
(* cut (the server dies) leaves the copy as it was.                        *)
(*                                                                         *)
(* StreamRelay is shown to implement this specification.                   *)
(***************************************************************************)
EXTENDS Naturals

CONSTANT Window    \* how many pieces the copy may be behind

VARIABLES
  shown,           \* pieces the client was shown
  kept,            \* pieces in the copy
  blank,           \* the answer has nothing in it for a reader
  spoilt,          \* a statement failed, or the conversation is gone
  state            \* open, closed or cut

vars == <<shown, kept, blank, spoilt, state>>

Init ==
  /\ shown = 0 /\ kept = 0 /\ blank = FALSE /\ spoilt = FALSE
  /\ state = "open"

\* One more piece, unless the copy is too far behind.
Show ==
  /\ state = "open" /\ (spoilt \/ shown < kept + Window)
  /\ shown' = shown + 1
  /\ UNCHANGED <<kept, blank, spoilt, state>>

\* The copy catches up.
Keep ==
  /\ state = "open"
  /\ kept' \in kept .. shown
  /\ UNCHANGED <<shown, blank, spoilt, state>>

\* The whole answer turns out to be blank.
Judge ==
  /\ state = "open" /\ blank' = TRUE
  /\ UNCHANGED <<shown, kept, spoilt, state>>

\* The end: of a blank answer nothing need be kept.
Close ==
  /\ state = "open" /\ state' = "closed"
  /\ kept' = shown \/ (blank /\ kept = 0 /\ kept' = 0)
  /\ UNCHANGED <<shown, blank, spoilt>>

Cut ==
  /\ state = "open" /\ state' = "cut"
  /\ UNCHANGED <<shown, kept, blank, spoilt>>

\* From then on nothing is promised of the copy but that it was shown.
Spoil ==
  /\ spoilt' = TRUE /\ kept' \in 0 .. shown
  /\ state' = state \/ (state = "open" /\ state' = "closed")
  /\ UNCHANGED <<shown, blank>>

Next == Show \/ Keep \/ Judge \/ Close \/ Cut \/ Spoil

Spec == Init /\ [][Next]_vars

=============================================================================
