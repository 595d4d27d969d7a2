---------------------------- MODULE TeamMailbox ----------------------------
(***************************************************************************)
(* What the team mailbox promises, with no loop, task or session in sight. *)
(*                                                                         *)
(* A row is written once, is handed to its agent in one or more turns, and *)
(* is marked read.  A row is never lost, never changes, and is never       *)
(* marked read before some turn has carried it.  Nothing promises that it  *)
(* is handed over only once, nor that it is ever read.                     *)
(*                                                                         *)
(* TeamLoop (the event loops, the scheduler and the sessions around them)  *)
(* is shown to implement this specification.                               *)
(***************************************************************************)

CONSTANT Row       \* every row a mailbox may hold

VARIABLES
  mail,            \* the rows written so far
  handed,          \* the rows some turn has carried
  read             \* the rows marked read

vars == <<mail, handed, read>>

Init ==
  /\ mail = {}
  /\ handed = {}
  /\ read = {}

\* Mailbox::write_with_files inserts one unread row.
Write ==
  /\ \E m \in mail' \ mail : m \in Row /\ mail' = mail \cup {m}
  /\ UNCHANGED <<handed, read>>

\* A turn carries some of the rows to their agent.
Hand ==
  /\ handed \subseteq handed' /\ handed' \subseteq mail
  /\ UNCHANGED <<mail, read>>

\* Mailbox::mark_read_batch on rows a turn has carried.
MarkRead ==
  /\ read \subseteq read' /\ read' \subseteq handed
  /\ UNCHANGED <<mail, handed>>

Next == Write \/ Hand \/ MarkRead

Spec == Init /\ [][Next]_vars

=============================================================================
