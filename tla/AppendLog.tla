----------------------------- MODULE AppendLog -----------------------------
(***************************************************************************)
(* What the unified log promises to whoever reads it, at any moment and    *)
(* also when the writing process has just died: of each stream a prefix of *)
(* what was logged, which never gets shorter while the process lives, and  *)
(* all of it once the log is closed.                                       *)
(***************************************************************************)
EXTENDS Naturals

CONSTANT Stream

VARIABLES
  logged,       \* stream -> how many entries log() took
  recoverable,  \* stream -> how many of them, from the first, can be read
  closed

al_vars == <<logged, recoverable, closed>>

ALInit ==
  /\ logged = [s \in Stream |-> 0]
  /\ recoverable = [s \in Stream |-> 0]
  /\ closed = FALSE

Log == \E s \in Stream : logged' = [logged EXCEPT ![s] = @ + 1]

\* What can be read back grows, as sections are closed and slabs trimmed.
Write ==
  LET before == recoverable
      after == recoverable'
  IN  /\ ~closed
      /\ Log \/ UNCHANGED logged
      /\ after \in [Stream -> Nat]
      /\ \A s \in Stream : before[s] <= after[s] /\ after[s] <= logged'[s]
      /\ closed' \in BOOLEAN
      /\ closed' => after = logged'

\* Another run of the program starts its log anew.
Restart ==
  /\ logged' = [s \in Stream |-> 0]
  /\ closed' = FALSE
  /\ recoverable' = [s \in Stream |-> 0]

ALSpec == ALInit /\ [][Write \/ Restart]_al_vars
=============================================================================
