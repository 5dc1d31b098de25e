--------------------------- MODULE OrderedCommit ---------------------------
(***************************************************************************)
(* What the execution of CopperLists promises to whoever reads the log,    *)
(* however many threads compute them: ids are handed out one by one, and   *)
(* the log is the sequence of all ids from 0, in order and without a gap.  *)
(* It may stop short of the ids handed out when the run fails.             *)
(***************************************************************************)
EXTENDS Naturals, Sequences

VARIABLES
  launched,  \* the number of CopperLists handed out so far
  log        \* the ids written to the log, oldest first

ocVars == <<launched, log>>

OCTypeOK == launched \in Nat /\ log \in Seq(Nat)

OCInit == launched = 0 /\ log = <<>>

HandOut ==
  /\ launched' = launched + 1
  /\ UNCHANGED log

\* The next id of the log is its length: the ids start at 0.
WriteNext ==
  /\ Len(log) < launched
  /\ log' = Append(log, Len(log))
  /\ UNCHANGED launched

OCNext == HandOut \/ WriteNext

OCSpec == OCInit /\ [][OCNext]_ocVars
=============================================================================
