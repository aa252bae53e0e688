-------------------------- MODULE ElismTerminating --------------------------
(***************************************************************************)
(* Elism for programs that terminate: a program has at most MaxStatements  *)
(* statements to run, after which all that is left are the ends of the     *)
(* scopes it is in.  Under weak fairness - a process that can take a step  *)
(* takes one - such a program gives back every region.                     *)
(***************************************************************************)
EXTENDS Elism

CONSTANT MaxStatements  \* bound: statements on the path of a program

VARIABLE left           \* how many of them are still to come

ASSUME StatementAssumption == MaxStatements \in Nat

TerminatingInit == Init /\ left = MaxStatements

OneStatement == Running /\ left > 0 /\ left' = left - 1 /\ Statement

TerminatingNext ==
  \/ (\E h \in Handle : Start(h)) /\ UNCHANGED left
  \/ OneStatement
  \/ Running /\ Leave /\ UNCHANGED left
  \/ Over /\ UNCHANGED left

TerminatingSpec ==
  /\ TerminatingInit
  /\ [][TerminatingNext]_<<vars, left>>
  /\ WF_<<vars, left>>(TerminatingNext)

Refused == outcome \in {"rejected", "aborted", "undefined"}

\* A program that is not refused ends, with no region and no object left: the
\* ends of its scopes are always reached, and each deletes what is its own.
EndsEmpty == <>(Refused \/ (outcome = "done" /\ live = {} /\ \A o \in Obj : ~Allocated(o)))
=============================================================================
