---------------------------- MODULE ProcessStates ----------------------------
(***************************************************************************)
(* The process state machine of the kernel: the nine states of             *)
(* process_table.ts, the legal transitions between them, and the paths on  *)
(* which exit() and SIGKILL walk a process to ZOMBIE.  Two values stand    *)
(* outside the table: "unborn" is a PID that was not yet allocated, "gone" *)
(* one whose entry was deleted by reap().  PIDs are never reused.          *)
(***************************************************************************)
EXTENDS Sequences

States == {"new", "ready", "running", "blocked", "stopped", "checkpointing",
           "suspended", "exiting", "zombie"}

Absent == {"unborn", "gone"}

LegalTransitions ==
  { <<"new", "ready">>, <<"ready", "running">>,
    <<"running", "ready">>, <<"running", "blocked">>, <<"blocked", "ready">>,
    <<"running", "stopped">>, <<"stopped", "ready">>,
    <<"running", "checkpointing">>, <<"blocked", "checkpointing">>,
    <<"checkpointing", "running">>, <<"checkpointing", "ready">>,
    <<"checkpointing", "suspended">>,
    <<"running", "exiting">>, <<"blocked", "exiting">>, <<"stopped", "exiting">>,
    <<"exiting", "zombie">> }

\* setState() succeeds: a transition of the table, or the no-op to the same state.
Allowed(from, to) == from = to \/ <<from, to>> \in LegalTransitions

\* "any" of docs/ABI.md: the states in which exit() is admitted.
Live == States \ {"zombie"}

\* States in which the scheduler drops a run-queue node.
NonQueueable == {"running", "blocked", "stopped", "checkpointing", "suspended",
                 "exiting", "zombie"}

\* SIGKILL applies: killPathFrom() is null in the three other states.
Killable == States \ {"exiting", "zombie", "suspended"}

\* Mutant: the walk of SIGKILL forgets RUNNING.
BugKillPath(s) ==
  CASE s \in {"running", "blocked", "stopped"} -> <<"exiting", "zombie">>
    [] s = "ready" -> <<"exiting", "zombie">>
    [] s \in {"new", "checkpointing"} -> <<"ready", "exiting", "zombie">>

KillPath(s) ==
  CASE s \in {"running", "blocked", "stopped"} -> <<"exiting", "zombie">>
    [] s = "ready" -> <<"running", "exiting", "zombie">>
    [] s \in {"new", "checkpointing"} -> <<"ready", "running", "exiting", "zombie">>

\* exit() may walk from here: walkToExiting() traps EINVAL in the others.
Exitable == {"new", "ready", "running", "blocked", "stopped", "exiting"}

\* Mutant: the walk of exit() forgets EXITING.
BugExitPath(s) == <<"zombie">>

\* The walk of walkToExiting() followed by the transition of #exit to ZOMBIE.
ExitPath(s) ==
  CASE s \in {"running", "blocked", "stopped"} -> <<"exiting", "zombie">>
    [] s = "ready" -> <<"running", "exiting", "zombie">>
    [] s = "new" -> <<"ready", "running", "exiting", "zombie">>
    [] s = "exiting" -> <<"zombie">>
=============================================================================
