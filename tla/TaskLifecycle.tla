----------------------------- MODULE TaskLifecycle -----------------------------
(***************************************************************************)
(* The task state machine of packages/a2a-router: pure operators on a task *)
(* record, as class TaskLifecycle computes them, and the transition table  *)
(* of packages/shared.  A task is a record with the fields                 *)
(*   status     its TaskStatus                                             *)
(*   history    the statuses it went through, oldest first                 *)
(*   artifacts  how many artifacts it holds                                *)
(* and whatever else its user keeps in it.  Timestamps, status messages    *)
(* and the text of errors are left out.                                    *)
(***************************************************************************)
EXTENDS Naturals, Sequences

TaskStatus ==
  {"submitted", "working", "completed", "failed", "canceled", "input_required"}

VALID_TRANSITIONS ==
  [ submitted      |-> {"working", "canceled", "failed"},
    working        |-> {"completed", "failed", "canceled", "input_required"},
    input_required |-> {"working", "canceled"},
    completed      |-> {},
    failed         |-> {},
    canceled       |-> {} ]

isTerminalStatus(status) == status \in {"completed", "failed", "canceled"}

\* Mutant of acceptsTransition: a task may be cancelled whatever its status.
acceptsTransition_AnyCancel(task, newStatus) ==
  \/ newStatus \in {task.status, "canceled"}
  \/ newStatus \in VALID_TRANSITIONS[task.status]

\* Mutant of transitioned: the no-op is recorded in the history too.
transitioned_NoopRecorded(task, newStatus) ==
  [task EXCEPT !.status = newStatus, !.history = Append(@, newStatus)]

(***************************************************************************)
(* transitionTask succeeds on the table's moves and, as a no-op, on the    *)
(* status the task already has, terminal statuses included.                *)
(***************************************************************************)
acceptsTransition(task, newStatus) ==
  newStatus = task.status \/ newStatus \in VALID_TRANSITIONS[task.status]

transitioned(task, newStatus) ==
  IF newStatus = task.status
  THEN task
  ELSE [task EXCEPT !.status = newStatus, !.history = Append(@, newStatus)]

(***************************************************************************)
(* The history a task may show: it starts submitted, follows the table     *)
(* and ends in the task's status.                                          *)
(***************************************************************************)
legalHistory(task) ==
  /\ Len(task.history) > 0
  /\ task.history[1] = "submitted"
  /\ task.history[Len(task.history)] = task.status
  /\ \A i \in 1 .. Len(task.history) - 1 :
       task.history[i + 1] \in VALID_TRANSITIONS[task.history[i]]
=============================================================================
