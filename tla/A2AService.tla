------------------------------- MODULE A2AService -------------------------------
(***************************************************************************)
(* The A2A service of the server: the router keeps the tasks in memory,    *)
(* a row of each is written to a2a_tasks afterwards.  Through the service  *)
(* a task is only ever created and cancelled.  The row's insert and update *)
(* may fail (the entity has columns without a value in createTask), may    *)
(* land late, and outlive the server; a restart loses the router.          *)
(***************************************************************************)
EXTENDS Integers, Maps

CONSTANT TaskId   \* the ids the router draws

VARIABLES
  router,      \* the router's tasks: task -> status
  taskRows,    \* the table a2a_tasks: task -> status
  saving,      \* the tasks whose insert the database has not handled yet
  cancelling,  \* the tasks whose update to 'canceled' it has not handled yet
  replies,     \* history: task -> what its createTask call answered
  missed       \* history: tasks whose update failed or found no row

a2aServiceVars == <<router, taskRows, saving, cancelling, replies, missed>>

A2ATaskStatus == {"submitted", "canceled"}

A2AServiceTypeOK ==
  /\ DOMAIN router \cup DOMAIN taskRows \cup saving \cup cancelling \subseteq DOMAIN replies
  /\ router \in [DOMAIN router -> A2ATaskStatus]
  /\ taskRows \in [DOMAIN taskRows -> A2ATaskStatus]
  /\ DOMAIN replies \subseteq TaskId
  /\ replies \in [DOMAIN replies -> {"pending", "task", "error", "lost"}]
  /\ missed \subseteq TaskId

A2AServiceInit ==
  /\ router = emptyMap /\ taskRows = emptyMap /\ replies = emptyMap
  /\ saving = {} /\ cancelling = {} /\ missed = {}
-----------------------------------------------------------------------------
\* Mutant of getTask: the table is asked first.
getTask_RowFirst(t) ==
  IF t \in DOMAIN taskRows THEN taskRows[t]
  ELSE IF t \in DOMAIN router THEN router[t] ELSE "not found"

\* getTask asks the router first and the table when the router has no such task.
getTask(t) ==
  IF t \in DOMAIN router THEN router[t]
  ELSE IF t \in DOMAIN taskRows THEN taskRows[t] ELSE "not found"

\* The error a call of handleJsonRpcRequest that the router did not refuse to make a
\* task for is answered with, 0 if none; stored: the database did its part of it.  Only
\* getTask's NotFoundException has a code of its own, all else is a plain error; a list
\* is the router's alone.
errorCode(method, t, stored) ==
  CASE method = "tasks/send" -> IF stored THEN 0 ELSE -32603
    [] method = "tasks/get" -> IF t \in DOMAIN router THEN 0
                               ELSE IF ~stored THEN -32603
                               ELSE IF getTask(t) = "not found" THEN -32003 ELSE 0
    [] method = "tasks/cancel" -> IF t \in DOMAIN router /\ stored THEN 0 ELSE -32603
    [] method = "tasks/list" -> 0
    [] OTHER -> -32601

\* The router has the task, and lists it, before the insert is sent.
createTask(t) ==
  /\ t \notin DOMAIN replies
  /\ router' = put(router, t, "submitted")
  /\ saving' = saving \cup {t}
  /\ replies' = put(replies, t, "pending")
  /\ UNCHANGED <<taskRows, cancelling, missed>>

answerCreate(t, stored) ==
  LET answer == IF errorCode("tasks/send", t, stored) = 0 THEN "task" ELSE "error" IN
    replies' = [replies EXCEPT ![t] = IF @ = "pending" THEN answer ELSE @]

InsertLands(t) ==
  /\ t \in saving
  /\ taskRows' = put(taskRows, t, "submitted")
  /\ saving' = saving \ {t}
  /\ answerCreate(t, TRUE)
  /\ UNCHANGED <<router, cancelling, missed>>

\* The caller gets an error; the router keeps the task.
InsertFails(t) ==
  /\ t \in saving
  /\ saving' = saving \ {t}
  /\ answerCreate(t, FALSE)
  /\ UNCHANGED <<router, taskRows, cancelling, missed>>

\* The router accepts the cancel of a cancelled task as well.
cancelTask(t) ==
  /\ errorCode("tasks/cancel", t, TRUE) = 0
  /\ router' = [router EXCEPT ![t] = "canceled"]
  /\ cancelling' = cancelling \cup {t}
  /\ UNCHANGED <<taskRows, saving, replies, missed>>

\* An update that matches no row is no error.
UpdateLands(t) ==
  /\ t \in cancelling
  /\ cancelling' = cancelling \ {t}
  /\ IF t \in DOMAIN taskRows
     THEN taskRows' = [taskRows EXCEPT ![t] = "canceled"] /\ UNCHANGED missed
     ELSE missed' = missed \cup {t} /\ UNCHANGED taskRows
  /\ UNCHANGED <<router, saving, replies>>

UpdateFails(t) ==
  /\ t \in cancelling
  /\ cancelling' = cancelling \ {t}
  /\ missed' = missed \cup {t}
  /\ UNCHANGED <<router, taskRows, saving, replies>>

\* The server stops and starts: nothing is read back from the table.  What it had
\* sent to the database is still handled there.
RestartRouter ==
  /\ router # emptyMap
  /\ router' = emptyMap
  /\ replies' = [t \in DOMAIN replies |-> IF replies[t] = "pending" THEN "lost" ELSE replies[t]]
  /\ UNCHANGED <<taskRows, saving, cancelling, missed>>

A2AServiceNext ==
  \/ \E t \in TaskId : createTask(t) \/ cancelTask(t)
  \/ \E t \in saving : InsertLands(t) \/ InsertFails(t)
  \/ \E t \in cancelling : UpdateLands(t) \/ UpdateFails(t)
  \/ RestartRouter

A2AServiceSpec == A2AServiceInit /\ [][A2AServiceNext]_a2aServiceVars
-----------------------------------------------------------------------------
\* A step in which a task's answer falls back.
fallsBack(t) ==
  /\ getTask(t) # "not found" /\ getTask(t)' # getTask(t)
  /\ getTask(t)' # "canceled"

\* What getTask answers of a task goes from submitted to canceled and stays, in any
\* order of inserts, updates and failures; only a restart takes an answer back: a
\* cancelled task is submitted again if the update is not in yet, failed or came
\* before the insert, and only a task whose creation was never confirmed disappears
\* (createTask and cancelTask change the router first and the table after).
AnswersStand ==
  [][\A t \in TaskId : fallsBack(t) =>
       /\ RestartRouter
       /\ getTask(t)' = "not found" => replies[t] # "task"
       /\ getTask(t)' = "submitted" => t \in cancelling \cup missed]_a2aServiceVars
=============================================================================
