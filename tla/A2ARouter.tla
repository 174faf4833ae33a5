------------------------------- MODULE A2ARouter -------------------------------
(***************************************************************************)
(* A2ARouterService (packages/a2a-router): the in-memory router that       *)
(* creates tasks for agents, delegates them, moves them through their      *)
(* lifecycle and counts, per agent, the tasks that hold one of its slots.  *)
(*                                                                         *)
(* The router runs on Node's single thread, so a method is one step up to  *)
(* its first await.  Only delegateTask awaits: its first half creates the  *)
(* new task, its second half, which may run after any other method, writes *)
(* the link to it into the original task.                                  *)
(***************************************************************************)
EXTENDS TaskLifecycle, FiniteSets

CONSTANTS
  Task,              \* the task ids crypto.randomUUID may return
  Agent,             \* the named agents
  NoAgent,           \* the missing agent id of a tasks/send without one
  User,              \* the callers that are not agents
  Text,              \* any message that is not a delegation link
  maxTasksPerAgent,  \* config.maxTasksPerAgent
  MAX_ARTIFACTS_PER_TASK,
  MaxHistory,        \* bound: a task's history, except for a closing status
  MaxMessages,       \* bound: addTaskMessage stops at this many messages
  MaxOverReleases    \* bound: repeated closings that free a slot, per agent

AgentId == Agent \cup {NoAgent}
Creator == AgentId \cup User
Message == Task \cup {Text}    \* a task id stands for "Delegated task ID: <id>"

ASSUME RouterAssumption ==
  /\ NoAgent \notin Agent
  /\ Text \notin Task
  /\ maxTasksPerAgent \in Nat \ {0}
  /\ MAX_ARTIFACTS_PER_TASK \in Nat
  /\ MaxHistory \in Nat
  /\ MaxMessages \in Nat
  /\ MaxOverReleases \in Nat

VARIABLES
  tasks,            \* the tasks Map: a function from the ids in use to tasks
  agentTaskCounts,  \* the agentTaskCounts Map, 0 where it has no entry
  delegations,      \* delegateTask calls between their two halves
  overReleased      \* history: slots freed for an agent by closing a task again

vars == <<tasks, agentTaskCounts, delegations, overReleased>>

TaskRecord ==
  [ status : TaskStatus, history : Seq(TaskStatus), messages : Seq(Message),
    artifacts : Nat, assignedAgentId : AgentId, createdBy : Creator ]

Delegation == [original : Task, created : Task]

TypeOK ==
  /\ DOMAIN tasks \subseteq Task
  /\ tasks \in [DOMAIN tasks -> TaskRecord]
  /\ agentTaskCounts \in [AgentId -> Nat]
  /\ delegations \subseteq Delegation
  /\ overReleased \in [AgentId -> Nat]

Init ==
  /\ tasks = [t \in {} |-> {}]
  /\ agentTaskCounts = [a \in AgentId |-> 0]
  /\ delegations = {}
  /\ overReleased = [a \in AgentId |-> 0]
-----------------------------------------------------------------------------
newTask(a, creator) ==
  [ status |-> "submitted", history |-> <<"submitted">>, messages |-> <<Text>>,
    artifacts |-> 0, assignedAgentId |-> a, createdBy |-> creator ]

\* Mutant of hasSlot: off by one.
hasSlot_OneMore(a) == agentTaskCounts[a] <= maxTasksPerAgent

hasSlot(a) == agentTaskCounts[a] < maxTasksPerAgent

\* The body of createTask: it throws when the agent has no slot left.
addTask(t, a, creator) ==
  /\ hasSlot(a)
  /\ t \notin DOMAIN tasks
  /\ tasks' = [x \in DOMAIN tasks \cup {t} |->
                 IF x = t THEN newTask(a, creator) ELSE tasks[x]]
  /\ agentTaskCounts' = [agentTaskCounts EXCEPT ![a] = @ + 1]
  /\ UNCHANGED overReleased

CreateTask(t, a, creator) ==
  /\ addTask(t, a, creator)
  /\ UNCHANGED delegations

\* delegateTask up to its await.  A call for an unknown task, or to an agent
\* without a slot, throws and changes nothing.
DelegateTask(t, target, d) ==
  /\ t \in DOMAIN tasks
  /\ LET original == tasks[t] IN
       addTask(d, target, IF original.assignedAgentId # NoAgent
                          THEN original.assignedAgentId
                          ELSE original.createdBy)
  /\ delegations' = delegations \cup {[original |-> t, created |-> d]}

\* Mutant of LinkDelegation: a task that was closed meanwhile gets no link.
LinkDelegation_OpenOnly(p) ==
  /\ p \in delegations
  /\ tasks' = IF isTerminalStatus(tasks[p.original].status)
              THEN tasks
              ELSE [tasks EXCEPT ![p.original].messages = Append(@, p.created)]
  /\ delegations' = delegations \ {p}
  /\ UNCHANGED <<agentTaskCounts, overReleased>>

\* delegateTask after its await.  The task object it captured may have been
\* replaced meanwhile, but every replacement shares the messages array.
LinkDelegation(p) ==
  /\ p \in delegations
  /\ tasks' = [tasks EXCEPT ![p.original].messages = Append(@, p.created)]
  /\ delegations' = delegations \ {p}
  /\ UNCHANGED <<agentTaskCounts, overReleased>>

\* Mutant of releaseSlot: without the Math.max(0, ...).
releaseSlot_Unclamped(a, again) ==
  IF a = NoAgent
  THEN UNCHANGED <<agentTaskCounts, overReleased>>
  ELSE /\ agentTaskCounts' = [agentTaskCounts EXCEPT ![a] = @ - 1]
       /\ UNCHANGED overReleased

\* decrementAgentTaskCount.  Closing a task that is closed already (again) also
\* comes here: overReleased counts the slots that frees.
releaseSlot(a, again) ==
  IF a = NoAgent
  THEN UNCHANGED <<agentTaskCounts, overReleased>>
  ELSE LET freed == agentTaskCounts[a] > 0 IN
       /\ agentTaskCounts' = [agentTaskCounts EXCEPT ![a] = IF freed THEN @ - 1 ELSE 0]
       /\ overReleased' = IF again /\ freed
                          THEN [overReleased EXCEPT ![a] = @ + 1]
                          ELSE overReleased

applyTransition(t, newStatus) ==
  /\ acceptsTransition(tasks[t], newStatus)
  /\ tasks' = [tasks EXCEPT ![t] = transitioned(@, newStatus)]
  /\ UNCHANGED delegations

withinBounds(t, newStatus) ==
  LET task == tasks[t]
      a    == task.assignedAgentId IN
  /\ isTerminalStatus(newStatus) \/ Len(task.history) < MaxHistory
  /\ isTerminalStatus(task.status) /\ agentTaskCounts[a] > 0 =>
       overReleased[a] < MaxOverReleases

\* Mutant of CancelTask: the slot is not given back.
CancelTask_KeepsSlot(t) ==
  /\ t \in DOMAIN tasks
  /\ withinBounds(t, "canceled")
  /\ applyTransition(t, "canceled")
  /\ UNCHANGED <<agentTaskCounts, overReleased>>

CancelTask(t) ==
  /\ t \in DOMAIN tasks
  /\ withinBounds(t, "canceled")
  /\ applyTransition(t, "canceled")
  /\ releaseSlot(tasks[t].assignedAgentId, isTerminalStatus(tasks[t].status))

TransitionTask(t, newStatus) ==
  /\ t \in DOMAIN tasks
  /\ withinBounds(t, newStatus)
  /\ applyTransition(t, newStatus)
  /\ IF isTerminalStatus(newStatus)
     THEN releaseSlot(tasks[t].assignedAgentId, isTerminalStatus(tasks[t].status))
     ELSE UNCHANGED <<agentTaskCounts, overReleased>>

AddTaskMessage(t) ==
  /\ t \in DOMAIN tasks
  /\ Len(tasks[t].messages) < MaxMessages
  /\ tasks' = [tasks EXCEPT ![t].messages = Append(@, Text)]
  /\ UNCHANGED <<agentTaskCounts, delegations, overReleased>>

AddTaskArtifact(t) ==
  /\ t \in DOMAIN tasks
  /\ tasks[t].artifacts < MAX_ARTIFACTS_PER_TASK
  /\ tasks' = [tasks EXCEPT ![t].artifacts = @ + 1]
  /\ UNCHANGED <<agentTaskCounts, delegations, overReleased>>

Next ==
  \/ \E t \in Task, a \in AgentId, creator \in User : CreateTask(t, a, creator)
  \/ \E t, d \in Task, target \in Agent : DelegateTask(t, target, d)
  \/ \E p \in delegations : LinkDelegation(p)
  \/ \E t \in Task : CancelTask(t)
  \/ \E t \in Task, newStatus \in TaskStatus : TransitionTask(t, newStatus)
  \/ \E t \in Task : AddTaskMessage(t)
  \/ \E t \in Task : AddTaskArtifact(t)

\* A promise continuation always runs; nothing obliges a caller to call.
Fairness == \A t, d \in Task : WF_vars(LinkDelegation([original |-> t, created |-> d]))

Spec == Init /\ [][Next]_vars

FairSpec == Spec /\ Fairness
-----------------------------------------------------------------------------
Active(a) ==
  {t \in DOMAIN tasks :
     tasks[t].assignedAgentId = a /\ ~isTerminalStatus(tasks[t].status)}

LinksOf(t) == {i \in Task : \E k \in 1 .. Len(tasks[t].messages) : tasks[t].messages[k] = i}

\* Every task's history starts at submitted, follows VALID_TRANSITIONS move by
\* move and ends in the task's status, whatever sequence of transitionTask and
\* cancelTask calls, repeated and refused ones included, produced it.
HistoryLegal == \A t \in DOMAIN tasks : legalHistory(tasks[t])

\* No slot leaks: a named agent never has more slots taken than it has tasks
\* that are still open (else an idle agent would refuse work for ever).
NoLeakedSlot == \A a \in Agent : agentTaskCounts[a] <= Cardinality(Active(a))

\* maxTasksPerAgent is exceeded by at most the slots freed by closing closed
\* tasks again; in particular it holds for an agent none of whose tasks was.
OverrunExplained ==
  \A a \in Agent : Cardinality(Active(a)) <= maxTasksPerAgent + overReleased[a]

\* "Maximum concurrent tasks per agent" (a2a-router-service.ts:21) as it reads.
ActiveWithinLimit == \A a \in Agent : Cardinality(Active(a)) <= maxTasksPerAgent

\* "Decrement agent task count if task is terminal" (a2a-router-service.ts:256)
\* for every task, those sent without an agent id included.
EveryClosingFreesItsSlot ==
  \A a \in AgentId : agentTaskCounts[a] <= Cardinality(Active(a))

\* The router implements the task board: one outcome per task that later calls
\* cannot change, and every delegation's link owed, then written once and kept.
boardOf(t) ==
  IF t \notin DOMAIN tasks THEN "absent"
  ELSE IF isTerminalStatus(tasks[t].status) THEN tasks[t].status ELSE "open"

boardNow == [t \in Task |-> boardOf(t)]
owedNow  == {<<p.original, p.created>> : p \in delegations}
linksNow == {e \in Task \X Task : e[1] \in DOMAIN tasks /\ e[2] \in LinksOf(e[1])}

Board == INSTANCE A2ATaskBoard WITH
  Outcome <- {"completed", "failed", "canceled"},
  board   <- boardNow,
  owed    <- owedNow,
  links   <- linksNow

ImplementsBoard == Board!Spec

\* Every delegation that created its task eventually shows in the original one,
\* even if the original is cancelled, moved or written to in between.
EveryDelegationLinked ==
  \A t, d \in Task :
    [original |-> t, created |-> d] \in delegations
      ~> (t \in DOMAIN tasks /\ d \in LinksOf(t))
=============================================================================
