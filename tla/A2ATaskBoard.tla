------------------------------ MODULE A2ATaskBoard ------------------------------
(***************************************************************************)
(* What the A2A router promises to those who only look at tasks: a task is *)
(* posted once, is open until it gets exactly one outcome, and keeps that  *)
(* outcome.  A delegation posts a new task and owes the original one a     *)
(* link to it, which is paid exactly once and stays.  Slots, histories,    *)
(* artifacts and ordinary messages are below this level.                   *)
(***************************************************************************)
CONSTANTS Task, Outcome

VARIABLES
  board,  \* "absent", "open" or the outcome of each task
  owed,   \* pairs <<original, created>> whose link is not written yet
  links   \* pairs <<original, created>> whose link is written

boardVars == <<board, owed, links>>

Init ==
  /\ board = [t \in Task |-> "absent"]
  /\ owed = {}
  /\ links = {}

Post(t) ==
  /\ board[t] = "absent"
  /\ board' = [board EXCEPT ![t] = "open"]
  /\ UNCHANGED <<owed, links>>

Delegate(t, d) ==
  /\ board[t] # "absent"
  /\ board[d] = "absent"
  /\ board' = [board EXCEPT ![d] = "open"]
  /\ owed' = owed \cup {<<t, d>>}
  /\ UNCHANGED links

Link(t, d) ==
  /\ <<t, d>> \in owed
  /\ owed' = owed \ {<<t, d>>}
  /\ links' = links \cup {<<t, d>>}
  /\ UNCHANGED board

Close(t, outcome) ==
  /\ board[t] = "open"
  /\ board' = [board EXCEPT ![t] = outcome]
  /\ UNCHANGED <<owed, links>>

Next ==
  \/ \E t \in Task : Post(t)
  \/ \E t, d \in Task : Delegate(t, d) \/ Link(t, d)
  \/ \E t \in Task, outcome \in Outcome : Close(t, outcome)

Spec == Init /\ [][Next]_boardVars

FairSpec == Spec /\ \A t, d \in Task : WF_boardVars(Link(t, d))
=============================================================================
