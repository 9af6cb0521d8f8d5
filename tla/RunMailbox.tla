----------------------------- MODULE RunMailbox -----------------------------
(***************************************************************************)
(* What createRunTask and the slave promise each other, as a mailbox with  *)
(* one place: a task is put only into an empty mailbox, whole, nothing in  *)
(* it changes while a task waits, and the robot begins nothing else.  Two  *)
(* promises are missing because the code does not keep them: a change of   *)
(* the coordinate system redirects the task that waits, and a slave that   *)
(* dies before it has acknowledged a task finds it again.                  *)
(***************************************************************************)
CONSTANTS
  Contents, \* what can stand in the place for a target
  Targets,  \* the contents that are targets, whole
  Home,     \* what stands there before any task
  Spaces,   \* joint and cartesian space
  Empty,    \* no task waits
  NoTask    \* the robot is at rest

Tasks == [space : Spaces, target : Targets]

VARIABLES
  slot,     \* the space of the waiting task, or Empty
  goal,     \* for each space, what stands in its place
  running   \* the task the robot executes, or NoTask

mailbox == <<slot, goal, running>>

Init ==
  /\ slot = Empty
  /\ goal = [space \in Spaces |-> Home]
  /\ running = NoTask

\* The places are the client's as long as no task waits.
Write(space, content) ==
  /\ slot = Empty
  /\ goal' = [goal EXCEPT ![space] = content]
  /\ UNCHANGED <<slot, running>>

Put(task) ==
  /\ slot = Empty
  /\ slot' = task.space
  /\ goal' = [goal EXCEPT ![task.space] = task.target]
  /\ UNCHANGED running

\* From now on the task that waits is what stands there for the other space.
Redirect(space) ==
  /\ slot # Empty
  /\ slot' = space
  /\ UNCHANGED <<goal, running>>

Take ==
  /\ slot # Empty /\ running = NoTask
  /\ running' = [space |-> slot, target |-> goal[slot]]
  /\ slot' = Empty
  /\ UNCHANGED goal

End ==
  /\ running # NoTask
  /\ running' = NoTask
  /\ UNCHANGED <<slot, goal>>

FindAgain(space) ==
  /\ slot = Empty /\ running # NoTask
  /\ running' = NoTask
  /\ slot' = space
  /\ UNCHANGED goal

Next ==
  \/ \E task \in Tasks : Put(task)
  \/ \E space \in Spaces :
       \/ Redirect(space) \/ FindAgain(space)
       \/ \E content \in Contents : Write(space, content)
  \/ Take \/ End

Spec == Init /\ [][Next]_mailbox
=============================================================================
