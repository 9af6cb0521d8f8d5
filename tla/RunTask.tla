------------------------------ MODULE RunTask ------------------------------
(***************************************************************************)
(* Run tasks: Controller::createRunTask, stopRun and changeSpace           *)
(* (src/src/controller), called by the teach-box thread and the keyboard   *)
(* thread without a lock, on memory shared with the slave process.  Steps  *)
(* are as fine as the accesses to that memory.  A target has seven joints  *)
(* or six coordinates, written one by one: two halves stand for them.  A   *)
(* joint target is checked as the caller gives it and written with the     *)
(* user's zero position added; a cartesian one is written as it is.        *)
(* The slave (external) takes a task when runSign is set, then clears      *)
(* runSign and shows that it runs, in either order unless ShowFirst.       *)
(***************************************************************************)
EXTENDS Integers

CONSTANTS
  Clients,      \* the threads that call the controller
  TeachBox,     \* the one that serves the teach box
  Targets,      \* what a caller can ask for
  InLimits,     \* the targets checkUserJointLimit lets pass
  UserZero,     \* userZeroPosition of the connected robot
  Home,         \* what shared memory holds before any task
  NoTask, Empty,
  ShowFirst,    \* TRUE if the slave shows that it runs before it clears runSign
  MaxAccepted,  \* no task is begun once so many are accepted
  MaxRestarts   \* bound on the restarts of the master

Spaces == {"jointSpace", "cartesianSpace"}
Tasks  == [space : Spaces, target : Targets]

\* What createRunTask writes for a task.
Position(task) ==
  IF task.space = "jointSpace" THEN task.target + UserZero ELSE task.target

Positions == Targets \cup {target + UserZero : target \in Targets}

ASSUME RunTaskAssumption ==
  /\ TeachBox \in Clients
  /\ Targets \subseteq Int /\ UserZero \in Int
  /\ InLimits \subseteq Targets /\ Home \in Targets
  /\ NoTask \notin Tasks /\ Empty \notin Spaces
  /\ ShowFirst \in BOOLEAN
  /\ MaxAccepted \in Nat /\ MaxRestarts \in Nat

VARIABLES
  clientPc, request,    \* per client: place, and the task or space it handles
  controllerStatus, runSign, stopSign, plannerTaskSpace,    \* shared memory
  final,                \* shared memory: q_final and x_final
  slavePending,         \* what the slave has still to do to acknowledge
  job,                  \* the task the slave executes, or NoTask
  lastTask,             \* history: the last task accepted
  stopAnswered,         \* history: StopMove answered since the last task
  accepted,             \* history: number of tasks accepted
  unread,               \* history: clients with a task accepted since runSign
                        \* was last cleared
  restarts

clientVars == <<clientPc, request>>
signVars   == <<runSign, stopSign>>
slaveVars  == <<slavePending, job>>
history    == <<lastTask, stopAnswered, accepted, unread>>
vars == <<clientVars, controllerStatus, signVars, plannerTaskSpace, final,
          slaveVars, history, restarts>>

Whole(position) == [first |-> position, rest |-> position]

Init ==
  /\ clientPc = [c \in Clients |-> "idle"]
  /\ request \in [Clients -> {[space |-> "jointSpace", target |-> Home]}]
  /\ controllerStatus = "wait_"
  /\ runSign = FALSE /\ stopSign = FALSE
  /\ plannerTaskSpace = "jointSpace"
  /\ final = [space \in Spaces |-> Whole(Home)]
  /\ slavePending = {}
  /\ job = NoTask
  /\ lastTask = NoTask
  /\ stopAnswered = FALSE
  /\ accepted = 0
  /\ unread = {}
  /\ restarts = 0

Goto(c, place) == clientPc' = [clientPc EXCEPT ![c] = place]

\* The keyboard offers joint targets and no change of space.
MayAsk(c, space) == c = TeachBox \/ space = "jointSpace"

-----------------------------------------------------------------------------
(* createRunTask *)

SeeWaiting(c, task) ==
  /\ clientPc[c] = "idle" /\ MayAsk(c, task.space)
  /\ controllerStatus = "wait_" /\ accepted < MaxAccepted
  /\ request' = [request EXCEPT ![c] = task]
  /\ Goto(c, "runSign")
  /\ UNCHANGED <<controllerStatus, signVars, plannerTaskSpace, final,
                 slaveVars, history, restarts>>

\* runSign is still set, or the joint target is outside the limits.
RefuseTask(c) ==
  /\ clientPc[c] = "runSign"
  /\ \/ runSign
     \/ request[c].space = "jointSpace" /\ request[c].target \notin InLimits
  /\ Goto(c, "idle")
  /\ UNCHANGED <<request, controllerStatus, signVars, plannerTaskSpace, final,
                 slaveVars, history, restarts>>

\* Mutant: runSign is not looked at.
IgnoreRunSign(c) ==
  /\ clientPc[c] = "runSign"
  /\ request[c].space = "jointSpace" => request[c].target \in InLimits
  /\ Goto(c, "space")
  /\ UNCHANGED <<request, controllerStatus, signVars, plannerTaskSpace, final,
                 slaveVars, history, restarts>>

\* Mutant: the joint limits are not checked.
IgnoreLimits(c) ==
  /\ clientPc[c] = "runSign" /\ ~runSign
  /\ Goto(c, "space")
  /\ UNCHANGED <<request, controllerStatus, signVars, plannerTaskSpace, final,
                 slaveVars, history, restarts>>

SeeRunSignClear(c) ==
  /\ clientPc[c] = "runSign" /\ ~runSign
  /\ request[c].space = "jointSpace" => request[c].target \in InLimits
  /\ Goto(c, "space")
  /\ UNCHANGED <<request, controllerStatus, signVars, plannerTaskSpace, final,
                 slaveVars, history, restarts>>

WriteSpace(c) ==
  /\ clientPc[c] = "space"
  /\ plannerTaskSpace' = request[c].space
  /\ Goto(c, "first")
  /\ UNCHANGED <<request, controllerStatus, signVars, final, slaveVars,
                 history, restarts>>

\* Mutant: runSign is raised before the target is written.
SignBeforeTarget(c) ==
  /\ clientPc[c] = "first"
  /\ final' = [final EXCEPT ![request[c].space].first = Position(request[c])]
  /\ runSign' = TRUE
  /\ Goto(c, "rest")
  /\ UNCHANGED <<request, controllerStatus, stopSign, plannerTaskSpace,
                 slaveVars, history, restarts>>

WriteFirst(c) ==
  /\ clientPc[c] = "first"
  /\ final' = [final EXCEPT ![request[c].space].first = Position(request[c])]
  /\ Goto(c, "rest")
  /\ UNCHANGED <<request, controllerStatus, signVars, plannerTaskSpace,
                 slaveVars, history, restarts>>

WriteRest(c) ==
  /\ clientPc[c] = "rest"
  /\ final' = [final EXCEPT ![request[c].space].rest = Position(request[c])]
  /\ Goto(c, "raise")
  /\ UNCHANGED <<request, controllerStatus, signVars, plannerTaskSpace,
                 slaveVars, history, restarts>>

RaiseRunSign(c) ==
  /\ clientPc[c] = "raise"
  /\ runSign' = TRUE
  /\ Goto(c, "idle")
  /\ lastTask' = request[c]
  /\ stopAnswered' = FALSE
  /\ accepted' = accepted + 1
  /\ unread' = unread \cup {c}
  /\ UNCHANGED <<request, controllerStatus, stopSign, plannerTaskSpace, final,
                 slaveVars, restarts>>

-----------------------------------------------------------------------------
(* stopRun and changeSpace *)

\* StopMove answers result = true whatever stopRun did.
StopRefused(c) ==
  /\ clientPc[c] = "idle" /\ controllerStatus # "run_"
  /\ stopAnswered' = (stopAnswered \/ c = TeachBox)
  /\ UNCHANGED <<clientVars, controllerStatus, signVars, plannerTaskSpace,
                 final, slaveVars, lastTask, accepted, unread, restarts>>

SeeRunning(c) ==
  /\ clientPc[c] = "idle" /\ controllerStatus = "run_"
  /\ Goto(c, "stop")
  /\ UNCHANGED <<request, controllerStatus, signVars, plannerTaskSpace, final,
                 slaveVars, history, restarts>>

\* stopSign is left alone if it is set, so the outcome is the same.
RaiseStopSign(c) ==
  /\ clientPc[c] = "stop"
  /\ stopSign' = TRUE
  /\ stopAnswered' = (stopAnswered \/ c = TeachBox)
  /\ Goto(c, "idle")
  /\ UNCHANGED <<request, controllerStatus, runSign, plannerTaskSpace, final,
                 slaveVars, lastTask, accepted, unread, restarts>>

\* The space goes to the configuration file before it goes to the slave.
ChangeSpace(space) ==
  /\ clientPc[TeachBox] = "idle" /\ controllerStatus = "wait_"
  /\ request' = [request EXCEPT ![TeachBox].space = space]
  /\ Goto(TeachBox, "config")
  /\ UNCHANGED <<controllerStatus, signVars, plannerTaskSpace, final,
                 slaveVars, history, restarts>>

SetSpace ==
  /\ clientPc[TeachBox] = "config"
  /\ plannerTaskSpace' = request[TeachBox].space
  /\ Goto(TeachBox, "idle")
  /\ UNCHANGED <<request, controllerStatus, signVars, final, slaveVars,
                 history, restarts>>

\* The master dies anywhere; initControllerParam sets the configured space
\* again if the robot is at rest.  The slave works on.
MasterRestart ==
  /\ restarts < MaxRestarts
  /\ restarts' = restarts + 1
  /\ clientPc' = [c \in Clients |-> "idle"]
  /\ plannerTaskSpace' \in
       IF controllerStatus = "wait_" THEN Spaces ELSE {plannerTaskSpace}
  /\ UNCHANGED <<request, controllerStatus, signVars, final, slaveVars,
                 history>>

-----------------------------------------------------------------------------
(* The slave (external) *)

TakeTask ==
  /\ runSign /\ job = NoTask /\ slavePending = {}
  /\ job' = [space |-> plannerTaskSpace, target |-> final[plannerTaskSpace]]
  /\ slavePending' = {"clear", "show"}
  /\ UNCHANGED <<clientVars, controllerStatus, signVars, plannerTaskSpace,
                 final, history, restarts>>

ClearRunSign ==
  /\ "clear" \in slavePending
  /\ ShowFirst => "show" \notin slavePending
  /\ slavePending' = slavePending \ {"clear"}
  /\ runSign' = FALSE
  /\ unread' = {}
  /\ UNCHANGED <<clientVars, controllerStatus, stopSign, plannerTaskSpace,
                 final, job, lastTask, stopAnswered, accepted, restarts>>

ShowRunning ==
  /\ "show" \in slavePending
  /\ slavePending' = slavePending \ {"show"}
  /\ controllerStatus' = "run_"
  /\ UNCHANGED <<clientVars, signVars, plannerTaskSpace, final, job, history,
                 restarts>>

FinishTask ==
  /\ job # NoTask /\ slavePending = {}
  /\ job' = NoTask
  /\ controllerStatus' = "wait_"
  /\ stopSign' \in {FALSE, stopSign}
  /\ UNCHANGED <<clientVars, runSign, plannerTaskSpace, final, slavePending,
                 history, restarts>>

\* Killed and started again: it finds runSign as it left it.
SlaveRestart ==
  /\ job # NoTask
  /\ job' = NoTask
  /\ slavePending' = {}
  /\ controllerStatus' = "wait_"
  /\ UNCHANGED <<clientVars, signVars, plannerTaskSpace, final, history,
                 restarts>>

-----------------------------------------------------------------------------
createRunTask(c) ==
  \/ \E task \in Tasks : SeeWaiting(c, task)
  \/ RefuseTask(c) \/ SeeRunSignClear(c) \/ WriteSpace(c)
  \/ WriteFirst(c) \/ WriteRest(c) \/ RaiseRunSign(c)

stopRun(c) == StopRefused(c) \/ SeeRunning(c) \/ RaiseStopSign(c)

changeSpace == (\E space \in Spaces : ChangeSpace(space)) \/ SetSpace

Slave ==
  \/ TakeTask \/ ClearRunSign \/ ShowRunning \/ FinishTask \/ SlaveRestart

Next ==
  \/ \E c \in Clients : createRunTask(c) \/ stopRun(c)
  \/ changeSpace \/ MasterRestart \/ Slave

Spec == Init /\ [][Next]_vars

-----------------------------------------------------------------------------
(* Properties *)

Places == {"idle", "runSign", "space", "first", "rest", "raise", "stop", "config"}
Halves == [first : Positions, rest : Positions]

\* Every variable keeps its type.
TypeOK ==
  /\ clientPc \in [Clients -> Places]
  /\ request \in [Clients -> Tasks]
  /\ \A c \in Clients :
       /\ clientPc[c] \in {"space", "first", "rest", "raise"}
       /\ request[c].space = "jointSpace"
       => request[c].target \in InLimits
  /\ controllerStatus \in {"wait_", "run_"}
  /\ runSign \in BOOLEAN /\ stopSign \in BOOLEAN
  /\ plannerTaskSpace \in Spaces
  /\ final \in [Spaces -> Halves]
  /\ slavePending \subseteq {"clear", "show"}
  /\ job \in [space : Spaces, target : Halves] \cup {NoTask}
  /\ lastTask \in Tasks \cup {NoTask}
  /\ stopAnswered \in BOOLEAN
  /\ accepted \in Nat
  /\ unread \subseteq Clients
  /\ restarts \in 0..MaxRestarts

Begins == job = NoTask /\ job' # NoTask

\* With one client the signs make a mailbox of the shared memory: no target
\* is written while the slave may read it, what is submitted is whole, and no
\* task begins that was not, whoever dies in between.
Mailbox == INSTANCE RunMailbox WITH
  Contents <- Halves,
  Targets  <- {Whole(position) : position \in Positions},
  Home     <- Whole(Home),
  slot     <- IF runSign /\ "clear" \notin slavePending
              THEN plannerTaskSpace ELSE Empty,
  goal     <- final,
  running  <- job
MailboxSpec == Mailbox!Spec

\* With one client a task that begins in the space it was accepted for is the
\* last one accepted, also when the master or the slave died between any two
\* accesses: no change of space and back brings up an older target.
RunsWhatWasAccepted ==
  [][Begins => /\ lastTask # NoTask
                /\ job'.space = lastTask.space
                     => job'.target = Whole(Position(lastTask))]_vars

\* However many clients find runSign clear at once and write over each other,
\* none has a second task accepted before the slave has acknowledged one since
\* its first, whoever dies in between: what is lost to an overlap is at most
\* one accepted task of each client.
NoTaskOverOwn == [][\A c \in Clients : RaiseRunSign(c) => c \notin unread]_vars

\* createRunTask fails while the robot moves, as its log message says.
NoTaskWhileRunning ==
  [][accepted' # accepted => controllerStatus = "wait_"]_vars

\* A stop that was answered with result = true did not fail: no task accepted
\* before it begins after it.
NoRunAfterStop == [][Begins => ~stopAnswered]_vars
=============================================================================
