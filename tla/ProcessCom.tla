----------------------------- MODULE ProcessCom -----------------------------
(***************************************************************************)
(* The process link between the master and the robot slave: the class      *)
(* Communication (src/src/processCom) and the part of robotRun             *)
(* (src/src/start/main.cpp) that reacts to the status it returns.          *)
(*                                                                         *)
(* The main thread calls comRecvMessage once per millisecond.  Every       *)
(* MaxTimeoutCount calls it compares the slave's heartbeat, an integer in  *)
(* shared memory, with the value it noted one window earlier.  The slave   *)
(* is a process of its own (external): it beats, posts its robot data on a *)
(* System V message queue, takes joint limits, and may stop or come back   *)
(* at any time, with another robot.  Steps are as fine as the accesses to  *)
(* the state the two processes share.                                      *)
(***************************************************************************)
EXTENDS Naturals, Sequences

CONSTANTS
  MaxTimeoutCount,  \* calls per heartbeat window (10 in the code)
  HeartbeatMod,     \* both heartbeat counters wrap here (2^32 in the build)
  QueueLimit,       \* messages the System V queue holds
  Robots,           \* names a slave can write in controllerState
  NoRobot,          \* no robot parameters loaded yet
  Torn,             \* a limit block of which only a part is written
  Mixed,            \* parameters of one robot cut to the dof of another
  MaxRestarts       \* bound on the restarts of the master

ASSUME ProcessComAssumption ==
  /\ MaxTimeoutCount \in Nat /\ MaxTimeoutCount >= 3
  /\ HeartbeatMod \in Nat \ {0}
  /\ QueueLimit \in Nat
  /\ MaxRestarts \in Nat
  /\ NoRobot \notin Robots /\ Torn \notin Robots /\ Mixed \notin Robots
  /\ Torn # NoRobot /\ Mixed # NoRobot /\ Mixed # Torn

VARIABLES
  pc,                   \* where the main thread is: at the clearMsg of its
                        \* start, or inside robotRun
  isConnect, communicationStatus, timeoutCount, HeartBeatRecord, messageBuff,
  connect,              \* controller->connect
  robotDof,             \* whose dof the Robot object holds
  robotName,            \* the name initRobotParam was called with
  userZeroPosition,     \* whose zero positions the Robot object holds
  masterHeartbeat, slaveHeartbeat, slaveRobot,      \* shared memory
  limits, newLimit,                                 \* shared memory
  queue,                \* the message queue, oldest first
  slave, slaveLimits,   \* the slave process and the limits it works with
  cleanStart,           \* history: no limits waited for the slave that is up,
                        \* and the master was not connecting, when it started
  lossShown,            \* history: the master showed no slave, and was not
                        \* connecting, when the one that is up started
  quiet,                \* history: calls begun since the slave last acted
  restarts

comVars    == <<isConnect, communicationStatus, timeoutCount, HeartBeatRecord>>
robotVars  == <<connect, robotDof, robotName, userZeroPosition>>
limitVars  == <<limits, newLimit>>
startVars  == <<cleanStart, lossShown>>
slaveVars  == <<slaveHeartbeat, slaveRobot, slave, slaveLimits, startVars>>
vars == <<pc, comVars, messageBuff, robotVars, masterHeartbeat, limitVars,
          queue, slaveVars, quiet, restarts>>

Status == {"connected", "successConnect", "disconnected", "noConnect"}

Beat(h) == (h + 1) % HeartbeatMod

\* History: messages in the queue when the heartbeat is found to stand still,
\* or when the master starts, are outdated from then on.
Outdated(q) == [i \in DOMAIN q |-> "outdated"]

\* What robot.json has for a robot, cut to the number of joints of another.
Params(dof, name) == IF dof = name THEN name ELSE Mixed

\* From the read of the dof to the end of setUserJointLimit.
Connecting == {"name", "zero", "testLimit", "limits"}

QuietBound == 2 * MaxTimeoutCount
QuietCall  == quiet' = IF quiet < QuietBound THEN quiet + 1 ELSE quiet

-----------------------------------------------------------------------------
(* Start of the master: main() on fresh shared memory. *)

Init ==
  /\ pc = "start"
  /\ isConnect = FALSE
  /\ communicationStatus = "connected"
  /\ timeoutCount = 0
  /\ HeartBeatRecord = 0
  /\ messageBuff = "none"
  /\ connect = FALSE
  /\ robotDof = NoRobot
  /\ robotName = NoRobot
  /\ userZeroPosition = NoRobot
  /\ masterHeartbeat = 0
  /\ slaveHeartbeat = 0
  /\ slaveRobot = NoRobot
  /\ limits = NoRobot
  /\ newLimit = FALSE
  /\ queue = <<>>
  /\ slave = "down"
  /\ slaveLimits = NoRobot
  /\ cleanStart = FALSE /\ lossShown = FALSE
  /\ quiet = 0
  /\ restarts = 0

\* The process ends anywhere and is started again: the objects are new, the
\* shared memory and the queue are those of the previous run.
MasterRestart ==
  /\ restarts < MaxRestarts
  /\ restarts' = restarts + 1
  /\ pc' = "start"
  /\ isConnect' = FALSE
  /\ communicationStatus' = "connected"
  /\ timeoutCount' = 0
  /\ HeartBeatRecord' = slaveHeartbeat
  /\ masterHeartbeat' = 0
  /\ messageBuff' = "none"
  /\ queue' = Outdated(queue)
  /\ connect' = FALSE
  /\ robotDof' = slaveRobot
  /\ robotName' = NoRobot
  /\ userZeroPosition' = NoRobot
  /\ UNCHANGED <<limitVars, slaveVars, quiet>>

-----------------------------------------------------------------------------
(* comRecvMessage *)

\* Mutant: the heartbeat is noted on every call, not once per window.
CountAndRecord ==
  /\ pc = "checkConnect"
  /\ timeoutCount + 1 < MaxTimeoutCount
  /\ timeoutCount' = timeoutCount + 1
  /\ HeartBeatRecord' = slaveHeartbeat
  /\ QuietCall
  /\ pc' = "status"
  /\ UNCHANGED <<isConnect, communicationStatus, messageBuff, robotVars,
                 masterHeartbeat, limitVars, queue, slaveVars, restarts>>

\* checkConnect inside a window.
CountCall ==
  /\ pc = "checkConnect"
  /\ timeoutCount + 1 < MaxTimeoutCount
  /\ timeoutCount' = timeoutCount + 1
  /\ QuietCall
  /\ pc' = "status"
  /\ UNCHANGED <<isConnect, communicationStatus, HeartBeatRecord, messageBuff,
                 robotVars, masterHeartbeat, limitVars, queue, slaveVars,
                 restarts>>

\* checkConnect at the end of a window: the first read of slaveHeartbeat.  If
\* this is where the slave is found lost, what it has posted is outdated.
CompareHeartbeat ==
  /\ pc = "checkConnect"
  /\ timeoutCount + 1 >= MaxTimeoutCount
  /\ timeoutCount' = timeoutCount + 1
  /\ isConnect' = (HeartBeatRecord # slaveHeartbeat)
  /\ queue' = IF isConnect /\ ~isConnect' THEN Outdated(queue) ELSE queue
  /\ QuietCall
  /\ pc' = "record"
  /\ UNCHANGED <<communicationStatus, HeartBeatRecord, messageBuff, robotVars,
                 masterHeartbeat, limitVars, slaveVars, restarts>>

\* Mutant: the count is not reset at the end of a window.
RecordWithoutReset ==
  /\ pc = "record"
  /\ HeartBeatRecord' = slaveHeartbeat
  /\ pc' = "status"
  /\ UNCHANGED <<isConnect, communicationStatus, timeoutCount, messageBuff,
                 robotVars, masterHeartbeat, limitVars, queue, slaveVars,
                 quiet, restarts>>

\* Mutant: the heartbeat is compared but not noted.
ResetWithoutRecord ==
  /\ pc = "record"
  /\ timeoutCount' = 0
  /\ pc' = "status"
  /\ UNCHANGED <<isConnect, communicationStatus, HeartBeatRecord, messageBuff,
                 robotVars, masterHeartbeat, limitVars, queue, slaveVars,
                 quiet, restarts>>

\* The second read of slaveHeartbeat: the slave may have beaten in between.
RecordHeartbeat ==
  /\ pc = "record"
  /\ HeartBeatRecord' = slaveHeartbeat
  /\ timeoutCount' = 0
  /\ pc' = "status"
  /\ UNCHANGED <<isConnect, communicationStatus, messageBuff, robotVars,
                 masterHeartbeat, limitVars, queue, slaveVars, quiet, restarts>>

\* The slave is there: one message at most is taken (IPC_NOWAIT).
ReceiveMessage ==
  /\ pc = "status" /\ isConnect
  /\ communicationStatus' =
       IF communicationStatus = "noConnect" THEN "successConnect"
                                            ELSE "connected"
  /\ IF queue = <<>>
       THEN UNCHANGED <<messageBuff, queue>>
       ELSE messageBuff' = Head(queue) /\ queue' = Tail(queue)
  /\ masterHeartbeat' = Beat(masterHeartbeat)
  /\ pc' = "return"
  /\ UNCHANGED <<isConnect, timeoutCount, HeartBeatRecord, robotVars,
                 limitVars, slaveVars, quiet, restarts>>

\* Mutant: the loss is declared and the queue is left as it is.
LoseWithoutClearing ==
  /\ pc = "status" /\ ~isConnect
  /\ communicationStatus = "connected"
  /\ pc' = "declare"
  /\ UNCHANGED <<comVars, messageBuff, robotVars, masterHeartbeat, limitVars,
                 queue, slaveVars, quiet, restarts>>

\* The slave is gone: the queue is emptied before the loss is declared.
LoseSlave ==
  /\ pc = "status" /\ ~isConnect
  /\ communicationStatus = "connected"
  /\ pc' = "clearMsg"
  /\ UNCHANGED <<comVars, messageBuff, robotVars, masterHeartbeat, limitVars,
                 queue, slaveVars, quiet, restarts>>

\* clearMsg, called at the start of the master and when the slave is lost,
\* takes message by message, while the slave may post.
ClearOne ==
  /\ pc \in {"start", "clearMsg"} /\ queue # <<>>
  /\ queue' = Tail(queue)
  /\ UNCHANGED <<pc, comVars, messageBuff, robotVars, masterHeartbeat,
                 limitVars, slaveVars, quiet, restarts>>

\* msgrcv finds the queue empty.  Before the loss is declared a line is logged,
\* and what is posted meanwhile stays in the queue.
QueueEmpty ==
  /\ pc \in {"start", "clearMsg"} /\ queue = <<>>
  /\ pc' = IF pc = "start" THEN "checkConnect" ELSE "declare"
  /\ UNCHANGED <<comVars, messageBuff, robotVars, masterHeartbeat, limitVars,
                 queue, slaveVars, quiet, restarts>>

clearMsg == ClearOne \/ QueueEmpty

DeclareLoss ==
  /\ pc = "declare"
  /\ communicationStatus' = "disconnected"
  /\ masterHeartbeat' = Beat(masterHeartbeat)
  /\ pc' = "return"
  /\ UNCHANGED <<isConnect, timeoutCount, HeartBeatRecord, messageBuff,
                 robotVars, limitVars, queue, slaveVars, quiet, restarts>>

\* Mutant: the status stays what it was when the slave was lost.
StayOfflineSilently ==
  /\ pc = "status" /\ ~isConnect
  /\ communicationStatus # "connected"
  /\ masterHeartbeat' = Beat(masterHeartbeat)
  /\ pc' = "return"
  /\ UNCHANGED <<comVars, messageBuff, robotVars, limitVars, queue, slaveVars,
                 quiet, restarts>>

\* Mutant: the master's heartbeat stands still while no slave is there.
StayOfflineWithoutBeat ==
  /\ pc = "status" /\ ~isConnect
  /\ communicationStatus # "connected"
  /\ communicationStatus' = "noConnect"
  /\ pc' = "return"
  /\ UNCHANGED <<isConnect, timeoutCount, HeartBeatRecord, messageBuff,
                 robotVars, masterHeartbeat, limitVars, queue, slaveVars,
                 quiet, restarts>>

StayOffline ==
  /\ pc = "status" /\ ~isConnect
  /\ communicationStatus # "connected"
  /\ communicationStatus' = "noConnect"
  /\ masterHeartbeat' = Beat(masterHeartbeat)
  /\ pc' = "return"
  /\ UNCHANGED <<isConnect, timeoutCount, HeartBeatRecord, messageBuff,
                 robotVars, limitVars, queue, slaveVars, quiet, restarts>>

-----------------------------------------------------------------------------
(* robotRun, with the returned status *)

\* A new connection is set up: the dof of the slave's robot is read first.
ReadDof ==
  /\ pc = "return" /\ communicationStatus = "successConnect"
  /\ robotDof' = slaveRobot
  /\ pc' = "name"
  /\ UNCHANGED <<comVars, messageBuff, connect, robotName, userZeroPosition,
                 masterHeartbeat, limitVars, queue, slaveVars, quiet, restarts>>

\* Mutant: the name stays that of the first robot.
ReadFirstName ==
  /\ pc = "name"
  /\ robotName' = IF userZeroPosition = NoRobot THEN slaveRobot
                                               ELSE userZeroPosition
  /\ pc' = "zero"
  /\ UNCHANGED <<comVars, messageBuff, connect, robotDof, userZeroPosition,
                 masterHeartbeat, limitVars, queue, slaveVars, quiet, restarts>>

\* Its name is read apart, when initRobotParam is called.
ReadName ==
  /\ pc = "name"
  /\ robotName' = slaveRobot
  /\ pc' = "zero"
  /\ UNCHANGED <<comVars, messageBuff, connect, robotDof, userZeroPosition,
                 masterHeartbeat, limitVars, queue, slaveVars, quiet, restarts>>

\* Mutant: the zero positions of an earlier robot are kept.
KeepZero ==
  /\ pc = "zero"
  /\ userZeroPosition' = IF userZeroPosition = NoRobot
                           THEN Params(robotDof, robotName)
                           ELSE userZeroPosition
  /\ pc' = "testLimit"
  /\ UNCHANGED <<comVars, messageBuff, connect, robotDof, robotName,
                 masterHeartbeat, limitVars, queue, slaveVars, quiet, restarts>>

\* The parameters are read from the file and the zero positions are stored.
SetZero ==
  /\ pc = "zero"
  /\ userZeroPosition' = Params(robotDof, robotName)
  /\ pc' = "testLimit"
  /\ UNCHANGED <<comVars, messageBuff, connect, robotDof, robotName,
                 masterHeartbeat, limitVars, queue, slaveVars, quiet, restarts>>

\* setUserJointLimit refuses the limits while others wait for a slave.
LimitsRefused ==
  /\ pc = "testLimit" /\ newLimit
  /\ connect' = TRUE
  /\ robotName' = NoRobot
  /\ pc' = "checkConnect"
  /\ UNCHANGED <<comVars, messageBuff, robotDof, userZeroPosition,
                 masterHeartbeat, limitVars, queue, slaveVars, quiet, restarts>>

\* Mutant: newLimit is raised before the limits are copied.
SignBeforeCopy ==
  /\ pc = "testLimit" /\ ~newLimit
  /\ limits' = Torn
  /\ newLimit' = TRUE
  /\ pc' = "limits"
  /\ UNCHANGED <<comVars, messageBuff, robotVars, masterHeartbeat, queue,
                 slaveVars, quiet, restarts>>

LimitsCopying ==
  /\ pc = "testLimit" /\ ~newLimit
  /\ limits' = Torn
  /\ pc' = "limits"
  /\ UNCHANGED <<comVars, messageBuff, robotVars, masterHeartbeat, newLimit,
                 queue, slaveVars, quiet, restarts>>

LimitsDone ==
  /\ pc = "limits"
  /\ limits' = Params(robotDof, robotName)
  /\ newLimit' = TRUE
  /\ connect' = TRUE
  /\ robotName' = NoRobot
  /\ pc' = "checkConnect"
  /\ UNCHANGED <<comVars, messageBuff, robotDof, userZeroPosition,
                 masterHeartbeat, queue, slaveVars, quiet, restarts>>

Disconnect ==
  /\ pc = "return" /\ communicationStatus = "disconnected"
  /\ connect' = FALSE
  /\ pc' = "checkConnect"
  /\ UNCHANGED <<comVars, messageBuff, robotDof, robotName, userZeroPosition,
                 masterHeartbeat, limitVars, queue, slaveVars, quiet, restarts>>

NoChange ==
  /\ pc = "return" /\ communicationStatus \in {"connected", "noConnect"}
  /\ pc' = "checkConnect"
  /\ UNCHANGED <<comVars, messageBuff, robotVars, masterHeartbeat, limitVars,
                 queue, slaveVars, quiet, restarts>>

-----------------------------------------------------------------------------
(* The slave process (external) *)

\* A slave starts; it may or may not reset its heartbeat and the limit sign.
SlaveStart ==
  /\ slave = "down"
  /\ slave' = "up"
  /\ slaveRobot' \in Robots
  /\ slaveHeartbeat' \in {0, slaveHeartbeat}
  /\ newLimit' \in {FALSE, newLimit}
  /\ slaveLimits' = NoRobot
  /\ cleanStart' = (~newLimit' /\ pc \notin Connecting)
  /\ lossShown' = (~connect /\ pc \notin Connecting)
  /\ quiet' = 0
  /\ UNCHANGED <<pc, comVars, messageBuff, robotVars, masterHeartbeat, limits,
                 queue, restarts>>

\* One control cycle: it beats and posts its data unless the queue is full.
SlaveCycle ==
  /\ slave = "up"
  /\ slaveHeartbeat' = Beat(slaveHeartbeat)
  /\ queue' = IF Len(queue) < QueueLimit THEN Append(queue, "fresh") ELSE queue
  /\ quiet' = 0
  /\ UNCHANGED <<pc, comVars, messageBuff, robotVars, masterHeartbeat,
                 limitVars, slaveRobot, slave, slaveLimits, startVars,
                 restarts>>

SlaveTakeLimits ==
  /\ slave = "up" /\ newLimit
  /\ slaveLimits' = limits
  /\ newLimit' = FALSE
  /\ UNCHANGED <<pc, comVars, messageBuff, robotVars, masterHeartbeat, limits,
                 queue, slaveHeartbeat, slaveRobot, slave, startVars, quiet,
                 restarts>>

\* It dies with the limits it works with; what it wrote stays.
SlaveCrash ==
  /\ slave = "up"
  /\ slave' = "down"
  /\ slaveLimits' = NoRobot
  /\ cleanStart' = FALSE /\ lossShown' = FALSE
  /\ UNCHANGED <<pc, comVars, messageBuff, robotVars, masterHeartbeat,
                 limitVars, queue, slaveHeartbeat, slaveRobot, quiet, restarts>>

-----------------------------------------------------------------------------
BeginCall == CountCall \/ CompareHeartbeat

comRecvMessage ==
  \/ BeginCall \/ RecordHeartbeat \/ ReceiveMessage
  \/ LoseSlave \/ DeclareLoss \/ StayOffline

robotRun ==
  \/ comRecvMessage
  \/ ReadDof \/ ReadName \/ SetZero
  \/ LimitsRefused \/ LimitsCopying \/ LimitsDone
  \/ Disconnect \/ NoChange

MainThread == clearMsg \/ robotRun

Slave == SlaveStart \/ SlaveCycle \/ SlaveTakeLimits \/ SlaveCrash

Next == MainThread \/ MasterRestart \/ Slave

Spec == Init /\ [][Next]_vars

-----------------------------------------------------------------------------
(* Properties *)

\* Every variable keeps its type.
TypeOK ==
  /\ pc \in {"start", "checkConnect", "record", "status", "clearMsg",
             "declare", "return"} \cup Connecting
  /\ isConnect \in BOOLEAN
  /\ communicationStatus \in Status
  /\ timeoutCount \in 0..MaxTimeoutCount
  /\ HeartBeatRecord \in 0..(HeartbeatMod - 1)
  /\ messageBuff \in {"none", "fresh", "outdated"}
  /\ connect \in BOOLEAN
  /\ robotDof \in Robots \cup {NoRobot}
  /\ robotName \in Robots \cup {NoRobot}
  /\ userZeroPosition \in Robots \cup {NoRobot, Mixed}
  /\ masterHeartbeat \in 0..(HeartbeatMod - 1)
  /\ slaveHeartbeat \in 0..(HeartbeatMod - 1)
  /\ slaveRobot \in Robots \cup {NoRobot}
  /\ limits \in Robots \cup {NoRobot, Torn, Mixed}
  /\ newLimit \in BOOLEAN
  /\ queue \in Seq({"fresh", "outdated"})
  /\ slave \in {"up", "down"}
  /\ slaveLimits \in Robots \cup {NoRobot, Torn, Mixed}
  /\ cleanStart \in BOOLEAN /\ lossShown \in BOOLEAN
  /\ quiet \in 0..QuietBound
  /\ restarts \in 0..MaxRestarts

\* Between two calls of robotRun the connection the teach box is told about
\* is the one the heartbeat shows: no edge of isConnect is ever missed or
\* reported twice, although the status only passes through successConnect
\* and disconnected for one call each and starts out as connected.
ConnectFollowsHeartbeat == pc = "checkConnect" => connect = isConnect

\* A slave that has done nothing for two windows is reported as disconnected,
\* wherever in a window it stopped and whatever its heartbeat wrapped to.
DeadSlaveNoticed ==
  pc = "checkConnect" /\ quiet >= 2 * MaxTimeoutCount => ~connect

\* The robot data the master serves is never a message that was in the queue
\* when the heartbeat of a connected slave was found to stand still, or when the
\* master started: from there on all of the queue is read before the next
\* connection, since the status then is connected, which it is again before
\* the window after a connection ends.
NoOutdatedData == messageBuff # "outdated"

\* The slave never works with joint limits of which only a part was copied,
\* although the master may die in the middle of the copy.
NoTornLimits == slaveLimits # Torn

\* The limits a slave works with are those of its own robot, whatever robots
\* were connected before it and wherever the master dies.  Dof, name, file and
\* newLimit are read one after the other, so a slave that starts between two of
\* these reads, or while limits wait in shared memory, may be given those of
\* another robot or a mixture; no other slave is.
OwnLimits == cleanStart /\ slaveLimits # NoRobot => slaveLimits = slaveRobot

\* The dof and zero positions in use while a slave is shown as connected are
\* both those of its robot, if it started after the loss of the one before it
\* was shown and not between the reads of a connection being made.  (One that
\* dies and is back within a window is never noticed, and is served with the
\* parameters of the robot before.)
OwnRobot ==
  lossShown /\ connect => robotDof = slaveRobot /\ userZeroPosition = slaveRobot
=============================================================================
