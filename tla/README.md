# WDcontroller: models and proofs

WDcontroller is the master process of a robot arm. It talks to a teach box over
TCP, to a real-time slave process over System V shared memory and a message
queue, and to an operator at its terminal. This directory holds TLA+ modules of
its core, the TLC runs that check them and the TLAPS proofs about them. The
modules are translated from `src/src`; the slave, the teach box and the network
are not in the repository (nor is `messageData.h`, the layout of the shared
memory) and are modelled from how the code uses them.

## The system

| part | source | state | operations |
|---|---|---|---|
| process link | `processCom/communication.*` | `isConnect`, `communicationStatus`, `timeoutCount`, `HeartBeatRecord`, `messageBuff`; both heartbeats in shared memory; the message queue | `createConnect`, `comRecvMessage`, `checkConnect`, `clearMsg` |
| main loop | `start/main.cpp` | - | `robotRun` every millisecond: receive, react to a new or lost slave, `jogCheckTimeOut` |
| start and parameters | `start/start.cpp`, `start/initParam.h` | two JSON files | `startIPC`, `initControllerParam`, `initRobotParam`, `setConfigParam` |
| controller | `controller/controller.*` | `connect`, `jogTimeCount`; the command block in shared memory | `createRunTask`, `stopRun`, jogging, `change...`, `set...`, limits |
| robot | `robot/robot.*` | `robotDof`, zero positions, pointer to the received data | getters and setters |
| teach-box thread | `teachBoxCom/*` | `cfd`, one static receive and one static send buffer | accept, receive, `cmdParsing` |
| keyboard thread | `keyboardIO/*` | the last key | calls of the controller |
| signal thread | `event/*` | libevent base | logs SIGUSR1 |
| log | `wdLog/*` | the open file and the highest suffix | `startLog`, `logWrite`, rotation |
| tasks | `taskDefine/*` | table of priorities | `createTask` |

Four threads of the master (main, teach box, keyboard, signal) share the objects
`communication`, `controller` and `robot` and the log without any lock. The
master and the slave share memory without any lock either: a few flags order
their accesses.

* `slaveHeartbeat`, `masterHeartbeat`: each side increments its own and watches
  the other's. The master looks once per ten calls.
* `runSign`, `stopSign`, `newLimit`: the master sets, the slave clears. The data
  next to a flag (target, limits) must not change while it is set.
* `jogSign`: set while a jog lasts; the axis and direction stand next to it.
* `controllerStatus`: the slave shows whether it waits or runs; the master
  checks it before most changes.
* the message queue: the slave posts robot data, the master takes at most one
  message per call and empties the queue at start and when it loses the slave.

What is hard: the slave stops or comes back at any point of a window; the master
dies with flags set and data half written; checks and the actions they guard are
separate accesses, with a file written in between; a counter is incremented by
one thread and reset by another; a message arrives in pieces, a connection ends
in the middle of a call, and descriptors run out.

What correctness means, part by part: the connection shown follows the
heartbeat, a dead slave is noticed in bounded time, and robot data queued when it
was lost is not served (process link); half-written limits are never used, and
those of another robot only by a slave that started at a moment that hid it
(limits); a jog ends in bounded time without keep-alives and for good when the box
is lost, as long as the master lives (jogging); the robot runs what was accepted,
whole, one task after the other (run tasks, one client), and two clients lose at
most one accepted task each to an overlap; commands are handled in order, once,
whole (teach-box thread); the file and the memory agree,
and no parameter is lost (configuration); the log keeps its files in order and
bounded (log).

## Modules

`ProcessCom` - `Communication` and the part of `robotRun` that acts on its
result. `pc` is the place of the main thread: `start` (the `clearMsg` of
`startIPC`), `checkConnect` (about to begin a call), `record` (between the two reads
of `slaveHeartbeat` at the end of a window), `status`, `clearMsg`, `declare` (the
queue was found empty, the loss is not yet declared), `return` (the status is
returned), and, while a connection is made, `name`, `zero`, `testLimit` and `limits`
(before the read of the name, before the file is read and the zero positions are
stored, before the test of `newLimit`, in the middle of the copy). Actions are named
for what the code does there; `BeginCall` is `checkConnect`,
`ReceiveMessage`/`LoseSlave`/`DeclareLoss`/`StayOffline` are the branches of
`comRecvMessage`, `ClearOne`/`QueueEmpty` the loop of `clearMsg`,
`ReadDof`/`ReadName`/`SetZero`/`LimitsRefused`/`LimitsCopying`/`LimitsDone` the
steps of a new connection in `robotRun`, `initRobotParam` and `setUserJointLimit`,
`Disconnect`/`NoChange` its other branches. A slave may stop, start or post between
any two of them. A message is `fresh` or, once it was queued when the heartbeat of a
connected slave was found to stand still or when the master started, `outdated`; one
posted later, into the gap before the loss is declared for instance, is fresh, stays
queued and may be served at the next connection. Dof, zero positions and limits are
named by the robot they belong to; a block of which a part is written is `Torn`,
parameters of one robot cut to the dof of another are `Mixed`. Three variables are
history: `quiet`, the calls begun since the slave last did something, and
`cleanStart` and `lossShown`, what a slave met when it started (no limits waiting;
the loss of the one before it shown; and no connection being made).
`MasterRestart` is the death of the process anywhere and a new `startIPC`.

`ProcessComTimed` - the same with the speeds of master and slave related, for
what needs an assumption on the slave's cycle, and for liveness.

`JogControl` - `startJogMove` store by store, `stopJogMove`, `resetJogTimeOut`
in the teach-box thread; `jogCheckTimeOut` in the main thread with the increment
split in a load and a store and a comparison that may use either the stored
value or the variable read again. `silence` is a history variable: passes that
found `jogSign` set since the last keep-alive, stop or start. `link` is the TCP
connection; it may break in the middle of a command. A command is handled when it is
received (`Received`) and again when `accept` or `recv` fails (`Repeated`), with the
number that is left in the static buffer (`command`) and an empty text (`ZeroJog`),
with a box or without one, any number of times. `master` is down from a death of the
process, which may come anywhere (`MasterDies`; the answer of JogMove to a box that
is gone raises SIGPIPE), to a new start (`MasterStart`), which may never come; the
shared memory and the slave go on without it.

`RunTask` - `createRunTask`, `stopRun` and `changeSpace`, called by one or two
threads (`Clients`), access by access; the file that `changeSpace` writes is the
place `config`, where time passes. A target is written in two halves. What is
checked is the target as the caller gives it; what is written for a joint target is
the target plus the user's zero position (`Position`). The slave
takes a task, clears `runSign` and shows `run_`; the order of the last two is not
known and left open (unless `ShowFirst`). History variables: `lastTask` (the last
task accepted), `stopAnswered` (a StopMove was answered since), `accepted` (how
many tasks were accepted), `unread` (the clients with a task accepted since `runSign`
was last cleared).

`RunMailbox` - what `RunTask` promises with one client, as a mailbox with one
place. It says in `Redirect` and `FindAgain` what is not promised: `changeSpace`
redirects a task that waits, and a slave that dies before it clears `runSign`
finds its task again. The refinement mapping: `slot` is `plannerTaskSpace` while
`runSign` is set and the slave has no clearing of it pending, else `Empty`; `goal`
is `final`, `running` is `job`.

`TeachBoxCom` - `teachBoxCommunication` with the results of `accept`, `recv` and
`send`. A message is two pieces, the head with the command number and the rest;
`recv` returns one piece or two. The static buffer keeps its number when its text
is cleared. `accept` may fail at any time (`AcceptFails`), and does on every call
when no descriptor is left. A connection is named by its own number because its descriptor is
never closed and so never used again. `alive` is FALSE once a `send` on a broken
connection has raised SIGPIPE.

`ConfigStore` - the parameters (control law, planner, space, two speeds) in shared
memory and in `controller.json`: `initControllerParam`, `changeControllerLaw`,
`changePlanner` and `changeSpace` (`ChangeSwitch` to `StoreSwitch`), `setRunSpeed`
and `setJogSpeed` (`SetSpeed`, `ReadSpeed`), and `setConfigParam` inside them as
read (`ReadFile`), open with truncation (`Truncate`) and write (`WriteFile`). Main
loads the parameters one by one before the other threads exist, through the same
calls; then teach box and keyboard call them without a lock. A missing member, or a
file that does not parse, reads as 0 (`Loaded`); a speed is clamped. The slave
appears with its status only, because the switches check it. `kept` is a history
variable: per parameter the values it may rightly have, reduced to one when a call
that overlapped no other ends; `alone` says which calls those are.

`WdLog` - `startLog`, `logWrite` and the rotation in `checkLogSize`, by any number
of threads, one step per call of the file system and two for each of `sign--` and
`sign++`. `logs` is the directory, a function from the suffixes in use to the
number of the log; `rename` fails without effect when a suffix is not there. When
a log is full is left open, also because `checkLogSize` uses the size of a log that
another thread may just have renamed. Closing or writing a stream that another
thread has closed is undefined: the process dies (`Restart`) or goes on.
`overlapped` is a history variable. The code keeps the ten suffixes 0 to 9; its
comment (`log.cpp:38`) says nine files at most, which counts the old ones.

`ProcessComProofs`, `ProcessComTimedProofs`, `JogControlProofs`, `RunTaskProofs`,
`TeachBoxComProofs`, `ConfigStoreProofs`, `WdLogProofs` - theorems.
`MCProcessCom` - symmetry for TLC.

Definitions whose comment begins with "Mutant" are plausible bugs of the definition
below them. They are part of no specification: each was put in the place of that
definition to see that a property notices.

How the modules fit together. The parts meet in few variables: `controllerStatus`
and `runSign` (`RunTask`, and as the slave's side in `ConfigStore`), `connect`
(written in `ProcessCom`, only reported by the teach box), `jogSign` (`JogControl`)
and the space (`RunTask` and `JogControl` with its stores, `ConfigStore` with its
file). A command of the teach box is an action of `TeachBoxCom` as far as the
connection goes, and a call in the modules of what it does. That the last command is
handled again after an error, which `TeachBoxCom` shows, matters to them: in
`JogControl` a jog can be started or kept alive so without a box, which `Repeated`
models. In `RunTask` and `ConfigStore` a call may come at any moment with any
argument, so that one more of them is nothing new. The limits and zero positions
that `ProcessCom` changes are fixed in `RunTask`.

## Runs

| run | shows | bounds |
|---|---|---|
| `process_com` | `ConnectFollowsHeartbeat`: no edge of the connection is missed or doubled. `DeadSlaveNoticed`: two windows of silence and the slave is shown as lost. `NoOutdatedData`: no message is served that was queued when the loss was noticed, because a loss is only ever noticed in the status that has the queue emptied. `NoTornLimits` across restarts of both sides. `OwnLimits`, `OwnRobot`: a slave works with the limits, and is served with the dof and zero positions, of its own robot, except one that starts while other limits wait, between the reads of a connection being made, or before the loss of the one before it was shown. The exceptions happen | the real window of 10; heartbeats wrap at 3, so that every coincidence of old and new values occurs; one message, two robots, one restart of the master |
| `process_com_timed` | `LiveSlaveConnected`: a slave that keeps its cycle is connected after two windows, although a beat may fall between the two reads. `MasterHeartbeatMoves`, and `BeatNearer`: what brings each beat, both for a slave that posts at most `SlaveBurst` messages between two calls | window 3, slave period 2; with one call less than two windows the property fails, so the bound is exact |
| `jog_control` | `DeadMan`: while a master lives, `jogSign` never survives more than the time-out without a keep-alive handled. `LostBoxStopsJog`, and `JogRunsOut`: what ends the jog of a lost box, if the master lives and repeats no keep-alive or JogMove; without either condition both fail | time-out 3 (100 in the code; the theorem covers every value), two axes, directions and spaces, one restart |
| `run_task_one_client` | `MailboxSpec`: with one client `RunTask` implements `RunMailbox`. `RunsWhatWasAccepted`: a task that begins in the space it was accepted for is the last one accepted, with deaths of master and slave anywhere | four targets (home, two inside the limits, one outside), three tasks, one restart of the master, any number of the slave |
| `run_task_two_clients` | `NoTaskOverOwn`: clients that find `runSign` clear at once and write over each other have one task each accepted until the slave acknowledges, none two | two clients; none begins a task once two are accepted; no restart (the theorem covers restarts and any number of clients) |
| `teach_box` | `InOrderOnce`: commands in order, none twice, however the network splits them. `NoLeftOver`: no rest of a longer, earlier message is read with a new one. `GoneBoxLetGo`: a box that is gone is let go and the thread turns to `accept` again (whether a descriptor is left for the next box it does not say), and `LetGoNearer`: what ends its service | three connections that end anywhere, three messages each; `accept` fails at any time, and always once the third has taken the last descriptor |
| `config_store` | `SettingsDurable`: a parameter in memory, and what the next start makes of the file, is what a call set last; only overlapping calls lose a value to each other, and only they, or a death between truncation and write, bring a default back | two calls after the loading, a start with no file or with one full of other values, one restart at any point; speeds to 2 and two types, so that a default differs from a value set |
| `wd_log` | `NewestFirst`: a higher suffix is an older log, whatever rotations overlap or are cut off. `OnlyOldestDropped`, `SuffixesInUse`: unless rotations overlap, only the oldest log is lost, and only from the last suffix; no suffix of two digits is used | two threads, suffixes 0 to 2, six logs: every suffix is filled and emptied while the other thread is inside; one restart |

Type invariants (`TypeOK`) are checked with them; that of `RunTask` says too that no
request for a joint target outside the limits is past the check, that of `TeachBoxCom`
that the connection served has an open descriptor.

Four runs end in a violation, each a disagreement between the code and what its
own log message or comment says:

* `run_while_running`: `createRunTask` reads `controllerStatus`, then `runSign`.
  A task that is pending at the first read and taken, shown and acknowledged
  before the second lets both checks pass, and the next task is accepted while
  the robot moves. One client suffices, and a slave that shows `run_` before it
  clears `runSign` (`ShowFirst`) does not prevent it.
* `stop_before_take`: a stop that comes after a task was accepted and before the
  slave shows `run_` is dropped and answered with success; the robot moves.
* `teach_box_replay`: descriptors are never closed; when they run out `accept`
  fails, and every call handles the last command number again with empty text.
  If that was a run task, empty text reads as joint space and seven zeros, so the
  robot is sent to its zero position; if it was JogCycleMove or JogMove, a jog is kept
  alive or started with no box there (`JogControl`). No text of the repository
  promises the end of a jog then, or after a death of the master: these are hazards
  without a property.
* `switch_while_moving`: `changeControllerLaw` checks that the robot is at rest,
  then rewrites the file, then stores the law; a task that was accepted before is
  taken in between. `changePlanner` and `changeSpace` have the same shape.

`CHECK_DEADLOCK FALSE` stands only in the runs of `TeachBoxCom`, where the process
is killed by SIGPIPE and bounded boxes have nothing more to send, and of `WdLog`,
where no rotation begins once the bound on logs is reached.

Why the bounds suffice. Where a bound is a parameter of a theorem (window,
width of the heartbeat, queue, robots, time-out, axes, restarts) the proof
removes it. In `RunTask` two clients and two targets give every overlap of two
calls; a third task shows what a call leaves behind for the next but one. In
`TeachBoxCom` two pieces are the smallest message that can be split, and a third
message lets a stream that is out of step run on. All passing properties of
`ConfigStore`, `WdLog` and `TeachBoxCom` but `GoneBoxLetGo` are theorems too.

`BeatNearer`, `JogRunsOut` and `LetGoNearer` are the safety halves of the three
liveness properties. Each compares a number of steps left before and after a step:
none of its threads' steps leaves it as it is, and nothing anybody else does
increases it.

## Fairness

`TimedRobotRun` is weakly fair: the main thread, its `clearMsg` included, loops with
`usleep(1000)` under SCHED_FIFO and nothing it calls blocks (`IPC_NOWAIT`). That a
slave posts at most `SlaveBurst` messages from one call to the next is an assumption
on the slave: `clearMsg` itself would go on as long as a faster one posts. `TimedCycle`, the cycle of
a slave that is up, is fair because `TimedRobotRun` waits for it: a slave
slower than `SlavePeriod` is not "up" in the sense of `LiveSlaveConnected`.
`JogControl` assumes that the main thread goes on while the process lives, that a
command that was begun is finished (its steps are stores) and that the slave ends a
jog whose sign is clear. It assumes neither that the process lives nor that a dead
one is started again: `LostBoxStopsJog` is about behaviours in which it lives in the
end, and from some moment on repeats no keep-alive and no JogMove. `TeachBoxCom` assumes that the thread goes on: its sockets do not block.
No fairness is assumed of teach boxes, of the network, or of the slave starting.

## Proofs

All for every value of the constants that satisfies the module's assumption.

`ProcessComProofs`. `TypeOK` is not inductive: that the count stays within the
window needs `WindowInv` (the count reaches the window only between the two
reads). `ConnInv` is the invariant behind `ConnectFollowsHeartbeat`: place by
place it says which statuses are possible and how they relate to `isConnect`
and `connect`. `successConnect` and `disconnected` live for one call, and the
next window ends later than that only because a window has at least three calls:
that is where `ProcessComAssumption` is used, and with windows of one call the
theorem is false. `QuietInv` bounds the silence of a slave shown as connected by
one window and the count of the present one; with `ConnInv` it gives
`DeadSlaveNoticed`. `FreshInv` says where outdated messages can be: in the queue,
from the moment a loss is noticed or the master starts to the end of `clearMsg`; and
that the status is `connected` when the loss is noticed, which `ConnInv` knows, so
that the loss leads to `clearMsg`. It gives `NoOutdatedData`; a `clearMsg` left out,
or a status that could be another one at that moment, would break it. `LimitInv`
(`newLimit` is set on whole limits only, and limits are written only while it is
clear) gives `NoTornLimits`. `OwnInv` adds, place by place, what a connection under
way has read of the robot: for a slave that started before the first of the reads,
or after the copy, dof, name and limits that wait are its own. With `LimitInv` it is
inductive and gives `OwnLimits` and `OwnRobot`, for any set of robots and any
restarts of master and slaves. It says nothing of the slaves whose history is not
clean: those may work with the parameters of another robot.

`RunTaskProofs`. For any set of clients: `TypeOK`, inductive because it says of a
client past the check that its joint target is within the limits, and
`NoTaskOverOwnCorrect` from `UnreadInv`: while a client has a task accepted that was
not acknowledged, `runSign` is set and it is not past the test of `runSign` again. For `Clients = {TeachBox}`: `MailboxInv` - the client writes
only while `runSign` is clear, the slave's pending acknowledgement means that
`runSign` is set, what has been written so far is the position of the request, and
what waits is that of the last task accepted. It gives `RunsAcceptedCorrect`, and `MailboxCorrect` by
step simulation: `WriteFirst` and `WriteRest` are writes of an empty mailbox,
`RaiseRunSign` is `Put`, `SetSpace` and a restart of the master are `Redirect` or
nothing, a slave that dies is `FindAgain` or `End`, and all else is a stutter.
The assumption of one client is necessary: with two, both may find `runSign`
clear, and the second writes while the first one's task waits.

`JogControlProofs`. `CountInv` says that the count never falls behind `silence`,
place by place in `jogCheckTimeOut`: a keep-alive that falls between load and
store is lost, which makes the count too large, never too small. `TypeOK` and
`CountInv` are inductive only together, and give `DeadMan`. `JogRunsOutCorrect`:
`StepsLeft` counts the steps of the two threads that are left, from the place in
`jogCheckTimeOut` and the count (`PassSteps`: a pass that finds the time not over is
four steps) and the stores left of a `startJogMove`. If the box was lost before that
raised `jogSign`, it may raise it once more after the jog before was ended, and a
second time-out is counted in: at most `8 * JogTimeOut + 18` steps. It is about
steps in which the link is down, the master lives and no keep-alive or JogMove is
handled again (`Repeats`): each of those is a step that puts the end off, and there
may be any number of them.

`ProcessComTimedProofs`. A timed behaviour is one of `ProcessCom`
(`TimedImplements`), so the invariants above hold in it. `BeatInv` says by how many
beats the slave is ahead of the recorded heartbeat: at most `SlaveBurst` for each
call of the window, which is less than the width of the heartbeat, and none only if
the slave has been silent since the record. `LostInv` follows at the end of the
window, and bounds how long a slave that is up can be shown as lost: the window it
started in and the next. `LiveSlaveCorrect` is the bound of two windows.
`BeatNearerCorrect`: `StepsToBeat` is the length of the queue, what the slave may
still post before the next call begins, and the places left of the call. A slave that
posts uses up its burst, the beginning of a call grants a new one, and that is paid
for in advance; so `clearMsg`, which loops until the queue is empty, ends, and a beat
comes within `QueueLimit + 2 * SlaveBurst + 9` steps.

`TeachBoxComProofs`. `Place` numbers the pieces that a connection sends, and
`Gone` counts those that were read or lost. `StreamInv`: what a stream holds is the
last pieces sent, in order. `TextInv`: the buffer is clear, or holds what the last
`recv` read, one piece or two with consecutive places; `NoLeftOver` follows by the
parity of places. `QueueInv` and `PastInv`: connections are accepted in order, and
what was handled lies before all that can still be read, which survives the loss of
pieces and of connections because `Gone` only grows (`Advance`). They give
`InOrderOnceCorrect`. The clearing of the text after every message is what `TextInv`
needs; without it both theorems fail. `LetGoNearerCorrect`: `StepsToLetGo` counts
three steps (a call begins, `recv`, the message is handled) for each piece that can
still be read and for each error that `recv` can still find. A box that is gone sends nothing more, so its stream
only shrinks, and a call that reads nothing moves on all the same: at most
`3 * (2 * MaxMessages + 2) + 2` steps.

`ConfigStoreProofs`. `KeptInv` carries `SettingsDurable` through the places where a
value rests on its way: memory, file, what a call has read, its new value, what the
start has loaded. A file that was truncated gives defaults, and these are kept as
soon as a second call overlaps (`OverlapKept`) or the process dies. When a call ends
the kept values shrink to one; `AloneInv` is needed for that step: a call that was
alone finds in memory and file what it stored. `LoadInv` says that the start loads
in order and alone.

`WdLogProofs`. `NewestFirst` is inductive for any number of threads: `rename` moves
a log by one suffix and replaces what was there, so the order cannot change, and a
new log is newer than all. `SuffixBound` and `RotationInvariant` hold while
rotations have not overlapped: place by place in the loop, which suffixes are in
use, which of them is free, and what `sign` is.

Only model-checked: the liveness properties `MasterHeartbeatMoves`,
`LostBoxStopsJog` and `GoneBoxLetGo`. What they rest on in the code, that a measure
falls with every step, is proved for every value of the constants; that the
steps are taken needs fairness and ENABLED, which are beyond the prover, and is
checked by TLC. The four violations are found by TLC.

## Not modelled

* The values of positions, limits and speeds, and JSON: pure data. What a
  message that does not parse does is in `TeachBoxCom`.
* The zero positions of `Robot`: the main thread moves a new `std::vector` into
  place while other threads index the old one, and reads go past the end when the
  robot has fewer than seven joints. Both are undefined behaviour: every outcome is
  possible and there is no promise a model could keep. `RunTask` takes limits and zero
  positions as fixed: that a new connection replaces them while `createRunTask` checks
  and writes a target is left out, and so nothing is said of whether a position
  written is within the limits.
* `createTask`, the table of priorities and `singalTask`: no state beyond threads.
* `getUserJointLimit` and `setZero`, which do nothing, and the getters.
* A composition of all parts in one module: see the end of "Modules" for what they
  share. It is beyond TLC; what would be new in it is a task checked against limits
  and zero positions that change, which is undefined behaviour (above), and the chain
  from one error to the next, of which each module has its link: a lost box, the
  SIGPIPE of the answer, a jog without a master, a new master that finds `jogSign`.
* `include/` and `lib/` (libevent, jsoncpp): third-party, most of the lines of the
  repository. Of libevent one call waits for SIGUSR1; jsoncpp is the parser above.

## What could come next

With a prover that has ENABLED, the liveness properties follow from the three
measures. A `slave` module could replace the external actions when its source is at
hand, and close the question in `RunTask` of which it does first, clear `runSign`
or show `run_`; then `NoRunAfterStop` and `NoTaskWhileRunning` could be given the
conditions under which they hold.
