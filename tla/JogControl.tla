----------------------------- MODULE JogControl -----------------------------
(***************************************************************************)
(* Jogging: the robot moves as long as jogSign is set in shared memory.    *)
(* The teach-box thread sets and clears it on JogMove and JogStop          *)
(* (src/src/teachBoxCom), and the main thread clears it when no            *)
(* JogCycleMove has arrived for JogTimeOut passes of its loop              *)
(* (Controller::jogCheckTimeOut, called by robotRun).  jogTimeCount is a   *)
(* plain integer that both threads write without a lock, so its increment  *)
(* is a load and a store.  The slave and the teach box are external.       *)
(*                                                                         *)
(* A command is handled when it is received, and again when accept or recv *)
(* fail: teachBoxCommunication then goes on to cmdParsing with the number  *)
(* that the static buffer still holds and an empty text, once for a reset  *)
(* connection and every millisecond while descriptors are missing, with no *)
(* teach box at all.                                                       *)
(***************************************************************************)
EXTENDS Naturals

CONSTANTS
  JogTimeOut,   \* passes without a keep-alive that are tolerated (100)
  Axes,         \* joints or directions that can be jogged
  Dirs,         \* the two directions
  Spaces,       \* joint and cartesian space
  ZeroAxis, ZeroDir, ZeroSpace, \* what an empty text reads as
  NoJog,        \* the slave is not jogging
  MaxRestarts   \* bound on the restarts of the master

Jogs == [num : Axes, dir : Dirs, space : Spaces]

ZeroJog == [num |-> ZeroAxis, dir |-> ZeroDir, space |-> ZeroSpace]

Commands == {"none", "JogMove", "JogStop", "JogCycleMove", "other"}

ASSUME JogControlAssumption ==
  /\ JogTimeOut \in Nat
  /\ MaxRestarts \in Nat
  /\ ZeroAxis \in Axes /\ ZeroDir \in Dirs /\ ZeroSpace \in Spaces
  /\ NoJog \notin Jogs

VARIABLES
  master,               \* the process: it may die, of SIGPIPE for one
  mainPc, reg,          \* the main thread: place and loaded count
  boxPc, request,       \* the teach-box thread: place and JogMove it handles
  command,              \* the command number left in the static buffer
  link,                 \* TCP connection of the teach box
  jogTimeCount,
  jogSign, jogNum, jogDir, plannerTaskSpace, controllerStatus, \* shared memory
  slaveJog,             \* the jog the slave executes
  silence,              \* history: passes that found jogSign set since the
                        \* last keep-alive, stop or start of the master
  restarts

mainVars  == <<mainPc, reg>>
boxVars   == <<boxPc, request, command, link>>
commandVars == <<jogSign, jogNum, jogDir, plannerTaskSpace>>
slaveVars == <<controllerStatus, slaveJog>>
lifeVars  == <<master, restarts>>
vars == <<mainVars, boxVars, jogTimeCount, commandVars, slaveVars, silence,
          lifeVars>>

\* Shared memory is whatever an earlier program left; jogSign may be set.
Init ==
  /\ master = "up"
  /\ mainPc = "robotRun" /\ reg = 0
  /\ boxPc = "idle" /\ command = "none" /\ link = "down"
  /\ request \in Jogs
  /\ jogTimeCount = 0
  /\ jogSign \in BOOLEAN
  /\ jogNum = request.num /\ jogDir = request.dir
  /\ plannerTaskSpace = request.space
  /\ controllerStatus = "wait_" /\ slaveJog = NoJog
  /\ silence = 0
  /\ restarts = 0

\* The master dies, anywhere: the answer of JogMove to a box that is gone is
\* enough.  Nobody touches the shared memory.
MasterDies ==
  /\ master = "up" /\ master' = "down"
  /\ mainPc' = "robotRun" /\ reg' = 0
  /\ boxPc' = "idle" /\ command' = "none" /\ link' = "down"
  /\ jogTimeCount' = 0
  /\ silence' = 0
  /\ UNCHANGED <<request, commandVars, slaveVars, restarts>>

\* It may be started again.  initControllerParam sets the space it finds in the
\* configuration file, unless the robot moves.
MasterStart ==
  /\ master = "down" /\ master' = "up"
  /\ restarts < MaxRestarts
  /\ restarts' = restarts + 1
  /\ plannerTaskSpace' \in
       IF controllerStatus = "wait_" THEN Spaces ELSE {plannerTaskSpace}
  /\ UNCHANGED <<mainVars, boxVars, jogTimeCount, jogSign, jogNum, jogDir,
                 slaveVars, silence>>

-----------------------------------------------------------------------------
(* The teach-box thread *)

LinkUp ==
  /\ master = "up"
  /\ link = "down" /\ boxPc = "idle" /\ link' = "up"
  /\ UNCHANGED <<mainVars, boxPc, request, command, jogTimeCount,
                 commandVars, slaveVars, silence, lifeVars>>

\* The connection may break while a message is being handled.
LinkLost ==
  /\ link = "up" /\ link' = "down"
  /\ UNCHANGED <<mainVars, boxPc, request, command, jogTimeCount,
                 commandVars, slaveVars, silence, lifeVars>>

\* A message is received whole, or accept or recv fails and the command left in
\* the buffer is handled again.
Received(num) == boxPc = "idle" /\ link = "up" /\ command' = num
Repeated(num) == boxPc = "idle" /\ command = num /\ command' = num

\* startJogMove: changeSpace reads the status, then writes a file.
JogMove(jog) ==
  /\ \/ Received("JogMove")
     \/ Repeated("JogMove") /\ jog = ZeroJog
  /\ controllerStatus = "wait_"
  /\ request' = jog
  /\ boxPc' = "space"
  /\ UNCHANGED <<mainVars, link, jogTimeCount, commandVars, slaveVars,
                 silence, lifeVars>>

\* changeSpace refuses while the robot moves; so does startJogMove then.
JogRefused ==
  /\ Received("JogMove") \/ Repeated("JogMove")
  /\ controllerStatus # "wait_"
  /\ UNCHANGED <<mainVars, boxPc, request, link, jogTimeCount,
                 commandVars, slaveVars, silence, lifeVars>>

WriteSpace ==
  /\ boxPc = "space"
  /\ plannerTaskSpace' = request.space
  /\ boxPc' = "sign"
  /\ UNCHANGED <<mainVars, request, command, link, jogTimeCount, jogSign,
                 jogNum, jogDir, slaveVars, silence, lifeVars>>

RaiseJogSign ==
  /\ boxPc = "sign"
  /\ jogSign' = TRUE
  /\ boxPc' = "num"
  /\ UNCHANGED <<mainVars, request, command, link, jogTimeCount, jogNum,
                 jogDir, plannerTaskSpace, slaveVars, silence, lifeVars>>

WriteNum ==
  /\ boxPc = "num"
  /\ jogNum' = request.num
  /\ boxPc' = "dir"
  /\ UNCHANGED <<mainVars, request, command, link, jogTimeCount, jogSign,
                 jogDir, plannerTaskSpace, slaveVars, silence, lifeVars>>

WriteDir ==
  /\ boxPc = "dir"
  /\ jogDir' = request.dir
  /\ boxPc' = "idle"
  /\ UNCHANGED <<mainVars, request, command, link, jogTimeCount, jogSign,
                 jogNum, plannerTaskSpace, slaveVars, silence, lifeVars>>

\* stopJogMove
JogStop ==
  /\ Received("JogStop") \/ Repeated("JogStop")
  /\ jogSign' = FALSE
  /\ silence' = 0
  /\ UNCHANGED <<mainVars, boxPc, request, link, jogTimeCount, jogNum,
                 jogDir, plannerTaskSpace, slaveVars, lifeVars>>

\* resetJogTimeOut
JogCycleMove ==
  /\ Received("JogCycleMove") \/ Repeated("JogCycleMove")
  /\ jogTimeCount' = 0
  /\ silence' = 0
  /\ UNCHANGED <<mainVars, boxPc, request, link, commandVars,
                 slaveVars, lifeVars>>

\* Any other command; a run task and a change of space set the space.
OtherCommand ==
  /\ Received("other") \/ Repeated("other")
  /\ plannerTaskSpace' \in Spaces
  /\ UNCHANGED <<mainVars, boxPc, request, link, jogTimeCount, jogSign,
                 jogNum, jogDir, slaveVars, silence, lifeVars>>

-----------------------------------------------------------------------------
(* The main thread: jogCheckTimeOut.  It returns at once if jogSign is clear. *)

SeeJogSign ==
  /\ master = "up" /\ mainPc = "robotRun" /\ jogSign
  /\ mainPc' = "load"
  /\ silence' = silence + 1
  /\ UNCHANGED <<reg, boxVars, jogTimeCount, commandVars, slaveVars, lifeVars>>

LoadCount ==
  /\ mainPc = "load"
  /\ reg' = jogTimeCount
  /\ mainPc' = "store"
  /\ UNCHANGED <<boxVars, jogTimeCount, commandVars, slaveVars, silence,
                 lifeVars>>

StoreCount ==
  /\ mainPc = "store"
  /\ jogTimeCount' = reg + 1
  /\ mainPc' = "test"
  /\ UNCHANGED <<reg, boxVars, commandVars, slaveVars, silence, lifeVars>>

\* Mutant: the limit is off by one.
TestOnePassLate ==
  /\ mainPc = "test"
  /\ \E count \in {reg + 1, jogTimeCount} :
       mainPc' = IF count > JogTimeOut + 1 THEN "zero" ELSE "robotRun"
  /\ UNCHANGED <<reg, boxVars, jogTimeCount, commandVars, slaveVars, silence,
                 lifeVars>>

\* The comparison may use the stored value or read the variable again.
TestCount ==
  /\ mainPc = "test"
  /\ \E count \in {reg + 1, jogTimeCount} :
       mainPc' = IF count > JogTimeOut THEN "zero" ELSE "robotRun"
  /\ UNCHANGED <<reg, boxVars, jogTimeCount, commandVars, slaveVars, silence,
                 lifeVars>>

\* Mutant: the count is kept when a jog is stopped.
KeepCount ==
  /\ mainPc = "zero"
  /\ mainPc' = "stop"
  /\ UNCHANGED <<reg, boxVars, jogTimeCount, commandVars, slaveVars, silence,
                 lifeVars>>

ZeroCount ==
  /\ mainPc = "zero"
  /\ jogTimeCount' = 0
  /\ mainPc' = "stop"
  /\ UNCHANGED <<reg, boxVars, commandVars, slaveVars, silence, lifeVars>>

\* Mutant: the time-out is noticed but jogSign stays.
NoteTimeOut ==
  /\ mainPc = "stop"
  /\ silence' = 0
  /\ mainPc' = "robotRun"
  /\ UNCHANGED <<reg, boxVars, jogTimeCount, commandVars, slaveVars, lifeVars>>

StopJog ==
  /\ mainPc = "stop"
  /\ jogSign' = FALSE
  /\ silence' = 0
  /\ mainPc' = "robotRun"
  /\ UNCHANGED <<reg, boxVars, jogTimeCount, jogNum, jogDir, plannerTaskSpace,
                 slaveVars, lifeVars>>

-----------------------------------------------------------------------------
(* The slave (external).  Whether its status shows a jog is up to it. *)

SlaveBegin ==
  /\ jogSign /\ slaveJog = NoJog /\ controllerStatus = "wait_"
  /\ slaveJog' = [num |-> jogNum, dir |-> jogDir, space |-> plannerTaskSpace]
  /\ controllerStatus' \in {"wait_", "run_"}
  /\ UNCHANGED <<mainVars, boxVars, jogTimeCount, commandVars, silence,
                 lifeVars>>

SlaveEnd ==
  /\ ~jogSign /\ slaveJog # NoJog
  /\ slaveJog' = NoJog
  /\ controllerStatus' = "wait_"
  /\ UNCHANGED <<mainVars, boxVars, jogTimeCount, commandVars, silence,
                 lifeVars>>

SlaveRestart ==
  /\ slaveJog' = NoJog
  /\ controllerStatus' = "wait_"
  /\ UNCHANGED <<mainVars, boxVars, jogTimeCount, commandVars, silence,
                 lifeVars>>

-----------------------------------------------------------------------------
startJogMove == WriteSpace \/ RaiseJogSign \/ WriteNum \/ WriteDir

jogCheckTimeOut ==
  \/ SeeJogSign \/ LoadCount \/ StoreCount \/ TestCount \/ ZeroCount \/ StopJog

TeachBox ==
  \/ LinkUp \/ LinkLost
  \/ \E jog \in Jogs : JogMove(jog)
  \/ JogRefused \/ JogStop \/ JogCycleMove \/ OtherCommand

Slave == SlaveBegin \/ SlaveEnd \/ SlaveRestart

Next ==
  \/ MasterDies \/ MasterStart
  \/ TeachBox \/ startJogMove \/ jogCheckTimeOut \/ Slave

Spec == Init /\ [][Next]_vars

\* While the master lives, the main loop and a handler once begun go on; the
\* slave obeys jogSign.
FairSpec ==
  /\ Spec
  /\ WF_vars(jogCheckTimeOut)
  /\ WF_vars(startJogMove)
  /\ WF_vars(SlaveEnd)

-----------------------------------------------------------------------------
(* Properties *)

\* Every variable keeps its type; the count stays far below its width.
TypeOK ==
  /\ master \in {"up", "down"} /\ command \in Commands
  /\ mainPc \in {"robotRun", "load", "store", "test", "zero", "stop"}
  /\ reg \in 0..JogTimeOut
  /\ boxPc \in {"idle", "space", "sign", "num", "dir"}
  /\ request \in Jogs
  /\ link \in {"up", "down"}
  /\ jogTimeCount \in 0..(JogTimeOut + 1)
  /\ jogSign \in BOOLEAN
  /\ jogNum \in Axes /\ jogDir \in Dirs /\ plannerTaskSpace \in Spaces
  /\ controllerStatus \in {"wait_", "run_"}
  /\ slaveJog \in Jogs \cup {NoJog}
  /\ silence \in 0..(JogTimeOut + 1)
  /\ restarts \in 0..MaxRestarts

\* While a master lives, jogSign never survives more than JogTimeOut complete
\* passes without a keep-alive, although the count is shared without a lock, is
\* not reset when a jog starts, and jogSign outlives a restart of the master.  A
\* JogCycleMove handled again after an error is a keep-alive, box or no box.
DeadMan == mainPc = "robotRun" => silence <= JogTimeOut

\* With no box there, a keep-alive or a start of a jog is handled once more.
Repeats == link = "down" /\ (JogCycleMove \/ \E jog \in Jogs : JogMove(jog))

\* Once the teach box is gone for good the robot stops jogging for good, also
\* when the link broke in the middle of startJogMove, if the master lives and
\* does not go on to repeat a keep-alive or a JogMove for want of a descriptor.
LostBoxStopsJog ==
  <>[](link = "down" /\ master = "up") /\ <>[][~Repeats]_vars
    => <>[](slaveJog = NoJog /\ ~jogSign)

\* How many steps of the main thread clear jogSign, if no keep-alive comes: a
\* pass that finds the time not over is four.
PassSteps ==
  CASE mainPc = "robotRun" -> 4 * (JogTimeOut - jogTimeCount) + 6
    [] mainPc = "load"     -> 4 * (JogTimeOut - jogTimeCount) + 5
    [] mainPc = "store"    -> 4 * (JogTimeOut - reg) + 4
    [] mainPc = "test"     -> 4 * (JogTimeOut + 1 - jogTimeCount) + 3
    [] mainPc = "zero"     -> 2
    [] mainPc = "stop"     -> 1

StoresLeft ==
  CASE boxPc = "space" -> 4 [] boxPc = "sign" -> 3 [] boxPc = "num" -> 2
    [] boxPc = "dir"   -> 1 [] boxPc = "idle" -> 0

\* Steps of the two threads at most until jogSign is clear for good, if the
\* link stays down: a handler begun before may raise it once more.
StepsLeft ==
  IF boxPc \in {"space", "sign"}
    THEN StoresLeft + 4 * JogTimeOut + 6
           + (IF jogSign \/ mainPc # "robotRun" THEN PassSteps + 1 ELSE 0)
  ELSE IF jogSign THEN StoresLeft + PassSteps
  ELSE 0

\* While the link is down and the master lives, every step of either thread
\* brings the end of the jog nearer and nothing puts it off but a keep-alive or
\* a JogMove handled again, wherever in startJogMove and in the race for the
\* count the box was lost: two time-outs are enough.
JogRunsOut ==
  [][/\ link = "down" /\ link' = "down" /\ master = "up" /\ master' = "up"
     /\ ~Repeats
     => /\ StepsLeft' <= StepsLeft
        /\ StepsLeft # 0 /\ <<mainPc, boxPc>>' # <<mainPc, boxPc>>
             => StepsLeft' < StepsLeft]_vars
=============================================================================
