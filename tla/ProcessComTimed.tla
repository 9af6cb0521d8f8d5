--------------------------- MODULE ProcessComTimed ---------------------------
(***************************************************************************)
(* ProcessCom with the speeds of the two processes related.  ProcessCom    *)
(* lets the slave be arbitrarily slow or fast; what a running slave can    *)
(* rely on needs an assumption on its cycle, which the code makes silently *)
(* by choosing a window of maxTimeoutCount calls of one millisecond.       *)
(***************************************************************************)
EXTENDS ProcessCom

CONSTANTS
  SlavePeriod,  \* a running slave beats once in as many calls at least
  SlaveBurst    \* and at most this often from one call to the next

\* The window is longer than the slave's period, and the heartbeat cannot run
\* through its whole range within a window.
ASSUME ProcessComTimedAssumption ==
  /\ SlavePeriod \in 1..(MaxTimeoutCount - 1)
  /\ SlaveBurst \in Nat \ {0}
  /\ HeartbeatMod > SlaveBurst * (MaxTimeoutCount + 1)

VARIABLES
  burst,    \* beats since a call was last begun
  upCalls   \* calls begun since the slave, or the master, last started

timedVars == <<vars, burst, upCalls>>

UpBound == 2 * MaxTimeoutCount

TimedInit == Init /\ burst = 0 /\ upCalls = 0

\* Calls of robotRun, and the clearMsg before the first one.
TimedRobotRun ==
  /\ MainThread
  /\ BeginCall /\ slave = "up" => quiet < SlavePeriod
  /\ burst' = IF BeginCall THEN 0 ELSE burst
  /\ upCalls' = IF BeginCall /\ slave = "up" /\ upCalls < UpBound
                THEN upCalls + 1 ELSE upCalls

TimedRestart == MasterRestart /\ upCalls' = 0 /\ UNCHANGED burst

TimedCycle ==
  /\ burst < SlaveBurst
  /\ SlaveCycle
  /\ burst' = burst + 1
  /\ UNCHANGED upCalls

TimedStartOrCrash ==
  /\ SlaveStart \/ SlaveCrash
  /\ upCalls' = 0
  /\ UNCHANGED burst

TimedTakeLimits == SlaveTakeLimits /\ UNCHANGED <<burst, upCalls>>

TimedNext ==
  \/ TimedRobotRun \/ TimedRestart
  \/ TimedCycle \/ TimedStartOrCrash \/ TimedTakeLimits

\* The main loop runs for ever and a slave that is up keeps its cycle.
TimedSpec ==
  /\ TimedInit /\ [][TimedNext]_timedVars
  /\ WF_timedVars(TimedRobotRun)
  /\ WF_timedVars(TimedCycle)

-----------------------------------------------------------------------------
\* A slave that keeps its cycle is connected after two windows and stays
\* so: no beat swallowed between the two reads of slaveHeartbeat, and no
\* restart of a slave that resets its heartbeat, costs more than a window.
LiveSlaveConnected ==
  pc = "checkConnect" /\ upCalls = UpBound => connect

\* The slave watches masterHeartbeat in its turn: as long as the master lives
\* and the slave posts no more than SlaveBurst messages from one call to the
\* next it keeps changing, also while the queue of a lost slave is being emptied.
MasterHeartbeatMoves ==
  []<><<masterHeartbeat' # masterHeartbeat>>_masterHeartbeat

\* Steps that are left until the main thread beats, not counting those that
\* take a message from the queue.
CallLeft ==
  CASE pc = "declare"      -> 0
    [] pc = "clearMsg"     -> 1
    [] pc = "status"       -> 2
    [] pc = "record"       -> 3
    [] pc = "checkConnect" -> SlaveBurst + 4
    [] pc = "start"        -> SlaveBurst + 5
    [] pc = "limits"       -> SlaveBurst + 5
    [] pc = "testLimit"    -> SlaveBurst + 6
    [] pc = "zero"         -> SlaveBurst + 7
    [] pc = "name"         -> SlaveBurst + 8
    [] pc = "return"       -> SlaveBurst + 9

\* Steps of the main thread at most until it beats.  Emptying the queue takes
\* as long as there are messages in it and a fast slave posts more: it posts
\* SlaveBurst at most until the next call begins and as many after that.
StepsToBeat == Len(queue) + (SlaveBurst - burst) + CallLeft

\* Every step of the main thread beats or brings the next beat nearer, and
\* nothing a slave within its SlaveBurst does puts it off: it cannot keep the
\* master busy emptying the queue of a slave that the master holds for lost.
BeatNearer ==
  [][masterHeartbeat' = masterHeartbeat /\ restarts' = restarts =>
       /\ StepsToBeat' <= StepsToBeat
       /\ pc' # pc \/ Len(queue') < Len(queue)
            => StepsToBeat' < StepsToBeat]_timedVars
==============================================================================
