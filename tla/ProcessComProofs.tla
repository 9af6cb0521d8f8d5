--------------------------- MODULE ProcessComProofs ---------------------------
(***************************************************************************)
(* Proofs about ProcessCom for every window length of three calls or more, *)
(* every heartbeat width and queue size, every set of robots and any       *)
(* number of restarts.                                                     *)
(***************************************************************************)
EXTENDS ProcessCom, TLAPS

\* A heartbeat stays within its width.
LEMMA BeatType == ASSUME NEW h \in 0..(HeartbeatMod - 1)
                  PROVE  Beat(h) \in 0..(HeartbeatMod - 1)
  BY ProcessComAssumption DEF ProcessComAssumption, Beat

\* Outdated messages make a queue as long as it was.
LEMMA OutdatedType == ASSUME NEW q \in Seq({"fresh", "outdated"})
                      PROVE  Outdated(q) \in Seq({"fresh", "outdated"})
  BY DEF Outdated

\* The count reaches the window only between the two reads of the heartbeat.
WindowInv == pc # "record" => timeoutCount < MaxTimeoutCount

\* Every variable keeps its type: the inductive form.
LEMMA TypeInvariant == Spec => [](TypeOK /\ WindowInv)
<1>1. ASSUME Init PROVE TypeOK /\ WindowInv
  <2>1. /\ isConnect \in BOOLEAN /\ connect \in BOOLEAN
        /\ newLimit \in BOOLEAN /\ cleanStart \in BOOLEAN
        /\ lossShown \in BOOLEAN
    BY <1>1, Zenon DEF Init
  <2>2. QED
    BY <1>1, <2>1, ProcessComAssumption
       DEF ProcessComAssumption, Init, TypeOK, WindowInv, Status,
           QuietBound
<1>2. TypeOK /\ WindowInv /\ [Next]_vars => (TypeOK /\ WindowInv)'
  <2> SUFFICES ASSUME TypeOK, WindowInv, [Next]_vars
               PROVE  (TypeOK /\ WindowInv)'
    OBVIOUS
  <2> USE ProcessComAssumption, BeatType
      DEF ProcessComAssumption, TypeOK, WindowInv, Status, QuietBound,
          comVars, robotVars, limitVars, startVars, slaveVars, Connecting
  <2>1. CASE MasterRestart
    <3>1. isConnect' \in BOOLEAN /\ connect' \in BOOLEAN
      BY <2>1, Zenon DEF MasterRestart
    <3>2. queue' \in Seq({"fresh", "outdated"})
      BY <2>1, OutdatedType DEF MasterRestart
    <3>3. QED
      BY <2>1, <3>1, <3>2 DEF MasterRestart
  <2>2. CASE CountCall
    BY <2>2 DEF CountCall, QuietCall
  <2>3. CASE CompareHeartbeat
    <3>1. isConnect' \in BOOLEAN
      BY <2>3 DEF CompareHeartbeat
    <3>2. timeoutCount' \in 0..MaxTimeoutCount
      BY <2>3 DEF CompareHeartbeat
    <3>3. queue' \in Seq({"fresh", "outdated"})
      BY <2>3, OutdatedType DEF CompareHeartbeat
    <3>4. QED
      BY <2>3, <3>1, <3>2, <3>3 DEF CompareHeartbeat, QuietCall
  <2>4. CASE RecordHeartbeat
    BY <2>4 DEF RecordHeartbeat
  <2>5. CASE ReceiveMessage
    <3>1. messageBuff' \in {"none", "fresh", "outdated"}
          /\ queue' \in Seq({"fresh", "outdated"})
      <4>1. CASE queue = <<>>
        BY <2>5, <4>1 DEF ReceiveMessage
      <4>2. CASE queue # <<>>
        <5>1. Head(queue) \in {"fresh", "outdated"}
              /\ Tail(queue) \in Seq({"fresh", "outdated"})
          BY <4>2
        <5>2. messageBuff' = Head(queue) /\ queue' = Tail(queue)
          BY <2>5, <4>2 DEF ReceiveMessage
        <5>3. QED
          BY <5>1, <5>2
      <4>3. QED
        BY <4>1, <4>2
    <3>2. communicationStatus' \in Status
      BY <2>5, Zenon DEF ReceiveMessage
    <3>3. QED
      BY <2>5, <3>1, <3>2 DEF ReceiveMessage
  <2>6. CASE LoseSlave
    BY <2>6 DEF LoseSlave
  <2>7. CASE ClearOne
    BY <2>7 DEF ClearOne
  <2>8. CASE DeclareLoss
    BY <2>8 DEF DeclareLoss
  <2>9. CASE StayOffline
    BY <2>9 DEF StayOffline
  <2>10. CASE LimitsRefused
    BY <2>10 DEF LimitsRefused
  <2>11. CASE LimitsCopying
    BY <2>11 DEF LimitsCopying
  <2>12. CASE LimitsDone
    BY <2>12 DEF LimitsDone, Params
  <2>13. CASE Disconnect
    <3>1. connect' \in BOOLEAN
      BY <2>13, Zenon DEF Disconnect
    <3>2. QED
      BY <2>13, <3>1 DEF Disconnect
  <2>14. CASE NoChange
    BY <2>14 DEF NoChange
  <2>15. CASE SlaveStart
    <3>1. /\ newLimit' \in BOOLEAN /\ cleanStart' \in BOOLEAN
          /\ lossShown' \in BOOLEAN
      BY <2>15, Zenon DEF SlaveStart
    <3>2. QED
      BY <2>15, <3>1 DEF SlaveStart
  <2>16. CASE SlaveCycle
    BY <2>16 DEF SlaveCycle
  <2>17. CASE SlaveTakeLimits
    <3>1. newLimit' \in BOOLEAN
      BY <2>17, Zenon DEF SlaveTakeLimits
    <3>2. QED
      BY <2>17, <3>1 DEF SlaveTakeLimits
  <2>18. CASE SlaveCrash
    <3>1. cleanStart' \in BOOLEAN /\ lossShown' \in BOOLEAN
      BY <2>18, Zenon DEF SlaveCrash
    <3>2. QED
      BY <2>18, <3>1 DEF SlaveCrash
  <2>19. CASE UNCHANGED vars
    BY <2>19 DEF vars
  <2>20. CASE QueueEmpty
    BY <2>20 DEF QueueEmpty
  <2>21. CASE ReadDof
    BY <2>21 DEF ReadDof
  <2>22. CASE ReadName
    BY <2>22 DEF ReadName
  <2>23. CASE SetZero
    BY <2>23 DEF SetZero, Params
  <2>24. QED
    BY <2>1, <2>2, <2>3, <2>4, <2>5, <2>6, <2>7, <2>8, <2>9, <2>10, <2>11,
       <2>12, <2>13, <2>14, <2>15, <2>16, <2>17, <2>18, <2>19, <2>20, <2>21,
       <2>22, <2>23
       DEF Next, MainThread, clearMsg, robotRun, comRecvMessage, BeginCall, Slave
<1>3. QED
  BY <1>1, <1>2, PTL DEF Spec

\* Every variable of ProcessCom keeps its type.
THEOREM TypeCorrect == Spec => []TypeOK
  BY TypeInvariant, PTL

-----------------------------------------------------------------------------
\* How the status that is passed around and the flag that is served follow
\* isConnect, place by place in robotRun.  The two one-call statuses are gone
\* before the next window ends, because a window has three calls or more.
ConnInv ==
  /\ pc = "start" => /\ ~isConnect /\ ~connect
                     /\ communicationStatus = "connected" /\ timeoutCount = 0
  /\ pc = "checkConnect" =>
       \/ /\ isConnect /\ connect
          /\ \/ communicationStatus = "connected"
             \/ communicationStatus = "successConnect" /\ timeoutCount <= 1
       \/ /\ ~isConnect /\ ~connect
          /\ \/ communicationStatus = "noConnect"
             \/ communicationStatus = "disconnected" /\ timeoutCount <= 1
             \/ communicationStatus = "connected" /\ timeoutCount = 0
  /\ pc = "record" =>
       \/ communicationStatus = "connected" /\ connect
       \/ communicationStatus = "noConnect" /\ ~connect
  /\ pc = "status" /\ isConnect =>
       \/ communicationStatus = "noConnect" /\ timeoutCount <= 1
       \/ communicationStatus \in {"connected", "successConnect"} /\ connect
  /\ pc = "status" /\ ~isConnect =>
       \/ communicationStatus = "connected" /\ timeoutCount <= 1
       \/ communicationStatus \in {"noConnect", "disconnected"} /\ ~connect
  /\ pc \in {"clearMsg", "declare"} => ~isConnect /\ timeoutCount <= 1
  /\ pc = "return" /\ isConnect =>
       \/ communicationStatus = "connected" /\ connect
       \/ communicationStatus = "successConnect" /\ timeoutCount <= 1
  /\ pc = "return" /\ ~isConnect =>
       \/ communicationStatus = "noConnect" /\ ~connect
       \/ communicationStatus = "disconnected" /\ timeoutCount <= 1
  /\ pc \in Connecting =>
       isConnect /\ communicationStatus = "successConnect" /\ timeoutCount <= 1

\* The status and connect follow isConnect at every place.
LEMMA ConnInvariant == Spec => []ConnInv
<1>1. Init => ConnInv
  <2> SUFFICES ASSUME Init PROVE ConnInv
    OBVIOUS
  <2>1. ~isConnect /\ ~connect
    BY Zenon DEF Init
  <2>2. QED
    BY <2>1 DEF Init, ConnInv, Connecting
<1>2. TypeOK /\ WindowInv /\ ConnInv /\ [Next]_vars => ConnInv'
  <2> SUFFICES ASSUME TypeOK, WindowInv, ConnInv, [Next]_vars
               PROVE  ConnInv'
    OBVIOUS
  <2> USE ProcessComAssumption
      DEF TypeOK, WindowInv, ConnInv, Status, ProcessComAssumption, comVars,
          robotVars, limitVars, startVars, slaveVars, Connecting
  <2>1. CASE MasterRestart
    BY <2>1 DEF MasterRestart
  <2>2. CASE CountCall
    BY <2>2 DEF CountCall, QuietCall
  <2>3. CASE CompareHeartbeat
    BY <2>3 DEF CompareHeartbeat, QuietCall
  <2>4. CASE RecordHeartbeat
    BY <2>4 DEF RecordHeartbeat
  <2>5. CASE ReceiveMessage
    BY <2>5 DEF ReceiveMessage
  <2>6. CASE LoseSlave
    BY <2>6 DEF LoseSlave
  <2>7. CASE ClearOne
    BY <2>7 DEF ClearOne
  <2>8. CASE DeclareLoss
    BY <2>8 DEF DeclareLoss
  <2>9. CASE StayOffline
    BY <2>9 DEF StayOffline
  <2>10. CASE LimitsRefused
    BY <2>10 DEF LimitsRefused
  <2>11. CASE LimitsCopying
    BY <2>11 DEF LimitsCopying
  <2>12. CASE LimitsDone
    BY <2>12 DEF LimitsDone, Params
  <2>13. CASE Disconnect
    BY <2>13 DEF Disconnect
  <2>14. CASE NoChange
    BY <2>14 DEF NoChange
  <2>15. CASE SlaveStart
    BY <2>15 DEF SlaveStart
  <2>16. CASE SlaveCycle
    BY <2>16 DEF SlaveCycle
  <2>17. CASE SlaveTakeLimits
    BY <2>17 DEF SlaveTakeLimits
  <2>18. CASE SlaveCrash
    BY <2>18 DEF SlaveCrash
  <2>19. CASE UNCHANGED vars
    BY <2>19 DEF vars
  <2>20. CASE QueueEmpty
    BY <2>20 DEF QueueEmpty
  <2>21. CASE ReadDof
    BY <2>21 DEF ReadDof
  <2>22. CASE ReadName
    BY <2>22 DEF ReadName
  <2>23. CASE SetZero
    BY <2>23 DEF SetZero, Params
  <2>24. QED
    BY <2>1, <2>2, <2>3, <2>4, <2>5, <2>6, <2>7, <2>8, <2>9, <2>10, <2>11,
       <2>12, <2>13, <2>14, <2>15, <2>16, <2>17, <2>18, <2>19, <2>20, <2>21,
       <2>22, <2>23
       DEF Next, MainThread, clearMsg, robotRun, comRecvMessage, BeginCall, Slave
<1>3. QED
  BY <1>1, <1>2, TypeInvariant, PTL DEF Spec

-----------------------------------------------------------------------------
\* A heartbeat that differs from the recorded one was written in this window,
\* so a slave shown as connected acted in this window or in the one before.
QuietInv ==
  /\ HeartBeatRecord # slaveHeartbeat => quiet <= timeoutCount
  /\ pc = "record" /\ isConnect => quiet <= MaxTimeoutCount
  /\ pc # "record" /\ isConnect => quiet <= MaxTimeoutCount + timeoutCount

\* A slave shown as connected was silent for less than two windows.
LEMMA QuietInvariant == Spec => []QuietInv
<1>1. Init => QuietInv
  BY DEF Init, QuietInv
<1>2. TypeOK /\ WindowInv /\ QuietInv /\ [Next]_vars => QuietInv'
  <2> SUFFICES ASSUME TypeOK, WindowInv, QuietInv, [Next]_vars
               PROVE  QuietInv'
    OBVIOUS
  <2> USE ProcessComAssumption
      DEF TypeOK, WindowInv, QuietInv, QuietBound, ProcessComAssumption, comVars,
          robotVars, limitVars, startVars, slaveVars, Connecting
  <2>1. CASE MasterRestart
    BY <2>1 DEF MasterRestart
  <2>2. CASE CountCall
    BY <2>2 DEF CountCall, QuietCall
  <2>3. CASE CompareHeartbeat
    <3>1. isConnect' => HeartBeatRecord # slaveHeartbeat
      BY <2>3, Zenon DEF CompareHeartbeat
    <3>2. UNCHANGED <<HeartBeatRecord, slaveHeartbeat>>
      BY <2>3 DEF CompareHeartbeat
    <3>3. /\ pc' = "record"
          /\ timeoutCount' = timeoutCount + 1
          /\ timeoutCount' <= MaxTimeoutCount
      BY <2>3 DEF CompareHeartbeat
    <3>4. quiet' <= quiet + 1
      BY <2>3 DEF CompareHeartbeat, QuietCall
    <3>5. QED
      BY <3>1, <3>2, <3>3, <3>4, <2>3 DEF CompareHeartbeat, QuietCall
  <2>4. CASE RecordHeartbeat
    BY <2>4 DEF RecordHeartbeat
  <2>5. CASE ReceiveMessage
    BY <2>5 DEF ReceiveMessage
  <2>6. CASE LoseSlave
    BY <2>6 DEF LoseSlave
  <2>7. CASE ClearOne
    BY <2>7 DEF ClearOne
  <2>8. CASE DeclareLoss
    BY <2>8 DEF DeclareLoss
  <2>9. CASE StayOffline
    BY <2>9 DEF StayOffline
  <2>10. CASE LimitsRefused
    BY <2>10 DEF LimitsRefused
  <2>11. CASE LimitsCopying
    BY <2>11 DEF LimitsCopying
  <2>12. CASE LimitsDone
    BY <2>12 DEF LimitsDone, Params
  <2>13. CASE Disconnect
    BY <2>13 DEF Disconnect
  <2>14. CASE NoChange
    BY <2>14 DEF NoChange
  <2>15. CASE SlaveStart
    BY <2>15 DEF SlaveStart
  <2>16. CASE SlaveCycle
    BY <2>16 DEF SlaveCycle
  <2>17. CASE SlaveTakeLimits
    BY <2>17 DEF SlaveTakeLimits
  <2>18. CASE SlaveCrash
    BY <2>18 DEF SlaveCrash
  <2>19. CASE UNCHANGED vars
    BY <2>19 DEF vars
  <2>20. CASE QueueEmpty
    BY <2>20 DEF QueueEmpty
  <2>21. CASE ReadDof
    BY <2>21 DEF ReadDof
  <2>22. CASE ReadName
    BY <2>22 DEF ReadName
  <2>23. CASE SetZero
    BY <2>23 DEF SetZero, Params
  <2>24. QED
    BY <2>1, <2>2, <2>3, <2>4, <2>5, <2>6, <2>7, <2>8, <2>9, <2>10, <2>11,
       <2>12, <2>13, <2>14, <2>15, <2>16, <2>17, <2>18, <2>19, <2>20, <2>21,
       <2>22, <2>23
       DEF Next, MainThread, clearMsg, robotRun, comRecvMessage, BeginCall, Slave
<1>3. QED
  BY <1>1, <1>2, TypeInvariant, PTL DEF Spec

-----------------------------------------------------------------------------
\* Outdated messages are in the queue only from the moment a loss is noticed,
\* or the master starts, to the end of clearMsg.  At that moment the status is
\* connected, so that the loss is not passed over.
FreshInv ==
  /\ messageBuff # "outdated"
  /\ \/ queue \in Seq({"fresh"})
     \/ pc \in {"start", "clearMsg"}
     \/ /\ pc \in {"record", "status"} /\ ~isConnect
        /\ communicationStatus = "connected"

\* What is outdated is in the queue only where it is about to be removed.
LEMMA FreshInvariant == Spec => []FreshInv
<1>1. Init => FreshInv
  BY DEF Init, FreshInv
<1>2. TypeOK /\ ConnInv /\ FreshInv /\ [Next]_vars => FreshInv'
  <2> SUFFICES ASSUME TypeOK, ConnInv, FreshInv, [Next]_vars
               PROVE  FreshInv'
    OBVIOUS
  <2> USE ProcessComAssumption DEF TypeOK, FreshInv, comVars, robotVars,
          limitVars, startVars, slaveVars, Connecting
  <2>1. CASE MasterRestart
    BY <2>1 DEF MasterRestart
  <2>2. CASE CountCall
    BY <2>2 DEF CountCall
  <2>3. CASE CompareHeartbeat
    <3>1. CASE isConnect /\ ~isConnect'
      <4>1. communicationStatus = "connected"
        BY <2>3, <3>1 DEF CompareHeartbeat, ConnInv, ProcessComAssumption
      <4>2. QED
        BY <2>3, <3>1, <4>1 DEF CompareHeartbeat
    <3>2. CASE ~(isConnect /\ ~isConnect')
      BY <2>3, <3>2 DEF CompareHeartbeat
    <3>3. QED
      BY <3>1, <3>2
  <2>4. CASE RecordHeartbeat
    BY <2>4 DEF RecordHeartbeat
  <2>5. CASE ReceiveMessage
    BY <2>5 DEF ReceiveMessage
  <2>6. CASE LoseSlave
    BY <2>6 DEF LoseSlave
  <2>7. CASE ClearOne
    BY <2>7 DEF ClearOne
  <2>8. CASE DeclareLoss
    BY <2>8 DEF DeclareLoss
  <2>9. CASE StayOffline
    BY <2>9 DEF StayOffline
  <2>10. CASE LimitsRefused
    BY <2>10 DEF LimitsRefused
  <2>11. CASE LimitsCopying
    BY <2>11 DEF LimitsCopying
  <2>12. CASE LimitsDone
    BY <2>12 DEF LimitsDone, Params
  <2>13. CASE Disconnect
    BY <2>13 DEF Disconnect
  <2>14. CASE NoChange
    BY <2>14 DEF NoChange
  <2>15. CASE SlaveStart
    BY <2>15 DEF SlaveStart
  <2>16. CASE SlaveCycle
    BY <2>16 DEF SlaveCycle
  <2>17. CASE SlaveTakeLimits
    BY <2>17 DEF SlaveTakeLimits
  <2>18. CASE SlaveCrash
    BY <2>18 DEF SlaveCrash
  <2>19. CASE UNCHANGED vars
    BY <2>19 DEF vars
  <2>20. CASE QueueEmpty
    BY <2>20 DEF QueueEmpty
  <2>21. CASE ReadDof
    BY <2>21 DEF ReadDof
  <2>22. CASE ReadName
    BY <2>22 DEF ReadName
  <2>23. CASE SetZero
    BY <2>23 DEF SetZero, Params
  <2>24. QED
    BY <2>1, <2>2, <2>3, <2>4, <2>5, <2>6, <2>7, <2>8, <2>9, <2>10, <2>11,
       <2>12, <2>13, <2>14, <2>15, <2>16, <2>17, <2>18, <2>19, <2>20, <2>21,
       <2>22, <2>23
       DEF Next, MainThread, clearMsg, robotRun, comRecvMessage, BeginCall, Slave
<1>3. QED
  BY <1>1, <1>2, TypeInvariant, ConnInvariant, PTL DEF Spec

-----------------------------------------------------------------------------
\* newLimit is raised on complete limits only, and the master writes them
\* only while it is clear.
LimitInv ==
  /\ newLimit => limits # Torn
  /\ pc = "limits" => ~newLimit
  /\ slaveLimits # Torn

\* The limits are whole while newLimit is set.
LEMMA LimitInvariant == Spec => []LimitInv
<1>1. ASSUME Init PROVE LimitInv
  <2>1. ~newLimit
    BY <1>1, Zenon DEF Init
  <2>2. QED
    BY <1>1, <2>1, ProcessComAssumption DEF ProcessComAssumption, Init, LimitInv
<1>2. TypeOK /\ WindowInv /\ LimitInv /\ [Next]_vars => LimitInv'
  <2> SUFFICES ASSUME TypeOK, WindowInv, LimitInv, [Next]_vars
               PROVE  LimitInv'
    OBVIOUS
  <2> USE ProcessComAssumption
      DEF TypeOK, WindowInv, LimitInv, ProcessComAssumption, comVars,
          robotVars, limitVars, startVars, slaveVars, Connecting
  <2>1. CASE MasterRestart
    BY <2>1 DEF MasterRestart
  <2>2. CASE CountCall
    BY <2>2 DEF CountCall
  <2>3. CASE CompareHeartbeat
    BY <2>3 DEF CompareHeartbeat
  <2>4. CASE RecordHeartbeat
    BY <2>4 DEF RecordHeartbeat
  <2>5. CASE ReceiveMessage
    BY <2>5 DEF ReceiveMessage
  <2>6. CASE LoseSlave
    BY <2>6 DEF LoseSlave
  <2>7. CASE ClearOne
    BY <2>7 DEF ClearOne
  <2>8. CASE DeclareLoss
    BY <2>8 DEF DeclareLoss
  <2>9. CASE StayOffline
    BY <2>9 DEF StayOffline
  <2>10. CASE LimitsRefused
    BY <2>10 DEF LimitsRefused
  <2>11. CASE LimitsCopying
    BY <2>11 DEF LimitsCopying
  <2>12. CASE LimitsDone
    BY <2>12 DEF LimitsDone, Params
  <2>13. CASE Disconnect
    BY <2>13 DEF Disconnect
  <2>14. CASE NoChange
    BY <2>14 DEF NoChange
  <2>15. CASE SlaveStart
    <3>1. newLimit' => newLimit
      BY <2>15, Zenon DEF SlaveStart
    <3>2. QED
      BY <2>15, <3>1 DEF SlaveStart
  <2>16. CASE SlaveCycle
    BY <2>16 DEF SlaveCycle
  <2>17. CASE SlaveTakeLimits
    BY <2>17 DEF SlaveTakeLimits
  <2>18. CASE SlaveCrash
    BY <2>18 DEF SlaveCrash
  <2>19. CASE UNCHANGED vars
    BY <2>19 DEF vars
  <2>20. CASE QueueEmpty
    BY <2>20 DEF QueueEmpty
  <2>21. CASE ReadDof
    BY <2>21 DEF ReadDof
  <2>22. CASE ReadName
    BY <2>22 DEF ReadName
  <2>23. CASE SetZero
    BY <2>23 DEF SetZero, Params
  <2>24. QED
    BY <2>1, <2>2, <2>3, <2>4, <2>5, <2>6, <2>7, <2>8, <2>9, <2>10, <2>11,
       <2>12, <2>13, <2>14, <2>15, <2>16, <2>17, <2>18, <2>19, <2>20, <2>21,
       <2>22, <2>23
       DEF Next, MainThread, clearMsg, robotRun, comRecvMessage, BeginCall, Slave
<1>3. QED
  BY <1>1, <1>2, TypeInvariant, PTL DEF Spec

-----------------------------------------------------------------------------
\* A slave that started clean finds the limits of its own robot whenever
\* newLimit is set, and what a connection under way has read is its own robot's.
\* One that started after the loss was shown cannot be connected without the
\* parameters of its own robot.
OwnInv ==
  /\ (cleanStart \/ lossShown) =>
       /\ pc \in Connecting => robotDof = slaveRobot
       /\ pc \in Connecting \ {"name"} => robotName = slaveRobot
  /\ cleanStart =>
       /\ newLimit => limits = slaveRobot
       /\ slaveLimits # NoRobot => slaveLimits = slaveRobot
  /\ lossShown =>
       /\ connect => robotDof = slaveRobot
       /\ connect \/ pc \in {"testLimit", "limits"} =>
            userZeroPosition = slaveRobot

\* Neither limits nor parameters of another robot stay in use for a slave that
\* started so.
LEMMA OwnInvariant == Spec => []OwnInv
<1>1. Init => OwnInv
  BY DEF Init, OwnInv
<1>2. TypeOK /\ LimitInv /\ OwnInv /\ [Next]_vars => OwnInv'
  <2> SUFFICES ASSUME TypeOK, LimitInv, OwnInv, [Next]_vars
               PROVE  OwnInv'
    OBVIOUS
  <2> USE ProcessComAssumption
      DEF TypeOK, LimitInv, OwnInv, ProcessComAssumption, comVars,
          robotVars, limitVars, startVars, slaveVars, Connecting
  <2>1. CASE MasterRestart
    BY <2>1 DEF MasterRestart
  <2>2. CASE CountCall
    BY <2>2 DEF CountCall
  <2>3. CASE CompareHeartbeat
    BY <2>3 DEF CompareHeartbeat
  <2>4. CASE RecordHeartbeat
    BY <2>4 DEF RecordHeartbeat
  <2>5. CASE ReceiveMessage
    BY <2>5 DEF ReceiveMessage
  <2>6. CASE LoseSlave
    BY <2>6 DEF LoseSlave
  <2>7. CASE ClearOne
    BY <2>7 DEF ClearOne
  <2>8. CASE DeclareLoss
    BY <2>8 DEF DeclareLoss
  <2>9. CASE StayOffline
    BY <2>9 DEF StayOffline
  <2>10. CASE LimitsRefused
    BY <2>10 DEF LimitsRefused
  <2>11. CASE LimitsCopying
    BY <2>11 DEF LimitsCopying
  <2>12. CASE LimitsDone
    BY <2>12 DEF LimitsDone, Params
  <2>13. CASE Disconnect
    BY <2>13 DEF Disconnect
  <2>14. CASE NoChange
    BY <2>14 DEF NoChange
  <2>15. CASE SlaveStart
    <3>1. /\ cleanStart' => ~newLimit' /\ pc \notin Connecting
          /\ lossShown' => ~connect /\ pc \notin Connecting
      BY <2>15, Zenon DEF SlaveStart
    <3>2. pc' = pc /\ connect' = connect /\ slaveLimits' = NoRobot
      BY <2>15 DEF SlaveStart
    <3>3. QED
      BY <3>1, <3>2
  <2>16. CASE SlaveCycle
    BY <2>16 DEF SlaveCycle
  <2>17. CASE SlaveTakeLimits
    BY <2>17 DEF SlaveTakeLimits
  <2>18. CASE SlaveCrash
    BY <2>18 DEF SlaveCrash
  <2>19. CASE UNCHANGED vars
    BY <2>19 DEF vars
  <2>20. CASE QueueEmpty
    BY <2>20 DEF QueueEmpty
  <2>21. CASE ReadDof
    BY <2>21 DEF ReadDof
  <2>22. CASE ReadName
    BY <2>22 DEF ReadName
  <2>23. CASE SetZero
    BY <2>23 DEF SetZero, Params
  <2>24. QED
    BY <2>1, <2>2, <2>3, <2>4, <2>5, <2>6, <2>7, <2>8, <2>9, <2>10, <2>11,
       <2>12, <2>13, <2>14, <2>15, <2>16, <2>17, <2>18, <2>19, <2>20, <2>21,
       <2>22, <2>23
       DEF Next, MainThread, clearMsg, robotRun, comRecvMessage, BeginCall, Slave
<1>3. QED
  BY <1>1, <1>2, TypeCorrect, LimitInvariant, PTL DEF Spec

-----------------------------------------------------------------------------
\* Between two calls of robotRun controller->connect is what the heartbeat
\* shows, whatever the interleaving with the slave.
THEOREM ConnectCorrect == Spec => []ConnectFollowsHeartbeat
<1>1. TypeOK /\ ConnInv => ConnectFollowsHeartbeat
  BY Zenon DEF TypeOK, ConnInv, ConnectFollowsHeartbeat
<1>2. QED
  BY <1>1, TypeCorrect, ConnInvariant, PTL

\* A slave that has been silent for two windows is not shown as connected.
THEOREM DeadSlaveCorrect == Spec => []DeadSlaveNoticed
<1>1. TypeOK /\ WindowInv /\ ConnInv /\ QuietInv => DeadSlaveNoticed
  <2> SUFFICES ASSUME TypeOK, WindowInv, ConnInv, QuietInv,
                      pc = "checkConnect", quiet >= 2 * MaxTimeoutCount, connect
               PROVE  FALSE
    BY DEF DeadSlaveNoticed
  <2>1. isConnect
    BY DEF ConnInv
  <2>2. timeoutCount < MaxTimeoutCount /\ quiet <= MaxTimeoutCount + timeoutCount
    BY <2>1 DEF WindowInv, QuietInv
  <2>3. QED
    BY <2>2, ProcessComAssumption DEF ProcessComAssumption, TypeOK, QuietBound
<1>2. QED
  BY <1>1, TypeInvariant, ConnInvariant, QuietInvariant, PTL

\* No message is served that was queued when the heartbeat of a connected slave
\* was found to stand still or the master started: clearMsg takes all of them.
THEOREM FreshDataCorrect == Spec => []NoOutdatedData
<1>1. FreshInv => NoOutdatedData
  BY DEF FreshInv, NoOutdatedData
<1>2. QED
  BY <1>1, FreshInvariant, PTL

\* The slave never takes limits of which only a part is written.
THEOREM WholeLimitsCorrect == Spec => []NoTornLimits
<1>1. LimitInv => NoTornLimits
  BY DEF LimitInv, NoTornLimits
<1>2. QED
  BY <1>1, LimitInvariant, PTL

\* A slave works with the limits of its own robot unless others waited for it,
\* or the master was between the reads of a connection, when it started.
THEOREM OwnLimitsCorrect == Spec => []OwnLimits
<1>1. OwnInv => OwnLimits
  BY DEF OwnInv, OwnLimits
<1>2. QED
  BY <1>1, OwnInvariant, PTL

\* A slave that started after the loss was shown is served with the dof and
\* zero positions of its own robot.
THEOREM OwnRobotCorrect == Spec => []OwnRobot
<1>1. OwnInv => OwnRobot
  BY DEF OwnInv, OwnRobot
<1>2. QED
  BY <1>1, OwnInvariant, PTL
=============================================================================
