------------------------ MODULE ProcessComTimedProofs ------------------------
(***************************************************************************)
(* Proofs about ProcessComTimed for every window, heartbeat width and      *)
(* speed of the slave that ProcessComTimedAssumption allows.               *)
(***************************************************************************)
EXTENDS ProcessComTimed, ProcessComProofs, Integers

\* The next heartbeat, without the remainder.
LEMMA NextBeat ==
  ASSUME NEW h \in 0..(HeartbeatMod - 1)
  PROVE  Beat(h) = h + 1 \/ (Beat(h) = h + 1 - HeartbeatMod)
<1>1. HeartbeatMod \in Nat \ {0}
  BY ProcessComAssumption DEF ProcessComAssumption
<1>2. CASE h + 1 < HeartbeatMod
  BY <1>1, <1>2 DEF Beat
<1>3. CASE h + 1 = HeartbeatMod
  BY <1>1, <1>3 DEF Beat
<1>q. QED
  BY <1>1, <1>2, <1>3

\* The timed specification is ProcessCom with some of its behaviours left out,
\* so what is proved of ProcessCom holds here.
LEMMA TimedImplements == TimedSpec => Spec
<1>1. TimedInit => Init
  BY DEF TimedInit
<1>2. [TimedNext]_timedVars => [Next]_vars
  BY DEF TimedNext, TimedRobotRun, TimedRestart, TimedCycle, TimedStartOrCrash,
         TimedTakeLimits, timedVars, Next, Slave
<1>q. QED
  BY <1>1, <1>2, PTL DEF TimedSpec, Spec

\* The window and the heartbeat bounds as plain facts about numbers.
LEMMA Numbers ==
  /\ MaxTimeoutCount \in Nat /\ MaxTimeoutCount >= 3
  /\ SlavePeriod \in Nat /\ SlavePeriod < MaxTimeoutCount
  /\ SlaveBurst \in Nat \ {0} /\ HeartbeatMod \in Nat
  /\ SlaveBurst * MaxTimeoutCount + SlaveBurst < HeartbeatMod
  BY ProcessComAssumption, ProcessComTimedAssumption
     DEF ProcessComAssumption, ProcessComTimedAssumption

\* Calls are counted only while the slave is up.
TimedTypeOK ==
  /\ burst \in 0..SlaveBurst
  /\ upCalls \in 0..UpBound
  /\ upCalls > 0 => slave = "up"

\* The two variables of ProcessComTimed keep their types.
LEMMA TimedTypeInvariant == TimedSpec => []TimedTypeOK
<1>1. TimedInit => TimedTypeOK
  BY Numbers DEF TimedInit, TimedTypeOK, UpBound
<1>2. TypeOK /\ TimedTypeOK /\ [TimedNext]_timedVars => TimedTypeOK'
  <2> SUFFICES ASSUME TypeOK, TimedTypeOK, [TimedNext]_timedVars PROVE TimedTypeOK'
    OBVIOUS
  <2> USE Numbers DEF TimedTypeOK, UpBound
  <2>1. CASE TimedRobotRun
    <3>1. slave' = slave
      BY <2>1 DEF TimedRobotRun, MainThread, clearMsg, robotRun, comRecvMessage,
                  BeginCall, QueueEmpty, ReadDof, ReadName, SetZero, startVars, slaveVars, CountCall, CompareHeartbeat, RecordHeartbeat,
                  ReceiveMessage, LoseSlave, ClearOne,
                  DeclareLoss, StayOffline, LimitsRefused,
                  LimitsCopying, LimitsDone, Disconnect,
                  NoChange
    <3>3. /\ burst' = 0 \/ burst' = burst
          /\ upCalls' = upCalls \/ (slave = "up" /\ upCalls < UpBound /\ upCalls' = upCalls + 1)
      BY <2>1 DEF TimedRobotRun
    <3>q. QED
      BY <3>1, <3>3
  <2>2. CASE TimedRestart
    BY <2>2 DEF TimedRestart
  <2>3. CASE TimedCycle
    BY <2>3 DEF TimedCycle, SlaveCycle
  <2>4. CASE TimedStartOrCrash
    BY <2>4 DEF TimedStartOrCrash
  <2>5. CASE TimedTakeLimits
    BY <2>5 DEF TimedTakeLimits, SlaveTakeLimits
  <2>6. CASE UNCHANGED timedVars
    BY <2>6 DEF timedVars, vars, startVars, slaveVars
  <2>q. QED
    BY <2>1, <2>2, <2>3, <2>4, <2>5, <2>6 DEF TimedNext
<1>q. QED
  BY <1>1, <1>2, TimedImplements, TypeCorrect, PTL DEF TimedSpec

\* k beats lead from the recorded heartbeat to that of the slave, and none
\* only if the slave has been silent since the record.
Ahead(k) ==
  /\ slaveHeartbeat = HeartBeatRecord + k \/ slaveHeartbeat = HeartBeatRecord + k - HeartbeatMod
  /\ k = 0 => quiet >= timeoutCount

\* If the slave was up when the heartbeat was recorded, it has beaten less than
\* a whole range since.
BeatInv ==
  upCalls > timeoutCount =>
    \E k \in Nat : k <= SlaveBurst * timeoutCount + burst /\ Ahead(k)

\* A slave not shown as connected was not up for the whole of the last window.
LostInv ==
  ~isConnect => upCalls <= MaxTimeoutCount + (IF pc = "record" THEN 0 ELSE timeoutCount)

\* What the steps inside a call leave alone.
InsideCall ==
  /\ UNCHANGED <<slaveHeartbeat, HeartBeatRecord, timeoutCount, isConnect, quiet, burst, upCalls>>
  /\ pc # "record" /\ pc' # "record"

\* The steps of TimedSpec, as far as they touch the heartbeat.
LEMMA TimedSteps ==
  ASSUME TypeOK, TimedTypeOK, [TimedNext]_timedVars
  PROVE  \/ TimedRobotRun /\ (CountCall \/ CompareHeartbeat \/ RecordHeartbeat)
         \/ TimedRestart \/ TimedCycle \/ TimedStartOrCrash
         \/ InsideCall
         \/ /\ UNCHANGED <<slaveHeartbeat, HeartBeatRecord, timeoutCount, isConnect, quiet,
                           burst, upCalls, pc>>
<1> USE DEF comVars, robotVars, limitVars, startVars, slaveVars
<1>1. CASE TimedRobotRun
  <2>1. CASE BeginCall \/ RecordHeartbeat
    BY <1>1, <2>1 DEF BeginCall
  <2>2. CASE ~(BeginCall \/ RecordHeartbeat)
    <3>1. UNCHANGED <<burst, upCalls>>
      BY <1>1, <2>2 DEF TimedRobotRun
    <3>2. ReceiveMessage => InsideCall
      BY <3>1 DEF ReceiveMessage, InsideCall
    <3>3. LoseSlave => InsideCall
      BY <3>1 DEF LoseSlave, InsideCall
    <3>4. ClearOne => InsideCall
      BY <3>1 DEF ClearOne, InsideCall
    <3>5. DeclareLoss => InsideCall
      BY <3>1 DEF DeclareLoss, InsideCall
    <3>6. StayOffline => InsideCall
      BY <3>1 DEF StayOffline, InsideCall
    <3>7. LimitsRefused => InsideCall
      BY <3>1 DEF LimitsRefused, InsideCall
    <3>8. LimitsCopying => InsideCall
      BY <3>1 DEF LimitsCopying, InsideCall
    <3>9. LimitsDone => InsideCall
      BY <3>1 DEF LimitsDone, InsideCall
    <3>10. Disconnect => InsideCall
      BY <3>1 DEF Disconnect, InsideCall
    <3>11. NoChange => InsideCall
      BY <3>1 DEF NoChange, InsideCall
    <3>12. QueueEmpty => InsideCall
      BY <3>1 DEF QueueEmpty, InsideCall
    <3>13. ReadDof => InsideCall
      BY <3>1 DEF ReadDof, InsideCall
    <3>14. ReadName => InsideCall
      BY <3>1 DEF ReadName, InsideCall
    <3>15. SetZero => InsideCall
      BY <3>1 DEF SetZero, InsideCall
    <3>q. QED
      BY <1>1, <2>2, <3>1, <3>2, <3>3, <3>4, <3>5, <3>6, <3>7, <3>8, <3>9, <3>10, <3>11,
         <3>12, <3>13, <3>14, <3>15
         DEF TimedRobotRun, MainThread, clearMsg, robotRun, comRecvMessage
  <2>q. QED
    BY <2>1, <2>2
<1>2. CASE TimedTakeLimits
  BY <1>2 DEF TimedTakeLimits, SlaveTakeLimits
<1>3. CASE UNCHANGED timedVars
  BY <1>3 DEF timedVars, vars
<1>q. QED
  BY <1>1, <1>2, <1>3 DEF TimedNext

\* The count of calls begins again with either process.
LEMMA RestartSteps ==
  ASSUME timeoutCount \in Nat, TimedRestart \/ TimedStartOrCrash
  PROVE  upCalls' = 0 /\ timeoutCount' \in Nat
<1>1. CASE TimedRestart
  <2>1. timeoutCount' = 0
    BY <1>1 DEF TimedRestart, MasterRestart
  <2>q. QED
    BY <1>1, <2>1 DEF TimedRestart
<1>2. CASE TimedStartOrCrash
  <2>1. timeoutCount' = timeoutCount
    BY <1>2 DEF TimedStartOrCrash, SlaveStart, SlaveCrash, comVars
  <2>q. QED
    BY <1>2, <2>1 DEF TimedStartOrCrash
<1>q. QED
  BY <1>1, <1>2

\* A beginning call counts for the slave as it does for the window.
LEMMA CallCounted ==
  ASSUME TypeOK, TimedTypeOK, WindowInv, TimedRobotRun, BeginCall
  PROVE  /\ timeoutCount' = timeoutCount + 1 /\ timeoutCount < MaxTimeoutCount
         /\ quiet' = quiet + 1 \/ (quiet' = quiet /\ quiet = 2 * MaxTimeoutCount)
         /\ UNCHANGED <<slaveHeartbeat, HeartBeatRecord>>
         /\ burst' = 0 /\ upCalls' <= upCalls + 1
         /\ upCalls' > timeoutCount' => upCalls > timeoutCount
         /\ upCalls > timeoutCount => quiet < SlavePeriod
<1> USE Numbers DEF TypeOK, TimedTypeOK, UpBound, QuietBound
<1>1. pc = "checkConnect"
  BY DEF BeginCall, CountCall, CompareHeartbeat
<1>2. /\ timeoutCount' = timeoutCount + 1 /\ timeoutCount < MaxTimeoutCount
      /\ quiet' = IF quiet < 2 * MaxTimeoutCount THEN quiet + 1 ELSE quiet
      /\ UNCHANGED <<slaveHeartbeat, HeartBeatRecord>>
  BY <1>1 DEF BeginCall, CountCall, CompareHeartbeat, QuietCall, WindowInv,
         startVars, slaveVars
<1>3. /\ burst' = 0
      /\ upCalls' = upCalls \/ upCalls' = upCalls + 1
      /\ slave = "up" => quiet < SlavePeriod
  BY DEF TimedRobotRun
<1>q. QED
  BY <1>2, <1>3

\* The heartbeat of a slave that keeps its cycle leaves the recorded value and
\* does not come back to it within a window.
LEMMA BeatInvariant == TimedSpec => []BeatInv
<1>1. TimedInit => BeatInv
  BY DEF TimedInit, Init, BeatInv
<1>2. TypeOK /\ WindowInv /\ TimedTypeOK /\ BeatInv /\ [TimedNext]_timedVars => BeatInv'
  <2> SUFFICES ASSUME TypeOK, WindowInv, TimedTypeOK, BeatInv, [TimedNext]_timedVars,
                      upCalls' > timeoutCount'
               PROVE  \E k \in Nat : k <= SlaveBurst * timeoutCount' + burst' /\ Ahead(k)'
    BY DEF BeatInv
  <2>0. /\ timeoutCount \in Nat /\ burst \in Nat /\ quiet \in Nat /\ upCalls \in Nat
        /\ slaveHeartbeat \in Nat /\ HeartBeatRecord \in Nat
    BY DEF TypeOK, TimedTypeOK
  <2>1. CASE TimedRobotRun /\ (CountCall \/ CompareHeartbeat)
    <3>1. /\ timeoutCount' = timeoutCount + 1
          /\ timeoutCount < MaxTimeoutCount
          /\ quiet' = quiet + 1 \/ (quiet' = quiet /\ quiet = 2 * MaxTimeoutCount)
          /\ UNCHANGED <<slaveHeartbeat, HeartBeatRecord>>
          /\ burst' = 0 /\ upCalls > timeoutCount
      BY <2>1, CallCounted DEF BeginCall
    <3>2. PICK k \in Nat : k <= SlaveBurst * timeoutCount + burst /\ Ahead(k)
      BY <3>1 DEF BeatInv
    <3>3. SlaveBurst * (timeoutCount + 1) = SlaveBurst * timeoutCount + SlaveBurst
      BY <2>0, Numbers
    <3>4. k <= SlaveBurst * timeoutCount' + burst'
      <4>1. SlaveBurst * timeoutCount \in Nat
        BY <2>0, Numbers
      <4>2. burst <= SlaveBurst
        BY DEF TimedTypeOK
      <4>q. QED
        BY <2>0, <3>1, <3>2, <3>3, <4>1, <4>2, Numbers
    <3>5. Ahead(k)'
      BY <2>0, <3>1, <3>2, Numbers DEF Ahead
    <3>q. QED
      BY <3>4, <3>5
  <2>2. CASE TimedRobotRun /\ RecordHeartbeat
    <3>1. /\ timeoutCount' = 0 /\ HeartBeatRecord' = slaveHeartbeat
          /\ slaveHeartbeat' = slaveHeartbeat /\ quiet' = quiet
      BY <2>2 DEF RecordHeartbeat, startVars, slaveVars
    <3>2. burst' \in Nat
      BY <2>0, <2>2 DEF TimedRobotRun
    <3>3. Ahead(0)'
      BY <2>0, <3>1 DEF Ahead
    <3>4. 0 <= SlaveBurst * timeoutCount' + burst'
      <4>1. SlaveBurst * 0 = 0
        BY Numbers
      <4>q. QED
        BY <3>1, <3>2, <4>1
    <3>q. QED
      BY <3>3, <3>4
  <2>3. CASE TimedRestart \/ TimedStartOrCrash
    <3>1. upCalls' = 0 /\ timeoutCount' \in Nat
      BY <2>0, <2>3, RestartSteps
    <3>q. QED
      BY <3>1
  <2>4. CASE TimedCycle
    <3>1. /\ slaveHeartbeat' = Beat(slaveHeartbeat) /\ quiet' = 0
          /\ UNCHANGED <<HeartBeatRecord, timeoutCount, upCalls>>
          /\ burst' = burst + 1
      BY <2>4 DEF TimedCycle, SlaveCycle, comVars
    <3>2. PICK k \in Nat : k <= SlaveBurst * timeoutCount + burst /\ Ahead(k)
      BY <3>1 DEF BeatInv
    <3>3. k + HeartbeatMod > k + 1 /\ k < HeartbeatMod
      <4>1. burst < SlaveBurst
        BY <2>4 DEF TimedCycle
      <4>2. SlaveBurst * timeoutCount <= SlaveBurst * MaxTimeoutCount
        <5>1. timeoutCount <= MaxTimeoutCount
          BY DEF TypeOK
        <5>q. QED
          BY <5>1, <2>0, Numbers
      <4>3. SlaveBurst * timeoutCount \in Nat /\ SlaveBurst * MaxTimeoutCount \in Nat
        BY <2>0, Numbers
      <4>q. QED
        BY <2>0, <3>2, <4>1, <4>2, <4>3, Numbers
    <3>4. Beat(slaveHeartbeat) = slaveHeartbeat + 1
          \/ Beat(slaveHeartbeat) = slaveHeartbeat + 1 - HeartbeatMod
      BY NextBeat DEF TypeOK
    <3>5. Beat(slaveHeartbeat) \in Nat /\ HeartBeatRecord < HeartbeatMod
      BY BeatType, Numbers DEF TypeOK
    <3>6. Ahead(k + 1)'
      BY <2>0, <3>1, <3>2, <3>3, <3>4, <3>5, Numbers DEF Ahead
    <3>7. k + 1 \in Nat /\ k + 1 <= SlaveBurst * timeoutCount' + burst'
      <4>1. SlaveBurst * timeoutCount \in Nat
        BY <2>0, Numbers
      <4>q. QED
        BY <2>0, <3>1, <3>2, <4>1
    <3>q. QED
      BY <3>6, <3>7
  <2>5. CASE UNCHANGED <<slaveHeartbeat, HeartBeatRecord, timeoutCount, quiet, burst, upCalls>>
    BY <2>5 DEF BeatInv, Ahead
  <2>q. QED
    BY <2>1, <2>2, <2>3, <2>4, <2>5, TimedSteps DEF InsideCall
<1>q. QED
  BY <1>1, <1>2, TimedImplements, TypeInvariant, TimedTypeInvariant, PTL DEF TimedSpec

\* At the end of a window in which it was up the slave is found.
LEMMA LostInvariant == TimedSpec => []LostInv
<1>1. TimedInit => LostInv
  BY Numbers DEF TimedInit, Init, LostInv
<1>2. /\ TypeOK /\ WindowInv /\ TimedTypeOK /\ BeatInv /\ LostInv /\ [TimedNext]_timedVars
      => LostInv'
  <2> SUFFICES ASSUME TypeOK, WindowInv, TimedTypeOK, BeatInv, LostInv, [TimedNext]_timedVars
               PROVE  LostInv'
    OBVIOUS
  <2>0. /\ timeoutCount \in Nat /\ burst \in Nat /\ quiet \in Nat /\ upCalls \in Nat
        /\ slaveHeartbeat \in Nat /\ HeartBeatRecord \in Nat
    BY DEF TypeOK, TimedTypeOK
  <2>1. CASE TimedRobotRun /\ CountCall
    <3>1. timeoutCount' = timeoutCount + 1 /\ upCalls' <= upCalls + 1
      BY <2>1, CallCounted DEF BeginCall
    <3>2. isConnect' = isConnect /\ pc = "checkConnect" /\ pc' = "status"
      BY <2>1 DEF CountCall
    <3>3. upCalls' \in Nat
      BY <2>0, <2>1 DEF TimedRobotRun
    <3>q. QED
      BY <2>0, <3>1, <3>2, <3>3, Numbers DEF LostInv
  <2>2. CASE TimedRobotRun /\ CompareHeartbeat
    <3>1. /\ upCalls' <= upCalls + 1 /\ timeoutCount < MaxTimeoutCount
          /\ upCalls > timeoutCount => quiet < SlavePeriod
      BY <2>2, CallCounted DEF BeginCall
    <3>2. /\ timeoutCount + 1 >= MaxTimeoutCount /\ pc' = "record"
          /\ HeartBeatRecord # slaveHeartbeat => isConnect'
      BY <2>2, Zenon DEF CompareHeartbeat
    <3>3. upCalls' \in Nat
      BY <2>0, <2>2 DEF TimedRobotRun
    <3>4. timeoutCount + 1 = MaxTimeoutCount
      BY <2>0, <3>1, <3>2, Numbers
    <3>5. ASSUME upCalls > timeoutCount PROVE isConnect'
      <4>1. PICK k \in Nat : k <= SlaveBurst * timeoutCount + burst /\ Ahead(k)
        BY <3>5 DEF BeatInv
      <4>2. k < HeartbeatMod
        <5>1. SlaveBurst * MaxTimeoutCount = SlaveBurst * timeoutCount + SlaveBurst
          BY <2>0, <3>4, Numbers
        <5>2. burst <= SlaveBurst /\ SlaveBurst * timeoutCount \in Nat
          BY <2>0, Numbers DEF TimedTypeOK
        <5>q. QED
          BY <2>0, <4>1, <5>1, <5>2, Numbers
      <4>3. quiet < timeoutCount
        BY <2>0, <3>1, <3>4, <3>5, Numbers
      <4>4. k # 0
        BY <2>0, <4>1, <4>3 DEF Ahead
      <4>5. HeartBeatRecord # slaveHeartbeat
        BY <2>0, <4>1, <4>2, <4>4, Numbers DEF Ahead
      <4>q. QED
        BY <3>2, <4>5
    <3>q. QED
      BY <2>0, <3>1, <3>2, <3>3, <3>4, <3>5 DEF LostInv
  <2>3. CASE TimedRobotRun /\ RecordHeartbeat
    <3>1. timeoutCount' = 0 /\ pc = "record" /\ pc' = "status" /\ isConnect' = isConnect
      BY <2>3 DEF RecordHeartbeat
    <3>2. upCalls' = upCalls
      BY <2>3, <3>1 DEF TimedRobotRun, BeginCall, CountCall, CompareHeartbeat
    <3>q. QED
      BY <2>0, <3>1, <3>2, Numbers DEF LostInv
  <2>4. CASE TimedRestart \/ TimedStartOrCrash
    <3>1. upCalls' = 0 /\ timeoutCount' \in Nat
      BY <2>0, <2>4, RestartSteps
    <3>2. MaxTimeoutCount \in Nat
      BY Numbers
    <3>3. ASSUME NEW n \in Nat PROVE 0 <= MaxTimeoutCount + n
      BY <3>2
    <3>4. 0 <= MaxTimeoutCount + 0
      BY <3>3
    <3>5. 0 <= MaxTimeoutCount + timeoutCount'
      BY <3>1, <3>3
    <3>q. QED
      BY <3>1, <3>4, <3>5 DEF LostInv
  <2>5. CASE TimedCycle
    BY <2>5 DEF TimedCycle, SlaveCycle, comVars, LostInv
  <2>6. CASE InsideCall \/ UNCHANGED <<timeoutCount, isConnect, upCalls, pc>>
    BY <2>6 DEF InsideCall, LostInv
  <2>q. QED
    BY <2>1, <2>2, <2>3, <2>4, <2>5, <2>6, TimedSteps
<1>q. QED
  BY <1>1, <1>2, TimedImplements, TypeInvariant, TimedTypeInvariant, BeatInvariant,
     PTL DEF TimedSpec

\* checkConnect finds a slave that keeps its cycle: after two windows it is
\* connected and stays so, TimedSpec => []LiveSlaveConnected.
THEOREM LiveSlaveCorrect == TimedSpec => []LiveSlaveConnected
<1>1. TypeOK /\ WindowInv /\ LostInv /\ ConnectFollowsHeartbeat => LiveSlaveConnected
  <2> SUFFICES ASSUME TypeOK, WindowInv, LostInv, ConnectFollowsHeartbeat,
                      pc = "checkConnect", upCalls = UpBound
               PROVE  connect
    BY DEF LiveSlaveConnected
  <2>1. timeoutCount \in Nat /\ timeoutCount < MaxTimeoutCount
    BY DEF TypeOK, WindowInv
  <2>2. isConnect
    BY <2>1, Numbers DEF LostInv, UpBound
  <2>q. QED
    BY <2>2 DEF ConnectFollowsHeartbeat
<1>q. QED
  BY <1>1, TimedImplements, TypeInvariant, ConnectCorrect, LostInvariant, PTL

\* Where the main thread can be.
Places == {"start", "checkConnect", "record", "status", "clearMsg", "declare", "return",
           "name", "zero", "testLimit", "limits"}

\* StepsToBeat shrinks if the queue does or the call goes on while the slave
\* does nothing, when a call begins, and not when the slave posts a message.
LEMMA NearerIf ==
  ASSUME TypeOK, TypeOK', TimedTypeOK, TimedTypeOK'
  PROVE  /\ /\ burst' = burst /\ Len(queue)' <= Len(queue) /\ CallLeft' <= CallLeft
            /\ Len(queue)' < Len(queue) \/ CallLeft' < CallLeft
            => StepsToBeat' < StepsToBeat /\ StepsToBeat' <= StepsToBeat
         /\ /\ Len(queue)' = Len(queue) /\ burst' = 0
            /\ CallLeft = SlaveBurst + 4 /\ CallLeft' <= 3
            => StepsToBeat' < StepsToBeat /\ StepsToBeat' <= StepsToBeat
         /\ /\ Len(queue)' <= Len(queue) + 1 /\ burst' = burst + 1 /\ CallLeft' = CallLeft
            => StepsToBeat' <= StepsToBeat
<1>1. SlaveBurst \in Nat /\ burst \in 0..SlaveBurst /\ burst' \in 0..SlaveBurst
  BY Numbers DEF TimedTypeOK
<1>2. Len(queue) \in Nat /\ Len(queue)' \in Nat
  BY DEF TypeOK
<1>3. CallLeft \in Nat /\ CallLeft' \in Nat
  <2>1. /\ pc \in Places /\ pc' \in Places
        /\ SlaveBurst + 4 \in Nat /\ SlaveBurst + 5 \in Nat /\ SlaveBurst + 6 \in Nat
        /\ SlaveBurst + 7 \in Nat /\ SlaveBurst + 8 \in Nat /\ SlaveBurst + 9 \in Nat
    BY <1>1 DEF TypeOK, Places, Connecting
  <2>2. CallLeft \in Nat
    BY <2>1 DEF CallLeft, Places
  <2>3. CallLeft' \in Nat
    BY <2>1 DEF CallLeft, Places
  <2>q. QED
    BY <2>2, <2>3
<1>4. /\ StepsToBeat = Len(queue) + (SlaveBurst - burst) + CallLeft
      /\ StepsToBeat' = Len(queue)' + (SlaveBurst - burst') + CallLeft'
  BY DEF StepsToBeat
<1>5. PICK l, m, c, d \in Nat :
        l = Len(queue) /\ m = Len(queue)' /\ c = CallLeft /\ d = CallLeft'
  BY <1>2, <1>3
<1>6. PICK a, b \in 0..SlaveBurst : a = burst /\ b = burst'
  BY <1>1
<1> DEFINE before == l + (SlaveBurst - a) + c
<1> DEFINE after == m + (SlaveBurst - b) + d
<1>7. StepsToBeat = before /\ StepsToBeat' = after
  BY <1>4, <1>5, <1>6
<1>8. /\ b = a /\ m <= l /\ d <= c /\ (m < l \/ d < c) => after < before
      /\ m = l /\ b = 0 /\ c = SlaveBurst + 4 /\ d <= 3 => after < before
      /\ m <= l + 1 /\ b = a + 1 /\ d = c => after <= before
  <2>1. SlaveBurst \in Int /\ a \in Int /\ b \in Int /\ a <= SlaveBurst
    BY <1>1
  <2>2. ASSUME b = a, m <= l, d <= c, m < l \/ d < c PROVE after < before
    BY <2>1, <2>2
  <2>3. ASSUME m = l, b = 0, c = SlaveBurst + 4, d <= 3 PROVE after < before
    BY <2>1, <2>3
  <2>4. ASSUME m <= l + 1, b = a + 1, d = c PROVE after <= before
    BY <2>1, <2>4
  <2>q. QED
    BY <2>2, <2>3, <2>4
<1>9. \A x, y \in Int : x < y => x <= y
  OBVIOUS
<1>10. after \in Int /\ before \in Int
  BY <1>1
<1> HIDE DEF before, after
<1>q. QED
  BY <1>5, <1>6, <1>7, <1>8, <1>9, <1>10

\* Beating changes the heartbeat, whatever it wraps at.
LEMMA BeatMoves == ASSUME NEW h \in 0..(HeartbeatMod - 1) PROVE Beat(h) # h
<1>1. HeartbeatMod \in Nat /\ HeartbeatMod > 1
  <2>1. SlaveBurst * MaxTimeoutCount \in Nat /\ SlaveBurst \in Nat \ {0} /\ HeartbeatMod \in Nat
    BY Numbers
  <2>2. SlaveBurst * MaxTimeoutCount >= 1
    BY Numbers
  <2>3. SlaveBurst * MaxTimeoutCount + SlaveBurst < HeartbeatMod
    BY Numbers
  <2>q. QED
    BY <2>1, <2>2, <2>3
<1>q. QED
  BY <1>1, NextBeat

\* Between two beats every step of the main thread brings the next one nearer, and no
\* step of the slave puts it off.
THEOREM BeatNearerCorrect == TimedSpec => BeatNearer
<1> DEFINE Nearer == /\ StepsToBeat' <= StepsToBeat
                     /\ pc' # pc \/ Len(queue') < Len(queue) => StepsToBeat' < StepsToBeat
<1>1. /\ TypeOK /\ TypeOK' /\ TimedTypeOK /\ TimedTypeOK' /\ [TimedNext]_timedVars
      => [masterHeartbeat' = masterHeartbeat /\ restarts' = restarts => Nearer]_timedVars
  <2> SUFFICES ASSUME TypeOK, TypeOK', TimedTypeOK, TimedTypeOK', [TimedNext]_timedVars,
                      masterHeartbeat' = masterHeartbeat, restarts' = restarts
               PROVE  Nearer
    OBVIOUS
  <2> USE DEF comVars, robotVars, limitVars, startVars, slaveVars
  <2>s. /\ SlaveBurst \in Nat /\ queue \in Seq({"fresh", "outdated"})
        /\ Len(queue) \in Nat /\ burst \in Nat
        /\ pc \in Places
        /\ CallLeft \in Nat
    <3>1. SlaveBurst \in Nat
      BY Numbers
    <3>2. /\ queue \in Seq({"fresh", "outdated"}) /\ Len(queue) \in Nat /\ burst \in Nat
          /\ pc \in Places
      BY <3>1 DEF TypeOK, TimedTypeOK, Places, Connecting
    <3>q. QED
      BY <3>1, <3>2 DEF CallLeft, Places
  <2>1. ASSUME RecordHeartbeat, burst' = burst PROVE Nearer
    <3>1. Len(queue)' = Len(queue) /\ CallLeft' < CallLeft /\ CallLeft' <= CallLeft
      BY <2>1, <2>s DEF RecordHeartbeat, CallLeft
    <3>2. Len(queue)' <= Len(queue)
      BY <2>s, <3>1
    <3>q. QED
      BY <2>1, <3>1, <3>2, NearerIf
  <2>2. ASSUME LoseSlave, burst' = burst PROVE Nearer
    <3>1. Len(queue)' = Len(queue) /\ CallLeft' < CallLeft /\ CallLeft' <= CallLeft
      BY <2>2, <2>s DEF LoseSlave, CallLeft
    <3>2. Len(queue)' <= Len(queue)
      BY <2>s, <3>1
    <3>q. QED
      BY <2>2, <3>1, <3>2, NearerIf
  <2>3. ASSUME LimitsRefused, burst' = burst PROVE Nearer
    <3>1. Len(queue)' = Len(queue) /\ CallLeft' < CallLeft /\ CallLeft' <= CallLeft
      BY <2>3, <2>s DEF LimitsRefused, CallLeft
    <3>2. Len(queue)' <= Len(queue)
      BY <2>s, <3>1
    <3>q. QED
      BY <2>3, <3>1, <3>2, NearerIf
  <2>4. ASSUME LimitsCopying, burst' = burst PROVE Nearer
    <3>1. Len(queue)' = Len(queue) /\ CallLeft' < CallLeft /\ CallLeft' <= CallLeft
      BY <2>4, <2>s DEF LimitsCopying, CallLeft
    <3>2. Len(queue)' <= Len(queue)
      BY <2>s, <3>1
    <3>q. QED
      BY <2>4, <3>1, <3>2, NearerIf
  <2>5. ASSUME LimitsDone, burst' = burst PROVE Nearer
    <3>1. Len(queue)' = Len(queue) /\ CallLeft' < CallLeft /\ CallLeft' <= CallLeft
      BY <2>5, <2>s DEF LimitsDone, CallLeft
    <3>2. Len(queue)' <= Len(queue)
      BY <2>s, <3>1
    <3>q. QED
      BY <2>5, <3>1, <3>2, NearerIf
  <2>6. ASSUME Disconnect, burst' = burst PROVE Nearer
    <3>1. Len(queue)' = Len(queue) /\ CallLeft' < CallLeft /\ CallLeft' <= CallLeft
      BY <2>6, <2>s DEF Disconnect, CallLeft
    <3>2. Len(queue)' <= Len(queue)
      BY <2>s, <3>1
    <3>q. QED
      BY <2>6, <3>1, <3>2, NearerIf
  <2>7. ASSUME NoChange, burst' = burst PROVE Nearer
    <3>1. Len(queue)' = Len(queue) /\ CallLeft' < CallLeft /\ CallLeft' <= CallLeft
      BY <2>7, <2>s DEF NoChange, CallLeft
    <3>2. Len(queue)' <= Len(queue)
      BY <2>s, <3>1
    <3>q. QED
      BY <2>7, <3>1, <3>2, NearerIf
  <2>8. ASSUME ClearOne, burst' = burst PROVE Nearer
    <3>1. Len(queue)' = Len(queue) - 1
      BY <2>8, <2>s DEF ClearOne
    <3>2. CallLeft' = CallLeft
      BY <2>8 DEF ClearOne, CallLeft
    <3>3. Len(queue)' < Len(queue) /\ Len(queue)' <= Len(queue) /\ CallLeft' <= CallLeft
      BY <2>s, <3>1, <3>2
    <3>q. QED
      BY <2>8, <3>3, NearerIf
  <2>9. ASSUME BeginCall, burst' = 0 PROVE Nearer
    <3>1. CallLeft = SlaveBurst + 4 /\ CallLeft' <= 3
      BY <2>9, <2>s DEF BeginCall, CountCall, CompareHeartbeat, CallLeft
    <3>2. queue' = queue \/ queue' = Outdated(queue)
      BY <2>9 DEF BeginCall, CountCall, CompareHeartbeat
    <3>3. Len(Outdated(queue)) = Len(queue)
      BY <2>s DEF Outdated
    <3>4. Len(queue)' = Len(queue)
      BY <3>2, <3>3
    <3>q. QED
      BY <2>9, <3>1, <3>4, NearerIf
  <2>10. ~ReceiveMessage /\ ~DeclareLoss /\ ~StayOffline
    <3>1. Beat(masterHeartbeat) # masterHeartbeat
      BY BeatMoves DEF TypeOK
    <3>q. QED
      BY <3>1 DEF ReceiveMessage, DeclareLoss, StayOffline
  <2>17. ASSUME QueueEmpty, burst' = burst PROVE Nearer
    <3>1. Len(queue)' = Len(queue) /\ CallLeft' < CallLeft /\ CallLeft' <= CallLeft
      BY <2>17, <2>s DEF QueueEmpty, CallLeft
    <3>2. Len(queue)' <= Len(queue)
      BY <2>s, <3>1
    <3>q. QED
      BY <2>17, <3>1, <3>2, NearerIf
  <2>18. ASSUME ReadDof, burst' = burst PROVE Nearer
    <3>1. Len(queue)' = Len(queue) /\ CallLeft' < CallLeft /\ CallLeft' <= CallLeft
      BY <2>18, <2>s DEF ReadDof, CallLeft
    <3>2. Len(queue)' <= Len(queue)
      BY <2>s, <3>1
    <3>q. QED
      BY <2>18, <3>1, <3>2, NearerIf
  <2>19. ASSUME ReadName, burst' = burst PROVE Nearer
    <3>1. Len(queue)' = Len(queue) /\ CallLeft' < CallLeft /\ CallLeft' <= CallLeft
      BY <2>19, <2>s DEF ReadName, CallLeft
    <3>2. Len(queue)' <= Len(queue)
      BY <2>s, <3>1
    <3>q. QED
      BY <2>19, <3>1, <3>2, NearerIf
  <2>20. ASSUME SetZero, burst' = burst PROVE Nearer
    <3>1. Len(queue)' = Len(queue) /\ CallLeft' < CallLeft /\ CallLeft' <= CallLeft
      BY <2>20, <2>s DEF SetZero, CallLeft
    <3>2. Len(queue)' <= Len(queue)
      BY <2>s, <3>1
    <3>q. QED
      BY <2>20, <3>1, <3>2, NearerIf
  <2>11. CASE TimedRobotRun
    <3>1. (BeginCall /\ burst' = 0) \/ (~BeginCall /\ burst' = burst)
      BY <2>11 DEF TimedRobotRun
    <3>q. QED
      BY <2>1, <2>2, <2>3, <2>4, <2>5, <2>6, <2>7, <2>8, <2>9, <2>10, <2>11,
         <2>17, <2>18, <2>19, <2>20, <3>1
         DEF TimedRobotRun, MainThread, clearMsg, robotRun, comRecvMessage
  <2>12. ~TimedRestart
    BY DEF TimedRestart, MasterRestart, TypeOK
  <2>13. CASE TimedCycle
    <3>1. /\ burst' = burst + 1 /\ pc' = pc
          /\ queue' = queue \/ queue' = Append(queue, "fresh")
      BY <2>13 DEF TimedCycle, SlaveCycle
    <3>2. Len(queue') <= Len(queue) + 1 /\ Len(queue') >= Len(queue)
      BY <2>s, <3>1
    <3>3. CallLeft' = CallLeft
      BY <3>1 DEF CallLeft
    <3>q. QED
      BY <2>s, <3>1, <3>2, <3>3, NearerIf
  <2>14. ASSUME pc' = pc, queue' = queue, burst' = burst PROVE Nearer
    <3>1. StepsToBeat' = StepsToBeat
      BY <2>14 DEF StepsToBeat, CallLeft
    <3>2. StepsToBeat \in Int
      BY <2>s DEF StepsToBeat
    <3>q. QED
      BY <2>14, <2>s, <3>1, <3>2
  <2>15. CASE TimedStartOrCrash \/ TimedTakeLimits
    BY <2>14, <2>15 DEF TimedStartOrCrash, TimedTakeLimits, SlaveStart, SlaveCrash,
                        SlaveTakeLimits
  <2>16. CASE UNCHANGED timedVars
    BY <2>14, <2>16 DEF timedVars, vars
  <2>q. QED
    BY <2>11, <2>12, <2>13, <2>15, <2>16 DEF TimedNext
<1>q. QED
  BY <1>1, TimedImplements, TypeInvariant, TimedTypeInvariant, PTL DEF TimedSpec, BeatNearer
==============================================================================
