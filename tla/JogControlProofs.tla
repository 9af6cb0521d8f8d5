--------------------------- MODULE JogControlProofs ---------------------------
(***************************************************************************)
(* Proofs about JogControl for every time-out, every set of axes and any   *)
(* number of restarts.                                                     *)
(***************************************************************************)
EXTENDS JogControl, TLAPS

\* The count never falls behind the silence it measures, place by place in
\* jogCheckTimeOut: a keep-alive that races with the increment is lost, which
\* only makes the count larger.
CountInv ==
  /\ mainPc = "robotRun" => silence <= jogTimeCount
  /\ mainPc = "load" => silence <= jogTimeCount + 1
  /\ mainPc = "store" => silence <= reg + 1
  /\ mainPc = "test" => silence <= jogTimeCount /\ jogTimeCount \in {0, reg + 1}
  /\ mainPc = "stop" => jogTimeCount = 0
  /\ mainPc \in {"robotRun", "load"} => jogTimeCount <= JogTimeOut

\* Every variable keeps its type, and the count covers the silence: both are
\* needed for either.
LEMMA CountInvariant == Spec => [](TypeOK /\ CountInv)
<1>1. Init => TypeOK /\ CountInv
  BY JogControlAssumption DEF JogControlAssumption, Init, TypeOK, CountInv, Jogs,
     Commands
<1>2. TypeOK /\ CountInv /\ [Next]_vars => (TypeOK /\ CountInv)'
  <2> SUFFICES ASSUME TypeOK, CountInv, [Next]_vars
               PROVE  (TypeOK /\ CountInv)'
    OBVIOUS
  <2> USE JogControlAssumption
      DEF JogControlAssumption, TypeOK, CountInv, Commands, Received, Repeated,
          mainVars, boxVars, commandVars, slaveVars, lifeVars
  <2>1. CASE MasterDies
    BY <2>1 DEF MasterDies
  <2>2. CASE LinkUp
    BY <2>2 DEF LinkUp
  <2>3. CASE LinkLost
    BY <2>3 DEF LinkLost
  <2>4. ASSUME NEW jog \in Jogs, JogMove(jog)
         PROVE  (TypeOK /\ CountInv)'
    BY <2>4 DEF JogMove
  <2>5. CASE WriteSpace
    BY <2>5 DEF WriteSpace, Jogs
  <2>6. CASE RaiseJogSign
    BY <2>6 DEF RaiseJogSign
  <2>7. CASE WriteNum
    BY <2>7 DEF WriteNum, Jogs
  <2>8. CASE WriteDir
    BY <2>8 DEF WriteDir, Jogs
  <2>9. CASE JogStop
    <3>1. jogSign' \in BOOLEAN
      BY <2>9, Zenon DEF JogStop
    <3>2. QED
      BY <2>9, <3>1 DEF JogStop
  <2>10. CASE JogCycleMove
    BY <2>10 DEF JogCycleMove
  <2>11. CASE SeeJogSign
    BY <2>11 DEF SeeJogSign
  <2>12. CASE LoadCount
    BY <2>12 DEF LoadCount
  <2>13. CASE StoreCount
    BY <2>13 DEF StoreCount
  <2>14. CASE TestCount
    BY <2>14 DEF TestCount
  <2>15. CASE ZeroCount
    BY <2>15 DEF ZeroCount
  <2>16. CASE StopJog
    <3>1. jogSign' \in BOOLEAN
      BY <2>16, Zenon DEF StopJog
    <3>2. QED
      BY <2>16, <3>1 DEF StopJog
  <2>17. CASE SlaveBegin
    BY <2>17 DEF SlaveBegin, Jogs
  <2>18. CASE SlaveEnd
    BY <2>18 DEF SlaveEnd
  <2>19. CASE SlaveRestart
    BY <2>19 DEF SlaveRestart
  <2>20. CASE UNCHANGED vars
    BY <2>20 DEF vars
  <2>21. CASE MasterStart
    BY <2>21 DEF MasterStart
  <2>22. CASE JogRefused
    BY <2>22 DEF JogRefused
  <2>23. CASE OtherCommand
    BY <2>23 DEF OtherCommand
  <2>24. QED
    BY <2>1, <2>2, <2>3, <2>4, <2>5, <2>6, <2>7, <2>8, <2>9, <2>10, <2>11,
       <2>12, <2>13, <2>14, <2>15, <2>16, <2>17, <2>18, <2>19, <2>20, <2>21,
       <2>22, <2>23
       DEF Next, TeachBox, startJogMove, jogCheckTimeOut, Slave
<1>3. QED
  BY <1>1, <1>2, PTL DEF Spec

\* Every variable of JogControl keeps its type.
THEOREM TypeCorrect == Spec => []TypeOK
  BY CountInvariant, PTL

\* No jog outlives JogTimeOut passes of the main loop without a keep-alive.
THEOREM DeadManCorrect == Spec => []DeadMan
<1>1. TypeOK /\ CountInv => DeadMan
  BY JogControlAssumption DEF JogControlAssumption, TypeOK, CountInv, DeadMan
<1>2. QED
  BY <1>1, CountInvariant, PTL

\* The bounds on the two parts of StepsLeft.
StepBounds == PassSteps \in 1..(4 * JogTimeOut + 7) /\ StoresLeft \in 0..4

\* The two parts of StepsLeft keep within their bounds.
LEMMA StepBoundsInvariant == Spec => []StepBounds
<1>1. TypeOK /\ CountInv => StepBounds
  <2> SUFFICES ASSUME TypeOK, CountInv PROVE StepBounds
    OBVIOUS
  <2>1. /\ JogTimeOut \in Nat
        /\ mainPc \in {"robotRun", "load"} => jogTimeCount \in 0..JogTimeOut
        /\ mainPc = "store" => reg \in 0..JogTimeOut
        /\ mainPc = "test" => jogTimeCount \in 0..(JogTimeOut + 1)
    BY JogControlAssumption DEF JogControlAssumption, TypeOK, CountInv
  <2>2. PassSteps \in 1..(4 * JogTimeOut + 7)
    BY <2>1 DEF PassSteps, TypeOK
  <2>3. StoresLeft \in 0..4
    BY DEF StoresLeft, TypeOK
  <2>q. QED
    BY <2>2, <2>3 DEF StepBounds
<1>q. QED
  BY <1>1, CountInvariant, PTL

\* While the link is down and the master lives, what is left to do until jogSign
\* is clear for good shrinks with every step of either thread, and grows only
\* when a keep-alive or a JogMove is handled again.
THEOREM JogRunsOutCorrect == Spec => JogRunsOut
<1> DEFINE Alone == /\ link = "down" /\ link' = "down" /\ master = "up" /\ master' = "up"
                    /\ ~Repeats
<1> DEFINE Moved == <<mainPc, boxPc>>' # <<mainPc, boxPc>>
<1> DEFINE Nearer == /\ StepsLeft' <= StepsLeft
                     /\ StepsLeft # 0 /\ Moved => StepsLeft' < StepsLeft
<1>1. TypeOK /\ CountInv /\ StepBounds /\ StepBounds' /\ [Next]_vars
        => [Alone => Nearer]_vars
  <2> SUFFICES ASSUME TypeOK, CountInv, StepBounds, StepBounds', [Next]_vars, Alone
               PROVE  Nearer
    OBVIOUS
  <2>a. /\ JogTimeOut \in Nat
        /\ PassSteps \in 1..(4 * JogTimeOut + 7) /\ StoresLeft \in 0..4
        /\ PassSteps' \in 1..(4 * JogTimeOut + 7) /\ StoresLeft' \in 0..4
    BY JogControlAssumption DEF JogControlAssumption, StepBounds
  \* A store of startJogMove, which may be the one that raises jogSign.
  <2>b. ASSUME StoresLeft' = StoresLeft - 1, PassSteps' = PassSteps, mainPc' = mainPc,
               \/ boxPc = "space" /\ boxPc' = "sign" /\ jogSign' = jogSign
               \/ boxPc = "sign" /\ boxPc' = "num" /\ jogSign'
               \/ /\ boxPc \in {"num", "dir"} /\ boxPc' \in {"dir", "idle"}
                  /\ jogSign' = jogSign,
               mainPc = "robotRun" => PassSteps <= 4 * JogTimeOut + 6
         PROVE  Nearer
    <3> USE <2>a, <2>b
    <3>1. CASE boxPc = "space" /\ boxPc' = "sign" /\ jogSign' = jogSign
      BY <3>1 DEF StepsLeft
    <3>2. CASE boxPc = "sign" /\ boxPc' = "num" /\ jogSign'
      BY <3>2 DEF StepsLeft
    <3>3. CASE boxPc \in {"num", "dir"} /\ boxPc' \in {"dir", "idle"} /\ jogSign' = jogSign
      BY <3>3 DEF StepsLeft
    <3>q. QED
      BY <2>b, <3>1, <3>2, <3>3
  \* A step of a pass, but the last.
  <2>c. ASSUME PassSteps' < PassSteps, StoresLeft' = StoresLeft, boxPc' = boxPc,
               jogSign' = jogSign, jogSign \/ mainPc # "robotRun"
         PROVE  Nearer
    <3>0. PassSteps \in Nat /\ PassSteps' \in Nat /\ StoresLeft \in Nat
      BY <2>a
    <3>1. CASE boxPc \in {"space", "sign"}
      <4> DEFINE whole == 4 * JogTimeOut
      <4>1. /\ StepsLeft = StoresLeft + whole + 6 + (PassSteps + 1)
            /\ \/ StepsLeft' = StoresLeft + whole + 6 + (PassSteps' + 1)
               \/ StepsLeft' = StoresLeft + whole + 6 + 0
        BY <2>c, <3>1 DEF StepsLeft
      <4>2. whole \in Nat
        BY <2>a
      <4> HIDE DEF whole
      <4>q. QED
        BY <2>c, <3>0, <4>1, <4>2
    <3>2. CASE boxPc \notin {"space", "sign"} /\ jogSign
      <4>1. StepsLeft = StoresLeft + PassSteps /\ StepsLeft' = StoresLeft + PassSteps'
        BY <2>c, <3>2 DEF StepsLeft
      <4>2. \A a, b, c \in Nat : b < c => a + b < a + c
        OBVIOUS
      <4>3. StoresLeft + PassSteps' < StoresLeft + PassSteps
        BY <2>c, <3>0, <4>2
      <4>q. QED
        BY <4>1, <4>3
    <3>3. CASE boxPc \notin {"space", "sign"} /\ ~jogSign
      BY <2>c, <3>3 DEF StepsLeft
    <3>q. QED
      BY <3>1, <3>2, <3>3
  \* A step that does not touch what is left to do.
  <2>d. ASSUME mainPc' = mainPc, boxPc' = boxPc, jogSign' = jogSign,
               jogTimeCount' = jogTimeCount, reg' = reg
         PROVE  Nearer
    <3>1. PassSteps' = PassSteps /\ StoresLeft' = StoresLeft
      BY <2>d DEF PassSteps, StoresLeft
    <3>q. QED
      BY <2>a, <2>d, <3>1 DEF StepsLeft
  <2>e. mainPc = "robotRun" => PassSteps <= 4 * JogTimeOut + 6
    BY <2>a DEF PassSteps, TypeOK
  <2> USE DEF mainVars, boxVars, commandVars, slaveVars, lifeVars
  <2>1. ASSUME WriteSpace PROVE Nearer
    <3>1. PassSteps' = PassSteps /\ StoresLeft' = StoresLeft - 1
      BY <2>1 DEF WriteSpace, PassSteps, StoresLeft
    <3>q. QED
      BY <2>1, <2>b, <2>e, <3>1 DEF WriteSpace
  <2>2. ASSUME RaiseJogSign PROVE Nearer
    <3>1. PassSteps' = PassSteps /\ StoresLeft' = StoresLeft - 1
      BY <2>2 DEF RaiseJogSign, PassSteps, StoresLeft
    <3>q. QED
      BY <2>2, <2>b, <2>e, <3>1 DEF RaiseJogSign
  <2>3. ASSUME WriteNum PROVE Nearer
    <3>1. PassSteps' = PassSteps /\ StoresLeft' = StoresLeft - 1
      BY <2>3 DEF WriteNum, PassSteps, StoresLeft
    <3>q. QED
      BY <2>3, <2>b, <2>e, <3>1 DEF WriteNum
  <2>4. ASSUME WriteDir PROVE Nearer
    <3>1. PassSteps' = PassSteps /\ StoresLeft' = StoresLeft - 1
      BY <2>4 DEF WriteDir, PassSteps, StoresLeft
    <3>q. QED
      BY <2>4, <2>b, <2>e, <3>1 DEF WriteDir
  <2>5. ASSUME SeeJogSign PROVE Nearer
    <3>1. PassSteps' < PassSteps /\ StoresLeft' = StoresLeft
      BY <2>5, <2>a DEF SeeJogSign, PassSteps, StoresLeft, TypeOK
    <3>q. QED
      BY <2>5, <2>c, <3>1 DEF SeeJogSign
  <2>6. ASSUME LoadCount PROVE Nearer
    <3>1. PassSteps' < PassSteps /\ StoresLeft' = StoresLeft
      BY <2>6, <2>a DEF LoadCount, PassSteps, StoresLeft, TypeOK
    <3>q. QED
      BY <2>6, <2>c, <3>1 DEF LoadCount
  <2>7. ASSUME StoreCount PROVE Nearer
    <3>1. PassSteps' < PassSteps /\ StoresLeft' = StoresLeft
      BY <2>7, <2>a DEF StoreCount, PassSteps, StoresLeft, TypeOK
    <3>q. QED
      BY <2>7, <2>c, <3>1 DEF StoreCount
  <2>8. ASSUME TestCount PROVE Nearer
    <3>1. PassSteps' < PassSteps /\ StoresLeft' = StoresLeft
      BY <2>8, <2>a DEF TestCount, PassSteps, StoresLeft, TypeOK, CountInv
    <3>q. QED
      BY <2>8, <2>c, <3>1 DEF TestCount
  <2>9. ASSUME ZeroCount PROVE Nearer
    <3>1. PassSteps' < PassSteps /\ StoresLeft' = StoresLeft
      BY <2>9, <2>a DEF ZeroCount, PassSteps, StoresLeft, TypeOK
    <3>q. QED
      BY <2>9, <2>c, <3>1 DEF ZeroCount
  \* The end of a time-out leaves at most the jog that a handler may still raise.
  <2>10. ASSUME StopJog PROVE Nearer
    <3>1. mainPc = "stop" /\ mainPc' = "robotRun" /\ boxPc' = boxPc /\ ~jogSign'
      BY <2>10 DEF StopJog
    <3>2. StoresLeft' = StoresLeft
      BY <3>1 DEF StoresLeft
    <3>q. QED
      BY <2>a, <3>1, <3>2 DEF StepsLeft
  <2>11. ~MasterDies /\ ~MasterStart
    BY DEF MasterDies, MasterStart
  \* With the link down only what is left in the buffer is handled.
  <2>12. ASSUME TeachBox PROVE Nearer
    <3>1. JogStop \/ JogRefused \/ OtherCommand
      BY <2>12 DEF TeachBox, LinkUp, LinkLost, Repeats
    <3>2. CASE JogStop
      <4>1. boxPc = "idle" /\ boxPc' = "idle" /\ ~jogSign' /\ ~Moved
        BY <3>2 DEF JogStop, Received, Repeated
      <4>2. StepsLeft' = 0
        BY <4>1 DEF StepsLeft
      <4>3. StepsLeft >= 0
        BY <2>a, <4>1 DEF StepsLeft
      <4>q. QED
        BY <4>1, <4>2, <4>3
    <3>3. CASE JogRefused \/ OtherCommand
      BY <2>d, <3>3 DEF JogRefused, OtherCommand
    <3>q. QED
      BY <3>1, <3>2, <3>3
  <2>13. ASSUME Slave PROVE Nearer
    BY <2>13, <2>d DEF Slave, SlaveBegin, SlaveEnd, SlaveRestart
  <2>14. ASSUME UNCHANGED vars PROVE Nearer
    BY <2>14, <2>d DEF vars
  <2>q. QED
    BY <2>1, <2>2, <2>3, <2>4, <2>5, <2>6, <2>7, <2>8, <2>9, <2>10, <2>11,
       <2>12, <2>13, <2>14 DEF Next, startJogMove, jogCheckTimeOut
<1>q. QED
  BY <1>1, CountInvariant, StepBoundsInvariant, PTL DEF Spec, JogRunsOut
===============================================================================
