---------------------------- MODULE RunTaskProofs ----------------------------
(***************************************************************************)
(* Proofs about RunTask for every set of targets and limits and any number *)
(* of tasks and restarts: what holds for any set of clients, and what      *)
(* holds when the teach box is the only one.                               *)
(***************************************************************************)
EXTENDS RunTask, TLAPS

USE RunTaskAssumption DEF RunTaskAssumption

Writing == {"space", "first", "rest", "raise"}

\* What is written for a task is a position, and so is the one of the start.
LEMMA PositionType ==
  /\ \A task \in Tasks : Position(task) \in Positions
  /\ Home \in Positions
  BY DEF Position, Positions, Tasks, Spaces

\* Every variable keeps its type, and no joint target past the check is outside
\* the limits.
LEMMA TypeInvariant == Spec => []TypeOK
<1>1. Init => TypeOK
  <2> SUFFICES ASSUME Init PROVE TypeOK
    OBVIOUS
  <2>1. request \in [Clients -> Tasks] /\ final \in [Spaces -> Halves]
    BY PositionType DEF Init, Halves, Tasks, Spaces, Whole
  <2>2. clientPc \in [Clients -> Places]
    BY DEF Init, Places
  <2>3. runSign \in BOOLEAN /\ stopSign \in BOOLEAN /\ stopAnswered \in BOOLEAN
    BY Zenon DEF Init
  <2>4. \A c \in Clients : clientPc[c] = "idle"
    BY DEF Init
  <2>5. QED
    BY <2>1, <2>2, <2>3, <2>4 DEF Init, TypeOK, Spaces
<1>2. TypeOK /\ [Next]_vars => TypeOK'
  <2> SUFFICES ASSUME TypeOK, [Next]_vars PROVE TypeOK'
    OBVIOUS
  <2> USE DEF TypeOK, Goto, Places, Halves, Tasks, Spaces,
              clientVars, signVars, slaveVars, history
  <2>1. ASSUME NEW c \in Clients, NEW task \in Tasks, SeeWaiting(c, task)
        PROVE TypeOK'
    BY <2>1 DEF SeeWaiting
  <2>2. ASSUME NEW c \in Clients, RefuseTask(c) PROVE TypeOK'
    BY <2>2 DEF RefuseTask
  <2>3. ASSUME NEW c \in Clients, SeeRunSignClear(c) PROVE TypeOK'
    BY <2>3 DEF SeeRunSignClear
  <2>4. ASSUME NEW c \in Clients, WriteSpace(c) PROVE TypeOK'
    BY <2>4 DEF WriteSpace
  <2>5. ASSUME NEW c \in Clients, WriteFirst(c) PROVE TypeOK'
    <3>1. Position(request[c]) \in Positions
      BY PositionType
    <3>2. QED
      BY <2>5, <3>1 DEF WriteFirst
  <2>6. ASSUME NEW c \in Clients, WriteRest(c) PROVE TypeOK'
    <3>1. Position(request[c]) \in Positions
      BY PositionType
    <3>2. QED
      BY <2>6, <3>1 DEF WriteRest
  <2>7. ASSUME NEW c \in Clients, RaiseRunSign(c) PROVE TypeOK'
    <3>1. runSign' \in BOOLEAN /\ stopSign' \in BOOLEAN /\ stopAnswered' \in BOOLEAN
      BY <2>7, Zenon DEF RaiseRunSign
    <3>2. lastTask' \in Tasks /\ accepted' \in Nat
      BY <2>7 DEF RaiseRunSign
    <3>3. unread' \subseteq Clients
      BY <2>7 DEF RaiseRunSign
    <3>4. QED
      BY <2>7, <3>1, <3>2, <3>3 DEF RaiseRunSign
  <2>8. ASSUME NEW c \in Clients, StopRefused(c) PROVE TypeOK'
    BY <2>8 DEF StopRefused
  <2>9. ASSUME NEW c \in Clients, SeeRunning(c) PROVE TypeOK'
    BY <2>9 DEF SeeRunning
  <2>10. ASSUME NEW c \in Clients, RaiseStopSign(c) PROVE TypeOK'
    BY <2>10 DEF RaiseStopSign
  <2>11. ASSUME NEW space \in Spaces, ChangeSpace(space) PROVE TypeOK'
    BY <2>11 DEF ChangeSpace
  <2>12. ASSUME SetSpace PROVE TypeOK'
    BY <2>12 DEF SetSpace
  <2>13. ASSUME MasterRestart PROVE TypeOK'
    BY <2>13 DEF MasterRestart
  <2>14. ASSUME TakeTask PROVE TypeOK'
    BY <2>14 DEF TakeTask
  <2>15. ASSUME ClearRunSign PROVE TypeOK'
    BY <2>15 DEF ClearRunSign
  <2>16. ASSUME ShowRunning PROVE TypeOK'
    BY <2>16 DEF ShowRunning
  <2>17. ASSUME FinishTask PROVE TypeOK'
    BY <2>17 DEF FinishTask
  <2>18. ASSUME SlaveRestart PROVE TypeOK'
    BY <2>18 DEF SlaveRestart
  <2>19. ASSUME UNCHANGED vars PROVE TypeOK'
    BY <2>19 DEF vars, clientVars, signVars, slaveVars, history
  <2>q. QED
    BY <2>1, <2>2, <2>3, <2>4, <2>5, <2>6, <2>7, <2>8, <2>9, <2>10, <2>11,
       <2>12, <2>13, <2>14, <2>15, <2>16, <2>17, <2>18, <2>19
       DEF Next, createRunTask, stopRun, changeSpace, Slave
<1>q. QED
  BY <1>1, <1>2, PTL DEF Spec

\* Type correctness of run tasks: Spec => []TypeOK.
THEOREM TypeCorrect == Spec => []TypeOK
  BY TypeInvariant

\* A client whose task was accepted and not acknowledged finds runSign set: it is
\* not past the test of runSign again.
UnreadInv ==
  \A c \in unread : runSign /\ clientPc[c] \notin Writing

\* UnreadInv holds throughout, for any set of clients.
LEMMA UnreadInvariant == Spec => []UnreadInv
<1>1. Init => UnreadInv
  BY DEF Init, UnreadInv
<1>2. TypeOK /\ UnreadInv /\ [Next]_vars => UnreadInv'
  <2> SUFFICES ASSUME TypeOK, UnreadInv, [Next]_vars PROVE UnreadInv'
    OBVIOUS
  <2> USE DEF UnreadInv, TypeOK, Writing, Goto, clientVars, signVars,
              slaveVars, history
  <2>1. ASSUME NEW c \in Clients, NEW task \in Tasks, SeeWaiting(c, task)
        PROVE UnreadInv'
    BY <2>1 DEF SeeWaiting
  <2>2. ASSUME NEW c \in Clients, RefuseTask(c) PROVE UnreadInv'
    BY <2>2 DEF RefuseTask
  <2>3. ASSUME NEW c \in Clients, SeeRunSignClear(c) PROVE UnreadInv'
    BY <2>3 DEF SeeRunSignClear
  <2>4. ASSUME NEW c \in Clients, WriteSpace(c) PROVE UnreadInv'
    BY <2>4 DEF WriteSpace
  <2>5. ASSUME NEW c \in Clients, WriteFirst(c) PROVE UnreadInv'
    BY <2>5 DEF WriteFirst
  <2>6. ASSUME NEW c \in Clients, WriteRest(c) PROVE UnreadInv'
    BY <2>6 DEF WriteRest
  <2>7. ASSUME NEW c \in Clients, RaiseRunSign(c) PROVE UnreadInv'
    BY <2>7 DEF RaiseRunSign
  <2>8. ASSUME NEW c \in Clients, StopRefused(c) PROVE UnreadInv'
    BY <2>8 DEF StopRefused
  <2>9. ASSUME NEW c \in Clients, SeeRunning(c) PROVE UnreadInv'
    BY <2>9 DEF SeeRunning
  <2>10. ASSUME NEW c \in Clients, RaiseStopSign(c) PROVE UnreadInv'
    BY <2>10 DEF RaiseStopSign
  <2>11. ASSUME NEW space \in Spaces, ChangeSpace(space) PROVE UnreadInv'
    BY <2>11 DEF ChangeSpace
  <2>12. ASSUME SetSpace PROVE UnreadInv'
    BY <2>12 DEF SetSpace
  <2>13. ASSUME MasterRestart PROVE UnreadInv'
    BY <2>13 DEF MasterRestart
  <2>14. ASSUME TakeTask PROVE UnreadInv'
    BY <2>14 DEF TakeTask
  <2>15. ASSUME ClearRunSign PROVE UnreadInv'
    BY <2>15 DEF ClearRunSign
  <2>16. ASSUME ShowRunning PROVE UnreadInv'
    BY <2>16 DEF ShowRunning
  <2>17. ASSUME FinishTask PROVE UnreadInv'
    BY <2>17 DEF FinishTask
  <2>18. ASSUME SlaveRestart PROVE UnreadInv'
    BY <2>18 DEF SlaveRestart
  <2>19. ASSUME UNCHANGED vars PROVE UnreadInv'
    BY <2>19 DEF vars, clientVars, signVars, slaveVars, history
  <2>q. QED
    BY <2>1, <2>2, <2>3, <2>4, <2>5, <2>6, <2>7, <2>8, <2>9, <2>10, <2>11,
       <2>12, <2>13, <2>14, <2>15, <2>16, <2>17, <2>18, <2>19
       DEF Next, createRunTask, stopRun, changeSpace, Slave
<1>q. QED
  BY <1>1, <1>2, TypeInvariant, PTL DEF Spec

\* However many clients write over each other, none has a second task accepted
\* before the slave has acknowledged one since its first.
THEOREM NoTaskOverOwnCorrect == Spec => NoTaskOverOwn
<1>1. ASSUME UnreadInv, NEW c \in Clients, RaiseRunSign(c) PROVE c \notin unread
  BY <1>1 DEF UnreadInv, RaiseRunSign, Writing
<1>2. UnreadInv /\ [Next]_vars
        => [\A c \in Clients : RaiseRunSign(c) => c \notin unread]_vars
  BY <1>1
<1>q. QED
  BY <1>2, UnreadInvariant, PTL DEF Spec, NoTaskOverOwn

-----------------------------------------------------------------------------
(* One client *)

\* The robot begins a task in one step only.
LEMMA OnlyTakeBegins == ASSUME [Next]_vars, Begins PROVE TakeTask
  BY Zenon DEF Begins, Next, createRunTask, stopRun, changeSpace, Slave,
    SeeWaiting, RefuseTask, SeeRunSignClear, WriteSpace, WriteFirst, WriteRest,
    RaiseRunSign, StopRefused, SeeRunning, RaiseStopSign, ChangeSpace, SetSpace,
    MasterRestart, ClearRunSign, ShowRunning, FinishTask, SlaveRestart, vars,
    slaveVars

\* The signs keep the client and the slave apart, and what is submitted is
\* whole: the target that waits is the one accepted last.
MailboxInv ==
  /\ clientPc[TeachBox] \in Writing => ~runSign
  /\ "clear" \in slavePending => runSign
  /\ clientPc[TeachBox] \in {"first", "rest", "raise"}
       => plannerTaskSpace = request[TeachBox].space
  /\ clientPc[TeachBox] = "rest"
       => final[request[TeachBox].space].first = Position(request[TeachBox])
  /\ clientPc[TeachBox] = "raise"
       => final[request[TeachBox].space] = Whole(Position(request[TeachBox]))
  /\ runSign => /\ lastTask # NoTask
                /\ final[lastTask.space] = Whole(Position(lastTask))

\* MailboxInv holds throughout if the teach box is the only client.
LEMMA MailboxInvariant ==
  ASSUME Clients = {TeachBox} PROVE Spec => []MailboxInv
<1>1. Init => MailboxInv
  BY DEF Init, MailboxInv, Writing
<1>2. TypeOK /\ MailboxInv /\ [Next]_vars => MailboxInv'
  <2> SUFFICES ASSUME TypeOK, MailboxInv, [Next]_vars PROVE MailboxInv'
    OBVIOUS
  <2> USE DEF MailboxInv, TypeOK, Writing, Goto, Whole, Places, Halves, Tasks,
              Spaces, clientVars, signVars, slaveVars, history
  <2>1. ASSUME NEW c \in Clients, NEW task \in Tasks, SeeWaiting(c, task)
        PROVE MailboxInv'
    BY <2>1 DEF SeeWaiting
  <2>2. ASSUME NEW c \in Clients, RefuseTask(c) PROVE MailboxInv'
    BY <2>2 DEF RefuseTask
  <2>3. ASSUME NEW c \in Clients, SeeRunSignClear(c) PROVE MailboxInv'
    BY <2>3 DEF SeeRunSignClear
  <2>4. ASSUME NEW c \in Clients, WriteSpace(c) PROVE MailboxInv'
    BY <2>4 DEF WriteSpace
  <2>5. ASSUME NEW c \in Clients, WriteFirst(c) PROVE MailboxInv'
    BY <2>5 DEF WriteFirst
  <2>6. ASSUME NEW c \in Clients, WriteRest(c) PROVE MailboxInv'
    BY <2>6 DEF WriteRest
  <2>7. ASSUME NEW c \in Clients, RaiseRunSign(c) PROVE MailboxInv'
    BY <2>7 DEF RaiseRunSign
  <2>8. ASSUME NEW c \in Clients, StopRefused(c) PROVE MailboxInv'
    BY <2>8 DEF StopRefused
  <2>9. ASSUME NEW c \in Clients, SeeRunning(c) PROVE MailboxInv'
    BY <2>9 DEF SeeRunning
  <2>10. ASSUME NEW c \in Clients, RaiseStopSign(c) PROVE MailboxInv'
    BY <2>10 DEF RaiseStopSign
  <2>11. ASSUME NEW space \in Spaces, ChangeSpace(space) PROVE MailboxInv'
    BY <2>11 DEF ChangeSpace
  <2>12. ASSUME SetSpace PROVE MailboxInv'
    BY <2>12 DEF SetSpace
  <2>13. ASSUME MasterRestart PROVE MailboxInv'
    BY <2>13 DEF MasterRestart
  <2>14. ASSUME TakeTask PROVE MailboxInv'
    BY <2>14 DEF TakeTask
  <2>15. ASSUME ClearRunSign PROVE MailboxInv'
    BY <2>15 DEF ClearRunSign
  <2>16. ASSUME ShowRunning PROVE MailboxInv'
    BY <2>16 DEF ShowRunning
  <2>17. ASSUME FinishTask PROVE MailboxInv'
    BY <2>17 DEF FinishTask
  <2>18. ASSUME SlaveRestart PROVE MailboxInv'
    BY <2>18 DEF SlaveRestart
  <2>19. ASSUME UNCHANGED vars PROVE MailboxInv'
    BY <2>19 DEF vars, clientVars, signVars, slaveVars, history
  <2>q. QED
    BY <2>1, <2>2, <2>3, <2>4, <2>5, <2>6, <2>7, <2>8, <2>9, <2>10, <2>11,
       <2>12, <2>13, <2>14, <2>15, <2>16, <2>17, <2>18, <2>19
       DEF Next, createRunTask, stopRun, changeSpace, Slave
<1>q. QED
  BY <1>1, <1>2, TypeInvariant, PTL DEF Spec

\* With one client a task that begins in the space it was accepted for is the
\* last one accepted, whoever died in between.
THEOREM RunsAcceptedCorrect ==
  ASSUME Clients = {TeachBox} PROVE Spec => RunsWhatWasAccepted
<1>1. ASSUME MailboxInv, [Next]_vars, Begins
      PROVE  /\ lastTask # NoTask
             /\ job'.space = lastTask.space
                  => job'.target = Whole(Position(lastTask))
  BY <1>1, OnlyTakeBegins DEF TakeTask, MailboxInv
<1>2. MailboxInv /\ [Next]_vars
        => [Begins => /\ lastTask # NoTask
                      /\ job'.space = lastTask.space
                           => job'.target = Whole(Position(lastTask))]_vars
  BY <1>1
<1>q. QED
  BY <1>2, MailboxInvariant, PTL DEF Spec, RunsWhatWasAccepted

\* With one client every step of the signs and stores is a step of the
\* mailbox with one place, or none.
THEOREM MailboxCorrect ==
  ASSUME Clients = {TeachBox} PROVE Spec => MailboxSpec
<1>1. Init => Mailbox!Init
  BY DEF Init, Mailbox!Init
<1>2. TypeOK /\ MailboxInv /\ [Next]_vars => [Mailbox!Next]_(Mailbox!mailbox)
  <2> SUFFICES ASSUME TypeOK, MailboxInv, [Next]_vars
               PROVE  [Mailbox!Next]_(Mailbox!mailbox)
    OBVIOUS
  <2> USE DEF MailboxInv, TypeOK, Writing, Whole, Halves, Tasks, Spaces,
              clientVars, signVars, slaveVars, history, Mailbox!mailbox
  <2>1. ASSUME NEW c \in Clients, NEW task \in Tasks, SeeWaiting(c, task)
        PROVE [Mailbox!Next]_(Mailbox!mailbox)
    BY <2>1 DEF SeeWaiting
  <2>2. ASSUME NEW c \in Clients, RefuseTask(c)
        PROVE [Mailbox!Next]_(Mailbox!mailbox)
    BY <2>2 DEF RefuseTask
  <2>3. ASSUME NEW c \in Clients, SeeRunSignClear(c)
        PROVE [Mailbox!Next]_(Mailbox!mailbox)
    BY <2>3 DEF SeeRunSignClear
  <2>4. ASSUME NEW c \in Clients, WriteSpace(c)
        PROVE [Mailbox!Next]_(Mailbox!mailbox)
    BY <2>4 DEF WriteSpace
  <2>5. ASSUME NEW c \in Clients, WriteFirst(c)
        PROVE [Mailbox!Next]_(Mailbox!mailbox)
    <3>1. ~runSign /\ runSign' = runSign /\ job' = job
      BY <2>5 DEF WriteFirst
    <3> DEFINE content == [final[request[c].space] EXCEPT !.first = Position(request[c])]
    <3>2. /\ request[c].space \in Spaces /\ content \in Halves
          /\ final' = [final EXCEPT ![request[c].space] = content]
      BY <2>5, PositionType DEF WriteFirst
    <3>3. Mailbox!Write(request[c].space, content)
      BY <3>1, <3>2 DEF Mailbox!Write
    <3>4. QED
      BY <3>2, <3>3 DEF Mailbox!Next
  <2>6. ASSUME NEW c \in Clients, WriteRest(c)
        PROVE [Mailbox!Next]_(Mailbox!mailbox)
    <3>1. ~runSign /\ runSign' = runSign /\ job' = job
      BY <2>6 DEF WriteRest
    <3> DEFINE content == [final[request[c].space] EXCEPT !.rest = Position(request[c])]
    <3>2. /\ request[c].space \in Spaces /\ content \in Halves
          /\ final' = [final EXCEPT ![request[c].space] = content]
      BY <2>6, PositionType DEF WriteRest
    <3>3. Mailbox!Write(request[c].space, content)
      BY <3>1, <3>2 DEF Mailbox!Write
    <3>4. QED
      BY <3>2, <3>3 DEF Mailbox!Next
  <2>7. ASSUME NEW c \in Clients, RaiseRunSign(c)
        PROVE [Mailbox!Next]_(Mailbox!mailbox)
    <3>1. c = TeachBox /\ ~runSign /\ "clear" \notin slavePending
      BY <2>7 DEF RaiseRunSign
    <3> DEFINE task == [space |-> request[c].space,
                      target |-> Whole(Position(request[c]))]
    <3>2. task \in Mailbox!Tasks
      BY PositionType DEF Mailbox!Tasks
    <3>3. final' = [final EXCEPT ![task.space] = task.target]
      BY <2>7, <3>1 DEF RaiseRunSign
    <3>4. Mailbox!Put(task)
      BY <2>7, <3>1, <3>3 DEF RaiseRunSign, Mailbox!Put
    <3>5. QED
      BY <3>2, <3>4 DEF Mailbox!Next
  <2>8. ASSUME NEW c \in Clients, StopRefused(c)
        PROVE [Mailbox!Next]_(Mailbox!mailbox)
    BY <2>8 DEF StopRefused
  <2>9. ASSUME NEW c \in Clients, SeeRunning(c)
        PROVE [Mailbox!Next]_(Mailbox!mailbox)
    BY <2>9 DEF SeeRunning
  <2>10. ASSUME NEW c \in Clients, RaiseStopSign(c)
         PROVE [Mailbox!Next]_(Mailbox!mailbox)
    BY <2>10 DEF RaiseStopSign
  <2>11. ASSUME NEW space \in Spaces, ChangeSpace(space)
         PROVE [Mailbox!Next]_(Mailbox!mailbox)
    BY <2>11 DEF ChangeSpace
  <2>12. ASSUME SetSpace PROVE [Mailbox!Next]_(Mailbox!mailbox)
    <3>1. CASE runSign /\ "clear" \notin slavePending
      <4>1. Mailbox!Redirect(plannerTaskSpace')
        BY <2>12, <3>1 DEF SetSpace, Mailbox!Redirect
      <4>2. plannerTaskSpace' \in Spaces
        BY <2>12 DEF SetSpace
      <4>3. QED
        BY <4>1, <4>2 DEF Mailbox!Next
    <3>2. CASE ~(runSign /\ "clear" \notin slavePending)
      BY <2>12, <3>2 DEF SetSpace
    <3>3. QED
      BY <3>1, <3>2
  <2>13. ASSUME MasterRestart PROVE [Mailbox!Next]_(Mailbox!mailbox)
    <3>1. CASE runSign /\ "clear" \notin slavePending
      <4>1. Mailbox!Redirect(plannerTaskSpace')
        BY <2>13, <3>1 DEF MasterRestart, Mailbox!Redirect
      <4>2. plannerTaskSpace' \in Spaces
        BY <2>13 DEF MasterRestart
      <4>3. QED
        BY <4>1, <4>2 DEF Mailbox!Next
    <3>2. CASE ~(runSign /\ "clear" \notin slavePending)
      BY <2>13, <3>2 DEF MasterRestart
    <3>3. QED
      BY <3>1, <3>2
  <2>14. ASSUME TakeTask PROVE [Mailbox!Next]_(Mailbox!mailbox)
    <3>1. Mailbox!Take
      BY <2>14 DEF TakeTask, Mailbox!Take
    <3>2. QED
      BY <3>1 DEF Mailbox!Next
  <2>15. ASSUME ClearRunSign PROVE [Mailbox!Next]_(Mailbox!mailbox)
    BY <2>15 DEF ClearRunSign
  <2>16. ASSUME ShowRunning PROVE [Mailbox!Next]_(Mailbox!mailbox)
    BY <2>16 DEF ShowRunning
  <2>17. ASSUME FinishTask PROVE [Mailbox!Next]_(Mailbox!mailbox)
    <3>1. Mailbox!End
      BY <2>17 DEF FinishTask, Mailbox!End
    <3>2. QED
      BY <3>1 DEF Mailbox!Next
  <2>18. ASSUME SlaveRestart PROVE [Mailbox!Next]_(Mailbox!mailbox)
    <3>1. CASE "clear" \in slavePending
      <4>1. Mailbox!FindAgain(plannerTaskSpace)
        BY <2>18, <3>1 DEF SlaveRestart, Mailbox!FindAgain
      <4>2. QED
        BY <4>1 DEF Mailbox!Next
    <3>2. CASE "clear" \notin slavePending
      <4>1. Mailbox!End
        BY <2>18, <3>2 DEF SlaveRestart, Mailbox!End
      <4>2. QED
        BY <4>1 DEF Mailbox!Next
    <3>3. QED
      BY <3>1, <3>2
  <2>19. ASSUME UNCHANGED vars PROVE [Mailbox!Next]_(Mailbox!mailbox)
    BY <2>19 DEF vars, clientVars, signVars, slaveVars, history
  <2>q. QED
    BY <2>1, <2>2, <2>3, <2>4, <2>5, <2>6, <2>7, <2>8, <2>9, <2>10, <2>11,
       <2>12, <2>13, <2>14, <2>15, <2>16, <2>17, <2>18, <2>19
       DEF Next, createRunTask, stopRun, changeSpace, Slave
<1>q. QED
  BY <1>1, <1>2, TypeInvariant, MailboxInvariant, PTL
     DEF Spec, MailboxSpec, Mailbox!Spec
=============================================================================
