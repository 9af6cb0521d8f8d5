----------------------------- MODULE WdLogProofs -----------------------------
(***************************************************************************)
(* Proofs about WdLog for any set of threads, any number of suffixes, logs *)
(* and restarts.                                                           *)
(***************************************************************************)
EXTENDS WdLog, TLAPS

USE WdLogAssumption DEF WdLogAssumption

\* Every variable keeps its type.
LEMMA TypeInvariant == Spec => []TypeOK
<1>1. Init => TypeOK
  <2> SUFFICES ASSUME Init PROVE TypeOK
    OBVIOUS
  <2>1. overlapped \in BOOLEAN
    BY Zenon DEF Init
  <2>q. QED
    BY <2>1 DEF Init, TypeOK, Places
<1>2. TypeOK /\ [Next]_vars => TypeOK'
  <2> SUFFICES ASSUME TypeOK, [Next]_vars PROVE TypeOK'
    OBVIOUS
  <2> USE DEF TypeOK, Places, Goto
  <2>1. ASSUME Restart PROVE TypeOK'
    BY <2>1 DEF Restart, With
  <2>2. ASSUME NEW t \in Threads, FindFull(t) PROVE TypeOK'
    BY <2>2 DEF FindFull
  <2>3. ASSUME NEW t \in Threads, CloseLog(t) PROVE TypeOK'
    <3>1. overlapped' \in BOOLEAN
      BY <2>3, Zenon DEF CloseLog
    <3>q. QED
      BY <2>3, <3>1 DEF CloseLog, Closed
  <2>4. ASSUME NEW t \in Threads, KeepOldLog(t) PROVE TypeOK'
    BY <2>4 DEF KeepOldLog
  <2>5. ASSUME NEW t \in Threads, delOldLog(t) PROVE TypeOK'
    BY <2>5 DEF delOldLog, Without
  <2>6. ASSUME NEW t \in Threads, CountDown(t) PROVE TypeOK'
    BY <2>6 DEF CountDown
  <2>7. ASSUME NEW t \in Threads, BeginRenaming(t) PROVE TypeOK'
    BY <2>7 DEF BeginRenaming
  <2>8. ASSUME NEW t \in Threads, Rename(t) PROVE TypeOK'
    BY <2>8 DEF Rename, Renamed
  <2>9. ASSUME NEW t \in Threads, EndRenaming(t) PROVE TypeOK'
    BY <2>9 DEF EndRenaming
  <2>10. ASSUME NEW t \in Threads, CountUp(t) PROVE TypeOK'
    BY <2>10 DEF CountUp
  <2>11. ASSUME NEW t \in Threads, OpenLog(t) PROVE TypeOK'
    BY <2>11 DEF OpenLog, With
  <2>12. ASSUME UNCHANGED vars PROVE TypeOK'
    BY <2>12 DEF vars
  <2>q. QED
    BY <2>1, <2>2, <2>3, <2>4, <2>5, <2>6, <2>7, <2>8, <2>9, <2>10, <2>11,
       <2>12 DEF Next, logWrite
<1>q. QED
  BY <1>1, <1>2, PTL DEF Spec

\* Type correctness of the log: Spec => []TypeOK.
THEOREM TypeCorrect == Spec => []TypeOK
  BY TypeInvariant

\* Whatever rotations overlap and wherever one is cut off, a log with a higher
\* suffix is older.
THEOREM NewestFirstCorrect == Spec => []NewestFirst
<1>1. Init => NewestFirst
  BY DEF Init, NewestFirst
<1>2. TypeOK /\ NewestFirst /\ [Next]_vars => NewestFirst'
  <2> SUFFICES ASSUME TypeOK, NewestFirst, [Next]_vars PROVE NewestFirst'
    OBVIOUS
  <2> USE DEF TypeOK, NewestFirst
  <2>1. ASSUME Restart PROVE NewestFirst'
    BY <2>1 DEF Restart, With
  <2>2. ASSUME NEW t \in Threads, FindFull(t) PROVE NewestFirst'
    BY <2>2 DEF FindFull
  <2>3. ASSUME NEW t \in Threads, CloseLog(t) PROVE NewestFirst'
    BY <2>3 DEF CloseLog
  <2>4. ASSUME NEW t \in Threads, KeepOldLog(t) PROVE NewestFirst'
    BY <2>4 DEF KeepOldLog
  <2>5. ASSUME NEW t \in Threads, delOldLog(t) PROVE NewestFirst'
    BY <2>5 DEF delOldLog, Without
  <2>6. ASSUME NEW t \in Threads, CountDown(t) PROVE NewestFirst'
    BY <2>6 DEF CountDown
  <2>7. ASSUME NEW t \in Threads, BeginRenaming(t) PROVE NewestFirst'
    BY <2>7 DEF BeginRenaming
  <2>8. ASSUME NEW t \in Threads, Rename(t) PROVE NewestFirst'
    BY <2>8 DEF Rename, Renamed
  <2>9. ASSUME NEW t \in Threads, EndRenaming(t) PROVE NewestFirst'
    BY <2>9 DEF EndRenaming
  <2>10. ASSUME NEW t \in Threads, CountUp(t) PROVE NewestFirst'
    BY <2>10 DEF CountUp
  <2>11. ASSUME NEW t \in Threads, OpenLog(t) PROVE NewestFirst'
    BY <2>11 DEF OpenLog, With
  <2>12. ASSUME UNCHANGED vars PROVE NewestFirst'
    BY <2>12 DEF vars
  <2>q. QED
    BY <2>1, <2>2, <2>3, <2>4, <2>5, <2>6, <2>7, <2>8, <2>9, <2>10, <2>11,
       <2>12 DEF Next, logWrite
<1>q. QED
  BY <1>1, <1>2, TypeInvariant, PTL DEF Spec

\* What a thread alone in a rotation has reached, at each place of it.
Reached(t) ==
  /\ pc[t] = "sign" => sign \in 0..MaxSuffix /\ DOMAIN logs \subseteq 0..sign
  /\ pc[t] = "sign--" =>
       i[t] = MaxSuffix /\ sign = MaxSuffix /\ DOMAIN logs \subseteq 0..(MaxSuffix - 1)
  /\ pc[t] = "loop" => sign \in 0..(MaxSuffix - 1) /\ DOMAIN logs \subseteq 0..sign
  /\ pc[t] = "rename" =>
       /\ sign \in 0..(MaxSuffix - 1) /\ i[t] \in -1..sign
       /\ DOMAIN logs \subseteq 0..(sign + 1) /\ i[t] + 1 \notin DOMAIN logs
  /\ pc[t] = "sign++" =>
       sign \in 0..(MaxSuffix - 1) /\ i[t] = sign /\ DOMAIN logs \subseteq 1..(sign + 1)
  /\ pc[t] = "fopen" => sign \in 1..MaxSuffix /\ DOMAIN logs \subseteq 1..sign

\* One thread at a time rotates the logs, and leaves them as it found them.
RotationInv ==
  ~overlapped =>
    /\ \A t, u \in Threads : Rotating(t) /\ Rotating(u) => t = u
    /\ \A t \in Threads : Reached(t)
    /\ (\A t \in Threads : ~Rotating(t)) =>
         /\ sign \in 0..MaxSuffix /\ DOMAIN logs \subseteq 0..sign
         /\ 0 \in DOMAIN logs /\ file = logs[0]

\* No suffix is beyond the last, wherever the rotation is.
LEMMA SuffixBound ==
  ASSUME TypeOK, RotationInv, ~overlapped
  PROVE  DOMAIN logs \subseteq 0..MaxSuffix
<1>1. CASE \A t \in Threads : ~Rotating(t)
  BY <1>1 DEF RotationInv
<1>2. ASSUME NEW t \in Threads, Rotating(t) PROVE DOMAIN logs \subseteq 0..MaxSuffix
  BY <1>2 DEF RotationInv, Reached, Rotating, TypeOK, Places
<1>q. QED
  BY <1>1, <1>2

\* The rotation keeps to its places and bounds.
LEMMA RotationInvariant == Spec => []RotationInv
<1>1. Init => RotationInv
  BY DEF Init, RotationInv, Reached, Rotating
<1>2. TypeOK /\ RotationInv /\ [Next]_vars => RotationInv'
  <2> SUFFICES ASSUME TypeOK, RotationInv, [Next]_vars, ~overlapped' PROVE RotationInv'
    BY DEF RotationInv
  <2> USE DEF TypeOK, RotationInv, Reached, Rotating, Places, Goto
  <2>1. ASSUME Restart PROVE RotationInv'
    <3>1. DOMAIN logs \subseteq 0..MaxSuffix
      BY <2>1, SuffixBound DEF Restart
    <3>q. QED
      BY <2>1, <3>1 DEF Restart, With
  <2>2. ASSUME NEW t \in Threads, FindFull(t) PROVE RotationInv'
    BY <2>2 DEF FindFull
  <2>3. ASSUME NEW t \in Threads, CloseLog(t) PROVE RotationInv'
    <3>1. ~overlapped /\ \A u \in Threads : ~Rotating(u)
      BY <2>3, Zenon DEF CloseLog
    <3>2. pc' = [pc EXCEPT ![t] = "sign"] /\ sign' = sign /\ logs' = logs
      BY <2>3 DEF CloseLog
    <3>3. sign \in 0..MaxSuffix /\ DOMAIN logs \subseteq 0..sign
      BY <3>1
    <3>q. QED
      BY <2>3, <3>1, <3>2, <3>3
  <2>4. ASSUME NEW t \in Threads, KeepOldLog(t) PROVE RotationInv'
    BY <2>4 DEF KeepOldLog
  <2>5. ASSUME NEW t \in Threads, delOldLog(t) PROVE RotationInv'
    BY <2>5 DEF delOldLog, Without
  <2>6. ASSUME NEW t \in Threads, CountDown(t) PROVE RotationInv'
    BY <2>6 DEF CountDown
  <2>7. ASSUME NEW t \in Threads, BeginRenaming(t) PROVE RotationInv'
    BY <2>7 DEF BeginRenaming
  <2>8. ASSUME NEW t \in Threads, Rename(t) PROVE RotationInv'
    BY <2>8 DEF Rename, Renamed
  <2>9. ASSUME NEW t \in Threads, EndRenaming(t) PROVE RotationInv'
    BY <2>9 DEF EndRenaming
  <2>10. ASSUME NEW t \in Threads, CountUp(t) PROVE RotationInv'
    BY <2>10 DEF CountUp
  <2>11. ASSUME NEW t \in Threads, OpenLog(t) PROVE RotationInv'
    BY <2>11 DEF OpenLog, With
  <2>12. ASSUME UNCHANGED vars PROVE RotationInv'
    BY <2>12 DEF vars
  <2>q. QED
    BY <2>1, <2>2, <2>3, <2>4, <2>5, <2>6, <2>7, <2>8, <2>9, <2>10, <2>11,
       <2>12 DEF Next, logWrite
<1>q. QED
  BY <1>1, <1>2, TypeInvariant, PTL DEF Spec

\* One rotation at a time, cut off or not, stays within the suffixes that
\* startLog looks for, and leaves log 0 open.
THEOREM SuffixesCorrect == Spec => []SuffixesInUse
<1>1. TypeOK /\ RotationInv => SuffixesInUse
  BY SuffixBound DEF SuffixesInUse, RotationInv
<1>q. QED
  BY <1>1, TypeInvariant, RotationInvariant, PTL

\* One rotation at a time loses nothing but the log with the last suffix.
THEOREM OnlyOldestCorrect == Spec => OnlyOldestDropped
<1> DEFINE Stays(s) ==
      \/ \E t \in DOMAIN logs' : logs'[t] = logs[s]
      \/ s = MaxSuffix /\ \A t \in DOMAIN logs : t <= s
<1>1. TypeOK /\ RotationInv /\ [Next]_vars
        => [~overlapped' => \A s \in DOMAIN logs : Stays(s)]_vars
  <2> SUFFICES ASSUME TypeOK, RotationInv, [Next]_vars, ~overlapped', NEW s \in DOMAIN logs
               PROVE  Stays(s)
    OBVIOUS
  <2> USE DEF TypeOK, RotationInv, Reached, Rotating, Places
  <2>1. ASSUME Restart PROVE Stays(s)
    BY <2>1 DEF Restart, With
  <2>2. ASSUME NEW t \in Threads, FindFull(t) PROVE Stays(s)
    BY <2>2 DEF FindFull
  <2>3. ASSUME NEW t \in Threads, CloseLog(t) PROVE Stays(s)
    BY <2>3 DEF CloseLog
  <2>4. ASSUME NEW t \in Threads, KeepOldLog(t) PROVE Stays(s)
    BY <2>4 DEF KeepOldLog
  <2>5. ASSUME NEW t \in Threads, delOldLog(t) PROVE Stays(s)
    BY <2>5, SuffixBound DEF delOldLog, Without
  <2>6. ASSUME NEW t \in Threads, CountDown(t) PROVE Stays(s)
    BY <2>6 DEF CountDown
  <2>7. ASSUME NEW t \in Threads, BeginRenaming(t) PROVE Stays(s)
    BY <2>7 DEF BeginRenaming
  <2>8. ASSUME NEW t \in Threads, Rename(t) PROVE Stays(s)
    BY <2>8 DEF Rename, Renamed
  <2>9. ASSUME NEW t \in Threads, EndRenaming(t) PROVE Stays(s)
    BY <2>9 DEF EndRenaming
  <2>10. ASSUME NEW t \in Threads, CountUp(t) PROVE Stays(s)
    BY <2>10 DEF CountUp
  <2>11. ASSUME NEW t \in Threads, OpenLog(t) PROVE Stays(s)
    BY <2>11 DEF OpenLog, With
  <2>12. ASSUME UNCHANGED vars PROVE Stays(s)
    BY <2>12 DEF vars
  <2>q. QED
    BY <2>1, <2>2, <2>3, <2>4, <2>5, <2>6, <2>7, <2>8, <2>9, <2>10, <2>11,
       <2>12 DEF Next, logWrite
<1>q. QED
  BY <1>1, TypeInvariant, RotationInvariant, PTL DEF Spec, OnlyOldestDropped
==============================================================================
