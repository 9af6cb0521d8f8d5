-------------------------------- MODULE WdLog --------------------------------
(***************************************************************************)
(* The log (src/src/wdLog): logWrite, which every thread calls without a   *)
(* lock, and the rotation in checkLogSize.  The newest log has suffix 0; a *)
(* rotation renames each log to the next suffix and removes the one that   *)
(* has the last.  sign is the highest suffix in use.  Steps are as fine as *)
(* the calls of the file system and the stores to sign.  Logs are numbered *)
(* in the order they were begun; what is written in them and how fast they *)
(* fill is left open.                                                      *)
(***************************************************************************)
EXTENDS Integers

CONSTANTS
  Threads,      \* the threads that write to the log
  MaxSuffix,    \* 9 in the code
  MaxLogs,      \* no rotation begins once so many logs were begun
  MaxRestarts   \* bound on the restarts of the master

ASSUME WdLogAssumption ==
  MaxSuffix \in Nat \ {0} /\ MaxLogs \in Nat /\ MaxRestarts \in Nat

VARIABLES
  pc, i,        \* per thread: place in logWrite, and the loop variable or the
                \* register in which sign is counted
  sign,
  logs,         \* the directory: the log that each suffix in use stands for
  file,         \* the log the stream writes to
  latest,       \* number of logs begun
  overlapped,   \* history: a rotation has begun during another
  restarts

vars == <<pc, i, sign, logs, file, latest, overlapped, restarts>>

Closed == 0

Goto(t, place) == pc' = [pc EXCEPT ![t] = place]

Without(suffix) == [s \in DOMAIN logs \ {suffix} |-> logs[s]]

With(suffix, log) ==
  [s \in DOMAIN logs \cup {suffix} |-> IF s = suffix THEN log ELSE logs[s]]

\* rename replaces the log that has the new suffix, and fails without effect if
\* none has the old one.
Renamed(old, new) ==
  IF old \notin DOMAIN logs THEN logs
  ELSE [s \in (DOMAIN logs \ {old}) \cup {new} |-> logs[IF s = new THEN old ELSE s]]

\* startLog in an empty directory.
Init ==
  /\ pc = [t \in Threads |-> "logWrite"] /\ i = [t \in Threads |-> 0]
  /\ sign = 0
  /\ logs = [s \in {0} |-> 1]
  /\ file = 1 /\ latest = 1
  /\ overlapped = FALSE
  /\ restarts = 0

\* The process dies anywhere; startLog finds the highest suffix of one digit
\* and goes on with log 0, which it creates if it is not there.
Restart ==
  /\ restarts < MaxRestarts
  /\ restarts' = restarts + 1
  /\ pc' = [t \in Threads |-> "logWrite"]
  /\ \E s \in {0} \cup (DOMAIN logs \cap 0..MaxSuffix) :
       sign' = s /\ \A t \in DOMAIN logs \cap 0..MaxSuffix : t <= s
  /\ IF 0 \in DOMAIN logs
       THEN UNCHANGED <<logs, latest>>
       ELSE latest' = latest + 1 /\ logs' = With(0, latest')
  /\ file' = logs'[0]
  /\ UNCHANGED <<i, overlapped>>

\* The message would not fit in; one that fits is written and changes nothing.
FindFull(t) ==
  /\ pc[t] = "logWrite" /\ latest < MaxLogs
  /\ Goto(t, "fclose")
  /\ UNCHANGED <<i, sign, logs, file, latest, overlapped, restarts>>

Rotating(t) == pc[t] \notin {"logWrite", "fclose"}

\* Another thread may have closed the stream already or write to it later,
\* which is undefined: the process dies (Restart) or goes on.
CloseLog(t) ==
  /\ pc[t] = "fclose"
  /\ Goto(t, "sign")
  /\ file' = Closed
  /\ overlapped' = (overlapped \/ \E u \in Threads : Rotating(u))
  /\ UNCHANGED <<i, sign, logs, latest, restarts>>

\* Mutant: suffix 9 is not removed, and sign not counted down, until it is
\* beyond 9.
KeepOldLogLonger(t) ==
  /\ pc[t] = "sign" /\ sign <= MaxSuffix
  /\ Goto(t, "loop")
  /\ UNCHANGED <<i, sign, logs, file, latest, overlapped, restarts>>

KeepOldLog(t) ==
  /\ pc[t] = "sign" /\ sign < MaxSuffix
  /\ Goto(t, "loop")
  /\ UNCHANGED <<i, sign, logs, file, latest, overlapped, restarts>>

delOldLog(t) ==
  /\ pc[t] = "sign" /\ sign >= MaxSuffix
  /\ logs' = Without(MaxSuffix)
  /\ i' = [i EXCEPT ![t] = sign]
  /\ Goto(t, "sign--")
  /\ UNCHANGED <<sign, file, latest, overlapped, restarts>>

CountDown(t) ==
  /\ pc[t] = "sign--"
  /\ sign' = i[t] - 1
  /\ Goto(t, "loop")
  /\ UNCHANGED <<i, logs, file, latest, overlapped, restarts>>

\* Mutant: the loop begins one suffix too low.
BeginBelow(t) ==
  /\ pc[t] = "loop"
  /\ i' = [i EXCEPT ![t] = sign - 1]
  /\ Goto(t, "rename")
  /\ UNCHANGED <<sign, logs, file, latest, overlapped, restarts>>

BeginRenaming(t) ==
  /\ pc[t] = "loop"
  /\ i' = [i EXCEPT ![t] = sign]
  /\ Goto(t, "rename")
  /\ UNCHANGED <<sign, logs, file, latest, overlapped, restarts>>

\* Mutant: each log is given the suffix before.
RenameDown(t) ==
  /\ pc[t] = "rename" /\ i[t] >= 0
  /\ logs' = Renamed(i[t], i[t] - 1)
  /\ i' = [i EXCEPT ![t] = @ - 1]
  /\ UNCHANGED <<pc, sign, file, latest, overlapped, restarts>>

Rename(t) ==
  /\ pc[t] = "rename" /\ i[t] >= 0
  /\ logs' = Renamed(i[t], i[t] + 1)
  /\ i' = [i EXCEPT ![t] = @ - 1]
  /\ UNCHANGED <<pc, sign, file, latest, overlapped, restarts>>

EndRenaming(t) ==
  /\ pc[t] = "rename" /\ i[t] < 0
  /\ i' = [i EXCEPT ![t] = sign]
  /\ Goto(t, "sign++")
  /\ UNCHANGED <<sign, logs, file, latest, overlapped, restarts>>

CountUp(t) ==
  /\ pc[t] = "sign++"
  /\ sign' = i[t] + 1
  /\ Goto(t, "fopen")
  /\ UNCHANGED <<i, logs, file, latest, overlapped, restarts>>

OpenLog(t) ==
  /\ pc[t] = "fopen"
  /\ latest' = latest + 1
  /\ logs' = With(0, latest')
  /\ file' = latest'
  /\ Goto(t, "logWrite")
  /\ UNCHANGED <<i, sign, overlapped, restarts>>

logWrite(t) ==
  \/ FindFull(t) \/ CloseLog(t) \/ KeepOldLog(t) \/ delOldLog(t) \/ CountDown(t)
  \/ BeginRenaming(t) \/ Rename(t) \/ EndRenaming(t) \/ CountUp(t) \/ OpenLog(t)

Next == Restart \/ \E t \in Threads : logWrite(t)

Spec == Init /\ [][Next]_vars

-----------------------------------------------------------------------------
(* Properties *)

Places == {"logWrite", "fclose", "sign", "sign--", "loop", "rename", "sign++",
           "fopen"}

\* Every variable keeps its type.
TypeOK ==
  /\ pc \in [Threads -> Places] /\ i \in [Threads -> Int]
  /\ sign \in Int
  /\ DOMAIN logs \subseteq Nat
  /\ \A s \in DOMAIN logs : logs[s] \in 1..latest
  /\ file \in 0..latest /\ latest \in Nat
  /\ overlapped \in BOOLEAN
  /\ restarts \in 0..MaxRestarts

\* A higher suffix is an older log, whatever rotations overlapped and wherever
\* one was cut off: a gap in the suffixes is never closed the wrong way.
NewestFirst == \A s, t \in DOMAIN logs : s < t => logs[s] > logs[t]

\* One rotation at a time, or one cut off by a death, loses no log but the
\* oldest, and that one only when it has reached the last suffix.
OnlyOldestDropped ==
  [][~overlapped' =>
       \A s \in DOMAIN logs :
         \/ \E t \in DOMAIN logs' : logs'[t] = logs[s]
         \/ s = MaxSuffix /\ \A t \in DOMAIN logs : t <= s]_vars

\* One rotation at a time, or one cut off by a death, uses no suffix of two
\* digits, which startLog would not find, and outside a rotation the stream
\* writes to log 0.
SuffixesInUse ==
  ~overlapped =>
    /\ DOMAIN logs \subseteq 0..MaxSuffix
    /\ (\A t \in Threads : ~Rotating(t)) => 0 \in DOMAIN logs /\ file = logs[0]
=============================================================================
