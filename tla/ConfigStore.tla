----------------------------- MODULE ConfigStore -----------------------------
(***************************************************************************)
(* The parameters of the controller and the file they are kept in:         *)
(* initControllerParam, setConfigParam and the operations that call it.    *)
(* Main loads the parameters before the other threads exist; afterwards    *)
(* the teach box and the keyboard change them without a lock.  The file is *)
(* smaller than one write of the library, so it is either empty, which     *)
(* does not parse, or whole.                                               *)
(***************************************************************************)
EXTENDS Integers

CONSTANTS
  MaxSpeed,     \* 100 in the code
  MaxType,      \* the highest control law, planner and space
  MaxCalls,     \* bound on the calls after the start
  MaxRestarts   \* bound on the restarts of the master

ASSUME ConfigAssumption ==
  MaxSpeed \in Nat \ {0} /\ MaxType \in Nat /\ MaxCalls \in Nat /\ MaxRestarts \in Nat

Speeds == {"jogspeed", "runSpeed"}
Switches == {"controlLaw", "planner", "space"}
Params == Speeds \cup Switches
LoadOrder == <<"jogspeed", "runSpeed", "controlLaw", "planner", "space">>

Callers == {"main", "teachBox", "keyboard"}

VARIABLES
  controllerStatus, runSign, \* of the slave; a task waits for it
  file,             \* controller.json: parameter -> value or Missing
  memory,           \* shared memory: parameter -> value
  pc, call, root,   \* per caller: place, parameter and value, what it has read
  todo, loaded,     \* initControllerParam: next of LoadOrder, what it has read
  kept,             \* history: the values a parameter may rightly have
  alone,            \* history, per caller: its call overlaps no other
  calls, restarts

callerVars == <<pc, call, root>>
loadVars == <<todo, loaded>>
history == <<kept, alone, calls>>
slaveVars == <<controllerStatus, runSign>>
vars == <<slaveVars, file, memory, callerVars, loadVars, history, restarts>>

Missing == -1
EmptyFile == [p \in Params |-> Missing]

Clamp(v) == IF v < 1 THEN 1 ELSE IF v > MaxSpeed THEN MaxSpeed ELSE v

\* What the start makes of a member of the file; one that is missing reads as 0.
Loaded(p, v) ==
  IF p \in Speeds THEN Clamp(v) ELSE IF v = Missing THEN 0 ELSE v

Default(p) == Loaded(p, Missing)

Goto(c, place) == pc' = [pc EXCEPT ![c] = place]

NoCall == [c \in Callers |-> [param |-> "ControllerID", value |-> 0]]
Unread == [c \in Callers |-> EmptyFile]
AtStart == [c \in Callers |-> IF c = "main" THEN "start" ELSE "idle"]

\* A machine switched on, with no file or with one that differs from the defaults.
Init ==
  /\ controllerStatus = "wait_" /\ runSign = FALSE
  /\ file \in {EmptyFile, [p \in Params |-> IF p \in Speeds THEN MaxSpeed ELSE MaxType]}
  /\ memory = [p \in Params |-> 0]
  /\ pc = AtStart /\ call = NoCall /\ root = Unread
  /\ todo = 1 /\ loaded = EmptyFile
  /\ kept = [p \in Params |-> {0, Loaded(p, file[p])}]
  /\ alone = [c \in Callers |-> FALSE]
  /\ calls = 0 /\ restarts = 0

Restart ==
  /\ restarts < MaxRestarts
  /\ restarts' = restarts + 1
  /\ pc' = AtStart /\ call' = NoCall /\ root' = Unread
  /\ todo' = 1 /\ loaded' = EmptyFile
  /\ kept' = IF \E c \in Callers : pc[c] = "write"
               THEN [p \in Params |-> kept[p] \cup {Default(p)}] ELSE kept
  /\ alone' = [c \in Callers |-> FALSE]
  /\ UNCHANGED <<slaveVars, file, memory, calls>>

TakeTask ==
  /\ runSign /\ controllerStatus = "wait_"
  /\ runSign' = FALSE /\ controllerStatus' = "run_"
  /\ UNCHANGED <<file, memory, callerVars, loadVars, history, restarts>>

FinishTask ==
  /\ controllerStatus = "run_"
  /\ controllerStatus' = "wait_"
  /\ UNCHANGED <<runSign, file, memory, callerVars, loadVars, history, restarts>>

-----------------------------------------------------------------------------
(* The calls *)

\* initControllerParam notes when it was built before it uses what it read.
ReadConfig ==
  /\ pc["main"] = "start"
  /\ loaded' = file
  /\ root' = [root EXCEPT !["main"] = file]
  /\ Goto("main", "truncate")
  /\ UNCHANGED <<slaveVars, file, memory, call, todo, history, restarts>>

Loading == todo \in DOMAIN LoadOrder
Started == ~Loading /\ pc["main"] = "idle"

\* Keys 1 to 3 change the law, and the keys of a task the speed before it.
MayAsk(c, p) ==
  /\ Started /\ calls < MaxCalls
  /\ c # "main" /\ (c = "keyboard" => p \in {"controlLaw", "runSpeed"})

MayCall(c, p, v) ==
  /\ pc[c] = "idle"
  /\ \/ MayAsk(c, p)
     \/ c = "main" /\ Loading /\ p = LoadOrder[todo] /\ v = Loaded(p, loaded[p])
  /\ IF c = "main" THEN todo' = todo + 1 /\ calls' = calls
                   ELSE calls' = calls + 1 /\ todo' = todo

Overlaps(c) == \E d \in Callers \ {c} : pc[d] # "idle"

\* History: the new value is one the parameter may have.  Calls that overlap
\* may lose each other's, or read the file while it is empty.
Begin(c, p, v) ==
  /\ call' = [call EXCEPT ![c] = [param |-> p, value |-> v]]
  /\ kept' = [q \in Params |-> kept[q] \cup (IF q = p THEN {v} ELSE {})
                                       \cup (IF Overlaps(c) THEN {Default(q)} ELSE {})]
  /\ alone' = IF Overlaps(c) THEN [d \in Callers |-> FALSE] ELSE [alone EXCEPT ![c] = TRUE]

\* History: a call that overlapped no other leaves only its own value.
End(c) ==
  kept' = IF alone[c] THEN [kept EXCEPT ![call[c].param] = {call[c].value}] ELSE kept

ChangeSwitch(c, p, v) ==
  /\ p \in Switches /\ controllerStatus = "wait_"
  /\ MayCall(c, p, v) /\ Begin(c, p, v)
  /\ Goto(c, "read")
  /\ UNCHANGED <<slaveVars, file, memory, root, loaded, restarts>>

\* A call of another thread that is refused changes nothing.
SwitchRefused ==
  /\ pc["main"] = "idle" /\ Loading /\ LoadOrder[todo] \in Switches
  /\ controllerStatus # "wait_"
  /\ todo' = todo + 1
  /\ UNCHANGED <<slaveVars, file, memory, callerVars, loaded, history, restarts>>

\* Mutant: the speed is stored as it was sent.
SetSpeedUnclamped(c, p, v) ==
  /\ p \in Speeds
  /\ MayCall(c, p, v) /\ Begin(c, p, Clamp(v))
  /\ memory' = [memory EXCEPT ![p] = v]
  /\ Goto(c, "speed")
  /\ UNCHANGED <<slaveVars, file, root, loaded, restarts>>

SetSpeed(c, p, v) ==
  /\ p \in Speeds
  /\ MayCall(c, p, v) /\ Begin(c, p, Clamp(v))
  /\ memory' = [memory EXCEPT ![p] = Clamp(v)]
  /\ Goto(c, "speed")
  /\ UNCHANGED <<slaveVars, file, root, loaded, restarts>>

\* The speed for the file is read from shared memory.
ReadSpeed(c) ==
  /\ pc[c] = "speed"
  /\ call' = [call EXCEPT ![c].value = memory[call[c].param]]
  /\ Goto(c, "read")
  /\ UNCHANGED <<slaveVars, file, memory, root, loadVars, history, restarts>>

ReadFile(c) ==
  /\ pc[c] = "read"
  /\ root' = [root EXCEPT ![c] = file]
  /\ Goto(c, "truncate")
  /\ UNCHANGED <<slaveVars, file, memory, call, loadVars, history, restarts>>

Truncate(c) ==
  /\ pc[c] = "truncate"
  /\ file' = EmptyFile
  /\ Goto(c, "write")
  /\ UNCHANGED <<slaveVars, memory, call, root, loadVars, history, restarts>>

\* Mutant: the file is not read, so only the new member is written.
WriteNewMember(c) ==
  /\ pc[c] = "write"
  /\ file' = [p \in Params |-> IF p = call[c].param THEN call[c].value ELSE Missing]
  /\ IF call[c].param \in Switches THEN Goto(c, "store") /\ kept' = kept
                                   ELSE Goto(c, "idle") /\ End(c)
  /\ UNCHANGED <<slaveVars, memory, call, root, loadVars, alone, calls, restarts>>

WriteFile(c) ==
  /\ pc[c] = "write"
  /\ file' = [p \in Params |-> IF p = call[c].param THEN call[c].value ELSE root[c][p]]
  /\ IF call[c].param \in Switches THEN Goto(c, "store") /\ kept' = kept
                                   ELSE Goto(c, "idle") /\ End(c)
  /\ UNCHANGED <<slaveVars, memory, call, root, loadVars, alone, calls, restarts>>

StoreSwitch(c) ==
  /\ pc[c] = "store"
  /\ memory' = [memory EXCEPT ![call[c].param] = call[c].value]
  /\ End(c)
  /\ Goto(c, "idle")
  /\ UNCHANGED <<slaveVars, file, call, root, loadVars, alone, calls, restarts>>

\* RunTask has its steps; the space it sets is in shared memory only.
createRunTask(c, space) ==
  /\ pc[c] = "idle" /\ c # "main" /\ Started
  /\ controllerStatus = "wait_" /\ ~runSign
  /\ c = "keyboard" => space = 0
  /\ memory' = [memory EXCEPT !["space"] = space]
  /\ runSign' = TRUE
  /\ UNCHANGED <<controllerStatus, file, callerVars, loadVars, history, restarts>>

setConfigParam(c) == ReadFile(c) \/ Truncate(c) \/ WriteFile(c)

Next ==
  \/ Restart \/ TakeTask \/ FinishTask \/ ReadConfig \/ SwitchRefused
  \/ \E c \in Callers :
       \/ \E p \in Switches, v \in 0..MaxType : ChangeSwitch(c, p, v)
       \/ \E p \in Speeds, v \in 0..(MaxSpeed + 1) : SetSpeed(c, p, v)
       \/ ReadSpeed(c) \/ setConfigParam(c) \/ StoreSwitch(c)
       \/ \E space \in 0..MaxType : createRunTask(c, space)

Spec == Init /\ [][Next]_vars

-----------------------------------------------------------------------------
(* Properties *)

Places == {"idle", "start", "speed", "read", "truncate", "write", "store"}

ValuesOf(p) == IF p \in Speeds THEN 0..MaxSpeed ELSE 0..MaxType

Settings ==
  {f \in [Params -> Int] : \A p \in Params : f[p] \in ValuesOf(p) \cup {Missing}}

\* Every variable keeps its type; a speed never leaves 0..MaxSpeed.
TypeOK ==
  /\ controllerStatus \in {"wait_", "run_"} /\ runSign \in BOOLEAN
  /\ file \in Settings /\ loaded \in Settings /\ root \in [Callers -> Settings]
  /\ memory \in [Params -> Int] /\ \A p \in Params : memory[p] \in ValuesOf(p)
  /\ pc \in [Callers -> Places]
  /\ call \in [Callers -> [param : Params \cup {"ControllerID"}, value : Int]]
  /\ \A c \in Callers :
       /\ call[c].param \in Params => call[c].value \in ValuesOf(call[c].param)
       /\ pc[c] = "speed" => call[c].param \in Speeds
  /\ todo \in 1..6
  /\ kept \in [Params -> SUBSET Int] /\ alone \in [Callers -> BOOLEAN]
  /\ calls \in 0..MaxCalls /\ restarts \in 0..MaxRestarts

\* A parameter in shared memory, and what the next start would make of the
\* file unless it is being written, is what an accepted call set last; or, if
\* that call overlapped another or the process died, what one of them set; and
\* the default only if calls overlapped or the process died while the file was
\* empty.  The space in shared memory is also set by tasks.
SettingsDurable ==
  \A p \in Params :
    /\ p # "space" => memory[p] \in kept[p]
    /\ (\A c \in Callers : pc[c] # "write") => Loaded(p, file[p]) \in kept[p]

\* changeControllerLaw (controller.cpp:121): the control law is not changed
\* unless the robot is at rest.
NoSwitchWhileMoving ==
  [][memory'["controlLaw"] # memory["controlLaw"] => controllerStatus = "wait_"]_vars
=============================================================================
