-------------------------- MODULE ConfigStoreProofs --------------------------
(***************************************************************************)
(* Proofs about ConfigStore for every range of speeds and types and any    *)
(* number of calls and restarts.                                           *)
(***************************************************************************)
EXTENDS ConfigStore, TLAPS

USE ConfigAssumption DEF ConfigAssumption, Missing

InCall == {"speed", "read", "truncate", "write", "store"}

\* The place of a caller fits its call, and a speed that was set is not 0.
CallInv ==
  \A c \in Callers :
    /\ pc[c] = "speed" => memory[call[c].param] >= 1
    /\ pc[c] = "store" => call[c].param \in Switches
    /\ pc[c] \in InCall \ {"speed"} /\ call[c].param \in Params =>
         Loaded(call[c].param, call[c].value) = call[c].value

\* initControllerParam loads the parameters in order, while no other thread calls.
LoadInv ==
  /\ \A c \in Callers \ {"main"} :
       pc[c] # "start" /\ (pc["main"] # "idle" \/ todo # 6 => pc[c] = "idle")
  /\ pc["main"] = "start" => todo = 1 /\ call["main"].param = "ControllerID"
  /\ pc["main"] \in InCall /\ call["main"].param \in Params =>
       todo > 1 /\ call["main"].param = LoadOrder[todo - 1]

\* A call that is alone is the only one, and what it has stored is still there.
AloneInv ==
  \A c \in Callers : alone[c] /\ pc[c] \in InCall =>
    /\ \A d \in Callers \ {c} : pc[d] = "idle"
    /\ call[c].param \in Speeds => memory[call[c].param] = call[c].value
    /\ pc[c] = "store" => file[call[c].param] = call[c].value

Kept(p, v) == Loaded(p, v) \in kept[p]

MemoryKept == \A p \in Params \ {"space"} : memory[p] \in kept[p]
FileKept ==
  /\ \A p \in Params : Kept(p, file[p]) \/ Loaded(p, file[p]) = Default(p)
  /\ (\A c \in Callers : pc[c] # "write") => \A p \in Params : Kept(p, file[p])
RootKept ==
  \A c \in Callers : pc[c] \in {"truncate", "write"} => \A p \in Params : Kept(p, root[c][p])
CallKept ==
  \A c \in Callers :
    pc[c] \in InCall /\ call[c].param \in Params => call[c].value \in kept[call[c].param]
OverlapKept ==
  \A c, d \in Callers : c # d /\ pc[c] # "idle" /\ pc[d] # "idle" =>
    \A p \in Params : Default(p) \in kept[p]
LoadKept ==
  pc["main"] # "start" =>
    \A k \in 1..5 : k >= todo => Kept(LoadOrder[k], loaded[LoadOrder[k]])

\* Every place a value is read from or written to holds one that is kept.
KeptInv == MemoryKept /\ FileKept /\ RootKept /\ CallKept /\ OverlapKept /\ LoadKept

\* What LoadOrder holds.
LEMMA LoadOrderType ==
  /\ \A k \in 1..5 : LoadOrder[k] \in Params
  /\ \A j, k \in 1..5 : j # k => LoadOrder[j] # LoadOrder[k]
  /\ DOMAIN LoadOrder = 1..5
<1>1. \A k \in 1..5 : k = 1 \/ k = 2 \/ k = 3 \/ k = 4 \/ k = 5
  OBVIOUS
<1>2. /\ LoadOrder[1] = "jogspeed" /\ LoadOrder[2] = "runSpeed"
      /\ LoadOrder[3] = "controlLaw" /\ LoadOrder[4] = "planner" /\ LoadOrder[5] = "space"
  BY DEF LoadOrder
<1>3. DOMAIN LoadOrder = 1..5
  BY DEF LoadOrder
<1>q. QED
  BY <1>1, <1>2, <1>3 DEF Params, Speeds, Switches

\* Loading gives a value of the parameter, and nothing new for one that was set.
LEMMA LoadedType ==
  /\ \A v \in Int : Clamp(v) \in 1..MaxSpeed
  /\ \A p \in Speeds : \A v \in 1..MaxSpeed : Loaded(p, v) = v
  /\ \A p \in Switches : \A v \in ValuesOf(p) : Loaded(p, v) = v
  /\ \A p \in Params : \A v \in ValuesOf(p) \cup {-1} :
       Loaded(p, v) \in ValuesOf(p) /\ Loaded(p, Loaded(p, v)) = Loaded(p, v)
  BY DEF Loaded, Clamp, ValuesOf, Params, Speeds, Switches

\* Where a parameter is a speed and where a switch.
LEMMA ParamsType ==
  /\ Speeds \subseteq Params /\ Switches \subseteq Params
  /\ Speeds \cap Switches = {} /\ Params = Speeds \cup Switches
  /\ "ControllerID" \notin Params /\ "space" \in Switches
  /\ "main" \in Callers
  /\ \A p \in Speeds : ValuesOf(p) = 0..MaxSpeed
  /\ \A p \in Switches : ValuesOf(p) = 0..MaxType
  BY DEF Params, Speeds, Switches, Callers, ValuesOf

\* What the file and the copies of it hold can be loaded.
LEMMA SettingsType ==
  /\ EmptyFile \in Settings
  /\ \A f \in Settings : f \in [Params -> Int] /\ \A p \in Params : f[p] \in ValuesOf(p) \cup {-1}
  /\ \A f \in Settings : \A p \in Params : Loaded(p, f[p]) \in ValuesOf(p)
  /\ \A p \in Params : ValuesOf(p) \subseteq Nat /\ 0 \in ValuesOf(p) /\ Default(p) \in ValuesOf(p)
<1>1. EmptyFile \in Settings
  BY DEF EmptyFile, Settings
<1>2. \A f \in Settings : f \in [Params -> Int] /\ \A p \in Params : f[p] \in ValuesOf(p) \cup {-1}
  BY DEF Settings
<1>3. \A p \in Params : ValuesOf(p) \subseteq Nat /\ 0 \in ValuesOf(p)
  BY DEF ValuesOf
<1>q. QED
  BY <1>1, <1>2, <1>3, LoadedType DEF Default

\* Every variable keeps its type.
LEMMA TypeInvariant == Spec => []TypeOK
<1>1. Init => TypeOK
  <2> SUFFICES ASSUME Init PROVE TypeOK
    OBVIOUS
  <2>1. file \in Settings
    <3>1. CASE file = EmptyFile
      BY <3>1, SettingsType
    <3>2. CASE file = [p \in Params |-> IF p \in Speeds THEN MaxSpeed ELSE MaxType]
      <4>1. file \in [Params -> Int]
        BY <3>2
      <4>2. \A p \in Params : file[p] \in ValuesOf(p)
        BY <3>2 DEF ValuesOf
      <4>q. QED
        BY <4>1, <4>2 DEF Settings
    <3>q. QED
      BY <3>1, <3>2 DEF Init
  <2>2. kept \in [Params -> SUBSET Int]
    BY <2>1, SettingsType DEF Init
  <2>3. alone \in [Callers -> BOOLEAN] /\ runSign \in BOOLEAN
    BY Zenon DEF Init
  <2>q. QED
    BY <2>1, <2>2, <2>3, SettingsType, ParamsType DEF Init, TypeOK, AtStart, NoCall, Unread, Places
<1>2. TypeOK /\ [Next]_vars => TypeOK'
  <2> SUFFICES ASSUME TypeOK, [Next]_vars PROVE TypeOK'
    OBVIOUS
  <2> USE DEF TypeOK, Goto, Places, callerVars, loadVars, history, slaveVars
  <2>1. ASSUME Restart PROVE TypeOK'
    <3>1. alone' \in [Callers -> BOOLEAN]
      BY <2>1, Zenon DEF Restart
    <3>2. kept' \in [Params -> SUBSET Int]
      BY <2>1, SettingsType DEF Restart
    <3>3. /\ pc' \in [Callers -> Places] /\ loaded' \in Settings
          /\ root' \in [Callers -> Settings] /\ \A c \in Callers : pc'[c] # "speed"
      BY <2>1, SettingsType DEF Restart, AtStart, Unread
    <3>4. /\ call' \in [Callers -> [param : Params \cup {"ControllerID"}, value : Int]]
          /\ \A c \in Callers : call'[c].param \notin Params
      BY <2>1, ParamsType DEF Restart, NoCall
    <3>q. QED
      BY <2>1, <3>1, <3>2, <3>3, <3>4 DEF Restart
  <2>2. ASSUME TakeTask PROVE TypeOK'
    <3>1. runSign' \in BOOLEAN
      BY <2>2, Zenon DEF TakeTask
    <3>q. QED
      BY <2>2, <3>1 DEF TakeTask
  <2>3. ASSUME FinishTask PROVE TypeOK'
    BY <2>3 DEF FinishTask
  <2>4. ASSUME ReadConfig PROVE TypeOK'
    BY <2>4 DEF ReadConfig
  <2>5. ASSUME SwitchRefused PROVE TypeOK'
    BY <2>5, LoadOrderType DEF SwitchRefused, Loading
  <2>6. ASSUME NEW c \in Callers, NEW p \in Switches, NEW v \in 0..MaxType,
     ChangeSwitch(c, p, v) PROVE TypeOK'
    <3>1. p \in Params /\ v \in ValuesOf(p)
      BY <2>6, LoadedType, ParamsType, SettingsType DEF ChangeSwitch
    <3>2. alone' \in [Callers -> BOOLEAN]
      BY <2>6, Zenon DEF ChangeSwitch, Begin
    <3>3. kept' \in [Params -> SUBSET Int]
      BY <2>6, <3>1, SettingsType DEF ChangeSwitch, Begin
    <3>4. todo' \in 1..6 /\ calls' \in 0..MaxCalls
      BY <2>6, LoadOrderType DEF ChangeSwitch, MayCall, MayAsk, Loading
    <3>7. \A d \in Callers : pc'[d] = "speed" => call'[d].param \in Speeds
      BY <2>6, <3>1 DEF ChangeSwitch, Begin
    <3>5. /\ call' \in [Callers -> [param : Params \cup {"ControllerID"}, value : Int]]
          /\ \A d \in Callers : call'[d].param \in Params =>
               call'[d].value \in ValuesOf(call'[d].param)
      BY <2>6, <3>1, SettingsType DEF ChangeSwitch, Begin
    <3>q. QED
      BY <2>6, <3>1, <3>2, <3>3, <3>4, <3>5, <3>7 DEF ChangeSwitch
  <2>7. ASSUME NEW c \in Callers, NEW p \in Speeds, NEW v \in 0..(MaxSpeed +
     1), SetSpeed(c, p, v) PROVE TypeOK'
    <3>1. p \in Params /\ Clamp(v) \in ValuesOf(p)
      BY <2>7, LoadedType, ParamsType, SettingsType DEF SetSpeed
    <3>2. alone' \in [Callers -> BOOLEAN]
      BY <2>7, Zenon DEF SetSpeed, Begin
    <3>3. kept' \in [Params -> SUBSET Int]
      BY <2>7, <3>1, SettingsType DEF SetSpeed, Begin
    <3>4. todo' \in 1..6 /\ calls' \in 0..MaxCalls
      BY <2>7, LoadOrderType DEF SetSpeed, MayCall, MayAsk, Loading
    <3>7. \A d \in Callers : pc'[d] = "speed" => call'[d].param \in Speeds
      BY <2>7, <3>1 DEF SetSpeed, Begin
    <3>5. /\ call' \in [Callers -> [param : Params \cup {"ControllerID"}, value : Int]]
          /\ \A d \in Callers : call'[d].param \in Params =>
               call'[d].value \in ValuesOf(call'[d].param)
      BY <2>7, <3>1, SettingsType DEF SetSpeed, Begin
    <3>6. memory' \in [Params -> Int] /\ \A q \in Params : memory'[q] \in ValuesOf(q)
      BY <2>7, <3>1, SettingsType DEF SetSpeed
    <3>q. QED
      BY <2>7, <3>1, <3>2, <3>3, <3>4, <3>5, <3>7, <3>6 DEF SetSpeed
  <2>8. ASSUME NEW c \in Callers, ReadSpeed(c) PROVE TypeOK'
    <3>1. /\ call[c].param \in Params /\ memory[call[c].param] \in Int
          /\ memory[call[c].param] \in ValuesOf(call[c].param)
      BY <2>8, ParamsType DEF ReadSpeed
    <3>2. /\ call' \in [Callers -> [param : Params \cup {"ControllerID"}, value : Int]]
          /\ \A d \in Callers : call'[d].param = call[d].param
          /\ \A d \in Callers \ {c} : call'[d].value = call[d].value
          /\ call'[c].value = memory[call[c].param]
      BY <2>8, <3>1 DEF ReadSpeed
    <3>q. QED
      BY <2>8, <3>1, <3>2 DEF ReadSpeed
  <2>9. ASSUME NEW c \in Callers, ReadFile(c) PROVE TypeOK'
    BY <2>9 DEF ReadFile
  <2>10. ASSUME NEW c \in Callers, Truncate(c) PROVE TypeOK'
    BY <2>10, SettingsType DEF Truncate
  <2>11. ASSUME NEW c \in Callers, WriteFile(c) PROVE TypeOK'
    <3>1. file' \in Settings
      BY <2>11, SettingsType DEF WriteFile, Settings
    <3>2. kept' \in [Params -> SUBSET Int]
      BY <2>11 DEF WriteFile, End
    <3>q. QED
      BY <2>11, <3>1, <3>2 DEF WriteFile
  <2>12. ASSUME NEW c \in Callers, StoreSwitch(c) PROVE TypeOK'
    <3>1. kept' \in [Params -> SUBSET Int]
      <4>1. call[c].value \in Int
        OBVIOUS
      <4>q. QED
        BY <2>12, <4>1 DEF StoreSwitch, End
    <3>2. memory' \in [Params -> Int] /\ \A q \in Params : memory'[q] \in ValuesOf(q)
      BY <2>12 DEF StoreSwitch
    <3>q. QED
      BY <2>12, <3>1, <3>2 DEF StoreSwitch
  <2>13. ASSUME NEW c \in Callers, NEW space \in 0..MaxType, createRunTask(c,
     space) PROVE TypeOK'
    <3>1. runSign' \in BOOLEAN
      BY <2>13, Zenon DEF createRunTask
    <3>3. space \in ValuesOf("space")
      BY ParamsType
    <3>2. memory' \in [Params -> Int] /\ \A q \in Params : memory'[q] \in ValuesOf(q)
      <4>1. memory' = [memory EXCEPT !["space"] = space]
        BY <2>13 DEF createRunTask
      <4>2. space \in Int /\ \A q \in Params : memory[q] \in Int
        OBVIOUS
      <4>3. \A q \in Params : memory'[q] = IF q = "space" THEN space ELSE memory[q]
        BY <4>1
      <4>4. memory' \in [Params -> Int]
        BY <4>1, <4>2
      <4>q. QED
        BY <4>3, <4>4, <3>3
    <3>q. QED
      BY <2>13, <3>1, <3>2 DEF createRunTask
  <2>14. ASSUME UNCHANGED vars PROVE TypeOK'
    BY <2>14 DEF vars
  <2>q. QED
    BY <2>1, <2>2, <2>3, <2>4, <2>5, <2>6, <2>7, <2>8, <2>9, <2>10, <2>11,
       <2>12, <2>13, <2>14 DEF Next, setConfigParam
<1>q. QED
  BY <1>1, <1>2, PTL DEF Spec

\* Type correctness of the parameters and their file: Spec => []TypeOK.
THEOREM TypeCorrect == Spec => []TypeOK
  BY TypeInvariant

\* No thread calls before the parameters are loaded.
LEMMA LoadInvariant == Spec => []LoadInv
<1>1. Init => LoadInv
  BY ParamsType DEF Init, LoadInv, InCall, AtStart, NoCall
<1>2. TypeOK /\ LoadInv /\ [Next]_vars => LoadInv'
  <2> SUFFICES ASSUME TypeOK, LoadInv, [Next]_vars PROVE LoadInv'
    OBVIOUS
  <2> USE DEF LoadInv, InCall, TypeOK, Goto, callerVars, loadVars, history, slaveVars
  <2>1. ASSUME Restart PROVE LoadInv'
    BY <2>1, ParamsType DEF Restart, AtStart, NoCall
  <2>2. ASSUME TakeTask PROVE LoadInv'
    BY <2>2 DEF TakeTask
  <2>3. ASSUME FinishTask PROVE LoadInv'
    BY <2>3 DEF FinishTask
  <2>4. ASSUME ReadConfig PROVE LoadInv'
    BY <2>4, ParamsType DEF ReadConfig
  <2>5. ASSUME SwitchRefused PROVE LoadInv'
    <3>1. /\ pc["main"] = "idle" /\ todo \in 1..5 /\ todo' = todo + 1
          /\ UNCHANGED <<pc, call>>
      BY <2>5, LoadOrderType DEF SwitchRefused, Loading
    <3>q. QED
      BY <3>1
  <2>6. ASSUME NEW c \in Callers, NEW p \in Switches, NEW v \in 0..MaxType,
     ChangeSwitch(c, p, v) PROVE LoadInv'
    <3>1. /\ pc'[c] = "read" /\ call'[c].param = p /\ p \in Params
          /\ \A d \in Callers \ {c} : pc'[d] = pc[d] /\ call'[d] = call[d]
      BY <2>6, ParamsType DEF ChangeSwitch, Begin
    <3>2. CASE c = "main"
      <4>1. /\ pc["main"] = "idle" /\ todo \in 1..5
            /\ p = LoadOrder[todo] /\ todo' = todo + 1
        BY <2>6, <3>2, LoadOrderType DEF ChangeSwitch, MayCall, MayAsk, Loading
      <4>q. QED
        BY <3>1, <3>2, <4>1
    <3>3. CASE c # "main"
      <4>1. pc["main"] = "idle" /\ todo = 6 /\ todo' = todo
        BY <2>6, <3>3, LoadOrderType DEF ChangeSwitch, MayCall, MayAsk, Loading, Started
      <4>q. QED
        BY <3>1, <3>3, <4>1, ParamsType
    <3>q. QED
      BY <3>2, <3>3
  <2>7. ASSUME NEW c \in Callers, NEW p \in Speeds, NEW v \in 0..(MaxSpeed +
     1), SetSpeed(c, p, v) PROVE LoadInv'
    <3>1. /\ pc'[c] = "speed" /\ call'[c].param = p /\ p \in Params
          /\ \A d \in Callers \ {c} : pc'[d] = pc[d] /\ call'[d] = call[d]
      BY <2>7, ParamsType DEF SetSpeed, Begin
    <3>2. CASE c = "main"
      <4>1. /\ pc["main"] = "idle" /\ todo \in 1..5
            /\ p = LoadOrder[todo] /\ todo' = todo + 1
        BY <2>7, <3>2, LoadOrderType DEF SetSpeed, MayCall, MayAsk, Loading
      <4>q. QED
        BY <3>1, <3>2, <4>1
    <3>3. CASE c # "main"
      <4>1. pc["main"] = "idle" /\ todo = 6 /\ todo' = todo
        BY <2>7, <3>3, LoadOrderType DEF SetSpeed, MayCall, MayAsk, Loading, Started
      <4>q. QED
        BY <3>1, <3>3, <4>1, ParamsType
    <3>q. QED
      BY <3>2, <3>3
  <2>8. ASSUME NEW c \in Callers, ReadSpeed(c) PROVE LoadInv'
    BY <2>8 DEF ReadSpeed
  <2>9. ASSUME NEW c \in Callers, ReadFile(c) PROVE LoadInv'
    BY <2>9 DEF ReadFile
  <2>10. ASSUME NEW c \in Callers, Truncate(c) PROVE LoadInv'
    BY <2>10 DEF Truncate
  <2>11. ASSUME NEW c \in Callers, WriteFile(c) PROVE LoadInv'
    <3>1. /\ pc[c] = "write"
          /\ pc' = [pc EXCEPT ![c] =
                      IF call[c].param \in Switches THEN "store" ELSE "idle"]
          /\ UNCHANGED <<memory, call, todo, alone>>
      BY <2>11 DEF WriteFile
    <3>q. QED
      BY <2>11, <3>1, ParamsType
  <2>12. ASSUME NEW c \in Callers, StoreSwitch(c) PROVE LoadInv'
    BY <2>12 DEF StoreSwitch
  <2>13. ASSUME NEW c \in Callers, NEW space \in 0..MaxType, createRunTask(c,
     space) PROVE LoadInv'
    BY <2>13 DEF createRunTask, Started
  <2>14. ASSUME UNCHANGED vars PROVE LoadInv'
    BY <2>14 DEF vars
  <2>q. QED
    BY <2>1, <2>2, <2>3, <2>4, <2>5, <2>6, <2>7, <2>8, <2>9, <2>10, <2>11,
       <2>12, <2>13, <2>14 DEF Next, setConfigParam
<1>q. QED
  BY <1>1, <1>2, TypeInvariant, PTL DEF Spec

\* What each caller holds is a value of its parameter.
LEMMA CallInvariant == Spec => []CallInv
<1>1. Init => CallInv
  BY DEF Init, CallInv, InCall, AtStart
<1>2. TypeOK /\ LoadInv /\ CallInv /\ [Next]_vars => CallInv'
  <2> SUFFICES ASSUME TypeOK, LoadInv, CallInv, [Next]_vars PROVE CallInv'
    OBVIOUS
  <2> USE DEF CallInv, InCall, TypeOK, Goto, callerVars, loadVars, history, slaveVars
  <2>1. ASSUME Restart PROVE CallInv'
    BY <2>1 DEF Restart, AtStart
  <2>2. ASSUME TakeTask PROVE CallInv'
    BY <2>2 DEF TakeTask
  <2>3. ASSUME FinishTask PROVE CallInv'
    BY <2>3 DEF FinishTask
  <2>4. ASSUME ReadConfig PROVE CallInv'
    BY <2>4, ParamsType DEF ReadConfig, LoadInv
  <2>5. ASSUME SwitchRefused PROVE CallInv'
    BY <2>5 DEF SwitchRefused
  <2>6. ASSUME NEW c \in Callers, NEW p \in Switches, NEW v \in 0..MaxType,
     ChangeSwitch(c, p, v) PROVE CallInv'
    <3>1. Loaded(p, v) = v
      BY LoadedType, ParamsType
    <3>2. pc'[c] = "read" /\ call'[c].param = p /\ call'[c].value = v
      BY <2>6 DEF ChangeSwitch, Begin
    <3>3. \A d \in Callers \ {c} : pc'[d] = pc[d] /\ call'[d] = call[d]
      BY <2>6 DEF ChangeSwitch, Begin
    <3>q. QED
      BY <2>6, <3>1, <3>2, <3>3 DEF ChangeSwitch
  <2>7. ASSUME NEW c \in Callers, NEW p \in Speeds, NEW v \in 0..(MaxSpeed +
     1), SetSpeed(c, p, v) PROVE CallInv'
    <3>1. Clamp(v) \in 1..MaxSpeed /\ p \in Params
      <4>1. v \in Int
        OBVIOUS
      <4>q. QED
        BY <4>1, LoadedType, ParamsType
    <3>2. pc'[c] = "speed" /\ call'[c].param = p /\ memory'[p] = Clamp(v)
      BY <2>7, <3>1 DEF SetSpeed, Begin
    <3>3. \A d \in Callers \ {c} : pc'[d] = pc[d] /\ call'[d] = call[d]
      BY <2>7 DEF SetSpeed, Begin
    <3>4. \A q \in Params : memory'[q] = IF q = p THEN Clamp(v) ELSE memory[q]
      BY <2>7 DEF SetSpeed
    <3>5. ASSUME NEW d \in Callers \ {c}, pc[d] = "speed"
          PROVE  memory'[call[d].param] >= 1
      <4>1. call[d].param \in Params /\ memory[call[d].param] >= 1
        BY <3>5, ParamsType
      <4>q. QED
        BY <4>1, <3>1, <3>4
    <3>q. QED
      BY <3>1, <3>2, <3>3, <3>5
  <2>8. ASSUME NEW c \in Callers, ReadSpeed(c) PROVE CallInv'
    BY <2>8, LoadedType, ParamsType DEF ReadSpeed
  <2>9. ASSUME NEW c \in Callers, ReadFile(c) PROVE CallInv'
    BY <2>9 DEF ReadFile
  <2>10. ASSUME NEW c \in Callers, Truncate(c) PROVE CallInv'
    BY <2>10 DEF Truncate
  <2>11. ASSUME NEW c \in Callers, WriteFile(c) PROVE CallInv'
    BY <2>11 DEF WriteFile
  <2>12. ASSUME NEW c \in Callers, StoreSwitch(c) PROVE CallInv'
    BY <2>12, ParamsType DEF StoreSwitch
  <2>13. ASSUME NEW c \in Callers, NEW space \in 0..MaxType, createRunTask(c,
     space) PROVE CallInv'
    BY <2>13, ParamsType DEF createRunTask
  <2>14. ASSUME UNCHANGED vars PROVE CallInv'
    BY <2>14 DEF vars
  <2>q. QED
    BY <2>1, <2>2, <2>3, <2>4, <2>5, <2>6, <2>7, <2>8, <2>9, <2>10, <2>11,
       <2>12, <2>13, <2>14 DEF Next, setConfigParam
<1>q. QED
  BY <1>1, <1>2, TypeInvariant, LoadInvariant, PTL DEF Spec

\* Nothing disturbs a call that is alone.
LEMMA AloneInvariant == Spec => []AloneInv
<1>1. Init => AloneInv
  BY DEF Init, AloneInv
<1>2. TypeOK /\ CallInv /\ LoadInv /\ AloneInv /\ [Next]_vars => AloneInv'
  <2> SUFFICES ASSUME TypeOK, CallInv, LoadInv, AloneInv, [Next]_vars PROVE AloneInv'
    OBVIOUS
  <2> USE DEF AloneInv, CallInv, InCall, TypeOK, Goto, callerVars, loadVars, history, slaveVars
  <2>1. ASSUME Restart PROVE AloneInv'
    BY <2>1 DEF Restart
  <2>2. ASSUME TakeTask PROVE AloneInv'
    BY <2>2 DEF TakeTask
  <2>3. ASSUME FinishTask PROVE AloneInv'
    BY <2>3 DEF FinishTask
  <2>4. ASSUME ReadConfig PROVE AloneInv'
    BY <2>4, ParamsType DEF ReadConfig, LoadInv
  <2>5. ASSUME SwitchRefused PROVE AloneInv'
    BY <2>5 DEF SwitchRefused
  <2>6. ASSUME NEW c \in Callers, NEW p \in Switches, NEW v \in 0..MaxType,
     ChangeSwitch(c, p, v) PROVE AloneInv'
    BY <2>6, ParamsType DEF ChangeSwitch, MayCall, Begin, Overlaps
  <2>7. ASSUME NEW c \in Callers, NEW p \in Speeds, NEW v \in 0..(MaxSpeed +
     1), SetSpeed(c, p, v) PROVE AloneInv'
    BY <2>7, ParamsType DEF SetSpeed, MayCall, Begin, Overlaps
  <2>8. ASSUME NEW c \in Callers, ReadSpeed(c) PROVE AloneInv'
    BY <2>8, ParamsType DEF ReadSpeed
  <2>9. ASSUME NEW c \in Callers, ReadFile(c) PROVE AloneInv'
    BY <2>9 DEF ReadFile
  <2>10. ASSUME NEW c \in Callers, Truncate(c) PROVE AloneInv'
    BY <2>10 DEF Truncate
  <2>11. ASSUME NEW c \in Callers, WriteFile(c) PROVE AloneInv'
    <3>1. /\ pc[c] = "write"
          /\ pc' = [pc EXCEPT ![c] = IF call[c].param \in Switches THEN "store" ELSE "idle"]
          /\ file' = [p \in Params |-> IF p = call[c].param THEN call[c].value ELSE root[c][p]]
          /\ UNCHANGED <<memory, call, todo, alone>>
      BY <2>11 DEF WriteFile
    <3>2. ASSUME NEW d \in Callers, (alone[d] /\ pc[d] \in InCall)' PROVE d = c
      BY <3>1, <3>2
    <3>q. QED
      BY <3>1, <3>2, ParamsType
  <2>12. ASSUME NEW c \in Callers, StoreSwitch(c) PROVE AloneInv'
    BY <2>12, ParamsType DEF StoreSwitch
  <2>13. ASSUME NEW c \in Callers, NEW space \in 0..MaxType, createRunTask(c,
     space) PROVE AloneInv'
    BY <2>13, ParamsType DEF createRunTask
  <2>14. ASSUME UNCHANGED vars PROVE AloneInv'
    BY <2>14 DEF vars
  <2>q. QED
    BY <2>1, <2>2, <2>3, <2>4, <2>5, <2>6, <2>7, <2>8, <2>9, <2>10, <2>11,
       <2>12, <2>13, <2>14 DEF Next, setConfigParam
<1>q. QED
  BY <1>1, <1>2, TypeInvariant, CallInvariant, LoadInvariant, PTL DEF Spec

\* A value that is lost or overwritten leaves one that is kept.
LEMMA KeptInvariant == Spec => []KeptInv
<1>1. Init => KeptInv
  <2> SUFFICES ASSUME Init PROVE KeptInv
    OBVIOUS
  <2>1. \A p \in Params : Kept(p, file[p]) /\ memory[p] \in kept[p]
    BY DEF Init, Kept
  <2>2. pc["main"] = "start" /\ \A c \in Callers \ {"main"} : pc[c] = "idle"
    BY ParamsType DEF Init, AtStart
  <2>q. QED
    BY <2>1, <2>2
       DEF KeptInv, MemoryKept, FileKept, RootKept, CallKept, OverlapKept, LoadKept, InCall
<1>2. TypeOK /\ CallInv /\ LoadInv /\ AloneInv /\ KeptInv /\ [Next]_vars => KeptInv'
  <2> SUFFICES ASSUME TypeOK, CallInv, LoadInv, AloneInv, KeptInv, [Next]_vars PROVE KeptInv'
    OBVIOUS
  <2> USE DEF KeptInv, InCall, TypeOK, Goto, callerVars, loadVars, history, slaveVars
  <2>1. ASSUME Restart PROVE KeptInv'
    <3>1. /\ pc'["main"] = "start" /\ todo' = 1
          /\ \A c \in Callers \ {"main"} : pc'[c] = "idle"
          /\ UNCHANGED <<file, memory>>
      BY <2>1, ParamsType DEF Restart, AtStart
    <3>3. \A p \in Params : kept[p] \subseteq kept'[p]
      BY <2>1 DEF Restart
    <3>2. (\E c \in Callers : pc[c] = "write") => \A p \in Params : Default(p) \in kept'[p]
      BY <2>1 DEF Restart
    <3>10. MemoryKept'
      BY <3>1, <3>2, <3>3, ParamsType DEF MemoryKept, Kept
    <3>11. FileKept'
      BY <3>1, <3>2, <3>3, ParamsType DEF FileKept, Kept
    <3>12. RootKept'
      BY <3>1, <3>2, <3>3, ParamsType DEF RootKept, Kept
    <3>13. CallKept'
      BY <3>1, <3>2, <3>3, ParamsType DEF CallKept, Kept
    <3>14. OverlapKept'
      BY <3>1, <3>2, <3>3, ParamsType DEF OverlapKept, Kept
    <3>15. LoadKept'
      BY <3>1, <3>2, <3>3, ParamsType DEF LoadKept, Kept
    <3>q. QED
      BY <3>10, <3>11, <3>12, <3>13, <3>14, <3>15
  <2>2. ASSUME TakeTask PROVE KeptInv'
    BY <2>2 DEF TakeTask, MemoryKept, FileKept, RootKept, CallKept, OverlapKept, LoadKept, Kept
  <2>3. ASSUME FinishTask PROVE KeptInv'
    BY <2>3 DEF FinishTask, MemoryKept, FileKept, RootKept, CallKept, OverlapKept, LoadKept, Kept
  <2>4. ASSUME ReadConfig PROVE KeptInv'
    <3>1. /\ pc["main"] = "start" /\ \A c \in Callers : pc[c] # "write"
          /\ call["main"].param \notin Params
      BY <2>4, ParamsType DEF ReadConfig, LoadInv
    <3>2. \A p \in Params : Kept(p, file[p])
      BY <3>1 DEF FileKept
    <3>3. /\ pc' = [pc EXCEPT !["main"] = "truncate"] /\ loaded' = file
          /\ root' = [root EXCEPT !["main"] = file]
          /\ UNCHANGED <<file, memory, call, kept, todo>>
      BY <2>4 DEF ReadConfig
    <3>10. MemoryKept'
      BY <3>1, <3>2, <3>3 DEF MemoryKept, Kept
    <3>11. FileKept'
      BY <3>1, <3>2, <3>3 DEF FileKept, Kept
    <3>12. RootKept'
      BY <3>1, <3>2, <3>3 DEF RootKept, Kept
    <3>13. CallKept'
      BY <3>1, <3>2, <3>3 DEF CallKept, Kept
    <3>14. OverlapKept'
      BY <3>1, <3>2, <3>3 DEF OverlapKept, Kept
    <3>15. LoadKept'
      BY <3>1, <3>2, <3>3, LoadOrderType DEF LoadKept, Kept
    <3>q. QED
      BY <3>10, <3>11, <3>12, <3>13, <3>14, <3>15
  <2>5. ASSUME SwitchRefused PROVE KeptInv'
    <3>1. /\ UNCHANGED <<pc, memory, file, call, root, loaded, kept>>
          /\ todo' = todo + 1
      BY <2>5 DEF SwitchRefused
    <3>10. MemoryKept'
      BY <3>1 DEF MemoryKept, Kept
    <3>11. FileKept'
      BY <3>1 DEF FileKept, Kept
    <3>12. RootKept'
      BY <3>1 DEF RootKept, Kept
    <3>13. CallKept'
      BY <3>1 DEF CallKept, Kept
    <3>14. OverlapKept'
      BY <3>1 DEF OverlapKept, Kept
    <3>15. LoadKept'
      BY <3>1 DEF LoadKept, Kept
    <3>q. QED
      BY <3>10, <3>11, <3>12, <3>13, <3>14, <3>15
  <2>6. ASSUME NEW c \in Callers, NEW p \in Switches, NEW v \in 0..MaxType,
     ChangeSwitch(c, p, v) PROVE KeptInv'
    <3>1. /\ \A q \in Params : kept[q] \subseteq kept'[q]
          /\ p \in Params /\ v \in kept'[p]
          /\ \A d \in Callers \ {c} : pc[d] # "idle" => \A q \in Params : Default(q) \in kept'[q]
      BY <2>6, ParamsType DEF ChangeSwitch, Begin, Overlaps
    <3>2. /\ pc[c] = "idle" /\ pc'[c] = "read"
          /\ call'[c].param = p /\ call'[c].value = v
          /\ \A d \in Callers \ {c} : pc'[d] = pc[d] /\ call'[d] = call[d]
          /\ UNCHANGED <<file, root, loaded>>
          /\ UNCHANGED memory
      BY <2>6 DEF ChangeSwitch, MayCall, Begin
    <3>3. /\ todo' >= todo /\ todo' \in Int
          /\ pc'["main"] # "start" => pc["main"] # "start"
      BY <2>6, <3>2 DEF ChangeSwitch, MayCall
    <3>10. MemoryKept'
      BY <3>1, <3>2, <3>3 DEF MemoryKept, Kept
    <3>11. FileKept'
      BY <3>1, <3>2, <3>3 DEF FileKept, Kept
    <3>12. RootKept'
      BY <3>1, <3>2, <3>3 DEF RootKept, Kept
    <3>13. CallKept'
      BY <3>1, <3>2, <3>3 DEF CallKept, Kept
    <3>14. OverlapKept'
      BY <3>1, <3>2, <3>3 DEF OverlapKept, Kept
    <3>15. LoadKept'
      <4> SUFFICES ASSUME pc'["main"] # "start", NEW k \in 1..5, k >= todo'
                   PROVE  Kept(LoadOrder[k], loaded[LoadOrder[k]])'
        BY DEF LoadKept
      <4>1. k >= todo /\ LoadOrder[k] \in Params
        BY <3>3, LoadOrderType
      <4>2. Kept(LoadOrder[k], loaded[LoadOrder[k]])
        BY <3>3, <4>1 DEF LoadKept
      <4>q. QED
        BY <3>1, <3>2, <4>1, <4>2 DEF Kept
    <3>q. QED
      BY <3>10, <3>11, <3>12, <3>13, <3>14, <3>15
  <2>7. ASSUME NEW c \in Callers, NEW p \in Speeds, NEW v \in 0..(MaxSpeed +
     1), SetSpeed(c, p, v) PROVE KeptInv'
    <3>1. /\ \A q \in Params : kept[q] \subseteq kept'[q]
          /\ p \in Params /\ Clamp(v) \in kept'[p]
          /\ \A d \in Callers \ {c} : pc[d] # "idle" => \A q \in Params : Default(q) \in kept'[q]
      BY <2>7, ParamsType DEF SetSpeed, Begin, Overlaps
    <3>2. /\ pc[c] = "idle" /\ pc'[c] = "speed"
          /\ call'[c].param = p /\ call'[c].value = Clamp(v)
          /\ \A d \in Callers \ {c} : pc'[d] = pc[d] /\ call'[d] = call[d]
          /\ UNCHANGED <<file, root, loaded>>
          /\ \A q \in Params : memory'[q] = IF q = p THEN Clamp(v) ELSE memory[q]
      BY <2>7 DEF SetSpeed, MayCall, Begin
    <3>3. /\ todo' >= todo /\ todo' \in Int
          /\ pc'["main"] # "start" => pc["main"] # "start"
      BY <2>7, <3>2 DEF SetSpeed, MayCall
    <3>10. MemoryKept'
      BY <3>1, <3>2, <3>3 DEF MemoryKept, Kept
    <3>11. FileKept'
      BY <3>1, <3>2, <3>3 DEF FileKept, Kept
    <3>12. RootKept'
      BY <3>1, <3>2, <3>3 DEF RootKept, Kept
    <3>13. CallKept'
      BY <3>1, <3>2, <3>3 DEF CallKept, Kept
    <3>14. OverlapKept'
      BY <3>1, <3>2, <3>3 DEF OverlapKept, Kept
    <3>15. LoadKept'
      <4> SUFFICES ASSUME pc'["main"] # "start", NEW k \in 1..5, k >= todo'
                   PROVE  Kept(LoadOrder[k], loaded[LoadOrder[k]])'
        BY DEF LoadKept
      <4>1. k >= todo /\ LoadOrder[k] \in Params
        BY <3>3, LoadOrderType
      <4>2. Kept(LoadOrder[k], loaded[LoadOrder[k]])
        BY <3>3, <4>1 DEF LoadKept
      <4>q. QED
        BY <3>1, <3>2, <4>1, <4>2 DEF Kept
    <3>q. QED
      BY <3>10, <3>11, <3>12, <3>13, <3>14, <3>15
  <2>8. ASSUME NEW c \in Callers, ReadSpeed(c) PROVE KeptInv'
    <3>1. /\ pc[c] = "speed" /\ call[c].param \in Params \ {"space"}
          /\ pc' = [pc EXCEPT ![c] = "read"]
          /\ \A d \in Callers : call'[d].param = call[d].param
          /\ \A d \in Callers \ {c} : call'[d].value = call[d].value
          /\ call'[c].value = memory[call[c].param]
          /\ UNCHANGED <<file, memory, root, loaded, kept, todo>>
      BY <2>8, ParamsType DEF ReadSpeed
    <3>2. call'[c].value \in kept[call[c].param]
      BY <3>1 DEF MemoryKept
    <3>10. MemoryKept'
      BY <3>1, <3>2 DEF MemoryKept, Kept
    <3>11. FileKept'
      BY <3>1, <3>2 DEF FileKept, Kept
    <3>12. RootKept'
      BY <3>1, <3>2 DEF RootKept, Kept
    <3>13. CallKept'
      BY <3>1, <3>2 DEF CallKept, Kept
    <3>14. OverlapKept'
      BY <3>1, <3>2 DEF OverlapKept, Kept
    <3>15. LoadKept'
      BY <3>1, <3>2 DEF LoadKept, Kept
    <3>q. QED
      BY <3>10, <3>11, <3>12, <3>13, <3>14, <3>15
  <2>9. ASSUME NEW c \in Callers, ReadFile(c) PROVE KeptInv'
    <3>1. /\ pc[c] = "read" /\ pc' = [pc EXCEPT ![c] = "truncate"]
          /\ root' = [root EXCEPT ![c] = file]
          /\ UNCHANGED <<file, memory, call, loaded, kept, todo>>
      BY <2>9 DEF ReadFile
    <3>2. \A p \in Params : Kept(p, file[p])
      <4>1. CASE \E d \in Callers : pc[d] = "write"
        BY <4>1, <3>1 DEF FileKept, OverlapKept, Kept
      <4>2. CASE \A d \in Callers : pc[d] # "write"
        BY <4>2 DEF FileKept
      <4>q. QED
        BY <4>1, <4>2
    <3>10. MemoryKept'
      BY <3>1, <3>2 DEF MemoryKept, Kept
    <3>11. FileKept'
      BY <3>1, <3>2 DEF FileKept, Kept
    <3>12. RootKept'
      BY <3>1, <3>2 DEF RootKept, Kept
    <3>13. CallKept'
      BY <3>1, <3>2 DEF CallKept, Kept
    <3>14. OverlapKept'
      BY <3>1, <3>2 DEF OverlapKept, Kept
    <3>15. LoadKept'
      BY <3>1, <3>2 DEF LoadKept, Kept
    <3>q. QED
      BY <3>10, <3>11, <3>12, <3>13, <3>14, <3>15
  <2>10. ASSUME NEW c \in Callers, Truncate(c) PROVE KeptInv'
    <3>1. /\ pc[c] = "truncate" /\ pc' = [pc EXCEPT ![c] = "write"]
          /\ UNCHANGED <<memory, call, root, loaded, kept, todo>>
      BY <2>10 DEF Truncate
    <3>2. \A p \in Params : file'[p] = Missing
      BY <2>10 DEF Truncate, EmptyFile
    <3>10. MemoryKept'
      BY <3>1 DEF MemoryKept, Kept
    <3>11. FileKept'
      BY <3>1, <3>2 DEF FileKept, Default
    <3>12. RootKept'
      BY <3>1 DEF RootKept, Kept
    <3>13. CallKept'
      BY <3>1 DEF CallKept, Kept
    <3>14. OverlapKept'
      BY <3>1 DEF OverlapKept, Kept
    <3>15. LoadKept'
      BY <3>1 DEF LoadKept, Kept
    <3>q. QED
      BY <3>10, <3>11, <3>12, <3>13, <3>14, <3>15
  <2>11. ASSUME NEW c \in Callers, WriteFile(c) PROVE KeptInv'
    <3>1. /\ pc[c] = "write"
          /\ pc' = [pc EXCEPT ![c] = IF call[c].param \in Switches THEN "store" ELSE "idle"]
          /\ file' = [p \in Params |-> IF p = call[c].param THEN call[c].value ELSE root[c][p]]
          /\ UNCHANGED <<memory, call, root, loaded, todo>>
      BY <2>11 DEF WriteFile
    <3> DEFINE narrow == alone[c] /\ call[c].param \in Speeds
    <3>3. /\ \A p \in Params : ~narrow \/ p # call[c].param => kept'[p] = kept[p]
          /\ narrow => kept'[call[c].param] = {call[c].value}
      BY <2>11, ParamsType DEF WriteFile, End
    <3>4. /\ narrow => \A d \in Callers : pc'[d] = "idle"
          /\ narrow => memory[call[c].param] = call[c].value
      BY <3>1, ParamsType DEF AloneInv, InCall
    <3>5. narrow => \A k \in 1..5 : k >= todo => LoadOrder[k] # call[c].param
      <4>1. CASE c = "main"
        BY <4>1, <3>1, LoadOrderType, ParamsType DEF LoadInv, InCall
      <4>2. CASE c # "main"
        BY <4>2, <3>1, ParamsType DEF LoadInv, InCall
      <4>q. QED
        BY <4>1, <4>2
    <3>6. \A p \in Params : Loaded(p, file'[p]) \in kept[p]
      BY <3>1 DEF RootKept, CallKept, CallInv, Kept, InCall
    <3>7. narrow => Loaded(call[c].param, file'[call[c].param]) = call[c].value
      BY <3>1, ParamsType DEF CallInv, InCall
    <3> HIDE DEF narrow
    <3>10. MemoryKept'
      BY <3>1, <3>3, <3>4 DEF MemoryKept, Kept
    <3>11. FileKept'
      BY <3>3, <3>6, <3>7 DEF FileKept, Kept
    <3>12. RootKept'
      BY <3>1, <3>3, <3>4, ParamsType DEF RootKept, Kept
    <3>13. CallKept'
      BY <3>1, <3>3, <3>4, ParamsType DEF CallKept, Kept
    <3>14. OverlapKept'
      BY <3>1, <3>3, <3>4 DEF OverlapKept, Kept
    <3>15. LoadKept'
      BY <3>1, <3>3, <3>4, <3>5, LoadOrderType DEF LoadKept, Kept
    <3>q. QED
      BY <3>10, <3>11, <3>12, <3>13, <3>14, <3>15
  <2>12. ASSUME NEW c \in Callers, StoreSwitch(c) PROVE KeptInv'
    <3>1. /\ pc[c] = "store" /\ pc' = [pc EXCEPT ![c] = "idle"]
          /\ memory' = [memory EXCEPT ![call[c].param] = call[c].value]
          /\ UNCHANGED <<file, call, root, loaded, todo>>
          /\ call[c].param \in Params /\ call[c].value \in kept[call[c].param]
          /\ Loaded(call[c].param, call[c].value) = call[c].value
      BY <2>12, ParamsType DEF StoreSwitch, CallInv, CallKept, InCall
    <3>2. \A p \in Params : memory'[p] = IF p = call[c].param THEN call[c].value ELSE memory[p]
      BY <3>1
    <3>3. /\ \A p \in Params : ~alone[c] \/ p # call[c].param => kept'[p] = kept[p]
          /\ alone[c] => kept'[call[c].param] = {call[c].value}
      BY <2>12, <3>1 DEF StoreSwitch, End
    <3>4. /\ alone[c] => \A d \in Callers : pc'[d] = "idle" /\ pc[d] # "write"
          /\ alone[c] => file[call[c].param] = call[c].value
      BY <3>1 DEF AloneInv, InCall
    <3>5. alone[c] => \A k \in 1..5 : k >= todo => LoadOrder[k] # call[c].param
      <4>1. CASE c = "main"
        BY <4>1, <3>1, LoadOrderType, ParamsType DEF LoadInv, InCall
      <4>2. CASE c # "main"
        BY <4>2, <3>1, ParamsType DEF LoadInv, InCall
      <4>q. QED
        BY <4>1, <4>2
    <3>10. MemoryKept'
      BY <3>1, <3>3, <3>4, <3>2 DEF MemoryKept, Kept
    <3>11. FileKept'
      BY <3>1, <3>3, <3>4 DEF FileKept, Kept
    <3>12. RootKept'
      BY <3>1, <3>3, <3>4 DEF RootKept, Kept
    <3>13. CallKept'
      BY <3>1, <3>3, <3>4 DEF CallKept, Kept
    <3>14. OverlapKept'
      BY <3>1, <3>3, <3>4 DEF OverlapKept, Kept
    <3>15. LoadKept'
      BY <3>1, <3>3, <3>4, <3>5, LoadOrderType DEF LoadKept, Kept
    <3>q. QED
      BY <3>10, <3>11, <3>12, <3>13, <3>14, <3>15
  <2>13. ASSUME NEW c \in Callers, NEW space \in 0..MaxType, createRunTask(c,
     space) PROVE KeptInv'
    <3>1. \A p \in Params \ {"space"} : memory'[p] = memory[p]
      BY <2>13 DEF createRunTask
    <3>2. UNCHANGED <<pc, file, call, root, loaded, kept, todo>>
      BY <2>13 DEF createRunTask
    <3>10. MemoryKept'
      BY <3>1, <3>2 DEF MemoryKept, Kept
    <3>11. FileKept'
      BY <3>1, <3>2 DEF FileKept, Kept
    <3>12. RootKept'
      BY <3>1, <3>2 DEF RootKept, Kept
    <3>13. CallKept'
      BY <3>1, <3>2 DEF CallKept, Kept
    <3>14. OverlapKept'
      BY <3>1, <3>2 DEF OverlapKept, Kept
    <3>15. LoadKept'
      BY <3>1, <3>2 DEF LoadKept, Kept
    <3>q. QED
      BY <3>10, <3>11, <3>12, <3>13, <3>14, <3>15
  <2>14. ASSUME UNCHANGED vars PROVE KeptInv'
    BY <2>14 DEF vars, MemoryKept, FileKept, RootKept, CallKept, OverlapKept, LoadKept, Kept
  <2>q. QED
    BY <2>1, <2>2, <2>3, <2>4, <2>5, <2>6, <2>7, <2>8, <2>9, <2>10, <2>11,
       <2>12, <2>13, <2>14 DEF Next, setConfigParam
<1>q. QED
  BY <1>1, <1>2, TypeInvariant, CallInvariant, LoadInvariant, AloneInvariant, PTL DEF Spec

\* Nothing but an overlap or a death while the file is empty loses a setting.
THEOREM SettingsCorrect == Spec => []SettingsDurable
<1>1. KeptInv => SettingsDurable
  BY DEF KeptInv, MemoryKept, FileKept, Kept, SettingsDurable
<1>q. QED
  BY <1>1, KeptInvariant, PTL
==============================================================================
