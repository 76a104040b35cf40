--------------------------- MODULE StEngineProofs ---------------------------
(***************************************************************************)
(* Proofs about StEngine for every number of programs and every setting of *)
(* their watchdogs: the variables keep their types, a stop by the watchdog *)
(* is never saved as the user's, and a cycle that a reset has interrupted  *)
(* stores nothing, whatever the modulus of the generations.                *)
(***************************************************************************)
EXTENDS StEngine, TLAPS

Programming == [enabled : BOOLEAN, compiled : BOOLEAN, prio : Prio]
Runtime == [tripped : BOOLEAN, stopped : BOOLEAN, restarts : 0 .. MaxRestarts,
            err : 0 .. ErrLimit, calm : BOOLEAN]
Cycles == [gen : 0 .. GenMod - 1, marks : 0 .. GenMod - 1, out : Outs]
Places == {"top", "wdt", "mark", "reset", "scan", "exec", "store",
           "outputs", "wait", "idle", "compile", "save"}

\* The parts of the type invariant.
TypeProg == prog \in [Programs -> Programming]
TypeRt == rt \in [Programs -> Runtime]
TypeMem == mem \in [Programs -> Outs] /\ coil \in [Programs -> Outs]
TypeVm == gen \in [Programs -> 0 .. GenMod - 1] /\ vm \in [Tasks -> Cycles]
TypePc == pc \in [Tasks -> Places] /\ at \in [Tasks -> Programs]
TypeRest ==
  /\ due \in [Programs -> BOOLEAN]
  /\ armed \in BOOLEAN /\ sem \in BOOLEAN /\ wdtDue \in BOOLEAN
  /\ saved \in [Programs -> BOOLEAN]
  /\ wish \in [Programs -> BOOLEAN] /\ safed \in [Programs -> BOOLEAN]

LEMMA TypeParts ==
  TypeOK <=> TypeProg /\ TypeRt /\ TypeMem /\ TypeVm /\ TypePc /\ TypeRest
BY DEF TypeOK, TypeProg, TypeRt, TypeMem, TypeVm, TypePc, TypeRest, Programming,
       Runtime, Cycles, Places

LEMMA TypePartsNext ==
  TypeProg' /\ TypeRt' /\ TypeMem' /\ TypeVm' /\ TypePc' /\ TypeRest' => TypeOK'
BY DEF TypeOK, TypeProg, TypeRt, TypeMem, TypeVm, TypePc, TypeRest, Programming,
       Runtime, Cycles, Places

-----------------------------------------------------------------------------
(***************************************************************************)
(* Where the tasks are.                                                    *)
(***************************************************************************)

LEMMA Numbers == /\ 0 \in Programs
                 /\ \A p \in Programs : p < Last => p + 1 \in Programs
BY EngineAssumption DEF Programs, Last

LEMMA EnterTypes ==
  ASSUME TypePc, NEW t \in Tasks, NEW where \in Places, NEW p \in Programs,
         Enter(t, where, p)
  PROVE  TypePc'
BY DEF TypePc, Enter

LEMMA GotoTypes ==
  ASSUME TypePc, NEW t \in Tasks, NEW where \in Places, Goto(t, where)
  PROVE  TypePc'
BY DEF TypePc, Goto

LEMMA RestTypes ==
  ASSUME TypePc, NEW t \in Tasks, NEW where \in Places, Rest(t, where)
  PROVE  TypePc'
BY Numbers, EnterTypes DEF Rest

LEMMA NextProgramTypes ==
  ASSUME TypePc, NEW t \in Tasks, NextProgram(t)
  PROVE  TypePc'
<1>1. at[t] \in Programs
  BY DEF TypePc
<1>2. CASE at[t] < Last
  <2>1. at[t] + 1 \in Programs /\ "scan" \in Places
    BY <1>1, <1>2, Numbers DEF Places
  <2>2. Enter(t, "scan", at[t] + 1)
    BY <1>2 DEF NextProgram
  <2>. QED
    BY <2>1, <2>2, EnterTypes
<1>3. CASE ~(at[t] < Last)
  <2>1. Rest(t, IF t = "loop" THEN "outputs" ELSE "wait")
    BY <1>3 DEF NextProgram
  <2>2. (IF t = "loop" THEN "outputs" ELSE "wait") \in Places
    BY DEF Places
  <2>. QED
    BY <2>1, <2>2, RestTypes
<1>. QED
  BY <1>2, <1>3

LEMMA NextWatchdogTypes ==
  ASSUME TypePc, NextWatchdog
  PROVE  TypePc'
<1>1. at["loop"] \in Programs /\ "loop" \in Tasks /\ "wdt" \in Places /\ "scan" \in Places
  BY DEF TypePc, Tasks, Places
<1>2. CASE at["loop"] < Last
  <2>1. at["loop"] + 1 \in Programs
    BY <1>1, <1>2, Numbers
  <2>2. Enter("loop", "wdt", at["loop"] + 1)
    BY <1>2 DEF NextWatchdog
  <2>. QED
    BY <1>1, <2>1, <2>2, EnterTypes
<1>3. CASE ~(at["loop"] < Last)
  BY <1>1, <1>3, Numbers, EnterTypes DEF NextWatchdog
<1>. QED
  BY <1>2, <1>3

-----------------------------------------------------------------------------
(***************************************************************************)
(* Records.                                                                *)
(***************************************************************************)

LEMMA AfterExecTypes ==
  ASSUME NEW r \in Runtime, NEW ok \in BOOLEAN
  PROVE  AfterExec(r, ok) \in Runtime /\ AfterExec(r, ok).stopped = r.stopped
<1>1. r.err \in 0 .. ErrLimit /\ ErrLimit \in Nat
  BY EngineAssumption DEF Runtime
<1>2. (IF ok THEN 0 ELSE IF r.err < ErrLimit THEN r.err + 1 ELSE r.err) \in 0 .. ErrLimit
  BY <1>1
<1>3. (r.restarts = 0 \/ (r.calm /\ ok)) \in BOOLEAN
  OBVIOUS
<1>. QED
  BY <1>2, <1>3 DEF AfterExec, Runtime

LEMMA HealedTypes ==
  ASSUME NEW r \in Runtime
  PROVE  Healed(r) \in Runtime /\ Healed(r).stopped = r.stopped
<1>1. (IF r.calm THEN 0 ELSE r.restarts) \in 0 .. MaxRestarts
  BY EngineAssumption DEF Runtime
<1>. QED
  BY <1>1 DEF Healed, Runtime

LEMMA BlankTypes == Blank \in Runtime
BY EngineAssumption DEF Blank, Runtime

LEMMA NoCycleTypes == NoCycle \in Cycles
BY EngineAssumption DEF NoCycle, Cycles, Outs

LEMMA ForgetTypes ==
  ASSUME TypeVm, NEW t \in Tasks, Forget(t), UNCHANGED gen
  PROVE  TypeVm'
BY NoCycleTypes DEF TypeVm, Forget

-----------------------------------------------------------------------------
(***************************************************************************)
(* Types.                                                                  *)
(***************************************************************************)

LEMMA InitTypes == Init => TypeOK
<1>. SUFFICES ASSUME Init PROVE TypeOK
  OBVIOUS
<1>1. TypeProg
  BY DEF Init, TypeProg, Programming
<1>2. TypeRt
  BY BlankTypes DEF Init, TypeRt
<1>3. TypeMem
  BY DEF Init, TypeMem, Outs
<1>4. TypeVm
  BY NoCycleTypes, EngineAssumption DEF Init, TypeVm
<1>5. TypePc
  BY Numbers DEF Init, TypePc, Places
<1>6. TypeRest
  <2>1. \A p \in Programs : prog[p].enabled \in BOOLEAN
    BY <1>1 DEF TypeProg, Programming
  <2>2. saved \in [Programs -> BOOLEAN]
    BY <2>1 DEF Init
  <2>3. armed \in BOOLEAN
    BY DEF Init
  <2>. QED
    BY <2>2, <2>3 DEF Init, TypeRest
<1>. QED
  BY <1>1, <1>2, <1>3, <1>4, <1>5, <1>6, TypeParts

\* The steps of a cycle.
LEMMA CycleTypes ==
  ASSUME TypeOK, NEW t \in {"loop", "high"}, Cycle(t)
  PROVE  TypeOK'
<1>. USE DEF history, progVars
<1>1. /\ TypeProg /\ TypeRt /\ TypeMem /\ TypeVm /\ TypePc /\ TypeRest
      /\ t \in Tasks /\ at[t] \in Programs
  BY TypeParts DEF TypePc, Tasks
<1>2. CASE Pass(t)
  <2>1. TypePc'
    BY <1>1, <1>2, NextProgramTypes DEF Pass
  <2>. QED
    BY <1>1, <1>2, <2>1, TypePartsNext
       DEF Pass, TypeProg, TypeRt, TypeMem, TypeVm, TypeRest
<1>3. CASE Start(t)
  <2>1. TypePc'
    BY <1>1, <1>3, GotoTypes DEF Start, Places
  <2>2. TypeVm'
    <3>1. gen[at[t]] \in 0 .. GenMod - 1
      BY <1>1 DEF TypeVm
    <3>2. [vm[t] EXCEPT !.gen = gen[at[t]]] \in Cycles
      BY <1>1, <3>1 DEF TypeVm, Cycles
    <3>3. vm' = [vm EXCEPT ![t] = [vm[t] EXCEPT !.gen = gen[at[t]]]] /\ gen' = gen
      BY <1>1, <1>3 DEF Start, TypeVm
    <3>. QED
      BY <1>1, <3>2, <3>3 DEF TypeVm
  <2>3. TypeRest'
    BY <1>1, <1>3 DEF Start, TypeRest
  <2>. QED
    BY <1>1, <1>3, <2>1, <2>2, <2>3, TypePartsNext DEF Start, TypeProg, TypeRt, TypeMem
<1>4. CASE Exec(t)
  <2>. PICK ok \in BOOLEAN :
         /\ rt' = [rt EXCEPT ![at[t]] = AfterExec(@, ok)]
         /\ IF ok THEN /\ \E o \in Results : vm' = [vm EXCEPT ![t].out = o]
                       /\ Goto(t, "store")
            ELSE NextProgram(t) /\ Forget(t)
    BY <1>4 DEF Exec
  <2>1. TypeRt'
    BY <1>1, AfterExecTypes DEF TypeRt
  <2>2. TypePc'
    BY <1>1, GotoTypes, NextProgramTypes DEF Places
  <2>3. TypeVm'
    <3>1. CASE ok
      <4>. PICK o \in Results : vm' = [vm EXCEPT ![t].out = o]
        BY <3>1
      <4>1. [vm[t] EXCEPT !.out = o] \in Cycles
        BY <1>1 DEF TypeVm, Cycles, Outs
      <4>2. vm' = [vm EXCEPT ![t] = [vm[t] EXCEPT !.out = o]]
        BY <1>1 DEF TypeVm
      <4>. QED
        BY <1>1, <1>4, <4>1, <4>2 DEF TypeVm, Exec
    <3>2. CASE ~ok
      BY <1>1, <1>4, <3>2, ForgetTypes DEF Exec
    <3>. QED
      BY <3>1, <3>2
  <2>. QED
    BY <1>1, <1>4, <2>1, <2>2, <2>3, TypePartsNext DEF Exec, TypeProg, TypeMem, TypeRest
<1>5. CASE Store(t)
  <2>1. TypePc'
    BY <1>1, <1>5, NextProgramTypes DEF Store
  <2>2. TypeVm'
    BY <1>1, <1>5, ForgetTypes DEF Store
  <2>3. TypeMem'
    <3>1. vm[t].out \in Outs
      BY <1>1 DEF TypeVm, Cycles
    <3>. QED
      BY <1>1, <1>5, <3>1 DEF Store, TypeMem
  <2>. QED
    BY <1>1, <1>5, <2>1, <2>2, <2>3, TypePartsNext DEF Store, TypeProg, TypeRt, TypeRest
<1>. QED
  BY <1>2, <1>3, <1>4, <1>5 DEF Cycle

\* What follows a reset keeps the watchdog's record.
LEMMA AfterResetTypes ==
  ASSUME TypeRt, TypePc, NEW t \in {"loop", "http"}, AfterReset(t)
  PROVE  TypeRt' /\ TypePc'
<1>1. t \in Tasks /\ at[t] \in Programs /\ "idle" \in Places
  BY DEF TypePc, Tasks, Places
<1>2. CASE t = "loop"
  <2>1. [rt[at[t]] EXCEPT !.err = 0] \in Runtime
    BY <1>1, EngineAssumption DEF TypeRt, Runtime
  <2>2. rt' = [rt EXCEPT ![at[t]] = [rt[at[t]] EXCEPT !.err = 0]]
    BY <1>1, <1>2 DEF AfterReset, TypeRt
  <2>. QED
    BY <1>1, <1>2, <2>1, <2>2, NextWatchdogTypes DEF AfterReset, TypeRt
<1>3. CASE t = "http"
  BY <1>1, <1>3, RestTypes DEF AfterReset, TypeRt
<1>. QED
  BY <1>2, <1>3

LEMMA MarkTypes ==
  ASSUME TypeOK, NEW t \in {"loop", "http"}, Mark(t)
  PROVE  TypeOK'
<1>. USE DEF history
<1>1. /\ TypeProg /\ TypeRt /\ TypeMem /\ TypeVm /\ TypePc /\ TypeRest
      /\ t \in Tasks /\ at[t] \in Programs
  BY TypeParts DEF TypePc, Tasks
<1>2. TypeProg' /\ TypeMem' /\ TypeRest'
  BY <1>1 DEF Mark, TypeProg, TypeMem, TypeRest
<1>3. CASE prog[at[t]].compiled
  <2>1. /\ \A u \in Runners(at[t]) : vm[u].marks < GenMod - 1
        /\ gen' = [gen EXCEPT ![at[t]] = (@ + 1) % GenMod]
        /\ vm' = [u \in Tasks |-> IF u \in Runners(at[t])
                                  THEN [vm[u] EXCEPT !.marks = @ + 1] ELSE vm[u]]
        /\ Goto(t, "reset") /\ UNCHANGED rt
    BY <1>3 DEF Mark
  <2>2. TypePc' /\ TypeRt'
    BY <1>1, <2>1, GotoTypes DEF Places, TypeRt
  <2>3. \A u \in Tasks : vm[u] \in Cycles
    BY <1>1 DEF TypeVm
  <2>4. ASSUME NEW u \in Tasks, u \in Runners(at[t])
        PROVE  [vm[u] EXCEPT !.marks = @ + 1] \in Cycles
    <3>1. vm[u].marks + 1 \in 0 .. GenMod - 1
      BY <2>1, <2>3, <2>4, EngineAssumption DEF Cycles
    <3>. QED
      BY <2>3, <3>1 DEF Cycles
  <2>5. (gen[at[t]] + 1) % GenMod \in 0 .. GenMod - 1
    <3>1. gen[at[t]] + 1 \in Nat /\ GenMod \in Nat \ {0}
      BY <1>1, EngineAssumption DEF TypeVm
    <3>. QED
      BY <3>1
  <2>6. gen' \in [Programs -> 0 .. GenMod - 1]
    BY <1>1, <2>1, <2>5 DEF TypeVm
  <2>7. vm' \in [Tasks -> Cycles]
    BY <2>1, <2>3, <2>4
  <2>. QED
    BY <1>2, <2>2, <2>6, <2>7, TypePartsNext DEF TypeVm
<1>4. CASE ~prog[at[t]].compiled
  <2>1. AfterReset(t) /\ UNCHANGED <<gen, vm>>
    BY <1>4 DEF Mark
  <2>2. TypeRt' /\ TypePc'
    BY <1>1, <2>1, AfterResetTypes
  <2>. QED
    BY <1>1, <1>2, <2>1, <2>2, TypePartsNext DEF TypeVm
<1>. QED
  BY <1>3, <1>4

LEMMA ResetTypes ==
  ASSUME TypeOK, NEW t \in {"loop", "http"}, Reset(t)
  PROVE  TypeOK'
<1>. USE DEF history
<1>1. /\ TypeProg /\ TypeRt /\ TypeMem /\ TypeVm /\ TypePc /\ TypeRest
      /\ at[t] \in Programs
  BY TypeParts DEF TypePc, Tasks
<1>2. TypeRt' /\ TypePc'
  BY <1>1, AfterResetTypes DEF Reset
<1>3. TypeMem'
  BY <1>1 DEF Reset, TypeMem, Outs
<1>. QED
  BY <1>1, <1>2, <1>3, TypePartsNext DEF Reset, TypeProg, TypeVm, TypeRest

\* The watchdog of one program.
LEMMA TripTypes == ASSUME TypeOK, Trip PROVE TypeOK'
<1>. DEFINE p == at["loop"]
            r == Healed(rt[p])
            a == Escalated(ActionOf[p], r)
            stops == a \in {"stop", "safe"}
<1>1. /\ TypeProg /\ TypeRt /\ TypeMem /\ TypeVm /\ TypePc /\ TypeRest
      /\ p \in Programs /\ "loop" \in Tasks
  BY TypeParts DEF TypePc, Tasks
<1>2. r \in Runtime
  BY <1>1, HealedTypes DEF TypeRt
<1>3. TypeVm'
  BY <1>1 DEF Trip, TypeVm
<1>4. CASE /\ a = "restart"
           /\ rt' = [rt EXCEPT ![p] = [r EXCEPT !.restarts = @ + 1, !.calm = FALSE]]
           /\ Goto("loop", "mark")
           /\ UNCHANGED <<prog, coil, safed>>
  <2>1. r.restarts \in 0 .. MaxRestarts /\ ~(r.restarts >= MaxRestarts)
    BY <1>2, <1>4 DEF Escalated, Runtime
  <2>2. r.restarts + 1 \in 0 .. MaxRestarts
    BY <2>1, EngineAssumption
  <2>3. [r EXCEPT !.restarts = @ + 1, !.calm = FALSE] \in Runtime
    BY <1>2, <2>2 DEF Runtime
  <2>4. TypeRt'
    BY <1>1, <1>4, <2>3 DEF TypeRt
  <2>5. TypePc'
    BY <1>1, <1>4, GotoTypes DEF Places
  <2>. QED
    BY <1>1, <1>3, <1>4, <2>4, <2>5, TypePartsNext
       DEF Trip, TypeProg, TypeMem, TypeRest
<1>5. CASE /\ a # "restart"
           /\ rt' = [rt EXCEPT ![p] = [r EXCEPT !.tripped = TRUE, !.calm = (r.restarts = 0),
                                                !.stopped = @ \/ stops]]
           /\ prog' = [prog EXCEPT ![p].enabled = @ /\ ~stops]
           /\ coil' = IF a = "safe" /\ p \in Bound THEN [coil EXCEPT ![p] = Off] ELSE coil
           /\ safed' = [safed EXCEPT ![p] = @ \/ (a = "safe" /\ p \in Bound)]
           /\ NextWatchdog
  <2>1. TypePc'
    BY <1>1, <1>5, NextWatchdogTypes
  <2>2. TypeRt'
    <3>1. (r.stopped \/ stops) \in BOOLEAN /\ (r.restarts = 0) \in BOOLEAN
      OBVIOUS
    <3>2. [r EXCEPT !.tripped = TRUE, !.calm = (r.restarts = 0),
                    !.stopped = @ \/ stops] \in Runtime
      BY <1>2, <3>1 DEF Runtime
    <3>. QED
      BY <1>1, <1>5, <3>2 DEF TypeRt
  <2>3. TypeProg'
    <3>1. (prog[p].enabled /\ ~stops) \in BOOLEAN
      OBVIOUS
    <3>2. [prog[p] EXCEPT !.enabled = @ /\ ~stops] \in Programming
      BY <1>1, <3>1 DEF TypeProg, Programming
    <3>3. prog' = [prog EXCEPT ![p] = [prog[p] EXCEPT !.enabled = @ /\ ~stops]]
      BY <1>1, <1>5 DEF TypeProg
    <3>. QED
      BY <1>1, <3>2, <3>3 DEF TypeProg
  <2>4. TypeMem'
    BY <1>1, <1>5 DEF Trip, TypeMem, Outs
  <2>5. TypeRest'
    <3>1. (safed[p] \/ (a = "safe" /\ p \in Bound)) \in BOOLEAN
      OBVIOUS
    <3>2. safed' \in [Programs -> BOOLEAN]
      BY <1>1, <1>5, <3>1 DEF TypeRest
    <3>. QED
      BY <1>1, <3>2 DEF Trip, TypeRest
  <2>. QED
    BY <1>3, <2>1, <2>2, <2>3, <2>4, <2>5, TypePartsNext
<1>. QED
  BY <1>4, <1>5 DEF Trip

\* The other steps of the loop task.
LEMMA LoopTypes ==
  ASSUME TypeOK, Outputs \/ Round \/ Well
  PROVE  TypeOK'
<1>. USE DEF history, progVars
<1>1. /\ TypeProg /\ TypeRt /\ TypeMem /\ TypeVm /\ TypePc /\ TypeRest
      /\ at["loop"] \in Programs /\ "loop" \in Tasks
      /\ {"top", "wdt", "scan"} \subseteq Places
  BY TypeParts DEF TypePc, Tasks, Places
<1>2. CASE Outputs
  <2>1. TypePc'
    BY <1>1, <1>2, GotoTypes DEF Outputs
  <2>2. TypeMem'
    BY <1>1, <1>2 DEF Outputs, TypeMem
  <2>. QED
    BY <1>1, <1>2, <2>1, <2>2, TypePartsNext
       DEF Outputs, TypeProg, TypeRt, TypeVm, TypeRest
<1>3. CASE Round
  <2>1. TypePc'
    BY <1>1, <1>3, EnterTypes, Numbers DEF Round
  <2>2. TypeRest'
    BY <1>1, <1>3 DEF Round, TypeRest
  <2>. QED
    BY <1>1, <1>3, <2>1, <2>2, TypePartsNext
       DEF Round, TypeProg, TypeRt, TypeMem, TypeVm
<1>4. CASE Well
  <2>1. TypePc'
    BY <1>1, <1>4, NextWatchdogTypes DEF Well
  <2>2. TypeRt'
    <3>1. Healed(rt[at["loop"]]) \in Runtime
      BY <1>1, HealedTypes DEF TypeRt
    <3>. QED
      BY <1>1, <1>4, <3>1 DEF Well, TypeRt
  <2>. QED
    BY <1>1, <1>4, <2>1, <2>2, TypePartsNext
       DEF Well, TypeProg, TypeMem, TypeVm, TypeRest
<1>. QED
  BY <1>2, <1>3, <1>4

LEMMA TimeTypes ==
  ASSUME TypeOK, Wake \/ Fire \/ Time
  PROVE  TypeOK'
<1>. USE DEF history, progVars, taskVars
<1>1. TypeProg /\ TypeRt /\ TypeMem /\ TypeVm /\ TypePc /\ TypeRest
  BY TypeParts
<1>2. CASE Wake
  <2>1. "high" \in Tasks /\ "scan" \in Places
    BY DEF Tasks, Places
  <2>2. TypePc'
    BY <1>1, <1>2, <2>1, EnterTypes, Numbers DEF Wake
  <2>3. TypeRest'
    BY <1>1, <1>2 DEF Wake, TypeRest
  <2>. QED
    BY <1>1, <1>2, <2>2, <2>3, TypePartsNext DEF Wake, TypeProg, TypeRt, TypeMem, TypeVm
<1>3. CASE Fire
  BY <1>1, <1>3, TypePartsNext
     DEF Fire, TypeProg, TypeRt, TypeMem, TypeVm, TypePc, TypeRest
<1>4. CASE WatchdogsDue
  BY <1>1, <1>4, TypePartsNext
     DEF WatchdogsDue, TypeProg, TypeRt, TypeMem, TypeVm, TypePc, TypeRest
<1>5. ASSUME NEW p \in Programs, IntervalOver(p)
      PROVE  TypeOK'
  BY <1>1, <1>5, TypePartsNext
     DEF IntervalOver, TypeProg, TypeRt, TypeMem, TypeVm, TypePc, TypeRest
<1>6. ASSUME NEW p \in Programs, CalmFor(p)
      PROVE  TypeOK'
  <2>1. [rt[p] EXCEPT !.calm = TRUE] \in Runtime
    BY <1>1 DEF TypeRt, Runtime
  <2>2. TypeRt'
    BY <1>1, <1>6, <2>1 DEF CalmFor, TypeRt
  <2>. QED
    BY <1>1, <1>6, <2>2, TypePartsNext
       DEF CalmFor, TypeProg, TypeMem, TypeVm, TypePc, TypeRest
<1>. QED
  BY <1>2, <1>3, <1>4, <1>5, <1>6 DEF Time

\* The timer is on or off after every call that sets it.
LEMMA RescheduleTypes ==
  ASSUME NEW P, NEW p, armed \in BOOLEAN, Reschedule(P) \/ Retime(p, P)
  PROVE  armed' \in BOOLEAN
BY DEF Reschedule, Retime

LEMMA SettingTypes ==
  ASSUME TypeOK, NEW p \in Programs,
         (\E e \in BOOLEAN : Enable(p, e)) \/ (\E x \in Prio : SetPriority(p, x))
  PROVE  TypeOK'
<1>. USE DEF history
<1>1. /\ TypeProg /\ TypeRt /\ TypeMem /\ TypeVm /\ TypePc /\ TypeRest
      /\ "http" \in Tasks /\ "save" \in Places
  BY TypeParts DEF Tasks, Places
<1>2. ASSUME NEW e \in BOOLEAN, Enable(p, e)
      PROVE  TypeOK'
  <2>1. TypeProg'
    <3>1. [prog[p] EXCEPT !.enabled = e] \in Programming
      BY <1>1 DEF TypeProg, Programming
    <3>2. prog' = [prog EXCEPT ![p] = [prog[p] EXCEPT !.enabled = e]]
      BY <1>1, <1>2 DEF Enable, TypeProg
    <3>. QED
      BY <1>1, <3>1, <3>2 DEF TypeProg
  <2>2. TypePc'
    BY <1>1, <1>2, GotoTypes DEF Enable
  <2>3. armed' \in BOOLEAN
    BY <1>1, <1>2, RescheduleTypes DEF Enable, TypeRest
  <2>4. TypeRest'
    <3>1. (safed[p] /\ ~e) \in BOOLEAN
      OBVIOUS
    <3>2. safed' \in [Programs -> BOOLEAN]
      BY <1>1, <1>2, <3>1 DEF Enable, TypeRest
    <3>. QED
      BY <1>1, <1>2, <2>3, <3>2 DEF Enable, TypeRest
  <2>. QED
    BY <1>1, <1>2, <2>1, <2>2, <2>4, TypePartsNext DEF Enable, TypeRt, TypeMem, TypeVm
<1>3. ASSUME NEW x \in Prio, SetPriority(p, x)
      PROVE  TypeOK'
  <2>1. TypeProg'
    <3>1. [prog[p] EXCEPT !.prio = x] \in Programming
      BY <1>1 DEF TypeProg, Programming
    <3>2. prog' = [prog EXCEPT ![p] = [prog[p] EXCEPT !.prio = x]]
      BY <1>1, <1>3 DEF SetPriority, TypeProg
    <3>. QED
      BY <1>1, <3>1, <3>2 DEF TypeProg
  <2>2. TypePc'
    BY <1>1, <1>3, GotoTypes DEF SetPriority
  <2>3. armed' \in BOOLEAN
    BY <1>1, <1>3, RescheduleTypes DEF SetPriority, TypeRest
  <2>4. TypeRest'
    BY <1>1, <1>3, <2>3 DEF SetPriority, TypeRest
  <2>. QED
    BY <1>1, <1>3, <2>1, <2>2, <2>4, TypePartsNext
       DEF SetPriority, TypeRt, TypeMem, TypeVm
<1>. QED
  BY <1>2, <1>3

LEMMA CallTypes ==
  ASSUME TypeOK, NEW p \in Programs, Reinit(p) \/ Upload(p) \/ Clear(p)
  PROVE  TypeOK'
<1>. USE DEF history, progVars, taskVars
<1>1. /\ TypeProg /\ TypeRt /\ TypeMem /\ TypeVm /\ TypePc /\ TypeRest
      /\ "http" \in Tasks /\ {"mark", "compile"} \subseteq Places
  BY TypeParts DEF Tasks, Places
<1>2. CASE Reinit(p)
  <2>1. TypePc'
    BY <1>1, <1>2, EnterTypes DEF Reinit
  <2>. QED
    BY <1>1, <1>2, <2>1, TypePartsNext
       DEF Reinit, TypeProg, TypeRt, TypeMem, TypeVm, TypeRest
<1>3. CASE Upload(p)
  <2>1. TypePc'
    BY <1>1, <1>3, EnterTypes DEF Upload
  <2>2. TypeProg'
    <3>1. [prog[p] EXCEPT !.compiled = FALSE] \in Programming
      BY <1>1 DEF TypeProg, Programming
    <3>. QED
      BY <1>1, <1>3, <3>1 DEF Upload, TypeProg
  <2>. QED
    BY <1>1, <1>3, <2>1, <2>2, TypePartsNext
       DEF Upload, TypeRt, TypeMem, TypeVm, TypeRest
<1>4. CASE Clear(p)
  <2>1. TypeProg'
    <3>1. (prog[p].enabled \/ rt[p].stopped) \in BOOLEAN
      OBVIOUS
    <3>2. [prog[p] EXCEPT !.enabled = @ \/ rt[p].stopped] \in Programming
      BY <1>1, <3>1 DEF TypeProg, Programming
    <3>3. prog' = [prog EXCEPT ![p] = [prog[p] EXCEPT !.enabled = @ \/ rt[p].stopped]]
      BY <1>1, <1>4 DEF Clear, TypeProg
    <3>. QED
      BY <1>1, <3>2, <3>3 DEF TypeProg
  <2>2. TypeRt'
    BY <1>1, <1>4, BlankTypes DEF Clear, TypeRt
  <2>3. TypeRest'
    BY <1>1, <1>4 DEF Clear, TypeRest
  <2>. QED
    BY <1>1, <1>4, <2>1, <2>2, <2>3, TypePartsNext DEF Clear, TypeMem, TypeVm, TypePc
<1>. QED
  BY <1>2, <1>3, <1>4

LEMMA HandlerTypes ==
  ASSUME TypeOK, (\E ok \in BOOLEAN : Compile(ok)) \/ Save
  PROVE  TypeOK'
<1>. USE DEF history, progVars
<1>1. /\ TypeProg /\ TypeRt /\ TypeMem /\ TypeVm /\ TypePc /\ TypeRest
      /\ "http" \in Tasks /\ {"idle", "save"} \subseteq Places
      /\ at["http"] \in Programs
  BY TypeParts DEF Tasks, Places, TypePc
<1>2. ASSUME NEW ok \in BOOLEAN, Compile(ok)
      PROVE  TypeOK'
  <2>. DEFINE p == at["http"]
  <2>1. TypeProg'
    <3>1. [prog[p] EXCEPT !.compiled = ok] \in Programming
      BY <1>1 DEF TypeProg, Programming
    <3>2. prog' = [prog EXCEPT ![p] = [prog[p] EXCEPT !.compiled = ok]]
      BY <1>1, <1>2 DEF Compile, TypeProg
    <3>. QED
      BY <1>1, <3>1, <3>2 DEF TypeProg
  <2>2. TypePc'
    BY <1>1, <1>2, RestTypes DEF Compile
  <2>3. TypeMem'
    BY <1>1, <1>2 DEF Compile, TypeMem, Outs
  <2>4. armed' \in BOOLEAN
    BY <1>1, <1>2, RescheduleTypes DEF Compile, TypeRest
  <2>5. TypeRest'
    BY <1>1, <1>2, <2>4 DEF Compile, TypeRest
  <2>. QED
    BY <1>1, <1>2, <2>1, <2>2, <2>3, <2>5, TypePartsNext DEF Compile, TypeRt, TypeVm
<1>3. CASE Save
  <2>1. TypePc'
    BY <1>1, <1>3, RestTypes DEF Save
  <2>2. TypeRest'
    <3>1. \A p \in Programs : SavedAs(p) \in BOOLEAN
      BY DEF SavedAs
    <3>2. saved' \in [Programs -> BOOLEAN]
      BY <1>3, <3>1 DEF Save
    <3>. QED
      BY <1>1, <1>3, <3>2 DEF Save, TypeRest
  <2>. QED
    BY <1>1, <1>3, <2>1, <2>2, TypePartsNext DEF Save, TypeProg, TypeRt, TypeMem, TypeVm
<1>. QED
  BY <1>2, <1>3

LEMMA StutterTypes ==
  ASSUME TypeOK, UNCHANGED vars
  PROVE  TypeOK'
BY TypeParts, TypePartsNext
   DEF vars, progVars, taskVars, history, TypeProg, TypeRt, TypeMem, TypeVm, TypePc, TypeRest

\* The types of all variables, among them that a watchdog never counts more
\* restarts than it is allowed and no task leaves the programs there are.
THEOREM TypeCorrect == Spec => []TypeOK
<1>1. Init => TypeOK
  BY InitTypes
<1>2. ASSUME TypeOK, [Next]_vars
      PROVE  TypeOK'
  <2>1. CASE LoopTask
    BY <1>2, <2>1, CycleTypes, LoopTypes, TripTypes, MarkTypes, ResetTypes DEF LoopTask
  <2>2. CASE HighTask
    BY <1>2, <2>2, CycleTypes, TimeTypes DEF HighTask
  <2>3. CASE HttpTask
    BY <1>2, <2>3, MarkTypes, ResetTypes, HandlerTypes DEF HttpTask
  <2>4. CASE Settings
    BY <1>2, <2>4, SettingTypes, CallTypes DEF Settings
  <2>5. CASE Fire \/ Time
    BY <1>2, <2>5, TimeTypes
  <2>6. CASE UNCHANGED vars
    BY <1>2, <2>6, StutterTypes
  <2>. QED
    BY <1>2, <2>1, <2>2, <2>3, <2>4, <2>5, <2>6 DEF Next
<1>. QED
  BY <1>1, <1>2, PTL DEF Spec

-----------------------------------------------------------------------------
(***************************************************************************)
(* A stop by the watchdog is not saved.  StopNotSaved is not inductive: it *)
(* needs that a program the user wants is enabled unless its watchdog has  *)
(* stopped it, and that flash is behind only while a handler has its save  *)
(* still to do.                                                            *)
(***************************************************************************)
Wanted == \A p \in Programs : wish[p] => prog[p].enabled \/ rt[p].stopped
Kept == pc["http"] # "save" => \A p \in Programs : wish[p] => saved[p]
StopInv == TypeOK /\ Wanted /\ Kept

\* The tasks do not touch where the HTTP task is.
LEMMA HttpStays ==
  ASSUME TypePc, NEW t \in {"loop", "high"}, NEW where, NEW p,
         Enter(t, where, p) \/ Goto(t, where) \/ Rest(t, where) \/ NextProgram(t)
  PROVE  pc'["http"] = pc["http"]
BY DEF TypePc, Tasks, Enter, Goto, Rest, NextProgram

LEMMA HttpStaysAtWatchdog ==
  ASSUME TypePc, NextWatchdog
  PROVE  pc'["http"] = pc["http"]
BY DEF TypePc, Tasks, NextWatchdog, Enter

\* What neither enables, disables nor saves keeps the invariant.
LEMMA QuietStep ==
  ASSUME Wanted, Kept, pc'["http"] = pc["http"], UNCHANGED <<wish, saved>>,
         \A p \in Programs : prog'[p].enabled = prog[p].enabled
                             /\ rt'[p].stopped = rt[p].stopped
  PROVE  Wanted' /\ Kept'
BY DEF Wanted, Kept

LEMMA CycleKeeps ==
  ASSUME StopInv, NEW t \in {"loop", "high"}, Cycle(t)
  PROVE  Wanted' /\ Kept'
<1>. USE DEF history, progVars
<1>1. /\ TypeRt /\ TypePc /\ Wanted /\ Kept /\ at[t] \in Programs
  BY TypeParts DEF TypePc, Tasks, StopInv
<1>2. CASE Pass(t) \/ Start(t) \/ Store(t)
  BY <1>1, <1>2, HttpStays, QuietStep DEF Pass, Start, Store
<1>3. CASE Exec(t)
  <2>. PICK ok \in BOOLEAN :
         /\ rt' = [rt EXCEPT ![at[t]] = AfterExec(@, ok)]
         /\ IF ok THEN /\ \E o \in Results : vm' = [vm EXCEPT ![t].out = o]
                       /\ Goto(t, "store")
            ELSE NextProgram(t) /\ Forget(t)
    BY <1>3 DEF Exec
  <2>1. \A p \in Programs : rt'[p].stopped = rt[p].stopped
    BY <1>1, AfterExecTypes DEF TypeRt
  <2>2. pc'["http"] = pc["http"]
    BY <1>1, HttpStays
  <2>. QED
    BY <1>1, <1>3, <2>1, <2>2, QuietStep DEF Exec
<1>. QED
  BY <1>2, <1>3 DEF Cycle

LEMMA ResettingKeeps ==
  ASSUME StopInv, NEW t \in {"loop", "http"}, Mark(t) \/ Reset(t)
  PROVE  Wanted' /\ Kept'
<1>. USE DEF history
<1>1. /\ TypeRt /\ TypePc /\ Wanted /\ Kept /\ at[t] \in Programs
  BY TypeParts DEF TypePc, Tasks, StopInv
<1>2. (AfterReset(t) \/ (Goto(t, "reset") /\ UNCHANGED rt))
      /\ UNCHANGED <<prog, wish, saved>> /\ pc[t] \in {"mark", "reset"}
  BY DEF Mark, Reset
<1>3. \A p \in Programs : rt'[p].stopped = rt[p].stopped
  <2>1. CASE t = "loop" /\ AfterReset(t)
    <3>1. rt' = [rt EXCEPT ![at[t]] = [rt[at[t]] EXCEPT !.err = 0]]
      BY <1>1, <2>1 DEF AfterReset, TypeRt
    <3>2. [rt[at[t]] EXCEPT !.err = 0].stopped = rt[at[t]].stopped
      BY <1>1 DEF TypeRt, Runtime
    <3>. QED
      BY <1>1, <3>1, <3>2 DEF TypeRt
  <2>2. CASE t # "loop" /\ AfterReset(t)
    BY <2>2 DEF AfterReset
  <2>. QED
    BY <1>2, <2>1, <2>2
<1>4. CASE t = "loop"
  <2>1. pc'["http"] = pc["http"]
    BY <1>1, <1>2, <1>4, HttpStays, HttpStaysAtWatchdog DEF AfterReset
  <2>. QED
    BY <1>1, <1>2, <1>3, <2>1, QuietStep
<1>5. CASE t = "http"
  <2>1. \A p \in Programs : wish'[p] => saved'[p]
    BY <1>1, <1>2, <1>5 DEF Kept
  <2>. QED
    BY <1>1, <1>2, <1>3, <2>1 DEF Wanted, Kept
<1>. QED
  BY <1>4, <1>5

LEMMA TripKeeps ==
  ASSUME StopInv, Trip
  PROVE  Wanted' /\ Kept'
<1>. DEFINE p == at["loop"]
            r == Healed(rt[p])
            a == Escalated(ActionOf[p], r)
            stops == a \in {"stop", "safe"}
<1>1. /\ TypeProg /\ TypeRt /\ TypePc /\ Wanted /\ Kept /\ p \in Programs
  BY TypeParts DEF TypePc, Tasks, StopInv
<1>2. r \in Runtime /\ r.stopped = rt[p].stopped
  BY <1>1, HealedTypes DEF TypeRt
<1>3. CASE /\ rt' = [rt EXCEPT ![p] = [r EXCEPT !.restarts = @ + 1, !.calm = FALSE]]
           /\ Goto("loop", "mark")
           /\ UNCHANGED <<prog, coil, safed>>
  <2>1. [r EXCEPT !.restarts = @ + 1, !.calm = FALSE].stopped = rt[p].stopped
    BY <1>2 DEF Runtime
  <2>2. \A q \in Programs : rt'[q].stopped = rt[q].stopped
    BY <1>1, <1>3, <2>1 DEF TypeRt
  <2>3. pc'["http"] = pc["http"]
    BY <1>1, <1>3, HttpStays
  <2>. QED
    BY <1>1, <1>3, <2>2, <2>3, QuietStep DEF Trip
<1>4. CASE /\ rt' = [rt EXCEPT ![p] = [r EXCEPT !.tripped = TRUE, !.calm = (r.restarts = 0),
                                                !.stopped = @ \/ stops]]
           /\ prog' = [prog EXCEPT ![p].enabled = @ /\ ~stops]
           /\ NextWatchdog
  <2>1. pc'["http"] = pc["http"]
    BY <1>1, <1>4, HttpStaysAtWatchdog
  <2>2. [r EXCEPT !.tripped = TRUE, !.calm = (r.restarts = 0),
                  !.stopped = @ \/ stops].stopped = (rt[p].stopped \/ stops)
    BY <1>2 DEF Runtime
  <2>3. /\ rt'[p].stopped = (rt[p].stopped \/ stops)
        /\ \A q \in Programs \ {p} : rt'[q] = rt[q]
    BY <1>1, <1>4, <2>2 DEF TypeRt
  <2>4. [prog[p] EXCEPT !.enabled = @ /\ ~stops].enabled = (prog[p].enabled /\ ~stops)
    BY <1>1 DEF TypeProg, Programming
  <2>5. prog' = [prog EXCEPT ![p] = [prog[p] EXCEPT !.enabled = @ /\ ~stops]]
    BY <1>1, <1>4 DEF TypeProg
  <2>6. /\ prog'[p].enabled = (prog[p].enabled /\ ~stops)
        /\ \A q \in Programs \ {p} : prog'[q] = prog[q]
    BY <1>1, <2>4, <2>5 DEF TypeProg
  <2>7. UNCHANGED <<wish, saved>>
    BY DEF Trip
  <2>8. Wanted'
    <3>. SUFFICES ASSUME NEW q \in Programs, wish[q]
                  PROVE  prog'[q].enabled \/ rt'[q].stopped
      BY <2>7 DEF Wanted
    <3>. HIDE DEF stops
    <3>1. prog[q].enabled \/ rt[q].stopped
      BY <1>1 DEF Wanted
    <3>. QED
      BY <2>3, <2>6, <3>1
  <2>. QED
    BY <1>1, <2>1, <2>7, <2>8 DEF Kept
<1>. QED
  BY <1>3, <1>4 DEF Trip

LEMMA LoopKeeps ==
  ASSUME StopInv, Outputs \/ Round \/ Well
  PROVE  Wanted' /\ Kept'
<1>. USE DEF history, progVars
<1>1. TypeRt /\ TypePc /\ Wanted /\ Kept /\ at["loop"] \in Programs
  BY TypeParts DEF TypePc, Tasks, StopInv
<1>2. CASE Outputs \/ Round
  BY <1>1, <1>2, HttpStays, QuietStep DEF Outputs, Round
<1>3. CASE Well
  <2>1. \A p \in Programs : rt'[p].stopped = rt[p].stopped
    BY <1>1, <1>3, HealedTypes DEF Well, TypeRt
  <2>. QED
    BY <1>1, <1>3, <2>1, HttpStaysAtWatchdog, QuietStep DEF Well
<1>. QED
  BY <1>2, <1>3

LEMMA TimeKeeps ==
  ASSUME StopInv, Wake \/ Fire \/ Time
  PROVE  Wanted' /\ Kept'
<1>. USE DEF history, progVars, taskVars
<1>1. TypeRt /\ TypePc /\ Wanted /\ Kept
  BY TypeParts DEF StopInv
<1>2. CASE Wake
  BY <1>1, <1>2, HttpStays, QuietStep DEF Wake
<1>3. CASE Fire \/ WatchdogsDue
  BY <1>1, <1>3, QuietStep DEF Fire, WatchdogsDue
<1>4. ASSUME NEW p \in Programs, IntervalOver(p)
      PROVE  Wanted' /\ Kept'
  BY <1>1, <1>4, QuietStep DEF IntervalOver
<1>5. ASSUME NEW p \in Programs, CalmFor(p)
      PROVE  Wanted' /\ Kept'
  <2>1. [rt[p] EXCEPT !.calm = TRUE].stopped = rt[p].stopped
    BY <1>1 DEF TypeRt, Runtime
  <2>2. \A q \in Programs : rt'[q].stopped = rt[q].stopped
    BY <1>1, <1>5, <2>1 DEF CalmFor, TypeRt
  <2>. QED
    BY <1>1, <1>5, <2>2, QuietStep DEF CalmFor
<1>. QED
  BY <1>2, <1>3, <1>4, <1>5 DEF Time

\* A call that changes a setting has its save still to do.
LEMMA SettingKeeps ==
  ASSUME StopInv, NEW p \in Programs,
         (\E e \in BOOLEAN : Enable(p, e)) \/ (\E x \in Prio : SetPriority(p, x))
  PROVE  Wanted' /\ Kept'
<1>. USE DEF history
<1>1. TypeProg /\ TypeRt /\ TypePc /\ TypeRest /\ Wanted /\ Kept
  BY TypeParts DEF StopInv
<1>2. pc'["http"] = "save"
  BY <1>1 DEF Enable, SetPriority, Goto, TypePc, Tasks
<1>3. ASSUME NEW e \in BOOLEAN, Enable(p, e)
      PROVE  Wanted'
  <2>1. [prog[p] EXCEPT !.enabled = e].enabled = e
    BY <1>1 DEF TypeProg, Programming
  <2>2. prog' = [prog EXCEPT ![p] = [prog[p] EXCEPT !.enabled = e]]
    BY <1>1, <1>3 DEF Enable, TypeProg
  <2>3. /\ prog'[p].enabled = e /\ wish'[p] = e /\ rt' = rt
        /\ \A q \in Programs \ {p} : prog'[q] = prog[q] /\ wish'[q] = wish[q]
    BY <1>1, <1>3, <2>1, <2>2 DEF Enable, TypeProg, TypeRest
  <2>. QED
    BY <1>1, <2>3 DEF Wanted
<1>4. ASSUME NEW x \in Prio, SetPriority(p, x)
      PROVE  Wanted'
  <2>1. [prog[p] EXCEPT !.prio = x].enabled = prog[p].enabled
    BY <1>1 DEF TypeProg, Programming
  <2>2. prog' = [prog EXCEPT ![p] = [prog[p] EXCEPT !.prio = x]]
    BY <1>1, <1>4 DEF SetPriority, TypeProg
  <2>3. \A q \in Programs : prog'[q].enabled = prog[q].enabled
    BY <1>1, <2>1, <2>2 DEF TypeProg
  <2>. QED
    BY <1>1, <1>4, <2>3 DEF SetPriority, Wanted
<1>. QED
  BY <1>2, <1>3, <1>4 DEF Kept

\* The calls that change nothing the user asked for, and the save.
LEMMA HandlerKeeps ==
  ASSUME StopInv,
         \/ \E p \in Programs : Reinit(p) \/ Upload(p) \/ Clear(p)
         \/ \E ok \in BOOLEAN : Compile(ok)
         \/ Save
  PROVE  Wanted' /\ Kept'
<1>. USE DEF history, progVars, taskVars
<1>1. /\ TypeProg /\ TypeRt /\ TypePc /\ TypeRest /\ Wanted /\ Kept
      /\ at["http"] \in Programs
  BY TypeParts DEF StopInv, TypePc, Tasks
<1>2. ASSUME NEW p \in Programs, Reinit(p)
      PROVE  Wanted' /\ Kept'
  BY <1>1, <1>2 DEF Reinit, Call, Wanted, Kept
<1>3. ASSUME NEW p \in Programs, Upload(p)
      PROVE  Wanted' /\ Kept'
  <2>1. [prog[p] EXCEPT !.compiled = FALSE].enabled = prog[p].enabled
    BY <1>1 DEF TypeProg, Programming
  <2>2. \A q \in Programs : prog'[q].enabled = prog[q].enabled
    BY <1>1, <1>3, <2>1 DEF Upload, TypeProg
  <2>. QED
    BY <1>1, <1>3, <2>2 DEF Upload, Call, Wanted, Kept
<1>4. ASSUME NEW p \in Programs, Clear(p)
      PROVE  Wanted' /\ Kept'
  <2>1. [prog[p] EXCEPT !.enabled = @ \/ rt[p].stopped].enabled
          = (prog[p].enabled \/ rt[p].stopped)
    BY <1>1 DEF TypeProg, Programming
  <2>2. prog' = [prog EXCEPT ![p] = [prog[p] EXCEPT !.enabled = @ \/ rt[p].stopped]]
    BY <1>1, <1>4 DEF Clear, TypeProg
  <2>3. /\ prog'[p].enabled = (prog[p].enabled \/ rt[p].stopped)
        /\ \A q \in Programs \ {p} : prog'[q] = prog[q]
    BY <1>1, <2>1, <2>2 DEF TypeProg
  <2>4. \A q \in Programs \ {p} : rt'[q] = rt[q]
    BY <1>1, <1>4 DEF Clear, TypeRt
  <2>5. Wanted'
    <3>. SUFFICES ASSUME NEW q \in Programs, wish[q]
                  PROVE  prog'[q].enabled \/ rt'[q].stopped
      BY <1>4 DEF Clear, Wanted
    <3>1. prog[q].enabled \/ rt[q].stopped
      BY <1>1 DEF Wanted
    <3>. QED
      BY <2>3, <2>4, <3>1
  <2>. QED
    BY <1>1, <1>4, <2>5 DEF Clear, Kept
<1>5. ASSUME NEW ok \in BOOLEAN, Compile(ok)
      PROVE  Wanted' /\ Kept'
  <2>. DEFINE p == at["http"]
  <2>1. [prog[p] EXCEPT !.compiled = ok].enabled = prog[p].enabled
    BY <1>1 DEF TypeProg, Programming
  <2>2. prog' = [prog EXCEPT ![p] = [prog[p] EXCEPT !.compiled = ok]]
    BY <1>1, <1>5 DEF Compile, TypeProg
  <2>3. \A q \in Programs : prog'[q].enabled = prog[q].enabled
    BY <1>1, <2>1, <2>2 DEF TypeProg
  <2>4. UNCHANGED <<rt, wish, saved>> /\ pc["http"] = "compile"
    BY <1>5 DEF Compile
  <2>. QED
    BY <1>1, <2>3, <2>4 DEF Wanted, Kept
<1>6. CASE Save
  <2>1. \A p \in Programs : saved'[p] = SavedAs(p)
    BY <1>6 DEF Save
  <2>2. \A p \in Programs : wish[p] => saved'[p]
    BY <1>1, <2>1 DEF SavedAs, Wanted
  <2>. QED
    BY <1>1, <1>6, <2>2 DEF Save, Wanted, Kept
<1>. QED
  BY <1>2, <1>3, <1>4, <1>5, <1>6

LEMMA InitStop == Init => Wanted /\ Kept
BY DEF Init, Wanted, Kept

LEMMA StopStep == StopInv /\ [Next]_vars => Wanted' /\ Kept'
<1>. SUFFICES ASSUME StopInv, [Next]_vars PROVE Wanted' /\ Kept'
  OBVIOUS
<1>1. CASE LoopTask
  BY <1>1, CycleKeeps, LoopKeeps, TripKeeps, ResettingKeeps DEF LoopTask
<1>2. CASE HighTask
  BY <1>2, CycleKeeps, TimeKeeps DEF HighTask
<1>3. CASE HttpTask
  BY <1>3, ResettingKeeps, HandlerKeeps DEF HttpTask
<1>4. CASE Settings
  BY <1>4, SettingKeeps, HandlerKeeps DEF Settings
<1>5. CASE Fire \/ Time
  BY <1>5, TimeKeeps
<1>6. CASE UNCHANGED vars
  BY <1>6 DEF vars, progVars, taskVars, history, StopInv, Wanted, Kept
<1>. QED
  BY <1>1, <1>2, <1>3, <1>4, <1>5, <1>6 DEF Next

\* Whatever the watchdogs stop and whoever saves meanwhile, a program the user
\* has enabled is enabled in flash when no handler is at work (BUG-430).
THEOREM StopIsNotSaved == Spec => []StopNotSaved
<1>1. Init => StopInv
  BY InitTypes, InitStop DEF StopInv
<1>2. StopInv /\ TypeOK' /\ [Next]_vars => StopInv'
  BY StopStep DEF StopInv
<1>3. StopInv => StopNotSaved
  BY DEF StopInv, Kept, StopNotSaved
<1>. QED
  BY <1>1, <1>2, <1>3, TypeCorrect, PTL DEF Spec


-----------------------------------------------------------------------------
(***************************************************************************)
(* A reset holds.  That a cycle sees a reset by the generation alone needs *)
(* that the generations are apart by what has been marked since, which is  *)
(* less than a round of the counter; and no cycle begins with marks.       *)
(***************************************************************************)
Runner == {"loop", "high"}
Running(t) == pc[t] \in {"exec", "store"}
Numbered(t) ==
  IF Running(t) THEN gen[at[t]] = (vm[t].gen + vm[t].marks) % GenMod ELSE vm[t].marks = 0
MarkInv == \A t \in Runner : Numbered(t)

\* Some marks, but less than a round, lead to another generation.
LEMMA MarksShow ==
  ASSUME NEW m \in Nat \ {0}, NEW g \in 0 .. m - 1, NEW k \in 0 .. m - 1
  PROVE  /\ (g + 0) % m = g
         /\ k > 0 => (g + k) % m # g
         /\ (((g + k) % m) + 1) % m = (g + (k + 1)) % m
<1>1. (g + k) % m = IF g + k < m THEN g + k ELSE g + k - m
  <2>1. CASE g + k < m
    BY <2>1
  <2>2. CASE ~(g + k < m)
    <3>1. g + k = m * 1 + (g + k - m) /\ g + k - m \in 0 .. m - 1
      BY <2>2
    <3>. QED
      BY <2>2, <3>1
  <2>. QED
    BY <2>1, <2>2
<1>2. ASSUME NEW x \in 0 .. m - 1
      PROVE  (x + 1) % m = IF x + 1 < m THEN x + 1 ELSE 0
  <2>1. CASE x + 1 < m
    BY <2>1
  <2>2. CASE ~(x + 1 < m)
    <3>1. x + 1 = m
      BY <2>2
    <3>. QED
      BY <3>1
  <2>. QED
    BY <2>1, <2>2
<1>3. (g + (k + 1)) % m = IF g + (k + 1) < m THEN g + (k + 1) ELSE g + (k + 1) - m
  <2>1. CASE g + (k + 1) < m
    BY <2>1
  <2>2. CASE ~(g + (k + 1) < m) /\ g + (k + 1) - m < m
    <3>1. g + (k + 1) = m * 1 + (g + (k + 1) - m) /\ g + (k + 1) - m \in 0 .. m - 1
      BY <2>2
    <3>. QED
      BY <2>2, <3>1
  <2>. QED
    BY <2>1, <2>2
<1>4. (g + k) % m \in 0 .. m - 1
  BY <1>1
<1>. DEFINE x == (g + k) % m
            y == (g + (k + 1)) % m
<1>5. (x + 1) % m = IF x + 1 < m THEN x + 1 ELSE 0
  BY <1>2, <1>4
<1>6. x = IF g + k < m THEN g + k ELSE g + k - m
  BY <1>1
<1>7. y = IF g + (k + 1) < m THEN g + (k + 1) ELSE g + (k + 1) - m
  BY <1>3
<1>. HIDE DEF x, y
<1>8. (IF x + 1 < m THEN x + 1 ELSE 0) = y
  BY <1>6, <1>7
<1>9. k > 0 => x # g
  BY <1>6
<1>10. (g + 0) % m = g
  OBVIOUS
<1>. QED
  BY <1>5, <1>8, <1>9, <1>10 DEF x, y

\* A task that stays where it is, or goes from one place outside a cycle to
\* another.
LEMMA StaysNumbered ==
  ASSUME NEW t, Numbered(t), vm'[t] = vm[t],
         \/ UNCHANGED gen /\ pc'[t] = pc[t] /\ at'[t] = at[t]
         \/ ~Running(t) /\ ~Running(t)'
  PROVE  Numbered(t)'
BY DEF Numbered, Running

\* Where a step of one task leaves the others.
LEMMA OthersStay ==
  ASSUME TypePc, NEW t \in Tasks, NEW where, NEW p,
         Enter(t, where, p) \/ Goto(t, where) \/ Rest(t, where) \/ NextProgram(t)
           \/ (t = "loop" /\ NextWatchdog)
  PROVE  \A u \in Tasks \ {t} : pc'[u] = pc[u] /\ at'[u] = at[u]
BY DEF TypePc, Enter, Goto, Rest, NextProgram, NextWatchdog

\* Where it goes itself.
LEMMA PlaceOf ==
  ASSUME TypePc, NEW t \in Tasks
  PROVE  /\ \A where, p : Enter(t, where, p) => pc'[t] = where
         /\ \A where : Goto(t, where) => pc'[t] = where /\ at'[t] = at[t]
         /\ \A where : Rest(t, where) => pc'[t] = where
         /\ NextProgram(t) => pc'[t] \in {"scan", "outputs", "wait"}
         /\ t = "loop" /\ NextWatchdog => pc'[t] \in {"wdt", "scan"}
BY DEF TypePc, Enter, Goto, Rest, NextProgram, NextWatchdog


LEMMA CycleNumbered ==
  ASSUME TypeOK, MarkInv, NEW t \in Runner, Cycle(t)
  PROVE  MarkInv'
<1>1. TypeVm /\ TypePc /\ t \in Tasks /\ at[t] \in Programs /\ GenMod \in Nat \ {0}
  BY TypeParts, EngineAssumption DEF Runner, Tasks, TypePc
<1>2. gen' = gen /\ \A u \in Tasks \ {t} : vm'[u] = vm[u]
  BY <1>1 DEF Cycle, Pass, Start, Exec, Store, progVars, Forget, TypeVm
<1>3. \A u \in Tasks \ {t} : pc'[u] = pc[u] /\ at'[u] = at[u]
  BY <1>1, OthersStay DEF Cycle, Pass, Start, Exec, Store
<1>4. \A u \in Runner \ {t} : Numbered(u)'
  BY <1>2, <1>3, StaysNumbered DEF MarkInv, Runner, Tasks
<1>5. NoCycle.marks = 0
  BY DEF NoCycle
<1>6. Numbered(t)'
  <2>1. CASE Pass(t)
    BY <1>1, <2>1, PlaceOf, StaysNumbered DEF Pass, MarkInv, Running
  <2>2. CASE Start(t)
    <3>1. vm[t].marks = 0 /\ pc'[t] = "exec" /\ at'[t] = at[t]
      BY <1>1, <2>2, PlaceOf DEF Start, MarkInv, Numbered, Running
    <3>2. vm'[t] = [vm[t] EXCEPT !.gen = gen[at[t]]] /\ vm[t] \in Cycles
      BY <1>1, <2>2 DEF Start, TypeVm
    <3>3. vm'[t].gen = gen[at[t]] /\ vm'[t].marks = 0
      BY <3>1, <3>2 DEF Cycles
    <3>4. (gen[at[t]] + 0) % GenMod = gen[at[t]]
      <4>1. gen[at[t]] \in 0 .. GenMod - 1 /\ 0 \in 0 .. GenMod - 1
        BY <1>1 DEF TypeVm
      <4>. QED
        BY <1>1, <4>1, MarksShow
    <3>. QED
      BY <1>2, <3>1, <3>3, <3>4 DEF Numbered, Running
  <2>3. CASE Exec(t)
    <3>1. PICK ok \in BOOLEAN :
            IF ok THEN /\ \E o \in Results : vm' = [vm EXCEPT ![t].out = o]
                       /\ Goto(t, "store")
            ELSE NextProgram(t) /\ Forget(t)
      BY <2>3 DEF Exec
    <3>2. CASE ok
      <4>1. pc'[t] = "store" /\ at'[t] = at[t] /\ pc[t] = "exec"
        BY <1>1, <2>3, <3>1, <3>2, PlaceOf DEF Exec
      <4>2. PICK o \in Results : vm' = [vm EXCEPT ![t].out = o]
        BY <3>1, <3>2
      <4>3. vm'[t] = [vm[t] EXCEPT !.out = o] /\ vm[t] \in Cycles
        BY <1>1, <4>2 DEF TypeVm
      <4>4. vm'[t].gen = vm[t].gen /\ vm'[t].marks = vm[t].marks
        BY <4>3 DEF Cycles
      <4>. QED
        BY <1>2, <4>1, <4>4 DEF MarkInv, Numbered, Running
    <3>3. CASE ~ok
      <4>1. pc'[t] \in {"scan", "outputs", "wait"} /\ vm'[t] = NoCycle
        BY <1>1, <3>1, <3>3, PlaceOf DEF Forget, TypeVm
      <4>. QED
        BY <1>5, <4>1 DEF Numbered, Running
    <3>. QED
      BY <3>2, <3>3
  <2>4. CASE Store(t)
    <3>1. pc'[t] \in {"scan", "outputs", "wait"} /\ vm'[t] = NoCycle
      BY <1>1, <2>4, PlaceOf DEF Store, Forget, TypeVm
    <3>. QED
      BY <1>5, <3>1 DEF Numbered, Running
  <2>. QED
    BY <2>1, <2>2, <2>3, <2>4 DEF Cycle
<1>. QED
  BY <1>4, <1>6 DEF MarkInv

\* The cycles of the program get a mark, and with it another generation.
LEMMA MarkNumbered ==
  ASSUME TypeOK, MarkInv, NEW t \in {"loop", "http"}, Mark(t)
  PROVE  MarkInv'
<1>. DEFINE p == at[t]
<1>1. /\ TypeVm /\ TypePc /\ t \in Tasks /\ p \in Programs /\ GenMod \in Nat \ {0}
      /\ pc[t] = "mark" /\ Runner \subseteq Tasks
  BY TypeParts, EngineAssumption DEF Runner, Tasks, TypePc, Mark
<1>2. \A u \in Runner \ {t} : pc'[u] = pc[u] /\ at'[u] = at[u]
  BY <1>1, OthersStay DEF Mark, AfterReset
<1>3. t = "loop" => ~Running(t) /\ ~Running(t)'
  BY <1>1, PlaceOf DEF Mark, AfterReset, Running
<1>4. CASE ~prog[p].compiled
  <2>1. gen' = gen /\ vm' = vm
    BY <1>4 DEF Mark
  <2>. QED
    BY <1>2, <1>3, <2>1, StaysNumbered DEF MarkInv, Runner
<1>5. CASE prog[p].compiled
  <2>1. /\ \A u \in Runners(p) : vm[u].marks < GenMod - 1
        /\ gen' = [gen EXCEPT ![p] = (gen[p] + 1) % GenMod]
        /\ vm' = [u \in Tasks |-> IF u \in Runners(p) THEN [vm[u] EXCEPT !.marks = vm[u].marks + 1]
                                  ELSE vm[u]]
    BY <1>1, <1>5 DEF Mark, TypeVm
  <2>2. ASSUME NEW u \in Runner  PROVE Numbered(u)'
    <3>1. Numbered(u) /\ u \in Tasks /\ vm[u] \in Cycles /\ at[u] \in Programs
      BY <1>1 DEF MarkInv, TypeVm, TypePc
    <3>2. CASE u \in Runners(p)
      <4>1. at[u] = p /\ Running(u) /\ u # t
        BY <1>1, <3>2 DEF Runners, Running
      <4>2. vm'[u] = [vm[u] EXCEPT !.marks = vm[u].marks + 1] /\ vm[u].marks < GenMod - 1
        BY <2>1, <3>1, <3>2
      <4>3. vm'[u].gen = vm[u].gen /\ vm'[u].marks = vm[u].marks + 1
            /\ vm[u].gen \in 0 .. GenMod - 1 /\ vm[u].marks \in 0 .. GenMod - 1
        BY <3>1, <4>2 DEF Cycles
      <4>4. gen'[p] = (gen[p] + 1) % GenMod /\ gen[p] = (vm[u].gen + vm[u].marks) % GenMod
        BY <1>1, <2>1, <3>1, <4>1 DEF TypeVm, Numbered
      <4>5. (((vm[u].gen + vm[u].marks) % GenMod) + 1) % GenMod = (vm[u].gen + (vm[u].marks + 1)) % GenMod
        BY <1>1, <4>3, MarksShow
      <4>6. gen'[p] = (vm'[u].gen + vm'[u].marks) % GenMod
        BY <4>3, <4>4, <4>5
      <4>. QED
        BY <1>2, <4>1, <4>6 DEF Numbered, Running
    <3>3. CASE u \notin Runners(p)
      <4>1. vm'[u] = vm[u]
        BY <2>1, <3>1, <3>3
      <4>2. CASE ~Running(u)
        <5>1. CASE u = t
          <6>1. ~Running(u) /\ ~Running(u)'
            BY <1>3, <5>1 DEF Runner
          <6>. QED
            BY <3>1, <4>1, <6>1, StaysNumbered
        <5>2. CASE u # t
          <6>1. ~Running(u) /\ ~Running(u)'
            BY <1>2, <4>2, <5>2 DEF Running
          <6>. QED
            BY <3>1, <4>1, <6>1, StaysNumbered
        <5>. QED
          BY <5>1, <5>2
      <4>3. CASE Running(u)
        <5>1. u # t /\ at[u] # p
          BY <1>1, <3>3, <4>3 DEF Runners, Running, Runner
        <5>2. gen'[at[u]] = gen[at[u]]
          BY <2>1, <3>1, <5>1 DEF TypeVm
        <5>. QED
          BY <1>2, <3>1, <4>1, <5>1, <5>2 DEF Numbered, Running
      <4>. QED
        BY <4>2, <4>3
    <3>. QED
      BY <3>2, <3>3
  <2>. QED
    BY <2>2 DEF MarkInv
<1>. QED
  BY <1>4, <1>5

\* The other steps of the main loop and of the HIGH task run no program.
LEMMA LoopNumbered ==
  ASSUME TypeOK, MarkInv, Outputs \/ Round \/ Well \/ Trip \/ Reset("loop") \/ Wake
  PROVE  MarkInv'
<1>1. TypePc /\ {"loop", "high"} \subseteq Tasks
  BY TypeParts DEF Tasks
<1>2. vm' = vm
  BY DEF Outputs, Round, Well, Trip, Reset, Wake
<1>3. CASE Wake
  <2>1. pc["high"] = "wait" /\ pc'["high"] = "scan" /\ pc'["loop"] = pc["loop"] /\ at'["loop"] = at["loop"]
        /\ gen' = gen
    BY <1>1, <1>3, PlaceOf, OthersStay DEF Wake, progVars
  <2>. QED
    BY <1>2, <2>1, StaysNumbered DEF MarkInv, Runner, Running
<1>4. CASE Outputs \/ Round \/ Well \/ Trip \/ Reset("loop")
  <2>1. pc'["high"] = pc["high"] /\ at'["high"] = at["high"] /\ gen' = gen
    BY <1>1, <1>4, OthersStay DEF Outputs, Round, Well, Trip, Reset, AfterReset, progVars
  <2>2. ~Running("loop") /\ ~Running("loop")'
    BY <1>1, <1>4, PlaceOf DEF Outputs, Round, Well, Trip, Reset, AfterReset, Running
  <2>. QED
    BY <1>2, <2>1, <2>2, StaysNumbered DEF MarkInv, Runner
<1>. QED
  BY <1>3, <1>4

\* Nor does anything else but the tasks that run them.
LEMMA ElseNumbered ==
  ASSUME TypeOK, MarkInv,
         \/ Reset("http") \/ (\E ok \in BOOLEAN : Compile(ok)) \/ Save
         \/ Settings \/ Fire \/ Time \/ UNCHANGED vars
  PROVE  MarkInv'
<1>1. TypePc /\ "http" \in Tasks /\ "loop" \in Tasks /\ "high" \in Tasks
  BY TypeParts DEF Tasks
<1>2. vm' = vm /\ gen' = gen
  BY DEF Reset, Compile, Save, Settings, Enable, SetPriority, Reinit, Upload, Clear, Fire, Time,
         WatchdogsDue, IntervalOver, CalmFor, vars, progVars, taskVars
<1>3. \A u \in Runner : pc'[u] = pc[u] /\ at'[u] = at[u]
  <2>1. \A where, p : Enter("http", where, p) \/ Goto("http", where) \/ Rest("http", where)
          => \A u \in Runner : pc'[u] = pc[u] /\ at'[u] = at[u]
    BY <1>1, OthersStay DEF Runner, Tasks
  <2>2. CASE Reset("http")
    BY <2>1, <2>2 DEF Reset, AfterReset
  <2>3. CASE (\E ok \in BOOLEAN : Compile(ok)) \/ Save
    BY <2>1, <2>3 DEF Compile, Save
  <2>4. CASE Settings
    BY <2>1, <2>4 DEF Settings, Enable, SetPriority, Reinit, Upload, Clear, taskVars
  <2>5. CASE Fire \/ Time \/ UNCHANGED vars
    BY <2>5 DEF Fire, Time, WatchdogsDue, IntervalOver, CalmFor, vars, taskVars
  <2>. QED
    BY <2>2, <2>3, <2>4, <2>5
<1>. QED
  BY <1>2, <1>3, StaysNumbered DEF MarkInv

LEMMA MarkStep == TypeOK /\ MarkInv /\ [Next]_vars => MarkInv'
<1>1. \A t \in Runner : t \in {"loop", "high"}
  BY DEF Runner
<1>. QED
  BY CycleNumbered, MarkNumbered, LoopNumbered, ElseNumbered
     DEF Next, LoopTask, HighTask, HttpTask, Runner

\* A cycle that has been marked finds another generation and stores nothing;
\* no other step takes a task out of its storing.
LEMMA MarkedStoresNothing ==
  ASSUME TypeOK, MarkInv, [Next]_vars, NEW t \in Runner,
         pc[t] = "store", pc'[t] # "store", vm[t].marks > 0
  PROVE  UNCHANGED mem
<1>1. /\ TypeVm /\ TypePc /\ GenMod \in Nat \ {0} /\ t \in Tasks /\ vm[t] \in Cycles
      /\ {"loop", "high", "http"} = Tasks /\ "loop" # "high" /\ "http" # "loop" /\ "http" # "high"
  BY TypeParts, EngineAssumption DEF Runner, Tasks, TypeVm
<1>2. gen[at[t]] # vm[t].gen
  <2>1. gen[at[t]] = (vm[t].gen + vm[t].marks) % GenMod
    BY DEF MarkInv, Numbered, Running
  <2>2. vm[t].gen \in 0 .. GenMod - 1 /\ vm[t].marks \in 0 .. GenMod - 1
    BY <1>1 DEF Cycles
  <2>3. \A g, k \in 0 .. GenMod - 1 : k > 0 => (g + k) % GenMod # g
    BY ONLY <1>1, MarksShow
  <2>4. (vm[t].gen + vm[t].marks) % GenMod # vm[t].gen
    BY <2>2, <2>3
  <2>. QED
    BY <2>1, <2>4
<1>3. Store(t) => UNCHANGED mem
  BY <1>2 DEF Store, IsFresh
<1>4. ASSUME ~Store(t)  PROVE FALSE
  <2>1. CASE \E u \in Runner : Cycle(u)
    <3>. PICK u \in Runner : Cycle(u)
      BY <2>1
    <3>1. u # t
      BY <1>4 DEF Cycle, Pass, Start, Exec
    <3>. QED
      BY <1>1, <3>1, OthersStay DEF Cycle, Pass, Start, Exec, Store, Runner
  <2>2. CASE LoopTask
    <3>1. CASE Cycle("loop")
      BY <2>1, <3>1 DEF Runner
    <3>2. CASE ~Cycle("loop")
      <4>1. pc["loop"] # "store"
        BY <2>2, <3>2 DEF LoopTask, Outputs, Round, Well, Trip, Mark, Reset
      <4>2. t = "high"
        BY <4>1 DEF Runner
      <4>3. pc'["high"] = pc["high"]
        BY <1>1, <2>2, <3>2, OthersStay
           DEF LoopTask, Outputs, Round, Well, Trip, Mark, Reset, AfterReset
      <4>. QED
        BY <4>2, <4>3
    <3>. QED
      BY <3>1, <3>2
  <2>3. CASE HighTask
    <3>1. CASE Cycle("high")
      BY <2>1, <3>1 DEF Runner
    <3>2. CASE Wake
      BY <1>1, <3>2, OthersStay DEF Wake, Runner
    <3>. QED
      BY <2>3, <3>1, <3>2 DEF HighTask
  <2>4. CASE HttpTask \/ Settings \/ Fire \/ Time \/ UNCHANGED vars
    BY <1>1, <2>4, OthersStay
       DEF Runner, HttpTask, Mark, Reset, AfterReset, Compile, Save, Settings, Enable, SetPriority,
           Reinit, Upload, Clear, Fire, Time, WatchdogsDue, IntervalOver, CalmFor, vars, progVars,
           taskVars
  <2>. QED
    BY <2>2, <2>3, <2>4 DEF Next
<1>. QED
  BY <1>3, <1>4

\* A reset that comes while a cycle of the program runs holds: the cycle does
\* not put its old variables back when it ends (BUG-436).
THEOREM ResetsHold == Spec => ResetHolds
<1>1. Init => MarkInv
  BY DEF Init, MarkInv, Numbered, Running, Runner, Tasks, NoCycle
<1>2. TypeOK /\ MarkInv /\ [Next]_vars
        => [\A t \in {"loop", "high"} :
              pc[t] = "store" /\ pc'[t] # "store" /\ vm[t].marks > 0 => UNCHANGED mem]_vars
  BY MarkedStoresNothing DEF Runner
<1>. QED
  BY <1>1, <1>2, MarkStep, TypeCorrect, PTL DEF Spec, ResetHolds
=============================================================================
