------------------------------ MODULE StEngine ------------------------------
(***************************************************************************)
(* The execution of ST programs and their watchdogs (st_logic_engine.cpp,  *)
(* st_wdt.cpp, the HIGH task and the settings of st_logic_config.cpp).     *)
(*                                                                         *)
(* "loop" is loopTask: in each round the watchdogs, the due programs of    *)
(* priority NORMAL one after the other, and the output bindings.  "high"   *)
(* is the task on the other core that runs the HIGH programs when the      *)
(* timer has given its semaphore.  "http" is a REST call or a command.     *)
(* A cycle of a program takes a copy of the variables, computes on it and  *)
(* stores it: three steps, between which the other tasks go on.            *)
(*                                                                         *)
(* The variables of a program are one output.  Time passes as events: an   *)
(* interval is over, the watchdogs are due, a program has been well for    *)
(* long.  Debugging, safe mode, deletion and the action reboot are left    *)
(* out, and of a watchdog's conditions all but the errors in a row.        *)
(***************************************************************************)
EXTENDS Naturals

CONSTANTS
  NumPrograms,    \* ST_LOGIC_MAX_PROGRAMS
  Bound,          \* programs with an output bound to a coil
  ActionOf,       \* the action of each program's watchdog
  ErrLimit,       \* errors in a row before it acts; 0: off
  MaxRestarts,    \* ST_WDT_MAX_RESTARTS
  GenMod,         \* the generation counts modulo this (256)
  Results, Off    \* what a cycle makes of the output; its initial and safe value

Programs == 0 .. NumPrograms - 1
Outs == Results \cup {Off}

ASSUME EngineAssumption ==
  /\ NumPrograms \in Nat \ {0}
  /\ Bound \subseteq Programs
  /\ ActionOf \in [Programs -> {"alarm", "stop", "restart", "safe"}]
  /\ ErrLimit \in Nat /\ MaxRestarts \in Nat
  /\ GenMod \in Nat \ {0}

VARIABLES
  prog,     \* enabled, compiled and priority of each program
  mem,      \* its variables
  gen,      \* g_reinit_gen
  due,      \* its interval is over
  rt,       \* g_rt of the watchdog
  coil,     \* the coil its output is bound to
  pc, at,   \* where each task is, and at which program
  vm,       \* the cycle a task is in: generation at its start, variables,
            \* and, for the properties, the resets marked since
  armed,    \* the timer of the HIGH task runs
  sem,      \* its semaphore has been given
  wdtDue,   \* 100 ms since the watchdogs were looked at
  saved,    \* the enabled flag in each program's file
  \* For the properties only:
  wish,     \* what the user last asked for: enabled or not
  safed     \* brought to its safe state and not started since

progVars == <<prog, mem, gen, due, rt, coil>>
taskVars == <<pc, at, vm>>
history  == <<wish, safed>>
vars == <<progVars, taskVars, armed, sem, wdtDue, saved, history>>

Tasks == {"loop", "high", "http"}
Last == NumPrograms - 1
Prio == {"normal", "high"}

IsReady(P, p) == P[p].enabled /\ P[p].compiled
\* st_logic_high_reschedule: the timer runs while some HIGH program is ready.
Reschedule(P) == armed' = \E p \in Programs : IsReady(P, p) /\ P[p].prio = "high"

\* What an ordinary change of p means for the timer.
Retime(p, P) == IF prog[p].prio = "high" THEN Reschedule(P) ELSE UNCHANGED armed

Blank == [tripped |-> FALSE, stopped |-> FALSE, restarts |-> 0, err |-> 0, calm |-> TRUE]

\* Outside a cycle.
NoCycle == [gen |-> 0, marks |-> 0, out |-> Off]

Init ==
  /\ prog \in [Programs -> [enabled : BOOLEAN, compiled : BOOLEAN, prio : Prio]]
  /\ \A p \in Bound : prog[p].prio = "normal"
  /\ mem = [p \in Programs |-> Off]
  /\ gen = [p \in Programs |-> 0]
  /\ due = [p \in Programs |-> FALSE]
  /\ rt = [p \in Programs |-> Blank]
  /\ coil = [p \in Programs |-> Off]
  /\ pc = [t \in Tasks |-> CASE t = "loop" -> "top" [] t = "high" -> "wait"
                             [] OTHER -> "idle"]
  /\ at = [t \in Tasks |-> 0]
  /\ vm = [t \in Tasks |-> NoCycle]
  /\ armed = \E p \in Programs : IsReady(prog, p) /\ prog[p].prio = "high"
  /\ sem = FALSE /\ wdtDue = FALSE
  /\ saved = [p \in Programs |-> prog[p].enabled]
  /\ wish = saved
  /\ safed = [p \in Programs |-> FALSE]

Enter(t, where, p) == pc' = [pc EXCEPT ![t] = where] /\ at' = [at EXCEPT ![t] = p]
Goto(t, where) == pc' = [pc EXCEPT ![t] = where] /\ UNCHANGED at
\* A round, a wait or a call starts from here.
Rest(t, where) == Enter(t, where, 0)
Forget(t) == vm' = [vm EXCEPT ![t] = NoCycle]

(***************************************************************************)
(* One cycle of a program.                                                 *)
(***************************************************************************)

\* On to the next program; after the last, the outputs or the semaphore.
NextProgram(t) ==
  IF at[t] < Last THEN Enter(t, "scan", at[t] + 1)
  ELSE Rest(t, IF t = "loop" THEN "outputs" ELSE "wait")

Runs(t, p) == /\ IsReady(prog, p) /\ due[p]
              /\ prog[p].prio = IF t = "high" THEN "high" ELSE "normal"

\* st_logic_engine_loop and st_logic_high_task_func: what is not due, or the
\* other task's, is passed over.
Pass(t) ==
  /\ pc[t] = "scan" /\ ~Runs(t, at[t])
  /\ NextProgram(t)
  /\ UNCHANGED <<progVars, vm, armed, sem, wdtDue, saved, history>>

\* The generation is taken; the copy of the variables matters only by what the
\* cycle makes of it.
Start(t) ==
  /\ pc[t] = "scan" /\ Runs(t, at[t])
  /\ due' = [due EXCEPT ![at[t]] = FALSE]
  /\ vm' = [vm EXCEPT ![t].gen = gen[at[t]]]
  /\ Goto(t, "exec")
  /\ UNCHANGED <<prog, mem, gen, rt, coil, armed, sem, wdtDue, saved, history>>

\* st_wdt_after_exec
AfterExec(r, ok) ==
  [r EXCEPT !.err = IF ok THEN 0 ELSE IF @ < ErrLimit THEN @ + 1 ELSE @,
            !.calm = r.restarts = 0 \/ (@ /\ ok)]

\* The instructions have been executed.  A cycle that fails stores nothing.
\* One whose code a compilation has freed meanwhile may end either way.
Exec(t) ==
  /\ pc[t] = "exec"
  /\ \E ok \in BOOLEAN :
       /\ rt' = [rt EXCEPT ![at[t]] = AfterExec(@, ok)]
       /\ IF ok THEN /\ \E o \in Results : vm' = [vm EXCEPT ![t].out = o]
                     /\ Goto(t, "store")
          ELSE NextProgram(t) /\ Forget(t)
  /\ UNCHANGED <<prog, mem, gen, due, coil, armed, sem, wdtDue, saved, history>>

\* Mutant: every cycle is stored.
AlwaysFresh(t) == TRUE
\* BUG-436: no reset has been marked since the cycle began.
IsFresh(t) == gen[at[t]] = vm[t].gen

Store(t) ==
  /\ pc[t] = "store"
  /\ IF IsFresh(t) THEN mem' = [mem EXCEPT ![at[t]] = vm[t].out] ELSE UNCHANGED mem
  /\ NextProgram(t) /\ Forget(t)
  /\ UNCHANGED <<prog, gen, due, rt, coil, armed, sem, wdtDue, saved, history>>

Cycle(t) == Pass(t) \/ Start(t) \/ Exec(t) \/ Store(t)

(***************************************************************************)
(* loopTask                                                                *)
(***************************************************************************)

\* gpio_mapping_write_outputs: the outputs of the programs go to the coils.
Outputs ==
  /\ pc["loop"] = "outputs"
  /\ coil' = [p \in Programs |-> IF p \in Bound /\ prog[p].compiled
                                 THEN mem[p] ELSE coil[p]]
  /\ Goto("loop", "top")
  /\ UNCHANGED <<prog, mem, gen, due, rt, vm, armed, sem, wdtDue, saved, history>>

\* The watchdogs are looked at every 100 ms, then the programs.
Round ==
  /\ pc["loop"] = "top"
  /\ Enter("loop", IF wdtDue THEN "wdt" ELSE "scan", 0)
  /\ wdtDue' = FALSE
  /\ UNCHANGED <<progVars, vm, armed, sem, saved, history>>

NextWatchdog ==
  IF at["loop"] < Last THEN Enter("loop", "wdt", at["loop"] + 1)
  ELSE Enter("loop", "scan", 0)

\* Ten minutes without a trip or an error, and the restarts are forgotten.
Healed(r) == [r EXCEPT !.restarts = IF r.calm THEN 0 ELSE @]

Supervises(p) == ~rt[p].tripped /\ ErrLimit > 0
\* Mutant: one error too many is needed.
IsWorse(p) == rt[p].err > ErrLimit
IsBad(p) == rt[p].err >= ErrLimit

\* st_wdt_loop finds nothing to do for a program.
Well ==
  LET p == at["loop"] IN
  /\ pc["loop"] = "wdt"
  /\ Supervises(p) => ~(IsReady(prog, p) /\ IsBad(p))
  /\ rt' = IF Supervises(p) THEN [rt EXCEPT ![p] = Healed(@)] ELSE rt
  /\ NextWatchdog
  /\ UNCHANGED <<prog, mem, gen, due, coil, vm, armed, sem, wdtDue, saved, history>>

\* st_wdt_trip.  Too many restarts escalate to the safe state.
Escalated(a, r) == IF a = "restart" /\ r.restarts >= MaxRestarts THEN "safe" ELSE a

Trip ==
  LET p == at["loop"]
      r == Healed(rt[p])
      a == Escalated(ActionOf[p], r)
      stops == a \in {"stop", "safe"}
  IN
  /\ pc["loop"] = "wdt"
  /\ Supervises(p) /\ IsReady(prog, p) /\ IsBad(p)
  /\ \/ /\ a = "restart"
        /\ rt' = [rt EXCEPT ![p] = [r EXCEPT !.restarts = @ + 1, !.calm = FALSE]]
        /\ Goto("loop", "mark")
        /\ UNCHANGED <<prog, coil, safed>>
     \/ /\ a # "restart"
        /\ rt' = [rt EXCEPT ![p] = [r EXCEPT !.tripped = TRUE, !.calm = (r.restarts = 0),
                                             !.stopped = @ \/ stops]]
        /\ prog' = [prog EXCEPT ![p].enabled = @ /\ ~stops]
        /\ coil' = IF a = "safe" /\ p \in Bound THEN [coil EXCEPT ![p] = Off] ELSE coil
        /\ safed' = [safed EXCEPT ![p] = @ \/ (a = "safe" /\ p \in Bound)]
        /\ NextWatchdog
  /\ UNCHANGED <<mem, gen, due, vm, armed, sem, wdtDue, saved, wish>>

(***************************************************************************)
(* Reset of a program, from its watchdog or by a call.                     *)
(***************************************************************************)

\* After the reset the watchdog forgets the errors; a call is over.
AfterReset(t) ==
  IF t = "loop"
  THEN /\ rt' = [rt EXCEPT ![at[t]].err = 0]
       /\ NextWatchdog
  ELSE Rest(t, "idle") /\ UNCHANGED rt

Runners(p) == {t \in {"loop", "high"} : pc[t] \in {"exec", "store"} /\ at[t] = p}

\* st_logic_mark_reinit, before the lock of the variables.  Bound: fewer than
\* GenMod resets in the time of one cycle.
Mark(t) ==
  LET p == at[t] IN
  /\ pc[t] = "mark"
  /\ IF prog[p].compiled
     THEN /\ \A u \in Runners(p) : vm[u].marks < GenMod - 1
          /\ gen' = [gen EXCEPT ![p] = (@ + 1) % GenMod]
          /\ vm' = [u \in Tasks |-> IF u \in Runners(p) THEN [vm[u] EXCEPT !.marks = @ + 1]
                                    ELSE vm[u]]
          /\ Goto(t, "reset") /\ UNCHANGED rt
     ELSE AfterReset(t) /\ UNCHANGED <<gen, vm>>
  /\ UNCHANGED <<prog, mem, due, coil, armed, sem, wdtDue, saved, history>>

\* The variables get their initial values, under the lock.
Reset(t) ==
  /\ pc[t] = "reset"
  /\ mem' = [mem EXCEPT ![at[t]] = Off]
  /\ AfterReset(t)
  /\ UNCHANGED <<prog, gen, due, coil, vm, armed, sem, wdtDue, saved, history>>

(***************************************************************************)
(* The HIGH task and time.                                                 *)
(***************************************************************************)
Wake ==
  /\ pc["high"] = "wait" /\ sem
  /\ sem' = FALSE
  /\ Enter("high", "scan", 0)
  /\ UNCHANGED <<progVars, vm, armed, wdtDue, saved, history>>

Fire ==
  /\ armed /\ ~sem /\ sem' = TRUE
  /\ UNCHANGED <<progVars, taskVars, armed, wdtDue, saved, history>>

IntervalOver(p) ==
  /\ ~due[p] /\ due' = [due EXCEPT ![p] = TRUE]
  /\ UNCHANGED <<prog, mem, gen, rt, coil, taskVars, armed, sem, wdtDue, saved, history>>

WatchdogsDue ==
  /\ ~wdtDue /\ wdtDue' = TRUE
  /\ UNCHANGED <<progVars, taskVars, armed, sem, saved, history>>

CalmFor(p) ==
  /\ ~rt[p].calm /\ rt' = [rt EXCEPT ![p].calm = TRUE]
  /\ UNCHANGED <<prog, mem, gen, due, coil, taskVars, armed, sem, wdtDue, saved, history>>

(***************************************************************************)
(* Calls.                                                                  *)
(***************************************************************************)
Call == pc["http"] = "idle"

\* st_logic_set_enabled: last_run_time is cleared, so the program is due.
Enable(p, e) ==
  LET P == [prog EXCEPT ![p].enabled = e] IN
  /\ Call
  /\ prog' = P /\ due' = [due EXCEPT ![p] = TRUE]
  /\ Retime(p, P)
  /\ wish' = [wish EXCEPT ![p] = e]
  /\ safed' = [safed EXCEPT ![p] = @ /\ ~e]
  /\ Goto("http", "save")
  /\ UNCHANGED <<mem, gen, rt, coil, vm, sem, wdtDue, saved>>

\* st_logic_set_program_priority: a program with bindings stays NORMAL.
SetPriority(p, x) ==
  LET P == [prog EXCEPT ![p].prio = x] IN
  /\ Call
  /\ x = "high" => p \notin Bound
  /\ prog' = P /\ due' = [due EXCEPT ![p] = TRUE]
  /\ Reschedule(P)
  /\ Goto("http", "save")
  /\ UNCHANGED <<mem, gen, rt, coil, vm, sem, wdtDue, saved, history>>

Reinit(p) ==
  /\ Call /\ prog[p].compiled
  /\ Enter("http", "mark", p)
  /\ UNCHANGED <<progVars, vm, armed, sem, wdtDue, saved, history>>

\* An upload takes the program out of service ...
Upload(p) ==
  /\ Call
  /\ prog' = [prog EXCEPT ![p].compiled = FALSE]
  /\ Enter("http", "compile", p)
  /\ UNCHANGED <<mem, gen, due, rt, coil, vm, armed, sem, wdtDue, saved, history>>

\* ... until it has been compiled, with new variables; only then it is saved.
Compile(ok) ==
  LET p == at["http"]
      P == [prog EXCEPT ![p].compiled = ok]
  IN
  /\ pc["http"] = "compile"
  /\ prog' = P
  /\ mem' = IF ok THEN [mem EXCEPT ![p] = Off] ELSE mem
  /\ Retime(p, P)
  /\ Rest("http", IF ok THEN "save" ELSE "idle")
  /\ UNCHANGED <<gen, due, rt, coil, vm, sem, wdtDue, saved, wish, safed>>

\* st_wdt_clear starts a program again that its watchdog has stopped, in RAM.
Clear(p) ==
  /\ Call
  /\ prog' = [prog EXCEPT ![p].enabled = @ \/ rt[p].stopped]
  /\ rt' = [rt EXCEPT ![p] = Blank]
  /\ safed' = [safed EXCEPT ![p] = FALSE]
  /\ UNCHANGED <<mem, gen, due, coil, taskVars, armed, sem, wdtDue, saved, wish>>

\* Mutant: what the watchdog has stopped is saved as stopped.
SavedAsItIs(p) == prog[p].enabled
\* A stop by the watchdog is for the time being and not saved (BUG-430).
SavedAs(p) == prog[p].enabled \/ rt[p].stopped

\* st_logic_save_to_nvs, at the end of every handler that changes a setting.
Save ==
  /\ pc["http"] = "save"
  /\ saved' = [p \in Programs |-> SavedAs(p)]
  /\ Rest("http", "idle")
  /\ UNCHANGED <<progVars, vm, armed, sem, wdtDue, history>>

Settings ==
  \E p \in Programs :
    \/ \E e \in BOOLEAN : Enable(p, e)
    \/ \E x \in Prio : SetPriority(p, x)
    \/ Reinit(p) \/ Upload(p) \/ Clear(p)

LoopTask == Cycle("loop") \/ Outputs \/ Round \/ Well \/ Trip \/ Mark("loop") \/ Reset("loop")
HighTask == Cycle("high") \/ Wake
HttpTask == Mark("http") \/ Reset("http") \/ (\E ok \in BOOLEAN : Compile(ok)) \/ Save
Time == WatchdogsDue \/ \E p \in Programs : IntervalOver(p) \/ CalmFor(p)

Next == LoopTask \/ HighTask \/ HttpTask \/ Settings \/ Fire \/ Time

\* The tasks are scheduled, intervals end and the timer fires.  Nobody has to
\* call anything, and nothing has to be well for long.  For the loop the fairness
\* is strong because the bound of Mark, which the code has not, may hold it up.
Fairness ==
  /\ SF_vars(LoopTask) /\ WF_vars(HighTask) /\ WF_vars(HttpTask)
  /\ WF_vars(Fire) /\ WF_vars(WatchdogsDue)
  /\ \A p \in Programs : WF_vars(IntervalOver(p))

Spec == Init /\ [][Next]_vars
FairSpec == Spec /\ Fairness

-----------------------------------------------------------------------------
\* Types.
TypeOK ==
  /\ prog \in [Programs -> [enabled : BOOLEAN, compiled : BOOLEAN, prio : Prio]]
  /\ mem \in [Programs -> Outs]
  /\ gen \in [Programs -> 0 .. GenMod - 1]
  /\ due \in [Programs -> BOOLEAN]
  /\ rt \in [Programs -> [tripped : BOOLEAN, stopped : BOOLEAN,
                          restarts : 0 .. MaxRestarts, err : 0 .. ErrLimit,
                          calm : BOOLEAN]]
  /\ coil \in [Programs -> Outs]
  /\ pc \in [Tasks -> {"top", "wdt", "mark", "reset", "scan", "exec", "store",
                       "outputs", "wait", "idle", "compile", "save"}]
  /\ at \in [Tasks -> Programs]
  /\ vm \in [Tasks -> [gen : 0 .. GenMod - 1, marks : 0 .. GenMod - 1, out : Outs]]
  /\ armed \in BOOLEAN /\ sem \in BOOLEAN /\ wdtDue \in BOOLEAN
  /\ saved \in [Programs -> BOOLEAN]
  /\ wish \in [Programs -> BOOLEAN] /\ safed \in [Programs -> BOOLEAN]

\* A cycle during which a reset of its program was marked changes none of the
\* variables when it ends (BUG-436), whichever task runs it.
ResetHolds == [][\A t \in {"loop", "high"} :
  pc[t] = "store" /\ pc'[t] # "store" /\ vm[t].marks > 0
  => UNCHANGED mem]_vars

\* A program the user wants to run is never saved as disabled because its
\* watchdog has stopped it, whoever saves meanwhile (BUG-430).
StopNotSaved == pc["http"] = "idle" => \A p \in Programs : wish[p] => saved[p]

\* A program that has failed too often in a row is dealt with: restarted,
\* stopped or reported, unless it recovers or is taken out of service first.
FailureIsNoticed == \A p \in Programs :
  (rt[p].err >= ErrLimit /\ IsReady(prog, p) /\ ~rt[p].tripped)
  ~> (rt[p].tripped \/ rt[p].err < ErrLimit \/ ~IsReady(prog, p))

-----------------------------------------------------------------------------
\* What the repository says and the code does not do.

\* "Programmet stoppes bagefter, saa det ikke overskriver dem igen"
\* (st_wdt.cpp): outputs stay safe until the program is started again.
SafeStays == \A p \in Bound : safed[p] => coil[p] = Off
=============================================================================
