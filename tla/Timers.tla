------------------------------- MODULE Timers -------------------------------
(***************************************************************************)
(* One of the four timers (the others share nothing but the passes of the  *)
(* loop with it).  A pass of timer_engine_loop reads the clock once, then  *)
(* obeys the control register and runs the mode; handlers of the web       *)
(* server's task write commands and configurations in between.             *)
(*                                                                         *)
(* millis() counts modulo ClockMod.  Reading and writing the control       *)
(* register back is a single step, and so is what a mode does.  Left out:  *)
(* timer_engine_on_coil_write, which nothing calls.                        *)
(***************************************************************************)
EXTENDS Integers

CONSTANTS
  TimerConfigs,  \* the configurations there are
  ClockMod,      \* 2^32
  MaxCalls       \* bound: commands and configurations

Modes == {"oneshot", "monostable", "astable", "trigger"}
Commands == {"start", "stop", "reset"}

\* last is the length of each phase, level the coil in each of them.
TimerAssumption ==
  /\ TimerConfigs \subseteq [mode : Modes, on : BOOLEAN, last : [0..2 -> 0..ClockMod-1],
                             level : [0..2 -> BOOLEAN], rising : BOOLEAN]
  /\ ClockMod \in Nat \ {0} /\ MaxCalls \in Nat

VARIABLES
  cfg,     \* the configuration
  active,  \* is_active
  phase,   \* current_phase
  start,   \* phase_start_ms
  coil,    \* the output
  input,   \* the coil a triggered timer looks at
  prev,    \* mode4_prev_input
  ready,   \* mode4_initialized
  ctrl,    \* the commands in the control register
  clock,   \* millis()
  step,    \* how far the pass is
  own,     \* the configuration the pass has read
  now,     \* the clock the pass has read
  age,     \* time since the phase began (for the properties)
  ahead,   \* the phase began after the pass had read the clock or with another
           \* configuration than the pass has read (for the properties)
  calls    \* calls made

vars == <<cfg, active, phase, start, coil, input, prev, ready, ctrl, clock, step, own, now,
          age, ahead, calls>>
run == <<active, phase, start>>
trigger == <<input, prev, ready>>
passed == <<step, own, now>>

Init ==
  /\ cfg \in TimerConfigs /\ own = cfg
  /\ active = (cfg.mode = "astable" /\ cfg.on) /\ phase = 0
  /\ clock \in {0, ClockMod - 1} /\ start = clock /\ now = clock
  /\ coil = FALSE /\ input = FALSE /\ prev = FALSE /\ ready = FALSE
  /\ ctrl = {} /\ step = "idle" /\ age = 0 /\ ahead = FALSE /\ calls = 0

\* Bounds: a phase is shorter than the clock's range, and a pass spans one tick
\* at most.
Tick ==
  /\ active => age < ClockMod - 1
  /\ step = "idle" \/ clock = now
  /\ clock' = (clock + 1) % ClockMod
  /\ age' = (IF active THEN age + 1 ELSE age)
  /\ UNCHANGED <<cfg, run, coil, trigger, ctrl, passed, ahead, calls>>

-----------------------------------------------------------------------------
Called == calls < MaxCalls /\ calls' = calls + 1

\* Commands, from a handler or from Modbus, which may write them all.
Control ==
  /\ Called
  /\ ctrl' \in {(ctrl \cup {"start"}), (ctrl \ {"start"}) \cup {"stop"}, ctrl \cup {"reset"}}
               \cup SUBSET Commands
  /\ UNCHANGED <<cfg, run, coil, trigger, clock, passed, age, ahead>>

\* timer_engine_configure, deletion among them.
Configure(c) ==
  /\ Called /\ cfg' = c /\ phase' = 0
  /\ ready' = (ready /\ c.mode # "trigger")
  /\ IF c.mode = "astable" /\ c.on
     THEN active' = TRUE /\ start' = clock /\ age' = 0 /\ ahead' = (step # "idle" /\ now # clock)
     ELSE active' = FALSE /\ start' = 0 /\ UNCHANGED <<age, ahead>>
  /\ UNCHANGED <<coil, input, prev, ctrl, clock, passed>>

InputChanges == input' = ~input
                /\ UNCHANGED <<cfg, run, coil, prev, ready, ctrl, clock, passed, age, ahead, calls>>

-----------------------------------------------------------------------------
PassBegins ==
  /\ step = "idle" /\ cfg.on
  /\ own' = cfg /\ now' = clock /\ step' = "control"
  /\ UNCHANGED <<cfg, run, coil, trigger, ctrl, clock, age, ahead, calls>>

\* Each command writes back the register as it was read, less itself.
CommandsLeft ==
  CASE "reset" \in ctrl -> ctrl \ {"reset"}
    [] "stop" \in ctrl  -> ctrl \ {"stop"}
    [] OTHER            -> {}

HandleControl ==
  LET stops == ctrl \cap {"stop", "reset"} # {}
  IN /\ step = "control" /\ step' = "mode"
     /\ active' = (~stops /\ (active \/ "start" \in ctrl))
     /\ phase' = (IF ctrl # {} THEN 0 ELSE phase)
     /\ start' = (CASE "reset" \in ctrl -> 0 [] "start" \in ctrl -> clock [] OTHER -> start)
     /\ age' = (IF "start" \in ctrl THEN 0 ELSE age)
     /\ ahead' = (IF "start" \in ctrl THEN now # clock \/ own # cfg ELSE ahead)
     /\ coil' = (coil /\ ~stops)
     /\ ready' = (ready /\ ~("reset" \in ctrl /\ cfg.mode = "trigger"))
     /\ ctrl' = CommandsLeft
     /\ UNCHANGED <<cfg, input, prev, clock, own, now, calls>>

\* Mutant: the end of the phase is computed instead of its length.
PastByEnd(d) == d = 0 \/ now >= start + d
\* The time d of the phase is over.
Past(d) == d = 0 \/ (now - start) % ClockMod >= d

Enters(p) ==
  /\ active' = TRUE /\ phase' = p /\ start' = now
  /\ age' = (clock - now) % ClockMod /\ ahead' = (own # cfg)
Stays == UNCHANGED <<run, age, ahead>>
Ends == active' = FALSE /\ phase' = 0 /\ UNCHANGED <<start, age, ahead>>

ModeOneShot ==
  /\ active /\ coil' = own.level[phase]
  /\ IF ~Past(own.last[phase]) THEN Stays ELSE IF phase = 2 THEN Ends ELSE Enters(phase + 1)
  /\ UNCHANGED <<prev, ready>>

ModeMonostable ==
  /\ CASE active /\ phase = 0 -> coil' = own.level[1] /\ Enters(1)
       [] active /\ phase = 1 /\ (now - start) % ClockMod >= own.last[1] ->
            coil' = own.level[0] /\ Ends
       [] ~active -> coil' = own.level[0] /\ Stays
       [] OTHER -> UNCHANGED coil /\ Stays
  /\ UNCHANGED <<prev, ready>>

ModeAstable ==
  /\ active
  /\ LET p == IF phase = 0 THEN 0 ELSE 1
     IN coil' = own.level[p] /\ IF Past(own.last[p]) THEN Enters(1 - p) ELSE Stays
  /\ UNCHANGED <<prev, ready>>

\* The output is switched on, at once or after a delay, and stays on.
ModeTrigger ==
  LET edge == ready /\ input # prev /\ input = own.rising
      waits == own.last[0] > 0
      begins == edge /\ ~active /\ waits
      over == ready /\ waits /\ active /\ phase = 0 /\ (now - start) % ClockMod >= own.last[0]
      high == ready /\ ((edge /\ ~waits) \/ over \/ (active /\ phase = 1))
  IN /\ ready' = TRUE /\ prev' = input
     /\ coil' = (IF high THEN own.level[0] ELSE coil)
     /\ CASE edge /\ ~waits -> Enters(1)
          [] begins         -> Enters(0)
          [] over           -> phase' = 1 /\ UNCHANGED <<active, start, age, ahead>>
          [] OTHER          -> Stays

Mode ==
  /\ step = "mode" /\ step' = "idle"
  /\ CASE own.mode = "monostable" -> ModeMonostable
       [] own.mode = "trigger"    -> ModeTrigger
       [] OTHER -> \/ ModeOneShot /\ own.mode = "oneshot"
                   \/ ModeAstable /\ own.mode = "astable"
                   \/ ~active /\ UNCHANGED <<run, coil, prev, ready, age, ahead>>
  /\ UNCHANGED <<cfg, input, ctrl, clock, own, now, calls>>

Next == \/ Tick \/ Control \/ InputChanges \/ PassBegins \/ HandleControl \/ Mode
        \/ \E c \in TimerConfigs : Configure(c)

Spec == Init /\ [][Next]_vars

-----------------------------------------------------------------------------
\* How long the phase that a timed mode is in shall last.
Length ==
  CASE own.mode = "oneshot"    -> own.last[phase]
    [] own.mode = "monostable" -> IF phase = 0 THEN 0 ELSE own.last[1]
    [] own.mode = "astable"    -> own.last[phase]
    [] own.mode = "trigger"    -> own.last[0]
Timed == active /\ own = cfg /\ step = "mode" /\ (own.mode # "trigger" \/ (phase = 0 /\ Length > 0))
Seen == age - ((clock - now) % ClockMod)

\* A phase, a pulse or a delay ends in the first pass that finds its time over,
\* neither earlier nor later, wherever the clock wraps and whatever commands
\* came before.  Outside the property, because the code does not keep it: a
\* phase that a command or a new configuration began after the pass had read
\* the clock.  The subtraction wraps, and the phase ends at once.
PhasesLast ==
  [][ Timed /\ ~ahead /\ step' = "idle"
        => (phase' # phase \/ active' # active <=> Seen >= Length) ]_vars
=============================================================================
