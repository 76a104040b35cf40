------------------------------ MODULE Counters ------------------------------
(***************************************************************************)
(* One of the four counters (the others share nothing with it).  Its input *)
(* is counted by the scan task, by an interrupt or by the pulse counter of *)
(* the chip; the main loop obeys the control register, collects what has   *)
(* been counted and shows it in registers.  Configuration and resets come  *)
(* from the main loop (commands, Modbus, ST programs) or from the web      *)
(* server's task on the other core.                                        *)
(*                                                                         *)
(* Left out: debouncing and the choice of edges (an edge here is one that  *)
(* counts), inputs that are not read by the scan task, prescaler, scale    *)
(* and frequency, which are computed from the count, comparison with > and *)
(* the comparison register.  A configuration falls between two passes,     *)
(* resets and polls; counts have 8, 16 or 32 bits, as one of 64 bits wraps *)
(* in its own type; and a burst is shorter than what lies between the      *)
(* start value and the end of the range (see CounterAssumption).           *)
(*                                                                         *)
(* The task that polls the pulse counter has the core of the main loop and *)
(* goes before it, so a poll falls between two steps of the loop; the      *)
(* other core goes on during one, and the steps of a poll and of a reset   *)
(* interleave.  One read-and-write of the control register, one pass and,  *)
(* but for the pulse counter, one reset are single steps.                  *)
(***************************************************************************)
EXTENDS Integers

CONSTANTS
  Configs,     \* the configurations there are
  MaxValue,    \* 2^bit_width - 1
  PcntMod,     \* 2^16, the range of the pulse counter
  Big,         \* 2^64, the range of a count
  Burst,       \* bound: edges between two collections
  MaxCalls     \* bound: configurations, resets and commands

None == -1
CounterTasks == {"loop", "http"}
Bits == {"reset", "start", "stop", "running", "over", "hit"}
Commands == {"reset", "start", "stop", "running"}

\* From one poll to the next a count goes past its end once.
CounterAssumption ==
  /\ Configs \subseteq [mode : {"sw", "encoder", "isr", "pcnt"}, up : BOOLEAN, start : 0..MaxValue,
                       cmp : {None} \cup 0..MaxValue, on : BOOLEAN]
  /\ MaxValue \in Nat /\ PcntMod \in Nat
  /\ Big \in Nat /\ Big > MaxValue + 1 /\ Big % (MaxValue + 1) = 0
  /\ Burst \in Nat /\ 2 * Burst < PcntMod
  /\ \A c \in Configs :
       /\ Burst + c.start <= MaxValue + 1
       /\ c.mode = "pcnt" /\ ~c.up => c.start = 0 \/ Burst <= 2 * c.start
  /\ MaxCalls \in Nat

VARIABLES
  cfg,       \* the configuration
  value,     \* counter_value or pcnt_value
  over,      \* overflow_flag, or overflow_count > 0
  counting,  \* is_counting
  pending,   \* sw_fast: edges that are not collected, with their sign
  mirror,    \* sw_fast: counting
  hw,        \* the pulse counter
  lastHw,    \* last_count
  poll,      \* how far the polling task is, and what it holds
  gate,      \* the pulse counter is not paused
  ctrl,      \* the bits of the control register
  last,      \* last_value of the comparison
  job,       \* how far each task is with a reset or a pass
  bits,      \* the control register as the pass has read it
  due,       \* the count with everything delivered (for the properties)
  torn,      \* a wrap met an interrupt, or a reset a poll (for the properties)
  calls      \* calls made

vars == <<cfg, value, over, counting, pending, mirror, hw, lastHw, poll, gate, ctrl, last,
          job, bits, due, torn, calls>>

counts == <<value, over, counting>>
scan == <<pending, mirror>>
pulse == <<hw, lastHw, poll, gate>>
pass == <<job, bits>>
ghosts == <<due, torn>>

Called == calls < MaxCalls /\ calls' = calls + 1
Scanned == cfg.mode \in {"sw", "encoder"}

\* The main loop waits for the end of a poll; the other core does not.
Resting == [at |-> "idle", seen |-> 0, sum |-> 0, past |-> FALSE]
MayRun(t) == t = "loop" => poll = Resting

-----------------------------------------------------------------------------
\* Mutant: the wrap itself is not counted.
WrappedLate(v) == IF v > MaxValue THEN (cfg.start + (v - MaxValue)) % (MaxValue + 1) ELSE v
\* What lies beyond the last value goes on from the start value.
Wrapped(v) == IF v > MaxValue THEN (cfg.start + (v - MaxValue - 1)) % (MaxValue + 1) ELSE v

\* One edge, as the scan task or an interrupt counts it: the scan task wraps at
\* once, the interrupt leaves that to the loop.
Edge(v) ==
  IF cfg.up THEN IF cfg.mode = "sw" THEN Wrapped(v + 1) ELSE v + 1
  ELSE IF v > 0 THEN v - 1 ELSE cfg.start
Edges[n \in 0..Burst] ==
  [v \in 0..MaxValue |-> IF n = 0 THEN v ELSE Edges[n - 1][Edge(v)]]

Signed(d) == IF cfg.up THEN d ELSE -d
Turned(v, d) == (v + Signed(d)) % (MaxValue + 1)

\* n pulses at once, by the task that polls the pulse counter.
Summed(v, n) ==
  IF cfg.up THEN v + n ELSE IF v >= n THEN v - n ELSE (cfg.start - (n - v)) % Big
Polled(v, n) == Wrapped(Summed(v, n))

\* The count after everything is delivered that has not been.  A poll that has
\* written its sum has delivered what it saw, noted or not, wrapped or not.
Unread == (hw - lastHw) % PcntMod
Undelivered == (hw - IF poll.at = "note" THEN poll.seen ELSE lastHw) % PcntMod
Delivered ==
  CASE cfg.mode = "sw"      -> Edges[pending][value]
    [] cfg.mode = "encoder" -> Turned(value, pending)
    [] cfg.mode = "isr"     -> Wrapped(value)
    [] cfg.mode = "pcnt"    -> Polled(Wrapped(value), Undelivered)

\* What one edge does to that count, whenever it is delivered.
OneEdge(v, d) ==
  CASE cfg.mode = "encoder" -> Turned(v, d)
    [] cfg.mode = "pcnt"    -> Polled(v, 1)
    [] OTHER                -> Wrapped(Edge(v))

-----------------------------------------------------------------------------
Init ==
  /\ cfg \in Configs /\ value = cfg.start /\ over = FALSE
  /\ counting = (cfg.mode = "isr" \/ (cfg.mode = "pcnt" /\ cfg.on))
  /\ pending = 0 /\ mirror = FALSE
  /\ hw = 0 /\ lastHw = 0 /\ poll = Resting /\ gate = (cfg.mode = "pcnt" /\ cfg.on)
  /\ ctrl \in {{}, {"running"}} /\ last = 0
  /\ job = [t \in CounterTasks |-> "idle"] /\ bits = {}
  /\ due = cfg.start /\ torn = FALSE /\ calls = 0

\* The scan task sees an edge, of an encoder in either direction.
ScanEdge(d) ==
  /\ Scanned /\ cfg.on /\ mirror
  /\ d = 1 \/ cfg.mode = "encoder"
  /\ pending + d \in -Burst..Burst
  /\ pending' = pending + d /\ due' = OneEdge(due, d)
  /\ UNCHANGED <<value, over, hw>>

Interrupt ==
  /\ cfg.mode = "isr" /\ counting /\ value < MaxValue + Burst
  /\ value' = Edge(value) /\ due' = OneEdge(due, 1)
  /\ over' = (over \/ (~cfg.up /\ value = 0))
  /\ UNCHANGED <<pending, hw>>

Pulse ==
  /\ cfg.mode = "pcnt" /\ gate /\ Unread < Burst
  /\ hw' = (hw + 1) % PcntMod /\ due' = OneEdge(due, 1)
  /\ UNCHANGED <<value, over, pending>>

Input ==
  /\ (\E d \in {-1, 1} : ScanEdge(d)) \/ Interrupt \/ Pulse
  /\ UNCHANGED <<cfg, counting, mirror, lastHw, poll, gate, ctrl, last, pass, torn, calls>>

\* pcnt_poll_task, 100 times a second: is the counter counting?
PollLooks ==
  /\ cfg.mode = "pcnt" /\ cfg.on /\ counting
  /\ poll = Resting /\ poll' = [poll EXCEPT !.at = "read"]
  /\ UNCHANGED <<value, over, lastHw>>

PollReads ==
  /\ poll.at = "read" /\ poll' = [poll EXCEPT !.at = "add", !.seen = hw]
  /\ UNCHANGED <<value, over, lastHw>>

\* The pulses since the last reading, and the sum.
PollAdds ==
  LET n == (poll.seen - lastHw) % PcntMod
  IN /\ poll.at = "add"
     /\ poll' = IF poll.seen = lastHw THEN [Resting EXCEPT !.at = "wrap"]
                ELSE [poll EXCEPT !.at = "store", !.sum = Summed(value, n),
                                  !.past = ~cfg.up /\ value < n]
     /\ UNCHANGED <<value, over, lastHw>>

PollStores ==
  /\ poll.at = "store" /\ poll' = [Resting EXCEPT !.at = "note", !.seen = poll.seen]
  /\ value' = poll.sum /\ over' = (over \/ poll.past) /\ UNCHANGED lastHw

PollNotes ==
  /\ poll.at = "note" /\ poll' = [Resting EXCEPT !.at = "wrap"]
  /\ lastHw' = poll.seen /\ UNCHANGED <<value, over>>

\* The check for an overflow, made in every poll.
PollChecks ==
  /\ poll.at = "wrap"
  /\ poll' = IF value > MaxValue THEN [Resting EXCEPT !.at = "over", !.sum = Wrapped(value)]
             ELSE Resting
  /\ UNCHANGED <<value, over, lastHw>>

PollWraps ==
  /\ poll.at = "over" /\ poll' = Resting
  /\ value' = poll.sum /\ over' = TRUE /\ UNCHANGED lastHw

Poll ==
  /\ \/ PollLooks \/ PollReads \/ PollAdds \/ PollStores \/ PollNotes \/ PollChecks \/ PollWraps
  /\ UNCHANGED <<cfg, counting, scan, hw, gate, ctrl, last, pass, ghosts, calls>>

-----------------------------------------------------------------------------
\* check_compare: the count comes to the threshold from below.
Alarms(v) == cfg.cmp # None /\ last < cfg.cmp /\ v >= cfg.cmp
Compare(v, c) ==
  /\ ctrl' = IF Alarms(v) THEN c \cup {"hit"} ELSE c
  /\ last' = (IF cfg.cmp # None THEN v ELSE last)

\* The control register after handle_control: it writes back the bits it has
\* read, once for each command, and the last one wins.
ControlLeft ==
  CASE "stop" \in bits  -> bits \ {"stop"}
    [] "start" \in bits -> bits \ {"start"}
    [] OTHER            -> bits \ {"reset"}

\* What a reset leaves for the comparison.
ComparedAfterReset == cfg.start

\* The end of counter_engine_reset.
ResetEnds ==
  /\ over' = FALSE /\ last' = ComparedAfterReset

\* A reset outside the pulse counter: edges that wait are dropped.
ResetAtOnce(t) ==
  /\ Called /\ job[t] = "idle" /\ cfg.mode # "pcnt"
  /\ value' = cfg.start /\ due' = cfg.start /\ torn' = FALSE
  /\ pending' = 0
  /\ ResetEnds /\ ctrl' = ctrl \ {"over"}
  /\ UNCHANGED <<cfg, counting, mirror, pulse, pass>>

\* counter_hw_reset, from a call or from the pass of the loop: a poll may come
\* in between two steps, and so may the other core.
ResetStarts(t) ==
  /\ cfg.mode = "pcnt"
  /\ \/ job[t] = "idle" /\ Called
     \/ t = "loop" /\ job[t] = "control" /\ "reset" \in bits /\ UNCHANGED calls
  /\ job' = [job EXCEPT ![t] = IF job[t] = "idle" THEN "clear" ELSE "passClear"]
  /\ counting' = FALSE /\ gate' = FALSE
  /\ UNCHANGED <<cfg, value, over, scan, hw, lastHw, poll, ctrl, last, bits, ghosts>>

ResetClears(t) ==
  /\ job[t] \in {"clear", "passClear"}
  /\ job' = [job EXCEPT ![t] = IF job[t] = "clear" THEN "store" ELSE "passStore"]
  /\ hw' = 0
  /\ UNCHANGED <<cfg, counts, scan, lastHw, poll, gate, ctrl, last, bits, ghosts, calls>>

\* Storing overwrites what a poll is about to write, or is overwritten by it.
Disturbed == poll.at \in {"add", "store", "note", "over"}

\* Mutant: the pulse counter's last reading is kept.
StoredKept(t) ==
  /\ job[t] \in {"store", "passStore"}
  /\ job' = [job EXCEPT ![t] = IF job[t] = "store" THEN "resume" ELSE "passResume"]
  /\ value' = cfg.start /\ over' = FALSE
  /\ due' = Polled(cfg.start, hw) /\ torn' = Disturbed /\ UNCHANGED lastHw
  /\ UNCHANGED <<cfg, counting, scan, hw, poll, gate, ctrl, last, bits, calls>>
ResetStores(t) ==
  /\ job[t] \in {"store", "passStore"}
  /\ job' = [job EXCEPT ![t] = IF job[t] = "store" THEN "resume" ELSE "passResume"]
  /\ value' = cfg.start /\ over' = FALSE /\ lastHw' = 0
  /\ due' = Polled(cfg.start, hw) /\ torn' = Disturbed
  /\ UNCHANGED <<cfg, counting, scan, hw, poll, gate, ctrl, last, bits, calls>>

ResetResumes(t) ==
  /\ job[t] \in {"resume", "passResume"}
  /\ job' = [job EXCEPT ![t] = IF job[t] = "resume" THEN "idle" ELSE "passEnd"]
  /\ gate' = TRUE /\ counting' = TRUE
  /\ ResetEnds /\ ctrl' = ctrl \ {"over"}
  /\ UNCHANGED <<cfg, value, scan, hw, lastHw, poll, bits, due, torn, calls>>

Reset(t) ==
  /\ MayRun(t)
  /\ ResetAtOnce(t) \/ ResetStarts(t) \/ ResetClears(t) \/ ResetStores(t) \/ ResetResumes(t)

-----------------------------------------------------------------------------
\* counter_engine_loop up to handle_control: the comparison, which is made for
\* a disabled counter too, and the control register is read.
PassBegins ==
  /\ MayRun("loop") /\ job["loop"] = "idle"
  /\ Compare(value, ctrl) /\ bits' = (IF cfg.on THEN ctrl' ELSE {})
  /\ job' = [job EXCEPT !["loop"] = IF cfg.on THEN "control" ELSE "idle"]
  /\ UNCHANGED <<cfg, counts, scan, pulse, due, torn, calls>>

\* Which count the loop leaves, starting from v, and whether it passed an end.
Collected(v, go) ==
  CASE cfg.mode = "sw"      -> IF go THEN Edges[pending][v] ELSE v
    [] cfg.mode = "encoder" -> IF go THEN Turned(v, pending) ELSE v
    [] cfg.mode = "isr"     -> IF cfg.up THEN Wrapped(v) ELSE v
    [] OTHER                -> v
Overflows(v, go) ==
  CASE cfg.mode = "sw"      -> go /\ \E i \in 0..pending - 1 :
                                      Edges[i][v] = IF cfg.up THEN MaxValue ELSE 0
    [] cfg.mode = "encoder" -> go /\ v + Signed(pending) \notin 0..MaxValue
    [] cfg.mode = "isr"     -> cfg.up /\ v > MaxValue
    [] OTHER                -> FALSE

\* The rest of the pass: the commands, the count, the registers.  What waits
\* with the scan task is dropped when the counter is stopped, and an interrupt
\* between reading and writing a count that wraps is lost.
PassEnds ==
  LET go    == "running" \in bits
      reset == "reset" \in bits /\ cfg.mode # "pcnt"
      held  == [pending |-> IF reset THEN 0 ELSE pending, value |-> IF reset THEN cfg.start ELSE value]
      count == IF reset THEN cfg.start ELSE Collected(value, go)
      passed == IF reset THEN FALSE ELSE over \/ Overflows(value, go)
      compared == IF reset THEN ComparedAfterReset ELSE last
      alarm == cfg.cmp # None /\ compared < cfg.cmp /\ count >= cfg.cmp
      left  == (ControlLeft \ {"over"}) \cup {b \in {"over"} : passed} \cup {b \in {"hit"} : alarm}
  IN /\ MayRun("loop")
     /\ job["loop"] = "passEnd" \/ (job["loop"] = "control" /\ ~("reset" \in bits /\ cfg.mode = "pcnt"))
     /\ value' = count /\ over' = passed
     /\ pending' = 0 /\ counting' = go
     /\ mirror' = (IF Scanned THEN go ELSE mirror)
     /\ gate' = (IF cfg.mode = "pcnt" THEN go ELSE gate)
     /\ ctrl' = left /\ last' = (IF cfg.cmp # None THEN count ELSE compared)
     /\ \/ /\ due' = (IF reset THEN cfg.start ELSE IF Scanned /\ ~go THEN value ELSE due)
           /\ torn' = (torn /\ ~reset)
        \/ /\ cfg.mode = "isr" /\ ~reset /\ Overflows(value, go)
           /\ due' = OneEdge(due, 1) /\ torn' = TRUE
     /\ job' = [job EXCEPT !["loop"] = "idle"] /\ bits' = {}
     /\ UNCHANGED <<cfg, hw, lastHw, poll, calls>>

-----------------------------------------------------------------------------
Idle == poll = Resting /\ \A t \in CounterTasks : job[t] = "idle"

\* counter_engine_configure, deletion among them.
Configure(c) ==
  /\ Called /\ Idle /\ cfg' = c
  /\ value' = c.start /\ over' = FALSE
  /\ counting' = (c.mode = "isr" \/ (c.mode = "pcnt" /\ c.on))
  /\ pending' = 0 /\ hw' = 0 /\ lastHw' = 0 /\ gate' = (c.mode = "pcnt" /\ c.on)
  /\ due' = c.start /\ torn' = FALSE
  /\ UNCHANGED <<mirror, poll, ctrl, last, pass>>

\* A command bit, from a handler or from Modbus.
Control(t) ==
  /\ Called /\ MayRun(t) /\ (t = "http" \/ job["loop"] = "idle")
  /\ ctrl' \in {ctrl \cup {b} : b \in Commands} \cup {ctrl \ {"running"}}
  /\ UNCHANGED <<cfg, counts, scan, pulse, last, pass, ghosts>>

\* Function 3 has read the control register of a counter with reset on read.
AlarmRead ==
  /\ Called /\ MayRun("loop") /\ job["loop"] = "idle" /\ cfg.cmp # None /\ ctrl' = ctrl \ {"hit"}
  /\ UNCHANGED <<cfg, counts, scan, pulse, last, pass, ghosts>>

Next ==
  \/ Input \/ Poll \/ PassBegins \/ PassEnds \/ AlarmRead
  \/ \E t \in CounterTasks : Reset(t) \/ Control(t)
  \/ \E c \in Configs : Configure(c)

Spec == Init /\ [][Next]_vars

-----------------------------------------------------------------------------
Resetting == \E t \in CounterTasks : job[t] \notin {"idle", "control", "passEnd"}

\* No edge is lost or counted twice on its way from the input to the count,
\* whichever task counts it, across wraps, polls in their steps, resets from
\* either core, starts and stops: with everything delivered that waits, the
\* count is what the edges since the last reset amount to.  Outside the
\* property: a pulse counter that is being reset; the time from a reset that
\* stores in the middle of a poll to the next reset (see EveryPulseOnce); and
\* an interrupt inside the loop's wrap.  A stop drops what waits.
EveryEdgeOnce == torn \/ Resetting \/ due = Delivered

\* "During reset window, polling task will skip this counter" (counter_hw.cpp,
\* lines 253-254): so no reset would need to be exempt.  It does not hold when
\* the web server resets while a poll, which has looked at is_counting before,
\* still has to write its sum or its reading.
EveryPulseOnce == cfg.mode = "pcnt" => Resetting \/ due = Delivered
=============================================================================
