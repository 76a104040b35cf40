------------------------------ MODULE StBlocks ------------------------------
(***************************************************************************)
(* The function blocks of the ST runtime: edges, timers, counters,         *)
(* latches, hysteresis, blinking, filter (src/src/st_builtin_edge.cpp,     *)
(* _timers, _counters, _latch, _signal).                                   *)
(*                                                                         *)
(* A block is a step from its memory, its arguments and the clock to its   *)
(* new memory.  All kinds share one record: each uses the fields it needs, *)
(* and q is what the call returns.  millis() counts modulo ClockMod (2^32) *)
(* and an elapsed time is a difference modulo ClockMod.                    *)
(***************************************************************************)
EXTENDS StValue

CONSTANT ClockMod

ASSUME ClockAssumption == ClockMod \in Nat \ {0}

Fresh == [in |-> FALSE, down |-> FALSE, load |-> FALSE,   \* inputs of the last call
          run |-> FALSE, start |-> 0, et |-> 0,           \* timers, BLINK
          cv |-> 0, qd |-> FALSE,                         \* counters
          phase |-> "idle", out |-> 0,                    \* BLINK, FILTER
          q |-> FALSE]

Elapsed(s, now) == (now - s.start) % ClockMod
\* A negative preset counts as none.
Preset(pt) == IF pt < 0 THEN 0 ELSE pt

RTrig(s, in) == [s EXCEPT !.in = in, !.q = in /\ ~s.in]
FTrig(s, in) == [s EXCEPT !.in = in, !.q = ~in /\ s.in]

Started(s, now) == [s EXCEPT !.run = TRUE, !.start = now]

\* Mutated Ton: the start time is not taken at the edge.
TonLate(s, in, pt, now) ==
  LET t == IF in /\ ~s.in THEN [s EXCEPT !.run = TRUE, !.q = FALSE] ELSE s
      done == t.run /\ Elapsed(t, now) >= Preset(pt)
  IN IF in THEN [t EXCEPT !.in = TRUE, !.run = @ /\ ~done, !.q = @ \/ done,
                          !.et = IF t.run THEN Elapsed(t, now) ELSE @]
     ELSE [s EXCEPT !.in = FALSE, !.run = FALSE, !.q = FALSE, !.et = 0]

Ton(s, in, pt, now) ==
  LET t == IF in /\ ~s.in THEN [Started(s, now) EXCEPT !.q = FALSE] ELSE s
      done == t.run /\ Elapsed(t, now) >= Preset(pt)
  IN IF in THEN [t EXCEPT !.in = TRUE, !.run = @ /\ ~done, !.q = @ \/ done,
                          !.et = IF t.run THEN Elapsed(t, now) ELSE @]
     ELSE [s EXCEPT !.in = FALSE, !.run = FALSE, !.q = FALSE, !.et = 0]

Tof(s, in, pt, now) ==
  LET t == IF ~in /\ s.in THEN [Started(s, now) EXCEPT !.q = TRUE] ELSE s
      done == t.run /\ Elapsed(t, now) >= Preset(pt)
  IN IF ~in THEN [t EXCEPT !.in = FALSE, !.run = @ /\ ~done, !.q = @ /\ ~done,
                           !.et = IF t.run THEN Elapsed(t, now) ELSE @]
     ELSE [s EXCEPT !.in = TRUE, !.run = FALSE, !.q = TRUE, !.et = 0]

Tp(s, in, pt, now) ==
  LET t == IF in /\ ~s.in /\ ~s.run THEN [Started(s, now) EXCEPT !.q = TRUE] ELSE s
      done == t.run /\ Elapsed(t, now) >= Preset(pt)
  IN [t EXCEPT !.in = in, !.run = @ /\ ~done, !.q = @ /\ ~done,
               !.et = IF done THEN Preset(pt) ELSE IF t.run THEN Elapsed(t, now) ELSE @]

Ctu(s, cu, reset, pv) ==
  LET cv == IF reset THEN 0 ELSE IF cu /\ ~s.in /\ s.cv < DIntMax THEN s.cv + 1 ELSE s.cv
  IN [s EXCEPT !.in = cu, !.cv = cv, !.q = ~reset /\ cv >= pv]

Ctd(s, cd, load, pv) ==
  LET loaded == IF load /\ ~s.load THEN pv ELSE s.cv
      cv == IF cd /\ ~s.in /\ ~load THEN loaded - 1 ELSE loaded
  IN [s EXCEPT !.in = cd, !.load = load, !.q = cv <= 0,
               !.cv = IF cv <= 0 THEN 0 ELSE cv]

\* QU is q.  A call that resets or loads counts no edge.
Ctud(s, cu, cd, reset, load, pv) ==
  LET counted == s.cv + (IF cu /\ ~s.in /\ s.cv < DIntMax THEN 1 ELSE 0)
                      - (IF cd /\ ~s.down THEN 1 ELSE 0)
      cv == IF reset THEN 0 ELSE IF load /\ ~s.load THEN pv ELSE counted
  IN [s EXCEPT !.in = cu, !.down = cd, !.load = load,
               !.q = cv >= pv, !.qd = cv <= 0, !.cv = IF cv < 0 THEN 0 ELSE cv]

Sr(s, set, reset) == [s EXCEPT !.q = ~reset /\ (set \/ @)]
Rs(s, set, reset) == [s EXCEPT !.q = set \/ (@ /\ ~reset)]

Hysteresis(s, in, high, low) ==
  [s EXCEPT !.q = high > low /\ (in > high \/ (@ /\ in >= low))]

Blink(s, enable, on, off, now) ==
  LET turned(q, phase) == [s EXCEPT !.q = q, !.phase = phase, !.start = now]
  IN CASE on < 0 \/ off < 0 -> [s EXCEPT !.q = FALSE, !.phase = "idle"]
       [] on >= 0 /\ off >= 0 /\ ~enable -> turned(FALSE, "idle")
       [] on >= 0 /\ off >= 0 /\ enable ->
            CASE s.phase = "idle"                          -> turned(TRUE, "on")
              [] s.phase = "on" /\ Elapsed(s, now) >= on   -> turned(FALSE, "off")
              [] s.phase = "off" /\ Elapsed(s, now) >= off -> turned(TRUE, "on")
              [] OTHER                                     -> s

\* out + DT/(tau+DT) * (in-out), DT the time of a cycle, 10 if it is unknown.
Filter(s, in, tau, cycle) ==
  LET dt == IF cycle <= 0 THEN 10 ELSE cycle
  IN [s EXCEPT !.out = IF tau <= 0 THEN in ELSE @ + Quot(dt * (in - @), tau + dt)]

\* SCALE has no memory; it is here with the other signal blocks.
Scale(in, inMin, inMax, outMin, outMax) ==
  LET x == IF in > inMax /\ ~(in < inMin) THEN inMax
           ELSE IF in >= inMin THEN in ELSE IF inMin > inMax THEN inMax ELSE inMin
  IN IF inMax = inMin THEN 0
     ELSE Quot((x - inMin) * (outMax - outMin), inMax - inMin) + outMin

-----------------------------------------------------------------------------
\* st_vm_exec_call_builtin: how a block reads its arguments.

Timers == {"TON", "TOF", "TP"}
Counters == {"CTU", "CTD", "CTUD"}
Blocks == {"R_TRIG", "F_TRIG", "SR", "RS", "HYSTERESIS", "BLINK", "FILTER"}
          \cup Timers \cup Counters

ArgCount(f) ==
  CASE f \in {"R_TRIG", "F_TRIG"} \cup Functions1 -> 1
    [] f \in Timers \cup {"SR", "RS", "FILTER"} \cup Functions2 -> 2
    [] f \in {"CTU", "CTD", "HYSTERESIS", "BLINK"} \cup Functions3 -> 3
    [] f \in {"CTUD", "SCALE"} -> 5
    [] f \in Functions4 -> 4

\* Signals are read as REAL, an unsigned number only as such.
Signals(x) == IF x.t \in {"DWORD", "TIME"} THEN {(x.v % 2^DIntBits) * RealUnit} ELSE AsReals(x)
\* Times of BLINK and FILTER are cut to int16_t; a TIME or BOOL is none.
ShortTime(x) == CASE x.t \in {"INT", "DINT", "DWORD"} -> Signed(x.v, IntBits)
                  [] x.t = "REAL" -> Signed(Quot(x.v, RealUnit), IntBits)
                  [] OTHER -> 0
IsOn(x) == x.v # 0

\* A function without memory; SCALE computes with signals.
Computed(f, xs) ==
  IF f # "SCALE" THEN Pure(f, xs)
  ELSE {RealOf(Scale(a, b, c, d, e)) : a \in Signals(xs[1]), b \in Signals(xs[2]),
          c \in Signals(xs[3]), d \in Signals(xs[4]), e \in Signals(xs[5])}

\* The possible memories of block f after a call with the converted arguments xs.
Called(f, s, xs, now, cycle) ==
  CASE f = "R_TRIG" -> {RTrig(s, IsOn(xs[1]))}
    [] f = "F_TRIG" -> {FTrig(s, IsOn(xs[1]))}
    [] f = "TON"    -> {Ton(s, IsOn(xs[1]), xs[2].v, now)}
    [] f = "TOF"    -> {Tof(s, IsOn(xs[1]), xs[2].v, now)}
    [] f = "TP"     -> {Tp(s, IsOn(xs[1]), xs[2].v, now)}
    [] f = "CTU"    -> {Ctu(s, IsOn(xs[1]), IsOn(xs[2]), xs[3].v)}
    [] f = "CTD"    -> {Ctd(s, IsOn(xs[1]), IsOn(xs[2]), xs[3].v)}
    [] f = "CTUD"   -> {Ctud(s, IsOn(xs[1]), IsOn(xs[2]), IsOn(xs[3]), IsOn(xs[4]), xs[5].v)}
    [] f = "SR"     -> {Sr(s, IsOn(xs[1]), IsOn(xs[2]))}
    [] f = "RS"     -> {Rs(s, IsOn(xs[1]), IsOn(xs[2]))}
    [] f = "HYSTERESIS" -> {Hysteresis(s, a, b, c) :
          a \in Signals(xs[1]), b \in Signals(xs[2]), c \in Signals(xs[3])}
    [] f = "BLINK"  -> {Blink(s, xs[1].t # "TIME" /\ IsOn(xs[1]), ShortTime(xs[2]), ShortTime(xs[3]), now)}
    [] f = "FILTER" -> {Filter(s, a, ShortTime(xs[2]), cycle) : a \in Signals(xs[1])}

Result(f, s) == IF f = "FILTER" THEN RealOf(s.out) ELSE Bool(s.q)
=============================================================================
