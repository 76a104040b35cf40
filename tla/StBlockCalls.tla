---------------------------- MODULE StBlockCalls ----------------------------
(***************************************************************************)
(* One function block, called with any inputs at any times, and what its   *)
(* output has to be as a function of the calls so far.  A program calls a  *)
(* block once per scan, at times the block does not choose, and the clock  *)
(* wraps in between.                                                       *)
(***************************************************************************)
EXTENDS StBlocks, FiniteSetsExt

CONSTANTS Kinds,      \* the blocks looked at
          Presets,    \* values of PT and PV, of HIGH, ON_TIME and the time constant
          Signal,     \* values of a signal
          Gaps,       \* times between two calls
          FirstCalls, \* times of the first call
          MaxCalls    \* bound: calls of each block in one behaviour

CallsAssumption ==
  /\ Kinds \subseteq Blocks /\ Presets \subseteq Int /\ Signal \subseteq Int
  /\ Gaps \subseteq Nat \ {0} /\ FirstCalls \subseteq Nat /\ MaxCalls \in [Kinds -> Nat]

VARIABLES kind, \* which block
          mem,  \* its memory
          log   \* the calls: time, inputs, output

vars == <<kind, mem, log>>

Calls == DOMAIN log
Last == Len(log)
Time(i) == log[i].at

\* Inputs a to d are BOOLs in the order of the parameters, p the preset, q a
\* second one, x a signal.
Uses(field) ==
  kind \in CASE field = "a" -> Blocks \ {"HYSTERESIS", "FILTER"}
             [] field = "b" -> {"CTU", "CTD", "CTUD", "SR", "RS"}
             [] field \in {"c", "d"} -> {"CTUD"}
             [] field = "p" -> Blocks \ {"R_TRIG", "F_TRIG", "SR", "RS"}
             [] field = "p2" -> {"BLINK", "HYSTERESIS"}
             [] field = "x" -> {"HYSTERESIS", "FILTER"}
             [] field = "gap" -> Timers \cup {"BLINK", "FILTER"}
Input(field, set) == IF Uses(field) THEN set ELSE {CHOOSE v \in set : TRUE}

Passed(i) ==
  LET b(v) == Bool(v)   n(v) == DIntOf(v)   r(v) == RealOf(v)
  IN CASE kind \in {"R_TRIG", "F_TRIG"} -> <<b(i.a)>>
       [] kind \in Timers        -> <<b(i.a), n(i.p)>>
       [] kind \in {"CTU", "CTD"} -> <<b(i.a), b(i.b), n(i.p)>>
       [] kind = "CTUD"          -> <<b(i.a), b(i.b), b(i.c), b(i.d), n(i.p)>>
       [] kind \in {"SR", "RS"}  -> <<b(i.a), b(i.b)>>
       [] kind = "HYSTERESIS"    -> <<r(i.x), r(i.p), r(i.p2)>>
       [] kind = "BLINK"         -> <<b(i.a), n(i.p), n(i.p2)>>
       [] kind = "FILTER"        -> <<r(i.x), n(i.p)>>

Times == IF log = <<>> THEN FirstCalls ELSE {Time(Last) + g : g \in Input("gap", Gaps)}

Call ==
  /\ Last < MaxCalls[kind]
  /\ \E at \in Times, a \in Input("a", BOOLEAN), b \in Input("b", BOOLEAN),
        c \in Input("c", BOOLEAN), d \in Input("d", BOOLEAN),
        p \in Input("p", Presets), p2 \in Input("p2", Presets), x \in Input("x", Signal) :
       LET i == [a |-> a, b |-> b, c |-> c, d |-> d, p |-> p, p2 |-> p2, x |-> x]
           gap == IF log = <<>> THEN 0 ELSE at - Time(Last)
       IN \E s \in Called(kind, mem, Passed(i), at % ClockMod, gap) :
            /\ mem' = s
            /\ log' = Append(log, [in |-> i, at |-> at, q |-> s.q, cv |-> s.cv,
                                   et |-> s.et, out |-> s.out])
  /\ UNCHANGED kind

Init == kind \in Kinds /\ mem = Fresh /\ log = <<>>
Next == Call
Spec == Init /\ [][Next]_vars

-----------------------------------------------------------------------------
\* The first call of the run of calls with a = v that the last call ends.
RunStart(v) == CHOOSE i \in Calls :
  /\ \A j \in i .. Last : log[j].in.a = v
  /\ i > 1 => log[i-1].in.a # v
\* Some call since i found that the preset had passed since then.
Expired(i) == \E j \in i .. Last : Time(j) - Time(i) >= Preset(log[j].in.p)

Rises(i) == log[i].in.a /\ (i > 1 => ~log[i-1].in.a)

TonDue == log[Last].in.a /\ Expired(RunStart(TRUE))
TofDue == log[Last].in.a \/ (RunStart(FALSE) > 1 /\ ~Expired(RunStart(FALSE)))
\* A pulse starts at an edge outside a pulse and does not look at IN after it.
TpDue == \E i \in Calls : Rises(i) /\ (i > 1 => ~log[i-1].q) /\ ~Expired(i)

\* On-delay, off-delay and pulse measure from the edge, whatever happens to the
\* clock, and are noticed by the first call after the time (st_builtin_timers.cpp).
TimersOnTime ==
  log # <<>> => /\ kind = "TON" => (log[Last].q <=> TonDue)
                /\ kind = "TOF" => (log[Last].q <=> TofDue)
                /\ kind = "TP"  => (log[Last].q <=> TpDue)

-----------------------------------------------------------------------------
\* Calls at which an edge on a (b) counts, after call i.
Edges(i, down) ==
  Cardinality({j \in i+1 .. Last :
    IF down THEN log[j].in.b /\ (j > 1 => ~log[j-1].in.b) ELSE Rises(j)})

\* The last call that set the count, 0 if there is none.
LastOf(S) == IF S = {} THEN 0 ELSE Max(S)
CtuReset == LastOf({i \in Calls : log[i].in.b})
CtdLoad == LastOf({i \in Calls : log[i].in.b /\ (i > 1 => ~log[i-1].in.b)})
CtdCounted == Cardinality({j \in CtdLoad+1 .. Last : Rises(j) /\ ~log[j].in.b})

CtudSets(i) == log[i].in.c \/ (log[i].in.d /\ (i > 1 => ~log[i-1].in.d))
CtudSet == LastOf({i \in Calls : CtudSets(i)})
CtudStart == IF CtudSet = 0 \/ log[CtudSet].in.c THEN 0 ELSE Preset(log[CtudSet].in.p)
\* Up minus down after call i; a count held at zero forgets what came before.
Net(i) == Edges(i, FALSE) - Edges(i, TRUE)
CtudCount == Max({CtudStart + Net(CtudSet)} \cup {Net(i) : i \in CtudSet .. Last})

\* A counter shows the edges since it was set, not below zero, and its outputs
\* compare that count with the preset (st_builtin_counters.cpp).  CTUD compares
\* before it clamps the count to zero, which shows for presets that are not positive.
CountsEdges ==
  log # <<>> =>
    LET n == log[Last] IN
    /\ kind = "CTU" => /\ n.cv = Edges(CtuReset, FALSE)
                       /\ n.q <=> ~n.in.b /\ n.cv >= n.in.p
    /\ kind = "CTD" =>
         /\ n.cv = Max({0, (IF CtdLoad = 0 THEN 0 ELSE log[CtdLoad].in.p) - CtdCounted})
         /\ n.q <=> n.cv = 0
    /\ kind = "CTUD" => /\ n.cv = CtudCount
                        /\ n.in.p > 0 => (n.q <=> n.cv >= n.in.p)

-----------------------------------------------------------------------------
\* Some call turned it on, none since has turned it off.
HeldSince(on(_), off(_)) ==
  \E i \in Calls : on(i) /\ \A j \in i .. Last : ~off(j)
Valid(i) == log[i].in.p > log[i].in.p2

\* SR is reset-dominant, RS set-dominant, hysteresis holds between its limits and
\* is off while they are the wrong way round; an edge is seen once
\* (st_builtin_latch.cpp, st_builtin_signal.cpp, st_builtin_edge.cpp).
Remembers ==
  log # <<>> =>
    LET q == log[Last].q
        set(i) == log[i].in.a
        reset(i) == log[i].in.b
        resetOnly(i) == reset(i) /\ ~set(i)
        above(i) == Valid(i) /\ log[i].in.x > log[i].in.p
        below(i) == ~Valid(i) \/ log[i].in.x < log[i].in.p2
    IN /\ kind = "SR" => (q <=> HeldSince(set, reset))
       /\ kind = "RS" => (q <=> HeldSince(set, resetOnly))
       /\ kind = "HYSTERESIS" => (q <=> HeldSince(above, below))
       /\ kind = "R_TRIG" => (q <=> Rises(Last))
       /\ kind = "F_TRIG" => (q <=> Last > 1 /\ log[Last-1].in.a /\ ~log[Last].in.a)

-----------------------------------------------------------------------------
Enabled(i) == log[i].in.a /\ log[i].in.p >= 0 /\ log[i].in.p2 >= 0

\* BLINK is off while it is disabled, starts with its on-time, and changes at the
\* first call at which the phase has lasted its time, not before (st_builtin_signal.cpp).
BlinksInTime ==
  kind = "BLINK" /\ log # <<>> =>
    /\ ~Enabled(Last) => ~log[Last].q
    /\ Last > 1 /\ Enabled(Last) /\ ~Enabled(Last-1) => log[Last].q
    /\ Last > 1 /\ Enabled(Last) /\ Enabled(Last-1) =>
         LET begun == LastOf({i \in 1 .. Last-1 :
                          \/ log[i].q # (i > 1 /\ log[i-1].q)
                          \/ i > 1 /\ Enabled(i) # Enabled(i-1)})
             due == Time(Last) - Time(begun) >=
                      IF log[Last-1].q THEN log[Last].in.p ELSE log[Last].in.p2
         IN log[Last].q # log[Last-1].q <=> due

\* A filtered signal stays between the values it was given (st_builtin_signal.cpp).
FilterBetween ==
  kind = "FILTER" =>
    \A i \in Calls : LET given == {0} \cup {log[j].in.x : j \in 1 .. i}
                     IN Min(given) <= log[i].out /\ log[i].out <= Max(given)

\* The blocks that remember: latches, edges, the blinker and the filter.
SignalBlocks == Remembers /\ BlinksInTime /\ FilterBetween
=============================================================================
