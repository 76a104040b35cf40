--------------------------- MODULE MCStLanguage ---------------------------
(* The programs that TLC runs.  Between them they use every statement, operator *)
(* level and kind of variable, and the faults a program can run into: an index  *)
(* out of range, a division by zero, calls too deep, an endless loop.           *)
EXTENDS StLanguage

N(n) == <<"lit", "INT", n>>
Big(n) == <<"lit", "DINT", n>>
T == <<"lit", "BOOL", 1>>
V(name) == <<"var", name, "">>
F(name, field) == <<"var", name, field>>
B(l, op, r) == <<"bin", op, l, r>>
U(op, x) == <<"un", op, x>>
At(name, i) == <<"at", name, i>>
C(f, args) == <<"call", f, args, <<>>>>
CO(f, args, outs) == <<"call", f, args, outs>>

Set(name, e) == <<"set", name, "", e>>
SetF(name, field, e) == <<"set", name, field, e>>
SetAt(name, i, e) == <<"setat", name, i, e>>
If2(c, then, else) == <<"if", c, then, else>>
If1(c, then) == <<"if", c, then, <<>>>>
Count(name) == Set(name, B(V(name), "+", N(1)))

Scalar(type) == [type |-> type, lower |-> 0, array |-> FALSE, size |-> 1]
Var(name, type) == [name |-> name, spec |-> Scalar(type), const |-> FALSE, export |-> FALSE, init |-> <<"none">>]
From(v, e) == [v EXCEPT !.init = e]
Const(name, n) == [From(Var(name, "INT"), N(n)) EXCEPT !.const = TRUE]
Array(name, type, lower, size) ==
  [Var(name, type) EXCEPT !.spec = [type |-> type, lower |-> lower, array |-> TRUE, size |-> size]]
Fun(name, type, params, variables, body) ==
  [name |-> name, block |-> FALSE, type |-> type, params |-> params, locals |-> variables, body |-> body]
Fb(name, params, variables, body) ==
  [name |-> name, block |-> TRUE, type |-> "", params |-> params, locals |-> variables, body |-> body]

Tree(types, variables, funs, body, inputs) ==
  [types |-> types, vars |-> variables, funs |-> funs, body |-> body, inputs |-> inputs]
Plain(variables, inputs, body) == Tree(<<>>, variables, <<>>, body, inputs)

-----------------------------------------------------------------------------
Operators == Plain(
  <<Var("a", "INT"), Var("b", "INT"), Var("c", "INT"), Var("x", "INT"), Var("y", "INT"),
    Var("p", "BOOL"), Var("q", "BOOL"), Const("k", 3)>>, {"a", "b"},
  << Set("c", B(V("c"), "+", N(2))), Set("x", B(B(V("a"), "+", B(B(V("b"), "*", V("c")), "MOD", V("k"))), "-", U("-", V("b")))),
     Set("y", B(B(V("a"), "-", B(V("b"), "-", V("c"))), "*", B(V("c"), "-", N(1)))),
     Set("p", B(B(V("a"), "<", V("b")), "OR",
                B(U("NOT", B(V("a"), "=", V("c"))), "AND", B(V("b"), ">", N(2))))),
     Set("q", B(B(B(V("p"), "OR", B(V("a"), ">=", V("c"))), "AND", U("NOT", V("q"))), "XOR",
                B(B(V("x"), "SHL", N(1)), "<>", B(V("y"), "SHR", N(1))))) >>)

Loops == Plain(
  <<Var("n", "INT"), Var("k", "INT"), Var("s", "INT"), Var("i", "INT"), Var("j", "INT")>>, {"n", "k"},
  << <<"for", "i", N(0), V("n"), <<>>, <<
         If1(B(V("i"), "=", N(2)), << <<"exit">> >>),
         <<"for", "j", N(2), N(1), U("-", N(1)), <<
             If1(B(V("j"), "=", V("k")), << <<"exit">> >>),
             Set("s", B(V("s"), "+", B(V("i"), "*", V("j")))) >> >> >> >>,
     <<"while", B(V("s"), ">", N(10)), << Set("s", B(V("s"), "-", N(7))) >> >>,
     <<"repeat", << Set("s", B(V("s"), "+", N(2))) >>, B(V("s"), ">=", V("k")) >> >>)

Choices == Plain(
  <<Var("n", "INT"), Var("m", "INT"), Var("x", "INT"), Var("i", "INT")>>, {"n", "m"},
  << <<"for", "i", N(1), N(3), <<>>, <<
       <<"case", V("n"), <<
           << <<2, 7>>, << Set("x", B(V("x"), "+", V("i"))) >> >>,
           << <<-3>>, << <<"case", V("m"), << << <<5>>, << Set("x", V("i")), <<"exit">> >> >>,
                                              << <<-3>>, << Count("x") >> >> >>, <<>> >> >> >>,
           << <<4>>, <<>> >> >>,
         << If2(B(V("m"), ">", N(3)), << Set("x", N(9)) >>,
               << If2(B(V("m"), ">", N(0)), << Set("x", V("m")) >>,
                      << Set("x", B(V("x"), "-", N(1))), <<"exit">> >>) >>) >> >> >> >>,
     If2(B(V("x"), "<", N(0)), << Set("x", N(20)) >>,
         << If2(B(V("x"), "<", N(5)), << Count("x") >>, << If1(B(V("n"), "=", N(5)), << Set("x", N(0)) >>) >>) >>) >>)

\* a holds the caller's value while the callee writes its own.
Recursion == Tree(<<>>,
  <<Var("n", "INT"), Var("x", "INT"), Var("d", "DINT")>>,
  << Fun("tri", "INT", <<<<"v", "INT">>>>, <<<<"w", "INT">>>>,
       << If1(B(V("v"), "<", N(1)), << <<"return", N(0)>> >>),
          Set("w", V("v")), Set("v", B(V("v"), "-", N(1))),
          Set("tri", B(C("tri", <<V("v")>>), "+", V("w"))) >>),
     Fun("root", "INT", <<<<"u", "INT">>>>, <<<<"r", "INT">>>>,
       << <<"for", "r", N(1), N(4), <<>>, <<
            <<"case", V("r"), << << <<4>>, << <<"return", U("-", V("r"))>> >> >> >>,
              << If1(B(B(V("r"), "*", V("r")), ">=", V("u")), << <<"return", V("r")>> >>) >> >> >> >>,
          Set("root", N(0)) >>) >>,
  << Set("d", B(V("d"), "+", N(1))), Set("g", B(V("g"), "+", N(1))),
     Set("x", B(C("root", <<B(V("n"), "*", N(2))>>), "*", N(2))),
     Set("x", B(V("x"), "+", C("tri", <<V("n")>>))) >>, {"n"})

Latches == Tree(<<>>,
  <<Var("a", "BOOL"), Var("b", "BOOL"), Var("x", "BOOL"), Var("y", "BOOL")>>,
  << Fb("latch", <<<<"on", "BOOL">>, <<"off", "BOOL">>>>, <<<<"held", "BOOL">>>>,
       << If1(V("on"), << Set("held", T), Set("g", B(V("g"), "+", N(1))) >>),
          If1(V("off"), << Set("held", U("NOT", T)) >>),
          <<"return", V("held")>> >>) >>,
  << Set("x", C("latch", <<V("a"), V("b")>>)),
     Set("y", C("latch", <<V("b"), V("a")>>)),
     <<"do", C("latch", <<B(V("x"), "AND", V("y")), V("a")>>)>> >>, {"a", "b"})

Structures == Tree(<< [name |-> "pt", fields |-> <<<<"u", "INT">>, <<"v", "DINT">>, <<"w", "REAL">>>>] >>,
  <<Var("i", "INT"), Array("t", "INT", 1, 3), Var("p", "pt"), From(Var("z", "INT"), N(4))>>, <<>>,
  << SetF("p", "v", B(F("p", "v"), "+", B(F("p", "u"), "*", N(20)))),
     SetF("p", "w", B(F("p", "v"), "/", N(4))),
     Set("g", B(V("g"), "+", N(1))), Set("z", B(V("z"), "-", N(1))),
     SetAt("t", V("i"), B(At("t", V("i")), "+", V("i"))),
     SetF("p", "u", B(At("t", N(2)), "-", At("t", N(3)))) >>, {"i"})

Widths == Plain(
  <<Var("a", "INT"), Var("d", "DINT"), Var("w", "DWORD"), Var("r", "REAL"), Var("x", "INT"),
    Var("p", "BOOL"), Var("q", "BOOL")>>, {"a"},
  << Set("d", B(B(V("d"), "+", B(V("a"), "*", N(11))), "+", Big(300))),
     Set("w", B(V("w"), "+", Big(2000))), Set("x", B(V("d"), "-", V("a"))),
     Set("p", B(B(V("d"), ">", Big(600)), "AND", B(V("w"), "<", Big(1500)))),
     Set("gd", B(V("d"), "*", N(2))),
     Set("r", B(B(V("d"), "/", B(V("a"), "-", N(2))), "+", V("r"))),
     Set("a", C("TRUNC", <<V("r")>>)), Set("q", B(V("r"), "<", V("d"))) >>)

Calls == Plain(
  <<Var("a", "BOOL"), Var("b", "BOOL"), Var("q", "BOOL"), Var("e", "DINT"), Var("u", "BOOL"), Var("z", "BOOL"),
    Var("c", "INT"), Var("n", "INT")>>, {"a", "b"},
  << <<"do", CO("TON", <<V("a"), <<"lit", "TIME", 3>>>>, <<<<"Q", "q">>, <<"ET", "e">>>>)>>,
     If2(C("R_TRIG", <<V("a")>>), << Count("n") >>,
         << If1(C("R_TRIG", <<V("b")>>), << Set("n", B(V("n"), "+", N(5))) >>) >>),
     <<"do", CO("CTUD", <<V("a"), V("b"), V("q"), U("NOT", T), N(2)>>,
                <<<<"QU", "u">>, <<"QD", "z">>, <<"CV", "c">>>>)>>,
     Set("q", C("SR", <<V("u"), C("HYSTERESIS", <<V("c"), N(1), N(0)>>)>>)),
     Set("n", C("LIMIT", <<U("-", N(2)), V("n"), N(9)>>)) >>)

Endless == Plain(
  <<Var("a", "BOOL"), Var("x", "INT")>>, {"a"},
  << Count("x"), <<"while", V("a"), << Count("x") >> >>,
     Set("g", C("MUX", <<B(V("x"), "MOD", N(3)), N(7), V("g"), C("MAX", <<V("x"), C("ABS", <<V("g")>>)>>)>>)) >>)

MCSources == <<Operators, Loops, Choices, Recursion, Latches, Structures, Widths, Calls, Endless>>
MCPrograms == SourcePrograms
MCGlobals == <<"INT", "DINT">>
MCGlobalNames == <<"g", "gd">>
Sampled == [t \in Types |-> CASE t = "BOOL" -> {Bool(TRUE), Bool(FALSE)} [] t = "INT" -> {IntOf(-3), IntOf(2), IntOf(5)}
                              [] OTHER -> {Zero(t)}]

-----------------------------------------------------------------------------
(***************************************************************************)
(* What TLC runs for the language: these programs, or one function block   *)
(* called with anything, on a clock that wraps after the first call or     *)
(* two.  `part' says which; the other part stays as it starts.             *)
(***************************************************************************)
VARIABLES part, kind, memory, log

CONSTANTS Kinds, Presets, Signal

MCPresets == {-1, 2}
MCSignal == {-6, 0, 5}

\* Narrow integers, so that counts and times reach their ends.
BlockCalls == INSTANCE StBlockCalls WITH
  IntBits <- 5, DIntBits <- 8, RealUnit <- 1, ClockMod <- 16, Gaps <- {1, 2}, FirstCalls <- {14},
  MaxCalls <- [k \in Kinds |-> IF k = "CTUD" THEN 3 ELSE IF k \in {"BLINK", "HYSTERESIS", "FILTER"} THEN 4 ELSE 5],
  mem <- memory

ASSUME BlockCalls!CallsAssumption

blockvars == <<kind, memory, log>>
runvars == <<part, langvars, blockvars>>

Shortest == CHOOSE p \in MCPrograms : \A q \in MCPrograms : Len(p.code) <= Len(q.code)

RunsInit == /\ part \in {"program", "block"}
            /\ LangInit /\ BlockCalls!Init
            /\ part = "program" => kind = CHOOSE k \in Kinds : TRUE
            /\ part = "block" => prog = Shortest

RunsNext == \/ part = "program" /\ LangNext /\ UNCHANGED <<part, blockvars>>
            \/ part = "block" /\ BlockCalls!Next /\ UNCHANGED <<part, langvars>>

RunsSpec == RunsInit /\ [][RunsNext]_runvars

\* What a function block answers follows from its calls so far: timers measure
\* from the edge, whatever happens to the clock, counters show the edges since
\* they were set, latches, edges, the blinker and the filter remember the calls
\* that matter (see StBlockCalls).
HistoryDecides == BlockCalls!TimersOnTime /\ BlockCalls!CountsEdges /\ BlockCalls!SignalBlocks
=============================================================================
