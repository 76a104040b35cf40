----------------------------- MODULE StLanguage -----------------------------
(***************************************************************************)
(* What a program means, and the machine running what the parser and the   *)
(* compiler made of its text (docs/manual/D_ST_Logic_Funktionsreference.md *)
(* sections D.1 to D.4, for the code of st_parser, st_compiler and st_vm). *)
(*                                                                         *)
(* A source is a syntax tree.  Text writes it as text, with parentheses *)
(* only where the manual's table of operators asks for them; parsing and   *)
(* compiling that text gives the program the machine runs.  Beside it, a   *)
(* scan of the tree is evaluated statement by statement on its variables:  *)
(* there are no slots, no stack, no jumps, no windows and no instances in  *)
(* that, blocks and function blocks are remembered by the place of their   *)
(* call in the tree.  After every scan both must have the same variables.  *)
(***************************************************************************)
EXTENDS StVm, StCompiler
LOCAL INSTANCE SequencesExt
LOCAL INSTANCE TLC

CONSTANT Sources   \* trees [types, vars, funs, body, inputs]

VARIABLE ref       \* what the tree has come to: variables, globals, memories

langvars == <<vmvars, ref>>

-----------------------------------------------------------------------------
(* Writing a tree as text.                                                  *)

Word(k) == <<<<k, 0>>>>
Id(name) == <<<<"id", name>>>>
Figure(n) == IF n < 0 THEN Word("-") \o <<<<"int", -n>>>> ELSE <<<<"int", n>>>>
Listed(parts, sep) == FlattenSeq([i \in DOMAIN parts |-> IF i = 1 THEN parts[i] ELSE sep \o parts[i]])
Joined(seq, spelled(_)) == FlattenSeq([i \in DOMAIN seq |-> spelled(seq[i])])

\* The manual's table of operators (D.4).
Binding == [op \in {"OR", "XOR", "AND", "=", "<>", "<", ">", "<=", ">=", "+", "-",
                    "*", "/", "MOD", "SHL", "SHR"} |->
             CASE op \in {"OR", "XOR"} -> 1 [] op = "AND" -> 2 [] op \in {"+", "-"} -> 4
               [] op \in {"*", "/", "MOD", "SHL", "SHR"} -> 5 [] OTHER -> 3]

RECURSIVE Spelled(_, _), SpelledStatement(_)

\* Text of e where an operator that binds as tightly as level may stand bare.
Spelled(e, level) ==
  LET enclosed(l, text) == IF l < level THEN Word("(") \o text \o Word(")") ELSE text
      listed == [i \in DOMAIN e[3] |-> Spelled(e[3][i], 1)]
      named == [i \in DOMAIN e[3] |-> Id(Inputs(e[2])[i]) \o Word(":=") \o listed[i]]
      bound == [i \in DOMAIN e[4] |-> Id(e[4][i][1]) \o Word("=>") \o Id(e[4][i][2])]
  IN CASE e[1] = "lit" -> IF e[2] = "BOOL" THEN Word(IF e[3] = 0 THEN "FALSE" ELSE "TRUE")
                          ELSE IF e[2] = "REAL" THEN <<<<"real", e[3]>>>>
                          ELSE IF e[2] = "TIME" THEN <<<<"time", e[3]>>>> ELSE Figure(e[3])
       [] e[1] = "var" -> Id(e[2]) \o (IF e[3] = "" THEN <<>> ELSE Word(".") \o Id(e[3]))
       [] e[1] = "at"  -> Id(e[2]) \o Word("[") \o Spelled(e[3], 1) \o Word("]")
       [] e[1] = "un"  -> enclosed(6, Word(e[2]) \o Spelled(e[3], 6))
       [] e[1] = "bin" -> LET l == Binding[e[2]]
                          IN enclosed(l, Spelled(e[3], l) \o Word(e[2]) \o Spelled(e[4], l + 1))
       [] e[1] = "call" -> Id(e[2]) \o Word("(")
                           \o Listed(IF e[4] = <<>> THEN listed ELSE named \o bound, Word(",")) \o Word(")")

SpelledBlock(statements) == Joined(statements, SpelledStatement)

SpelledElse(else) == IF else = <<>> THEN <<>>
                   ELSE IF Len(else) = 1 /\ else[1][1] = "if"
                   THEN \* an ELSIF shares the END_IF of the IF it belongs to
                        LET text == SpelledStatement(else[1])
                        IN Word("ELSIF") \o SubSeq(text, 2, Len(text) - 2)
                   ELSE Word("ELSE") \o SpelledBlock(else)

SpelledStatement(s) ==
  LET value(e) == Word(":=") \o Spelled(e, 1)
      label(b) == Listed([i \in DOMAIN b[1] |-> Figure(b[1][i])], Word(",")) \o Word(":")
      text ==
        CASE s[1] = "set" -> Spelled(<<"var", s[2], s[3]>>, 1) \o value(s[4])
          [] s[1] = "setat" -> Spelled(<<"at", s[2], s[3]>>, 1) \o value(s[4])
          [] s[1] = "do" -> Spelled(s[2], 1)
          [] s[1] = "if" -> Word("IF") \o Spelled(s[2], 1) \o Word("THEN") \o SpelledBlock(s[3])
                            \o SpelledElse(s[4]) \o Word("END_IF")
          [] s[1] = "case" -> Word("CASE") \o Spelled(s[2], 1) \o Word("OF")
               \o Joined(s[3], LAMBDA b : label(b) \o SpelledBlock(b[2]))
               \o (IF s[4] = <<>> THEN <<>> ELSE Word("ELSE") \o SpelledBlock(s[4])) \o Word("END_CASE")
          [] s[1] = "for" -> Word("FOR") \o Id(s[2]) \o value(s[3]) \o Word("TO") \o Spelled(s[4], 1)
               \o (IF s[5] = <<>> THEN <<>> ELSE Word("BY") \o Spelled(s[5], 1))
               \o Word("DO") \o SpelledBlock(s[6]) \o Word("END_FOR")
          [] s[1] = "while" -> Word("WHILE") \o Spelled(s[2], 1) \o Word("DO") \o SpelledBlock(s[3])
                               \o Word("END_WHILE")
          [] s[1] = "repeat" -> Word("REPEAT") \o SpelledBlock(s[2]) \o Word("UNTIL") \o Spelled(s[3], 1)
                                \o Word("END_REPEAT")
          [] s[1] = "exit" -> Word("EXIT")
          [] s[1] = "return" -> Word("RETURN") \o IF s[2] = <<>> THEN <<>> ELSE Spelled(s[2], 1)
  IN text \o Word(";")

SpelledVar(v) ==
  (IF v.const THEN Word("CONST") ELSE <<>>) \o Id(v.name) \o Word(":")
  \o (IF v.spec.array THEN Word("ARRAY") \o Word("[") \o Figure(v.spec.lower) \o Word("..")
                           \o Figure(v.spec.lower + v.spec.size - 1) \o Word("]") \o Word("OF") ELSE <<>>)
  \o (IF v.spec.type \in TypeWords THEN Word(v.spec.type) ELSE Id(v.spec.type))
  \o (IF v.init = <<"none">> THEN <<>> ELSE Word(":=") \o Spelled(v.init, 1)) \o Word(";")

SpelledNamed(pair) == Id(pair[1]) \o Word(":") \o Word(pair[2]) \o Word(";")
Section(word, pairs) == IF pairs = <<>> THEN <<>> ELSE Word(word) \o Joined(pairs, SpelledNamed) \o Word("END_VAR")

SpelledFunction(f) ==
  Word(IF f.block THEN "FUNCTION_BLOCK" ELSE "FUNCTION") \o Id(f.name)
  \o (IF f.block THEN <<>> ELSE Word(":") \o Word(f.type))
  \o Section("VAR_INPUT", f.params) \o Section("VAR", f.locals)
  \o SpelledBlock(f.body) \o Word(IF f.block THEN "END_FUNCTION_BLOCK" ELSE "END_FUNCTION") \o Word(";")

Text(source) ==
  Joined(source.types, LAMBDA t : Word("TYPE") \o Id(t.name) \o Word(":") \o Word("STRUCT")
            \o Joined(t.fields, SpelledNamed) \o Word("END_STRUCT") \o Word("END_TYPE"))
  \o Word("PROGRAM") \o Id("p") \o Word("VAR") \o Joined(source.vars, SpelledVar) \o Word("END_VAR")
  \o Joined(source.funs, SpelledFunction) \o SpelledBlock(source.body) \o Word("END_PROGRAM") \o Word("EOF")

-----------------------------------------------------------------------------
(* The program of a source, with the heights and owners that a walk along   *)
(* its paths finds: the first path to reach an instruction decides, and     *)
(* Verified asks whether all agree.                                         *)

RECURSIVE Walk(_, _, _)
Walk(p, found, todo) ==
  IF todo = {} THEN found
  ELSE LET a == CHOOSE b \in todo : TRUE
           known == p.code[a].op = "CALL" => p.code[a].n \in DOMAIN p.funs
           there == IF known THEN <<found[a][1] + Rise(p, p.code[a]), found[a][2]>> ELSE found[a]
           next == {b \in Successors(p, a) \cap DOMAIN p.code : found[b][1] = -1}
       IN Walk(p, [b \in DOMAIN found |-> IF b \in next THEN there ELSE found[b]], (todo \ {a}) \cup next)

Walked(p) ==
  LET entry(a) == IF a = 1 THEN <<0, 0>>
                  ELSE LET f == CHOOSE g \in DOMAIN p.funs : p.funs[g].addr = a IN <<p.funs[f].params, f>>
      starts == {1} \cup {p.funs[f].addr : f \in DOMAIN p.funs}
  IN Walk(p, [a \in DOMAIN p.code |-> IF a \in starts THEN entry(a) ELSE <<-1, 0>>], starts)

NoProgram == [code |-> <<>>, types |-> <<>>, init |-> <<>>, inputs |-> {}, funs |-> <<>>,
              blocks |-> <<>>, instances |-> 0]

\* st_logic_compile
Compiled(tree, inputs) == IF tree.ok THEN CompileProgram(tree, inputs) ELSE NoProgram
Annotated(id, p, found) == p @@ [id |-> id, heights |-> [a \in DOMAIN found |-> found[a][1]],
                                 owner |-> [a \in DOMAIN found |-> found[a][2]]]
WalkedProgram(id, p) == Annotated(id, p, IF p.code = <<>> THEN <<>> ELSE Walked(p))
Program(id) == WalkedProgram(id, Compiled(Parse(Text(Sources[id])), Sources[id].inputs))

SourcePrograms == {Program(id) : id \in DOMAIN Sources}

-----------------------------------------------------------------------------
(* Operators on numbers: exact, then fitted to the wider type.              *)

Wider(l, r) == LET t == {l.t, r.t} IN
  CASE "REAL" \in t -> "REAL" [] "DINT" \in t -> "DINT" [] "DWORD" \in t -> "DWORD" [] OTHER -> "INT"
Amount(x) == IF x.t = "REAL" THEN x.v ELSE x.v * RealUnit
Fitted(t, n) == CASE t = "REAL" -> RealOf(n) [] t = "DINT" -> DIntOf(n) [] t = "DWORD" -> DWordOf(n)
                  [] OTHER -> IntOf(n)

Arithmetic(op, l, r) ==
  LET a == Amount(l)
      b == Amount(r)
      exact == CASE op = "+" -> a + b [] op = "-" -> a - b [] op = "*" -> Quot(a * b, RealUnit)
  IN IF "BOOL" \in {l.t, r.t} THEN {}
     ELSE {Fitted(Wider(l, r), IF Wider(l, r) = "REAL" THEN exact ELSE Quot(exact, RealUnit))}

Ordered(op, a, b) == CASE op = "=" -> a = b [] op = "<>" -> a # b [] op = "<" -> a < b
                       [] op = ">" -> a > b [] op = "<=" -> a <= b [] op = ">=" -> a >= b

Meaning(op, l, r) ==
  CASE op \in {"+", "-", "*"} -> Arithmetic(op, l, r)
    [] op \in {"=", "<>", "<", ">", "<=", ">="} -> {Bool(Ordered(op, Amount(l), Amount(r)))}
    [] OTHER -> Binary(IF op = "/" THEN "DIV" ELSE op, l, r)

-----------------------------------------------------------------------------
(* Evaluation.  A state s has vars, by <<name, k>> with k the element or    *)
(* field, 0 of a scalar; frame, the variables of the function that runs,    *)
(* and level, how deep it was called; g, the globals; mem and fb, what      *)
(* blocks and function blocks remember, by place; flow, "go", "exit",       *)
(* "return" without a value, "value" or "error"; fuel, turns of loops left; *)
(* val, the value of the last expression; source and now.                   *)
(* A place p is a path into the tree, from the function it is in.           *)

Running(s) == s.flow = "go"
Err(s) == [s EXCEPT !.flow = "error", !.val = <<>>]
Val(s, x) == [s EXCEPT !.val = x]
OneOf(s, results) == IF results = {} THEN Err(s) ELSE Val(s, CHOOSE x \in results : TRUE)

VarOf(s, name) == s.source.vars[SelectInSeq(s.source.vars, LAMBDA v : v.name = name)]
FieldsOf(source, type) == source.types[SelectInSeq(source.types, LAMBDA t : t.name = type)].fields
FieldNumber(s, name, field) ==
  IF field = "" THEN 0
  ELSE SelectInSeq(FieldsOf(s.source, VarOf(s, name).spec.type), LAMBDA f : f[1] = field) - 1

Current(s, name, k) == IF name \in DOMAIN s.frame THEN s.frame[name]
                    ELSE IF <<name, k>> \in DOMAIN s.vars THEN s.vars[<<name, k>>] ELSE s.g[name]

\* A variable keeps its type, whatever is assigned to it.
Put(s, name, k, x) ==
  LET y == Converted(x, Current(s, name, k).t)
  IN IF name \in DOMAIN s.frame THEN [s EXCEPT !.frame[name] = y]
     ELSE IF <<name, k>> \in DOMAIN s.vars THEN [s EXCEPT !.vars[<<name, k>>] = y]
     ELSE [s EXCEPT !.g[name] = y]

Element(s, name, index) ==
  LET k == index.v - VarOf(s, name).spec.lower IN IF <<name, k>> \in DOMAIN s.vars THEN k ELSE -1

FrameOf(f, args, saved) ==
  LET names == {q[1] : q \in ToSet(f.params \o f.locals)} \cup IF f.block THEN {} ELSE {f.name}
      start(pairs, name) == LET i == SelectInSeq(pairs, LAMBDA q : q[1] = name)
                            IN IF i = 0 THEN Zero(f.type) ELSE Zero(pairs[i][2])
  IN [name \in names |->
        LET i == SelectInSeq(f.params, LAMBDA q : q[1] = name)
        IN IF i # 0 THEN Converted(args[i], f.params[i][2])
           ELSE IF name \in DOMAIN saved THEN saved[name] ELSE start(f.locals, name)]

\* Where s still runs, go on with it; a loop goes on behind an EXIT.
On(s, go(_)) == IF Running(s) THEN go(s) ELSE s
After(s, next(_)) == IF s.flow = "exit" THEN [s EXCEPT !.flow = "go"] ELSE On(s, next)

RECURSIVE Eval(_, _, _), EvalAll(_, _, _), Run(_, _, _), RunAll(_, _, _, _),
          While(_, _, _, _), Repeat(_, _, _, _), For(_, _, _, _, _)

Prepended(x, s) == On(s, LAMBDA t : [t EXCEPT !.val = <<x>> \o @])
EvalAll(es, p, s) ==
  IF es = <<>> THEN Val(s, <<>>)
  ELSE On(Eval(es[1], Append(p, Len(es)), s), LAMBDA a : Prepended(a.val, EvalAll(Tail(es), p, a)))

\* What => binds is taken from the memory the call has left.
Bound(s, f, p, outs) ==
  LET field(m, name) == CASE name \in {"Q", "QU"} -> Bool(m.q) [] name = "QD" -> Bool(m.qd)
                          [] name = "ET" -> DIntOf(m.et) [] name = "CV" -> DIntOf(m.cv)
  IN FoldLeft(LAMBDA t, o : Put(t, o[2], 0, field(t.mem[p], o[1])), s, outs)

EvalBlock(f, outs, p, s) ==
  LET old == IF p \in DOMAIN s.mem THEN s.mem[p] ELSE Fresh
      new == CHOOSE m \in Called(f, old, Arguments(f, s.val), s.now, Cycle) : TRUE
  IN Val(Bound([s EXCEPT !.mem = (p :> new) @@ @], f, p, outs), Result(f, new))

\* A function block keeps its local variables from call to call of this place.
Enter(f, p, s) ==
  [s EXCEPT !.frame = FrameOf(f, s.val, IF p \in DOMAIN s.fb THEN s.fb[p] ELSE <<>>), !.level = @ + 1]
Leave(f, p, s, end) ==
  LET value == IF end.flow = "value" THEN end.val
               ELSE end.frame[IF f.block THEN f.params[Len(f.params)][1] ELSE f.name]
  IN IF end.flow = "error" THEN end
     ELSE [end EXCEPT !.frame = s.frame, !.level = s.level, !.flow = "go", !.val = value,
                      !.fb = IF f.block THEN (p :> [n \in {q[1] : q \in ToSet(f.locals)} |-> end.frame[n]]) @@ @
                             ELSE @]

EvalUser(k, p, s) ==
  IF s.level >= DepthLimit THEN Err(s)
  ELSE Leave(s.source.funs[k], p, s,
             RunAll(s.source.funs[k].body, 1, <<k>>, Enter(s.source.funs[k], p, s)))

EvalCall(f, outs, p, s) ==
  IF f \in Blocks THEN EvalBlock(f, outs, p, s)
  ELSE IF f \in PureFunctions \cup {"SCALE"} THEN OneOf(s, Computed(f, Arguments(f, s.val)))
  ELSE EvalUser(SelectInSeq(s.source.funs, LAMBDA g : g.name = f), p, s)

Eval(e, p, s) ==
  CASE e[1] = "lit"  -> Val(s, [t |-> e[2], v |-> e[3]])
    [] e[1] = "var"  -> Val(s, Current(s, e[2], FieldNumber(s, e[2], e[3])))
    [] e[1] = "at"   -> On(Eval(e[3], Append(p, 1), s), LAMBDA i :
                          IF Element(i, e[2], i.val) < 0 THEN Err(i)
                          ELSE Val(i, Current(i, e[2], Element(i, e[2], i.val))))
    [] e[1] = "un"   -> On(Eval(e[3], Append(p, 1), s), LAMBDA x :
                          OneOf(x, Unary(IF e[2] = "-" THEN "NEG" ELSE "NOT", x.val)))
    [] e[1] = "bin"  -> On(Eval(e[3], Append(p, 1), s), LAMBDA l :
                        On(Eval(e[4], Append(p, 2), l), LAMBDA r : OneOf(r, Meaning(e[2], l.val, r.val))))
    [] e[1] = "call" -> On(EvalAll(e[3], p, s), LAMBDA a : EvalCall(e[2], e[4], p, a))

RunAll(statements, i, p, s) ==
  IF i > Len(statements) THEN s
  ELSE On(Run(statements[i], Append(p, i), s), LAMBDA t : RunAll(statements, i + 1, p, t))

Spent(s) == IF s.fuel = 0 THEN Err(s) ELSE [s EXCEPT !.fuel = @ - 1]
Body(statements, p, s) == On(Spent(s), LAMBDA t : RunAll(statements, 1, Append(p, 9), t))

While(c, body, p, s) ==
  On(Eval(c, Append(p, 1), s), LAMBDA t :
    IF ~IsOn(t.val) THEN t ELSE After(Body(body, p, t), LAMBDA u : While(c, body, p, u)))

Repeat(body, c, p, s) ==
  After(Body(body, p, s), LAMBDA t :
    On(Eval(c, Append(p, 1), t), LAMBDA u : IF IsOn(u.val) THEN u ELSE Repeat(body, c, p, u)))

\* The end of a FOR is computed once; its variable may not leave its type.
Beyond(v, step, to) == IF step > 0 THEN v > to ELSE step < 0 /\ v < to
ForTurn(st, p, to, v, s) ==
  IF Beyond(v, s.val.v, to) THEN s ELSE After(Body(st[6], p, s), LAMBDA t : For(st, p, to, FALSE, t))
Stepped(name, s) ==
  LET v == Current(s, name, 0)
      n == v.v + s.val.v
  IN IF Fitted(v.t, n).v = n THEN [Put(s, name, 0, [v EXCEPT !.v = n]) EXCEPT !.val = s.val] ELSE Err(s)
For(st, p, to, first, s) ==
  On(IF st[5] = <<>> THEN Val(s, IntOf(1)) ELSE Eval(st[5], Append(p, 2), s), LAMBDA t :
  On(IF first THEN t ELSE Stepped(st[2], t), LAMBDA u :
  ForTurn(st, p, to, Current(u, st[2], 0).v, u)))

Chosen(branches, x) == SelectInSeq(branches, LAMBDA b : \E i \in DOMAIN b[1] : x.v = b[1][i])
RunCase(st, p, s, b) == IF b = 0 THEN RunAll(st[4], 1, Append(p, 2), s)
                        ELSE RunAll(st[3][b][2], 1, p \o <<3, b>>, s)

Store(s, name, index, x) == IF Element(s, name, index) < 0 THEN Err(s)
                            ELSE Put(s, name, Element(s, name, index), x)

Run(st, p, s) ==
  LET first(e, go(_)) == On(Eval(e, Append(p, 1), s), go)
  IN CASE st[1] = "set" -> first(st[4], LAMBDA t : Put(t, st[2], FieldNumber(t, st[2], st[3]), t.val))
       [] st[1] = "setat" -> first(st[4], LAMBDA t :
            On(Eval(st[3], Append(p, 2), t), LAMBDA i : Store(i, st[2], i.val, t.val)))
       [] st[1] = "do" -> first(st[2], LAMBDA t : t)
       [] st[1] = "if" -> first(st[2], LAMBDA t :
            IF IsOn(t.val) THEN RunAll(st[3], 1, Append(p, 2), t) ELSE RunAll(st[4], 1, Append(p, 3), t))
       [] st[1] = "case" -> first(st[2], LAMBDA t : RunCase(st, p, t, Chosen(st[3], t.val)))
       [] st[1] = "for" -> first(st[3], LAMBDA t :
            On(Eval(st[4], Append(p, 4), Put(t, st[2], 0, t.val)), LAMBDA to : For(st, p, to.val.v, TRUE, to)))
       [] st[1] = "while" -> While(st[2], st[3], p, s)
       [] st[1] = "repeat" -> Repeat(st[2], st[3], p, s)
       [] st[1] = "exit" -> [s EXCEPT !.flow = "exit"]
       [] st[1] = "return" -> IF st[2] = <<>> THEN [s EXCEPT !.flow = "return"]
                              ELSE first(st[2], LAMBDA t : [t EXCEPT !.flow = "value"])

-----------------------------------------------------------------------------
\* The slots of the variables of a source, in their order: <<key, type, first value>>.
SlotsOf(source) ==
  FlattenSeq([i \in DOMAIN source.vars |->
    LET v == source.vars[i]
        start == IF v.init = <<"none">> THEN Zero(v.spec.type)
                 ELSE Converted([t |-> v.init[2], v |-> v.init[3]], v.spec.type)
        fields == FieldsOf(source, v.spec.type)
    IN IF v.spec.type \in TypeWords
       THEN [k \in 1 .. v.spec.size |-> <<<<v.name, k - 1>>, start>>]
       ELSE [k \in DOMAIN fields |-> <<<<v.name, k - 1>>, Zero(fields[k][2])>>]])

Source == Sources[prog.id]

\* What the machine's slots hold, by the names of the source.
NamedSlots(slots, values) == [key \in {q[1] : q \in ToSet(slots)} |->
                               values[SelectInSeq(slots, LAMBDA q : q[1] = key)]]
AsVars(values) == NamedSlots(SlotsOf(Source), values)

StartValues(slots) == [i \in DOMAIN slots |-> slots[i][2]]

\* A scan of the tree.  kept already holds what the input bindings have written.
\* An error leaves the variables as they were, but not what is outside of them.
Scanned(given, s) ==
  [vars |-> IF s.flow = "error" THEN given ELSE s.vars, g |-> s.g, mem |-> s.mem, fb |-> s.fb,
   failed |-> s.flow = "error"]
ScanFrom(given) ==
  Scanned(given, RunAll(Source.body, 1, <<0>>,
    [vars |-> given, frame |-> <<>>, level |-> 0, g |-> ref.g, mem |-> ref.mem, fb |-> ref.fb,
     flow |-> "go", fuel |-> MaxSteps, val |-> <<>>, source |-> Source, now |-> now]))
WithInputs(inputs) == [key \in DOMAIN ref.vars |-> IF key[1] \in Source.inputs THEN inputs[key] ELSE ref.vars[key]]
Scan == ScanFrom(WithInputs(AsVars(kept)))

LangInit ==
  /\ Init
  /\ ref = [vars |-> AsVars(StartValues(SlotsOf(Source))),
            g |-> [n \in ToSet(GlobalNames) |-> Zero(Globals[SelectInSeq(GlobalNames, LAMBDA m : m = n)])],
            mem |-> <<>>, fb |-> <<>>, failed |-> FALSE]

LangNext ==
  \/ (StartScan \/ Execute \/ Halt \/ TooLong) /\ UNCHANGED ref
  \/ EndScan /\ ref' = Scan

LangSpec == LangInit /\ [][LangNext]_langvars

-----------------------------------------------------------------------------
\* After a scan the variables and the globals are what the text says, and the
\* machine has stopped with an error only where the program itself is at fault:
\* slots, windows, jumps and instances of the compiled code are not mixed up.
RunsAsWritten ==
  phase = "idle" =>
    /\ AsVars(kept) = ref.vars
    /\ \A i \in DOMAIN GlobalNames : globals[i] = ref.g[GlobalNames[i]]
    /\ scans > 0 => (ref.failed <=> err # "")

\* The compiler leaves the operand stack as high on every path to an instruction,
\* and high enough for it, and names only what the program has.
CodeVerified == Verified(prog)
=============================================================================
