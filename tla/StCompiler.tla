----------------------------- MODULE StCompiler -----------------------------
(***************************************************************************)
(* From the syntax tree to the code of the stack machine                   *)
(* (src/src/st_compiler.cpp).                                              *)
(*                                                                         *)
(* A construct compiles to a piece of code that can stand anywhere: jumps  *)
(* hold a distance, calls and blocks no instance yet.  Link makes          *)
(* addresses of the distances and numbers the instances in the order of    *)
(* the code, which is the order the compiler counts them in.  An           *)
(* instruction ERROR stands for st_compiler_error: there is no program.    *)
(*                                                                         *)
(* Left out: STRING, the remote reads and writes, the line map, the limit  *)
(* of 32 unresolved EXITs, letter case in the names of functions.          *)
(***************************************************************************)
EXTENDS StParser
LOCAL INSTANCE SequencesExt

CONSTANTS GlobalNames,  \* the GLOBAL_VAR variables, in their order
          MaxLoops,     \* 8: nesting of loops
          MaxInstances, \* 8 blocks of a kind
          MaxFbs,       \* 16 instances of function blocks
          MaxFuns,      \* 16 functions
          MaxCode       \* 2048: instructions

I(op, s, n, m) == <<[op |-> op, s |-> s, n |-> n, m |-> m, k |-> 0]>>
Op(op) == I(op, "", 0, 0)
PushInt(n) == I("PUSH", "INT", n, 0)
Error == Op("ERROR")

-----------------------------------------------------------------------------
(* The symbol table: slots, of which the first count are in use.  Leaving a *)
(* function resets the count; a slot keeps its marks when it gets a new     *)
(* symbol: param and local are the positions in the frame, 0 for none.      *)

Unused == [name |-> "", type |-> "BOOL", param |-> 0, local |-> 0, const |-> FALSE,
           array |-> FALSE, lower |-> 0, size |-> 1, struct |-> <<>>]
NoSymbols == [count |-> 0, full |-> FALSE, at |-> [i \in 1 .. MaxVars |-> Unused]]

LookupIn(tab, name) == SelectInSubSeq(tab.at, 1, tab.count, LAMBDA s : s.name = name)

\* Elements and fields behind the first have no name of their own.
AddSymbol(tab, name, type) ==
  IF tab.count >= MaxVars \/ (name # "" /\ LookupIn(tab, name) # 0) THEN [tab EXCEPT !.full = TRUE]
  ELSE [tab EXCEPT !.count = @ + 1,
                   !.at[tab.count + 1] = [@ EXCEPT !.name = name, !.type = type]]

AddAll(tab, pairs) == FoldLeft(LAMBDA t, p : AddSymbol(t, p[1], p[2]), tab, pairs)

\* The mark of the slots from first on: their position in the frame.
Marked(tab, first, last, mark(_, _)) ==
  [tab EXCEPT !.at = [i \in DOMAIN @ |-> IF i \in first .. last THEN mark(@[i], i - first + 1) ELSE @[i]]]

\* The first symbol of a declaration carries what is known of the whole.
Declare(types, tab, v) ==
  LET struct == v.spec.type \notin TypeWords
      k == SelectInSeq(types, LAMBDA t : t.name = v.spec.type)
      fields == IF struct THEN types[k].fields ELSE <<>>
      hidden(type) == <<"", type>>
      slots == IF struct THEN <<<<v.name, fields[1][2]>>>> \o [f \in 1 .. Len(fields)-1 |-> hidden(fields[f+1][2])]
               ELSE <<<<v.name, v.spec.type>>>> \o [e \in 1 .. v.spec.size-1 |-> hidden(v.spec.type)]
      added == AddAll(tab, slots)
  IN IF struct /\ k = 0 THEN [tab EXCEPT !.full = TRUE]
     ELSE IF added.full THEN added
     ELSE [added EXCEPT !.at[tab.count + 1] =
             [@ EXCEPT !.const = v.const, !.array = v.spec.array, !.lower = v.spec.lower,
                       !.size = v.spec.size, !.struct = [f \in DOMAIN fields |-> fields[f][1]]]]

-----------------------------------------------------------------------------
(* A context x: tab, funs (the functions seen so far), inside a function or *)
(* not, and the depth of loops.                                             *)

\* <<"slot", n>>, <<"global", n>> or <<"none", 0>>
Resolve(x, name, field) ==
  LET i == LookupIn(x.tab, name)
      s == x.tab.at[i]
      g == SelectInSeq(GlobalNames, LAMBDA n : n = name)
      f == SelectInSeq(s.struct, LAMBDA n : n = field)
  IN CASE i # 0 /\ field = "" -> IF s.struct = <<>> THEN <<"slot", i>> ELSE <<"none", 0>>
       [] i # 0 /\ field # "" -> IF f # 0 THEN <<"slot", i + f - 1>> ELSE <<"none", 0>>
       [] i = 0 /\ field = "" /\ g # 0 -> <<"global", g>>
       [] OTHER -> <<"none", 0>>

\* A slot is loaded as a parameter first, stored to as a local first.
LoadSlot(x, i) ==
  LET s == x.tab.at[i] IN
  IF s.param # 0 THEN I("LOAD_PARAM", "", s.param, 0)
  ELSE IF s.local # 0 THEN I("LOAD_LOCAL", "", s.local, 0)
  ELSE I("LOAD_VAR", "", i, 0)
StoreSlot(x, i) ==
  LET s == x.tab.at[i] IN
  IF s.local # 0 THEN I("STORE_LOCAL", "", s.local, 0)
  ELSE IF s.param # 0 THEN I("STORE_PARAM", "", s.param, 0)
  ELSE I("STORE_VAR", "", i, 0)

ArrayOp(op, x, i) == <<[op |-> op, s |-> "", n |-> i, m |-> x.tab.at[i].size, k |-> x.tab.at[i].lower]>>

BinaryName(token) ==
  CASE token = "+" -> "ADD" [] token = "-" -> "SUB" [] token = "*" -> "MUL" [] token = "/" -> "DIV"
    [] token = "=" -> "EQ" [] token = "<>" -> "NE" [] token = "<" -> "LT" [] token = ">" -> "GT"
    [] token = "<=" -> "LE" [] token = ">=" -> "GE" [] OTHER -> token

\* A literal wider than INT, and a TIME, become DWORDs.
Literal(type, n) == IF type \in {"DINT", "TIME"} THEN I("PUSH", "DWORD", n % 2^DIntBits, 0)
                    ELSE I("PUSH", type, n, 0)

RECURSIVE Compile(_, _), CompileAll(_, _), CompileStatement(_, _), Cases(_, _, _)

CompileAll(es, x) == FlattenSeq([i \in DOMAIN es |-> IF es[i] = <<>> THEN Error ELSE Compile(es[i], x)])

\* What => binds: Q is the result, another field is read from the block.
OutputField(f, field) ==
  IF f \in Timers THEN "ET" ELSE IF field = 1 THEN "QD" ELSE "CV"

Bindings(f, outs, x) ==
  FlattenSeq([i \in DOMAIN outs |->
    LET slot == LookupIn(x.tab, outs[i][2])
    IN IF slot = 0 \/ x.tab.at[slot].const THEN Error
       ELSE (IF outs[i][1] = 0 THEN Op("DUP") ELSE I("LOAD_FB_FIELD", OutputField(f, outs[i][1]), 0, 0))
            \o I("STORE_VAR", "", slot, 0)])

CompileCall(f, args, outs, x) ==
  LET user == SelectInSeq(x.funs, LAMBDA g : g.name = f)
      builtin == f \in Blocks \cup PureFunctions \cup {"SCALE"}
  IN IF builtin /\ Len(args) = ArgCount(f)
     THEN CompileAll(args, x) \o I("BUILTIN", f, 0, 0) \o Bindings(f, outs, x)
     ELSE IF ~builtin /\ user # 0 /\ Len(args) = x.funs[user].params
     THEN CompileAll(args, x) \o I("CALL", IF x.funs[user].block THEN "FB" ELSE "", user, 0)
     ELSE Error

Compile(e, x) ==
  CASE e[1] = "lit" -> Literal(e[2], e[3])
    [] e[1] = "var" ->
         LET r == Resolve(x, e[2], e[3])
         IN CASE r[1] = "slot" -> LoadSlot(x, r[2])
              [] r[1] = "global" -> I("LOAD_GLOBAL", "", r[2], 0)
              [] OTHER -> Error
    [] e[1] = "bin" -> Compile(e[3], x) \o Compile(e[4], x) \o I("BIN", BinaryName(e[2]), 0, 0)
    [] e[1] = "un" -> Compile(e[3], x) \o I("UN", IF e[2] = "-" THEN "NEG" ELSE "NOT", 0, 0)
    [] e[1] = "at" ->
         LET i == LookupIn(x.tab, e[2])
         IN IF i # 0 /\ x.tab.at[i].array THEN Compile(e[3], x) \o ArrayOp("LOAD_ARRAY", x, i) ELSE Error
    [] e[1] = "call" -> CompileCall(e[2], e[3], e[4], x)

-----------------------------------------------------------------------------
\* Statements.  A jump holds the distance to its target.

\* The value first, the target is resolved after it.
Assign(name, field, e, x) ==
  LET r == Resolve(x, name, field)
  IN Compile(e, x) \o
     CASE r[1] = "global" -> I("STORE_GLOBAL", "", r[2], 0)
       [] r[1] = "slot" /\ ~x.tab.at[r[2]].const -> StoreSlot(x, r[2])
       [] OTHER -> Error

AssignElement(name, index, e, x) ==
  LET i == LookupIn(x.tab, name)
  IN IF i = 0 \/ ~x.tab.at[i].array THEN Error
     ELSE Compile(e, x) \o Compile(index, x) \o ArrayOp("STORE_ARRAY", x, i)

Block(statements, x) == FlattenSeq([i \in DOMAIN statements |-> CompileStatement(statements[i], x)])

IfCode(c, then, else) ==
  c \o IF else = <<>> THEN I("JMP_IF_FALSE", "", Len(then) + 1, 0) \o then
       ELSE I("JMP_IF_FALSE", "", Len(then) + 2, 0) \o then \o I("JMP", "", Len(else) + 1, 0) \o else
CompileIf(c, then, else, x) == IfCode(Compile(c, x), Block(then, x), Block(else, x))

\* The tests of one branch: each leaves the value on the stack, the last one
\* jumps over the branch.
Tests(values, skip) ==
  FlattenSeq([v \in DOMAIN values |->
    Op("DUP") \o PushInt(Signed(values[v], IntBits)) \o I("BIN", "EQ", 0, 0) \o
    IF v < Len(values) THEN I("JMP_IF_TRUE", "", 4 * (Len(values) - v) + 1, 0)
    ELSE I("JMP_IF_FALSE", "", skip, 0)])

\* A branch, with the jump behind all that follows it.
BranchCode(values, body, behind) ==
  Tests(values, Len(body) + 3) \o Op("POP") \o body \o I("JMP", "", Len(behind) + 1, 0) \o behind

Cases(branches, rest, x) ==
  IF branches = <<>> THEN rest
  ELSE BranchCode(branches[1][1], Block(branches[1][2], x), Cases(Tail(branches), rest, x))

\* Mutated CompileCase: the value stays on the stack in the ELSE part.
CompileCaseKeeps(e, branches, else, x) == Compile(e, x) \o Cases(branches, Block(else, x), x)

CompileCase(e, branches, else, x) ==
  IF Len(branches) > 16 THEN Error
  ELSE Compile(e, x) \o Cases(branches, Op("POP") \o Block(else, x), x)

\* What stands in a loop is one level deeper; its EXITs jump to the end of the
\* loop's code, or last instructions before it.
Deeper(x) == [x EXCEPT !.loops = @ + 1]
Loop(x, last, code) ==
  IF x.loops >= MaxLoops THEN Error
  ELSE [i \in DOMAIN code |-> IF code[i].s = "EXIT" THEN [code[i] EXCEPT !.s = "", !.n = Len(code) + 1 - last - i]
                              ELSE code[i]]

\* The end value stays on the stack; the loop ends when (end - v) * step < 0.
ForCode(from, to, step, body, load, store) ==
  LET test == Op("DUP") \o load \o I("BIN", "SUB", 0, 0) \o step \o I("BIN", "MUL", 0, 0)
              \o PushInt(0) \o I("BIN", "LT", 0, 0)
      turn == body \o load \o step \o I("BIN", "ADD_CHECKED", 0, 0) \o store
  IN from \o store \o to \o test \o I("JMP_IF_TRUE", "", Len(turn) + 2, 0) \o turn
     \o I("JMP", "", -(Len(test) + 1 + Len(turn)), 0) \o Op("POP")

CompileFor(name, from, to, by, body, x) ==
  LET slot == LookupIn(x.tab, name)
  IN IF slot = 0 \/ x.tab.at[slot].const THEN Error
     ELSE Loop(x, 1, ForCode(Compile(from, x), Compile(to, x), IF by = <<>> THEN PushInt(1) ELSE Compile(by, x),
                             Block(body, Deeper(x)), LoadSlot(x, slot), StoreSlot(x, slot)))

WhileCode(c, body) == c \o I("JMP_IF_FALSE", "", Len(body) + 2, 0) \o body
                      \o I("JMP", "", -(Len(c) + 1 + Len(body)), 0)
CompileWhile(c, body, x) == Loop(x, 0, WhileCode(Compile(c, x), Block(body, Deeper(x))))

RepeatCode(body, c) == body \o c \o I("JMP_IF_FALSE", "", -(Len(body) + Len(c)), 0)
CompileRepeat(body, c, x) == Loop(x, 0, RepeatCode(Block(body, Deeper(x)), Compile(c, x)))

CompileStatement(s, x) ==
  CASE s[1] = "set"    -> Assign(s[2], s[3], s[4], x)
    [] s[1] = "setat"  -> AssignElement(s[2], s[3], s[4], x)
    [] s[1] = "do"     -> Compile(s[2], x) \o Op("POP")
    [] s[1] = "if"     -> CompileIf(s[2], s[3], s[4], x)
    [] s[1] = "case"   -> CompileCase(s[2], s[3], s[4], x)
    [] s[1] = "for"    -> CompileFor(s[2], s[3], s[4], s[5], s[6], x)
    [] s[1] = "while"  -> CompileWhile(s[2], s[3], x)
    [] s[1] = "repeat" -> CompileRepeat(s[2], s[3], x)
    [] s[1] = "exit"   -> IF x.loops = 0 THEN Error ELSE I("JMP", "EXIT", 0, 0)
    [] s[1] = "return" -> IF ~x.inside THEN Error
                          ELSE (IF s[2] = <<>> THEN <<>> ELSE Compile(s[2], x)) \o Op("RETURN")

-----------------------------------------------------------------------------
\* Functions stand in front of the program, which jumps over each of them.

\* The symbol table inside of f: the parameters, then the local variables, of
\* which a FUNCTION has one more for its result.
FrameTable(tab, f) ==
  LET params == AddAll(tab, f.params)
      named == Marked(params, tab.count + 1, params.count, LAMBDA s, i : [s EXCEPT !.param = i])
      withLocals == AddAll(named, f.locals \o IF f.block THEN <<>> ELSE <<<<f.name, f.type>>>>)
  IN Marked(withLocals, params.count + 1, withLocals.count, LAMBDA s, i : [s EXCEPT !.local = i])

\* funs has the function already: it may call itself.
WithFunction(state, f, tab, funs) ==
  LET x == [tab |-> tab, funs |-> funs, inside |-> TRUE, loops |-> 0]
      jump(code) == I("JMP", "", Len(code) + 1, 0) \o code
      duplicate == \E i \in DOMAIN state.funs : state.funs[i].name = f.name
  IN [tab |-> [tab EXCEPT !.count = state.tab.count], funs |-> funs,
      code |-> state.code
               \o jump(Block(f.body, x) \o (IF f.block THEN <<>> ELSE LoadSlot(x, tab.count)) \o Op("RETURN"))
               \o IF duplicate \/ Len(state.funs) >= MaxFuns THEN Error ELSE <<>>]

CompileFunction(state, f) ==
  LET tab == FrameTable(state.tab, f)
  IN WithFunction(state, f, tab,
       Append(state.funs, [name |-> f.name, block |-> f.block, params |-> Len(f.params),
                           locals |-> tab.count - state.tab.count - Len(f.params),
                           addr |-> Len(state.code) + 2]))

\* What a variable starts from: the bits of the literal under its own type; an
\* INT as a REAL is next to nothing.  (No program here gives a REAL to another type.)
InitValue(type, init) ==
  [t |-> type, v |-> IF init[1] = "none" \/ (type = "REAL" /\ init[2] # "REAL") THEN 0
                     ELSE IF type = "BOOL" THEN IF init[3] = 0 THEN 0 ELSE 1
                     ELSE IF type = "INT" THEN Signed(init[3], IntBits) ELSE init[3]]

IsBlock(instr) == instr.op = "BUILTIN" /\ instr.s \in Blocks
IsFb(instr) == instr.op = "CALL" /\ instr.s = "FB"

Linked(code) ==
  [a \in DOMAIN code |->
    CASE code[a].op \in {"JMP", "JMP_IF_TRUE", "JMP_IF_FALSE"} -> [code[a] EXCEPT !.n = @ + a]
      [] IsFb(code[a]) -> [code[a] EXCEPT !.m = Cardinality({j \in 1 .. a : IsFb(code[j])})]
      [] IsBlock(code[a]) \/ code[a].op = "LOAD_FB_FIELD" ->
           [code[a] EXCEPT !.m = Cardinality({j \in 1 .. a : IsBlock(code[j])})]
      [] OTHER -> code[a]]

\* Eight instances for each kind of memory.
Memories == {{"R_TRIG", "F_TRIG"}, Timers, Counters, {"SR", "RS"}, {"HYSTERESIS"}, {"BLINK"}, {"FILTER"}}
Fits(code) ==
  /\ Len(code) < MaxCode /\ \A i \in DOMAIN code : code[i].op # "ERROR"
  /\ Cardinality({i \in DOMAIN code : IsFb(code[i])}) <= MaxFbs
  /\ \A kinds \in Memories :
       Cardinality({i \in DOMAIN code : IsBlock(code[i]) /\ code[i].s \in kinds}) <= MaxInstances

FunctionsOf(p, declared) ==
  FoldLeft(CompileFunction, [tab |-> declared, funs |-> <<>>, code |-> <<>>], p.funs)

\* The program itself, behind its functions.
CodeOf(p, funs) ==
  Linked(funs.code \o Block(p.body, [tab |-> funs.tab, funs |-> funs.funs, inside |-> FALSE, loops |-> 0])
         \o Op("HALT"))

Packed(p, bound, declared, funs, code) ==
  LET type(i) == declared.at[i].type
      init(i) == LET v == SelectInSeq(p.vars, LAMBDA w : w.name = declared.at[i].name /\ ~w.spec.array)
                 IN InitValue(type(i), IF v = 0 THEN <<"none">> ELSE p.vars[v].init)
      blockCalls == SelectSeq(code, IsBlock)
  IN [code |-> IF ~declared.full /\ ~funs.tab.full /\ Fits(code) THEN code ELSE <<>>,
      types |-> [i \in 1 .. declared.count |-> type(i)],
      init |-> [i \in 1 .. declared.count |-> init(i)],
      inputs |-> {i \in 1 .. declared.count : declared.at[i].name \in bound},
      funs |-> [k \in DOMAIN funs.funs |-> [addr |-> funs.funs[k].addr, params |-> funs.funs[k].params,
                                            locals |-> funs.funs[k].locals]],
      blocks |-> [i \in DOMAIN blockCalls |-> blockCalls[i].s],
      instances |-> Cardinality({i \in DOMAIN code : IsFb(code[i])})]

\* st_compiler_compile of a tree without errors; bound are the variables that
\* input bindings write.
Finished(p, bound, declared, funs) == Packed(p, bound, declared, funs, CodeOf(p, funs))
WithDeclared(p, bound, declared) == Finished(p, bound, declared, FunctionsOf(p, declared))
CompileProgram(p, bound) ==
  WithDeclared(p, bound, FoldLeft(LAMBDA t, v : Declare(p.types, t, v), NoSymbols, p.vars))
=============================================================================
