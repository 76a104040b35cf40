------------------------------ MODULE StParser ------------------------------
(***************************************************************************)
(* The recursive descent parser of Structured Text                         *)
(* (src/src/st_parser.cpp).  The text is a sequence of tokens              *)
(* <<kind, value>> that ends with EOF; kinds are "id", "int", "real",      *)
(* "time" and, for keywords and symbols, the word itself.                  *)
(*                                                                         *)
(* A parse function takes the remaining tokens and gives [t, rest]: the    *)
(* tree and what remains.  Every parser_error makes the whole parse fail,  *)
(* so an error is a result without remaining tokens.  d counts nesting.    *)
(*                                                                         *)
(* Left out: STRING, and the remote writes MB_WRITE_x(..) := value, whose  *)
(* effect MbAsync and MbxPool have.                                        *)
(***************************************************************************)
EXTENDS StBlocks
LOCAL INSTANCE SequencesExt

CONSTANTS MaxDepth,   \* 32: nesting of expressions and statement lists
          MaxVars     \* 64: slots of a program

Got(t, ts) == [t |-> t, rest |-> ts]
Failed == Got(<<>>, <<>>)
Bad(r) == r.rest = <<>>
Kind(ts) == IF ts = <<>> THEN "" ELSE ts[1][1]
Value(ts) == ts[1][2]
Peek(ts) == IF Len(ts) < 2 THEN "" ELSE ts[2][1]
Skip(ts, k) == IF Kind(ts) = k THEN Tail(ts) ELSE ts
Want(ts, k) == IF Kind(ts) = k THEN Tail(ts) ELSE <<>>
If(cond, r) == IF cond THEN r ELSE Failed

\* Where r succeeded, go on with its tree and the tokens behind it.
Then(r, go(_, _)) == IF Bad(r) THEN Failed ELSE go(r.t, r.rest)

TypeWords == {"BOOL", "INT", "DINT", "DWORD", "REAL", "TIME"}

-----------------------------------------------------------------------------
\* Expressions, from the loosest operators to the tightest; all go to the left.

Levels == <<{"OR", "XOR"}, {"AND"}, {"=", "<>", "<", ">", "<=", ">="}, {"+", "-"},
            {"*", "/", "MOD", "SHL", "SHR"}>>

RECURSIVE Expr(_, _), Level(_, _, _), Chain(_, _, _), Prefixed(_, _), Primary(_, _),
          Positional(_, _, _), Named(_, _, _, _, _)

Expr(ts, d) == If(d < MaxDepth, Level(1, ts, d + 1))

Level(i, ts, d) == IF i > Len(Levels) THEN Prefixed(ts, d) ELSE Chain(i, Level(i + 1, ts, d), d)

Chain(i, left, d) ==
  IF Kind(left.rest) \notin Levels[i] THEN left
  ELSE Then(Level(i + 1, Tail(left.rest), d), LAMBDA right, rest :
         Chain(i, Got(<<"bin", Kind(left.rest), left.t, right>>, rest), d))

Prefixed(ts, d) ==
  If(d < MaxDepth, IF Kind(ts) \in {"-", "NOT"}
                   THEN Then(Prefixed(Tail(ts), d + 1), LAMBDA x, rest : Got(<<"un", Kind(ts), x>>, rest))
                   ELSE Primary(ts, d))

\* The parameters a call may name, by argument position, and the outputs by field.
Inputs(f) == CASE f \in Timers -> <<"IN", "PT">>
               [] f = "CTU" -> <<"CU", "RESET", "PV">> [] f = "CTD" -> <<"CD", "LOAD", "PV">>
               [] f = "CTUD" -> <<"CU", "CD", "RESET", "LOAD", "PV">>
Outputs(f) == CASE f \in Timers -> <<"Q", "ET">> [] f \in {"CTU", "CTD"} -> <<"Q", "CV">>
                [] f = "CTUD" -> <<"QU", "QD", "CV">>
Position(names, name) == SelectInSeq(names, LAMBDA x : x = name)

NoArgs == [i \in 1 .. 8 |-> <<>>]
\* Arguments up to the last one given; one before it may be missing.
Given(args) == SubSeq(args, 1, SelectLastInSeq(args, LAMBDA x : x # <<>>))

\* <<arguments, outputs>>, behind the opening parenthesis, with the closing one.
CallArgs(f, ts, d) ==
  Then(IF Kind(ts) = ")" THEN Got(<<<<>>, <<>>>>, ts)
       ELSE IF Kind(ts) = "id" /\ Peek(ts) \in {":=", "=>"}
       THEN If(f \in Timers \cup Counters, Named(f, ts, NoArgs, <<>>, d))
       ELSE Positional(ts, <<>>, d),
       LAMBDA t, rest : Got(t, Want(rest, ")")))

Positional(ts, args, d) ==
  Then(Expr(ts, d), LAMBDA x, rest :
    IF Kind(rest) = "," THEN Positional(Tail(rest), Append(args, x), d)
    ELSE Got(<<Append(args, x), <<>>>>, rest))

Named(f, ts, args, outs, d) ==
  IF Kind(ts) \in {")", "EOF", ""} THEN Got(<<Given(args), outs>>, ts)
  ELSE IF Kind(ts) # "id" THEN Failed
  ELSE CASE Peek(ts) = ":=" ->
              Then(Expr(SubSeq(ts, 3, Len(ts)), d), LAMBDA x, rest :
                If(Position(Inputs(f), Value(ts)) # 0 /\ args[Position(Inputs(f), Value(ts))] = <<>>,
                   Named(f, Skip(rest, ","), [args EXCEPT ![Position(Inputs(f), Value(ts))] = x], outs, d)))
         [] Peek(ts) = "=>" ->
              If(/\ Position(Outputs(f), Value(ts)) # 0 /\ Len(outs) < 4
                 /\ Kind(SubSeq(ts, 3, Len(ts))) = "id",
                 Named(f, Skip(SubSeq(ts, 4, Len(ts)), ","), args,
                       Append(outs, <<Position(Outputs(f), Value(ts)) - 1, ts[3][2]>>), d))
         [] OTHER -> Failed

Primary(ts, d) ==
  LET k == Kind(ts)
      v == Value(ts)
  IN CASE k \in {"TRUE", "FALSE"} -> Got(<<"lit", "BOOL", IF k = "TRUE" THEN 1 ELSE 0>>, Tail(ts))
       [] k = "int"  -> If(v <= DIntMax,
                           Got(<<"lit", IF v > IntMax THEN "DINT" ELSE "INT", v>>, Tail(ts)))
       [] k = "real" -> Got(<<"lit", "REAL", v>>, Tail(ts))
       [] k = "time" -> Got(<<"lit", "TIME", Signed(v, DIntBits)>>, Tail(ts))
       [] k = "("    -> Then(Expr(Tail(ts), d), LAMBDA x, rest : Got(x, Want(rest, ")")))
       [] k = "id" /\ Peek(ts) = "(" ->
            Then(CallArgs(v, Tail(Tail(ts)), d), LAMBDA a, rest :
              If(Len(a[1]) <= 8, Got(<<"call", v, a[1], a[2]>>, rest)))
       [] k = "id" /\ Peek(ts) = "[" ->
            Then(Expr(Tail(Tail(ts)), d), LAMBDA x, rest : Got(<<"at", v, x>>, Want(rest, "]")))
       [] k = "id" /\ Peek(ts) = "." ->
            If(Len(ts) > 2 /\ ts[3][1] = "id", Got(<<"var", v, ts[3][2]>>, SubSeq(ts, 4, Len(ts))))
       [] k = "id" -> Got(<<"var", v, "">>, Tail(ts))
       [] OTHER -> Failed

-----------------------------------------------------------------------------
\* Statements.  A semicolon is optional behind each of them.

RECURSIVE Statement(_, _), Statements(_, _), List(_, _, _, _), Else(_, _), Past(_),
          Labels(_, _), Branches(_, _, _)

Semicolon(t, ts) == Got(t, Skip(ts, ";"))

\* := and a value, which ends the statement t.
SetTo(t, ts, d) == Then(Expr(Want(ts, ":="), d), LAMBDA x, rest : Semicolon(Append(t, x), rest))

Assignment(ts, d) ==
  LET name == Value(ts)
      next == Tail(ts)
  IN CASE Kind(next) = "." -> If(Peek(next) = "id", SetTo(<<"set", name, ts[3][2]>>, SubSeq(ts, 4, Len(ts)), d))
       [] Kind(next) = "[" -> Then(Expr(Tail(next), d), LAMBDA i, rest :
                                SetTo(<<"setat", name, i>>, Want(rest, "]"), d))
       [] Kind(next) = "(" ->
            Then(CallArgs(name, Tail(next), d), LAMBDA a, rest :
              If(Kind(rest) # ":=",
                 Semicolon(<<"do", <<"call", name, SubSeq(a[1], 1, Smaller(8, Len(a[1]))), a[2]>>>>, rest)))
       [] OTHER -> SetTo(<<"set", name, "">>, next, d)

\* Behind IF or ELSIF: the parts up to END_IF.
Conditional(ts, d) ==
  Then(Expr(Tail(ts), d), LAMBDA c, r1 :
  Then(Statements(Want(r1, "THEN"), d), LAMBDA b, r2 :
  Then(Else(r2, d), LAMBDA e, r3 : Got(<<"if", c, b, e>>, r3))))

IfStatement(ts, d) == Then(Conditional(ts, d), LAMBDA t, rest : Semicolon(t, Want(rest, "END_IF")))

\* ELSIF is an IF alone in the ELSE part.
Else(ts, d) ==
  CASE Kind(ts) = "ELSIF" -> Then(Conditional(ts, d), LAMBDA t, rest : Got(<<t>>, rest))
    [] Kind(ts) = "ELSE" -> Statements(Tail(ts), d)
    [] OTHER -> Got(<<>>, ts)

Labels(ts, values) ==
  LET at == Skip(ts, "-")
      value == IF Kind(ts) = "-" THEN -Value(at) ELSE Value(at)
  IN If(Kind(at) = "int" /\ Len(values) < 8,
        IF Peek(at) = "," THEN Labels(Tail(Tail(at)), Append(values, value))
        ELSE Got(Append(values, value), Tail(at)))

\* What ends the statements of a branch.
NextLabel(ts) == <<Kind(ts), Peek(ts)>> \in {<<"int", ":">>, <<"-", "int">>}

Branches(ts, branches, d) ==
  IF Kind(ts) \in {"END_CASE", "ELSE", "EOF", ""} \/ Len(branches) >= 16 THEN Got(branches, ts)
  ELSE Then(Labels(ts, <<>>), LAMBDA values, r1 :
       Then(If(d < MaxDepth, List("CASE", Want(r1, ":"), <<>>, d + 1)), LAMBDA body, r2 :
       Branches(r2, Append(branches, <<values, body>>), d)))

CaseStatement(ts, d) ==
  Then(Expr(Tail(ts), d), LAMBDA x, r1 :
  Then(Branches(Want(r1, "OF"), <<>>, d), LAMBDA b, r2 :
  Then(IF Kind(r2) = "ELSE" THEN Statements(Skip(Tail(r2), ":"), d) ELSE Got(<<>>, r2), LAMBDA e, r3 :
  Semicolon(<<"case", x, b, e>>, Want(r3, "END_CASE")))))

ForStatement(ts, d) ==
  LET name == Want(Tail(ts), "id") IN
  Then(Expr(Want(name, ":="), d), LAMBDA from, r1 :
  Then(Expr(Want(r1, "TO"), d), LAMBDA to, r2 :
  Then(IF Kind(r2) = "BY" THEN Expr(Tail(r2), d) ELSE Got(<<>>, r2), LAMBDA by, r3 :
  Then(Statements(Want(r3, "DO"), d), LAMBDA b, r4 :
  Semicolon(<<"for", Value(Tail(ts)), from, to, by, b>>, Want(r4, "END_FOR"))))))

WhileStatement(ts, d) ==
  Then(Expr(Tail(ts), d), LAMBDA c, r1 :
  Then(Statements(Want(r1, "DO"), d), LAMBDA b, r2 :
  Semicolon(<<"while", c, b>>, Want(r2, "END_WHILE"))))

RepeatStatement(ts, d) ==
  Then(Statements(Tail(ts), d), LAMBDA b, r1 :
  Then(Expr(Want(r1, "UNTIL"), d), LAMBDA c, r2 :
  Semicolon(<<"repeat", b, c>>, Skip(r2, "END_REPEAT"))))

ReturnStatement(ts, d) ==
  Then(IF Peek(ts) \in {";", "END_FUNCTION", "END_FUNCTION_BLOCK", "EOF"} THEN Got(<<>>, Tail(ts))
       ELSE Expr(Tail(ts), d),
       LAMBDA x, rest : Semicolon(<<"return", x>>, rest))

Statement(ts, d) ==
  CASE Kind(ts) = "IF"     -> IfStatement(ts, d)
    [] Kind(ts) = "CASE"   -> CaseStatement(ts, d)
    [] Kind(ts) = "FOR"    -> ForStatement(ts, d)
    [] Kind(ts) = "WHILE"  -> WhileStatement(ts, d)
    [] Kind(ts) = "REPEAT" -> RepeatStatement(ts, d)
    [] Kind(ts) = "id"     -> Assignment(ts, d)
    [] Kind(ts) = "EXIT"   -> Semicolon(<<"exit">>, Tail(ts))
    [] Kind(ts) = "RETURN" -> ReturnStatement(ts, d)

Beginnings == {"IF", "CASE", "FOR", "WHILE", "REPEAT", "id", "EXIT", "RETURN"}
\* Words of statements that begin none are errors, where they do not end a list.
Misplaced == {"THEN", "ELSIF", "ELSE", "END_IF", "END_CASE", "END_FOR", "END_WHILE", "END_REPEAT",
              "DO", "TO", "BY", "UNTIL"}
Ends(list) == {"EOF", "", "END_CASE", "ELSE"} \cup
  IF list = "CASE" THEN {} ELSE {"END_IF", "ELSIF", "THEN", "END_FOR", "END_WHILE", "END_REPEAT",
    "UNTIL", "END_PROGRAM", "END", "END_FUNCTION", "END_FUNCTION_BLOCK"}

\* Behind the next semicolon.
Past(ts) == IF Kind(ts) \in {";", "EOF"} THEN Skip(ts, ";") ELSE Past(Tail(ts))

\* Anything that begins no statement is skipped up to the next semicolon.
List(list, ts, acc, d) ==
  CASE Kind(ts) \in Ends(list) \/ (list = "CASE" /\ NextLabel(ts)) -> Got(acc, ts)
    [] OTHER -> IF Kind(ts) \in Beginnings
                THEN Then(Statement(ts, d), LAMBDA s, rest : List(list, rest, Append(acc, s), d))
                ELSE If(Kind(ts) \notin Misplaced, List(list, Past(ts), acc, d))

Statements(ts, d) == If(d < MaxDepth, List("", ts, <<>>, d + 1))

-----------------------------------------------------------------------------
\* Declarations.

RECURSIVE Fields(_, _), TypeDecls(_, _), VarBlocks(_, _), VarBlock(_, _, _),
          FunVars(_, _), FunVarBlock(_, _, _), Functions(_, _)

\* TYPE name : STRUCT field : type; ... END_STRUCT END_TYPE
Fields(ts, fields) ==
  IF Kind(ts) \in {"END_STRUCT", "EOF", ""} THEN Got(fields, ts)
  ELSE LET type == Want(Want(ts, "id"), ":")
       IN If(Kind(type) \in TypeWords,
             Fields(Want(Tail(type), ";"), Append(fields, <<Value(ts), Kind(type)>>)))

TypeDecls(ts, types) ==
  IF Kind(ts) # "TYPE" THEN Got(types, ts)
  ELSE Then(Fields(Want(Want(Want(Tail(ts), "id"), ":"), "STRUCT"), <<>>), LAMBDA fields, rest :
         If(fields # <<>> /\ \A i \in DOMAIN types : types[i].name # Value(Tail(ts)),
            TypeDecls(Want(Want(rest, "END_STRUCT"), "END_TYPE"),
                      Append(types, [name |-> Value(Tail(ts)), fields |-> fields]))))

\* ARRAY [lower .. upper] OF type; the size is computed in eight bits.
ArrayType(ts) ==
  LET low == Want(ts, "[")
      high == Want(Want(low, "int"), "..")
      type == Want(Want(Want(high, "int"), "]"), "OF")
  IN If(/\ Kind(type) \in TypeWords /\ Value(high) >= Value(low)
        /\ (Value(high) - Value(low) + 1) % 256 <= 24,
        Got([type |-> Kind(type), lower |-> Value(low), array |-> TRUE,
             size |-> (Value(high) - Value(low) + 1) % 256], Tail(type)))

VarType(ts) ==
  CASE Kind(ts) = "ARRAY" -> ArrayType(Tail(ts))
    [] Kind(ts) \in TypeWords \cup {"id"} ->
         Got([type |-> IF Kind(ts) = "id" THEN Value(ts) ELSE Kind(ts),
              lower |-> 0, array |-> FALSE, size |-> 1], Tail(ts))
    [] OTHER -> Failed

\* name : type EXPORT := value, of which only a literal counts.
VarDecl(name, const, section, vars) ==
  Then(VarType(Want(Want(name, "id"), ":")), LAMBDA spec, r1 :
  Then(IF Kind(Skip(r1, "EXPORT")) = ":=" THEN Expr(Tail(Skip(r1, "EXPORT")), 0)
       ELSE Got(<<"none">>, Skip(r1, "EXPORT")), LAMBDA init, r2 :
  If(/\ Len(vars) + 1 < MaxVars /\ Len(vars) + spec.size <= MaxVars
     /\ Kind(r1) = "EXPORT" => spec.type \in TypeWords
     /\ const => section = "VAR" /\ ~spec.array /\ spec.type \in TypeWords /\ init[1] = "lit",
     Got([name |-> Value(name), spec |-> spec, const |-> const, export |-> Kind(r1) = "EXPORT",
          init |-> IF init[1] = "lit" THEN init ELSE <<"none">>], Skip(r2, ";")))))

VarBlock(ts, section, vars) ==
  IF Kind(ts) \in {"END_VAR", "VAR", "VAR_INPUT", "VAR_OUTPUT", "END_PROGRAM", "BEGIN", "EOF", ""}
  THEN If(Kind(ts) \notin {"VAR", "VAR_INPUT", "VAR_OUTPUT"}, Got(vars, Skip(ts, "END_VAR")))
  ELSE Then(VarDecl(Skip(ts, "CONST"), Kind(ts) = "CONST", section, vars), LAMBDA v, rest :
         VarBlock(rest, section, Append(vars, v)))

VarBlocks(ts, vars) ==
  IF Kind(ts) \notin {"VAR", "VAR_INPUT", "VAR_OUTPUT"} THEN Got(vars, ts)
  ELSE Then(VarBlock(Tail(ts), Kind(ts), vars), LAMBDA all, rest : VarBlocks(rest, all))

\* Parameters and locals of a function; their initial values come to nothing.
Added(f, section, var) == IF section = "VAR" THEN [f EXCEPT !.locals = Append(@, var)]
                          ELSE [f EXCEPT !.params = Append(@, var)]

FunVarBlock(ts, section, f) ==
  LET type == Want(Tail(ts), ":") IN
  IF Kind(ts) # "id" THEN Got(f, Skip(ts, "END_VAR"))
  ELSE Then(IF Peek(type) = ":=" THEN Expr(Tail(Tail(type)), 0) ELSE Got(<<>>, Tail(type)), LAMBDA init, rest :
         If(Kind(type) \in TypeWords /\ IF section = "VAR" THEN Len(f.locals) < 16 ELSE Len(f.params) < 8,
            FunVarBlock(Skip(rest, ";"), section, Added(f, section, <<Value(ts), Kind(type)>>))))

FunVars(ts, f) ==
  IF Kind(ts) \notin {"VAR", "VAR_INPUT", "VAR_OUTPUT", "VAR_IN_OUT"} THEN Got(f, ts)
  ELSE Then(FunVarBlock(Tail(ts), Kind(ts), f), LAMBDA g, rest : FunVars(rest, g))

\* FUNCTION name : type, FUNCTION_BLOCK name.
FunHead(ts) ==
  LET type == Want(Want(Tail(ts), "id"), ":")
      head(block, word) == [name |-> Value(Tail(ts)), block |-> block, type |-> word,
                            params |-> <<>>, locals |-> <<>>, body |-> <<>>]
  IN IF Kind(ts) = "FUNCTION_BLOCK" THEN Got(head(TRUE, ""), Skip(Want(Tail(ts), "id"), ";"))
     ELSE If(Kind(type) \in TypeWords, Got(head(FALSE, Kind(type)), Skip(Tail(type), ";")))

Functions(ts, funs) ==
  IF Kind(ts) \notin {"FUNCTION", "FUNCTION_BLOCK"} THEN Got(funs, ts)
  ELSE Then(FunHead(ts), LAMBDA h, r1 :
       Then(FunVars(r1, h), LAMBDA f, r2 :
       Then(Statements(Skip(r2, "BEGIN"), 0), LAMBDA body, r3 :
       Functions(Skip(Want(r3, IF h.block THEN "END_FUNCTION_BLOCK" ELSE "END_FUNCTION"), ";"),
                 Append(funs, [f EXCEPT !.body = body])))))

\* What comes behind the statements is not looked at.
Parse(ts) ==
  LET parsed ==
        Then(TypeDecls(ts, <<>>), LAMBDA types, r1 :
        Then(VarBlocks(IF Kind(r1) = "PROGRAM" THEN Skip(Want(Tail(r1), "id"), ";") ELSE r1, <<>>), LAMBDA vars, r2 :
        Then(Functions(r2, <<>>), LAMBDA funs, r3 :
        Then(Statements(Skip(r3, "BEGIN"), 0), LAMBDA body, r4 :
        Got([ok |-> TRUE, types |-> types, vars |-> vars, funs |-> funs, body |-> body], r4)))))
  IN IF Bad(parsed) THEN [ok |-> FALSE] ELSE parsed.t
=============================================================================
