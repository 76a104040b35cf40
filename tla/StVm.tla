-------------------------------- MODULE StVm --------------------------------
(***************************************************************************)
(* The stack machine that runs a compiled ST program once per scan         *)
(* (src/src/st_vm.cpp, src/src/st_logic_engine.cpp).                       *)
(*                                                                         *)
(* A program is a record                                                   *)
(*   code      the instructions [op, s, n, m, k], jumps are absolute       *)
(*   types     the type of each variable slot, init its first value        *)
(*   inputs    the slots that input bindings write before every scan       *)
(*   funs      functions and function blocks: [addr, params, locals]       *)
(*   blocks    the kind of each timer, counter, ... instance               *)
(*   instances how many function block instances there are                 *)
(*   heights, owner   what a check of the code found (see Verified); the   *)
(*             machine does not look at them                               *)
(*                                                                         *)
(* Addresses, slots and instances count from 1.  Values that are read      *)
(* outside of the operand stack cannot be computed here: a call that finds *)
(* fewer operands than parameters, or a parameter above the top of the     *)
(* stack, stops with "wild".                                               *)
(***************************************************************************)
EXTENDS StBlocks

CONSTANTS Programs,   \* the compiled programs
          Globals,    \* types of the GLOBAL_VAR variables
          Samples,    \* values an input binding writes, by type
          Gaps,       \* times between two scans, in milliseconds
          Cycle,      \* the interval of the program, for FILTER
          StackLimit, LocalLimit, DepthLimit, \* 64, 64 and 8 in the code
          MaxSteps,   \* instructions in a scan: 10000, less at HIGH priority
          MaxScans    \* bound: scans in a behaviour

ASSUME MachineAssumption ==
  /\ Globals \in Seq(Types) /\ Gaps \subseteq Nat
  /\ {StackLimit, LocalLimit, DepthLimit, MaxSteps, MaxScans} \subseteq Nat

VARIABLES prog,      \* the compiled program
          phase,     \* "idle", "run" or "done", which awaits the end of the scan
          pc, stack, vars, locals, lbase, calls, steps, err,  \* st_vm_t
          kept,      \* bytecode.variables: what the next scan starts from
          blocks,    \* the memory of timers, counters, ...
          instances, \* the saved locals of function blocks, <<>> before the first call
          globals, now, scans

machine == <<pc, stack, vars, locals, lbase, calls, steps, err>>
surviving == <<blocks, instances, globals>>
outside == <<prog, kept, now, scans>>
vmvars == <<machine, phase, surviving, outside>>

Zero(type) == [t |-> type, v |-> 0]
NoLocals == [i \in 0 .. LocalLimit-1 |-> Zero("BOOL")]

-----------------------------------------------------------------------------
Instr == prog.code[pc]
Fetched(op) == /\ phase = "run" /\ steps < MaxSteps
               /\ pc \in DOMAIN prog.code /\ Instr.op = op

Height == Len(stack)
Top == stack[Height]
Under(n) == SubSeq(stack, 1, Height - n)
Operands(n) == SubSeq(stack, Height - n + 1, Height)
Caller == calls[Len(calls)]

\* An instruction fails: the scan is over, what the VM holds is lost.
Stop(e) == /\ phase' = "done" /\ err' = e
           /\ UNCHANGED <<pc, stack, locals, lbase, calls, steps, outside>>

\* It leaves st on the stack, and goes on at address a.
Go(st, a) == /\ stack' = st /\ pc' = a /\ steps' = steps + 1
             /\ UNCHANGED <<phase, err, outside>>

\* It takes n operands and pushes one of the results, none of which is a type error.
Yield(n, results) ==
  /\ IF Height < n THEN Stop("underflow")
     ELSE IF results = {} THEN Stop("data")
     ELSE IF Height - n >= StackLimit THEN Stop("overflow")
     ELSE (\E x \in results : Go(Append(Under(n), x), pc + 1)) /\ UNCHANGED <<locals, lbase, calls>>
  /\ UNCHANGED vars

\* It takes n operands and pushes nothing; change says what it does with them.
Take(n, error, change) ==
  IF Height < n THEN Stop("underflow") /\ UNCHANGED <<vars, surviving>>
  ELSE IF error # "" THEN Stop(error) /\ UNCHANGED <<vars, surviving>>
  ELSE change

-----------------------------------------------------------------------------
Push == Fetched("PUSH") /\ Yield(0, {[t |-> Instr.s, v |-> Instr.n]}) /\ UNCHANGED surviving
Dup == Fetched("DUP") /\ Yield(IF Height = 0 THEN 1 ELSE 0, {Top}) /\ UNCHANGED surviving
Pop == /\ Fetched("POP")
       /\ Take(1, "", Go(Under(1), pc + 1) /\ UNCHANGED <<vars, locals, lbase, calls, surviving>>)

BinaryOp ==
  /\ Fetched("BIN")
  /\ Yield(2, Binary(Instr.s, stack[Height-1], Top))
  /\ UNCHANGED surviving
UnaryOp == Fetched("UN") /\ Yield(1, Unary(Instr.s, Top)) /\ UNCHANGED surviving

LoadVar ==
  /\ Fetched("LOAD_VAR")
  /\ IF Instr.n \in DOMAIN vars THEN Yield(0, {vars[Instr.n]})
     ELSE Stop("index") /\ UNCHANGED vars
  /\ UNCHANGED surviving

\* Every store to a variable slot converts to the type of the slot.
Stored(n, x) == vars' = [vars EXCEPT ![n] = Converted(x, prog.types[n])]

StoreVar ==
  /\ Fetched("STORE_VAR")
  /\ Take(1, IF Instr.n \in DOMAIN vars THEN "" ELSE "index",
          /\ Stored(Instr.n, Top) /\ Go(Under(1), pc + 1)
          /\ UNCHANGED <<locals, lbase, calls, surviving>>)

LoadGlobal ==
  /\ Fetched("LOAD_GLOBAL")
  /\ IF Instr.n \in DOMAIN globals THEN Yield(0, {globals[Instr.n]})
     ELSE Stop("index") /\ UNCHANGED vars
  /\ UNCHANGED surviving

StoreGlobal ==
  /\ Fetched("STORE_GLOBAL")
  /\ Take(1, IF Instr.n \in DOMAIN globals THEN "" ELSE "index",
          /\ globals' = [globals EXCEPT ![Instr.n] = Converted(Top, Globals[Instr.n])]
          /\ Go(Under(1), pc + 1)
          /\ UNCHANGED <<vars, locals, lbase, calls, blocks, instances>>)

\* An array has m elements from slot n on, the first has index k.
Offsets(x) == {j \in 0 .. Instr.m-1 : Instr.k + j = x.v}
Slot(x) == Instr.n + CHOOSE j \in Offsets(x) : TRUE
IndexError(x) == IF x.t \notin {"BOOL", "INT", "DINT"} THEN "data"
                 ELSE IF Offsets(x) = {} THEN "range"
                 ELSE IF Slot(x) \notin DOMAIN vars THEN "index" ELSE ""

LoadArray ==
  /\ Fetched("LOAD_ARRAY")
  /\ IF Height > 0 /\ IndexError(Top) # "" THEN Stop(IndexError(Top)) /\ UNCHANGED vars
     ELSE Yield(1, {vars[Slot(Top)]})
  /\ UNCHANGED surviving

StoreArray ==
  /\ Fetched("STORE_ARRAY")
  /\ Take(2, IndexError(Top),
          /\ Stored(Slot(Top), stack[Height-1]) /\ Go(Under(2), pc + 1)
          /\ UNCHANGED <<locals, lbase, calls, surviving>>)

-----------------------------------------------------------------------------
\* A conditional jump looks at the low byte of whatever value is on top.
Jump ==
  /\ Fetched("JMP")
  /\ IF Instr.n \in DOMAIN prog.code THEN Go(stack, Instr.n) /\ UNCHANGED <<locals, lbase, calls>>
     ELSE Stop("jump")
  /\ UNCHANGED <<vars, surviving>>

JumpIf(op, wanted) ==
  /\ Fetched(op)
  /\ Take(1, "", \E truth \in Truth(Top) :
       /\ IF truth # wanted THEN Go(Under(1), pc + 1) /\ UNCHANGED <<locals, lbase, calls>>
          ELSE IF Instr.n \in DOMAIN prog.code
               THEN Go(Under(1), Instr.n) /\ UNCHANGED <<locals, lbase, calls>>
          ELSE Stop("jump")
       /\ UNCHANGED <<vars, surviving>>)
JumpIfFalse == JumpIf("JMP_IF_FALSE", FALSE)
JumpIfTrue == JumpIf("JMP_IF_TRUE", TRUE)

-----------------------------------------------------------------------------
\* CALL_BUILTIN: a function computes, a block (m is its instance) takes a step.
CallFunction ==
  /\ Fetched("BUILTIN") /\ Instr.s \notin Blocks
  /\ LET n == ArgCount(Instr.s) IN
     Yield(n, Computed(Instr.s, Arguments(Instr.s, Operands(n))))
  /\ UNCHANGED surviving

CallBlock ==
  /\ Fetched("BUILTIN") /\ Instr.s \in Blocks
  /\ LET f == Instr.s
         n == ArgCount(f)
     IN Take(n, IF Instr.m \in DOMAIN blocks THEN "" ELSE "index",
          \E s \in Called(f, blocks[Instr.m], Arguments(f, Operands(n)), now, Cycle) :
            /\ blocks' = [blocks EXCEPT ![Instr.m] = s]
            /\ Go(Append(Under(n), Result(f, s)), pc + 1)
            /\ UNCHANGED <<vars, locals, lbase, calls, instances, globals>>)

\* The fields a call hands out with =>, besides Q.
Field(s, field) == CASE field = "ET" -> DIntOf(s.et) [] field = "CV" -> DIntOf(s.cv)
                     [] field = "QD" -> Bool(s.qd)

LoadField ==
  /\ Fetched("LOAD_FB_FIELD")
  /\ IF Instr.m \in DOMAIN blocks THEN Yield(0, {Field(blocks[Instr.m], Instr.s)})
     ELSE Stop("index") /\ UNCHANGED vars
  /\ UNCHANGED surviving

-----------------------------------------------------------------------------
Callee == prog.funs[Instr.n]

\* Mutated Window: every call has the same one (BUG-383).
WindowShared == lbase

\* The window of the callee begins behind the locals of the caller.
Window == lbase + IF calls = <<>> THEN 0 ELSE prog.funs[Caller.f].locals

\* Mutated FrameBase: the frame begins above the parameters.
FrameBaseAbove == Height

\* The parameters are what the caller has left on top of the stack.
FrameBase == Height - Callee.params

CallError == IF Instr.n \notin DOMAIN prog.funs THEN "index"
             ELSE IF Len(calls) >= DepthLimit THEN "depth"
             ELSE IF Window + Callee.locals > LocalLimit THEN "locals"
             ELSE IF Height < Callee.params THEN "wild" ELSE ""

\* The saved locals of an instance take their places in the window.
Restored(saved, base) ==
  [i \in DOMAIN locals |-> IF i - base + 1 \in DOMAIN saved THEN saved[i - base + 1] ELSE locals[i]]

Call ==
  /\ Fetched("CALL")
  /\ IF CallError # "" THEN Stop(CallError)
     ELSE /\ calls' = Append(calls, [ret |-> pc, base |-> FrameBase,
                                     params |-> Callee.params, f |-> Instr.n,
                                     inst |-> Instr.m, lbase |-> lbase])
          /\ lbase' = Window
          /\ locals' = IF Instr.m = 0 THEN locals ELSE Restored(instances[Instr.m], Window)
          /\ Go(stack, Callee.addr)
  /\ UNCHANGED <<vars, surviving>>

\* The parameters go, whatever is on top of the stack comes back in their place.
Return ==
  /\ Fetched("RETURN")
  /\ IF calls = <<>> THEN Stop("outside") /\ UNCHANGED surviving
     ELSE /\ instances' = IF Caller.inst = 0 THEN instances
                          ELSE [instances EXCEPT ![Caller.inst] =
                                 [i \in 1 .. prog.funs[Caller.f].locals |-> locals[lbase + i - 1]]]
          /\ IF Caller.base >= StackLimit THEN Stop("overflow")
             ELSE /\ Go(SubSeq(stack, 1, Caller.base) \o
                          (IF stack = <<>> THEN <<>> ELSE <<Top>>), Caller.ret + 1)
                  /\ calls' = SubSeq(calls, 1, Len(calls) - 1)
                  /\ lbase' = Caller.lbase
                  /\ UNCHANGED locals
          /\ UNCHANGED <<blocks, globals>>
  /\ UNCHANGED vars

FrameError == IF calls = <<>> THEN "outside"
              ELSE IF Instr.n > Caller.params THEN "param"
              ELSE IF Caller.base + Instr.n > Height THEN "wild" ELSE ""
LocalError == IF calls = <<>> THEN "outside"
              ELSE IF lbase + Instr.n > LocalLimit THEN "locals" ELSE ""
LocalPlace == lbase + Instr.n - 1

LoadParam ==
  /\ Fetched("LOAD_PARAM")
  /\ IF FrameError = "" THEN Yield(0, {stack[Caller.base + Instr.n]})
     ELSE Stop(FrameError) /\ UNCHANGED vars
  /\ UNCHANGED surviving

LoadLocal ==
  /\ Fetched("LOAD_LOCAL")
  /\ IF LocalError = "" THEN Yield(0, {locals[LocalPlace]})
     ELSE Stop(LocalError) /\ UNCHANGED vars
  /\ UNCHANGED surviving

\* A parameter or local takes a value with its type, unconverted.
StoreParam ==
  /\ Fetched("STORE_PARAM")
  /\ IF FrameError # "" THEN Stop(FrameError) /\ UNCHANGED <<vars, surviving>>
     ELSE Take(1, "", /\ Go([Under(1) EXCEPT ![Caller.base + Instr.n] = Top], pc + 1)
                      /\ UNCHANGED <<vars, locals, lbase, calls, surviving>>)

StoreLocal ==
  /\ Fetched("STORE_LOCAL")
  /\ IF LocalError # "" THEN Stop(LocalError) /\ UNCHANGED <<vars, surviving>>
     ELSE Take(1, "", /\ locals' = [locals EXCEPT ![LocalPlace] = Top]
                      /\ Go(Under(1), pc + 1)
                      /\ UNCHANGED <<vars, lbase, calls, surviving>>)

-----------------------------------------------------------------------------
\* The engine: inputs are bound, the VM is set up from the program.
StartScan ==
  /\ phase = "idle" /\ scans < MaxScans /\ prog.code # <<>>
  /\ \E gap \in Gaps : now' = (now + gap) % ClockMod
  /\ \E x \in [prog.inputs -> UNION {Samples[prog.types[i]] : i \in prog.inputs}] :
       /\ \A i \in prog.inputs : x[i] \in Samples[prog.types[i]]
       /\ kept' = [i \in DOMAIN kept |-> IF i \in prog.inputs THEN x[i] ELSE kept[i]]
  /\ vars' = kept' /\ stack' = <<>> /\ pc' = 1 /\ locals' = NoLocals /\ lbase' = 0
  /\ calls' = <<>> /\ steps' = 0 /\ err' = "" /\ phase' = "run" /\ scans' = scans + 1
  /\ UNCHANGED <<prog, surviving>>

\* HALT, and running off the end of the code, which jumps never do.
Halt ==
  /\ phase = "run" /\ steps < MaxSteps
  /\ pc \in DOMAIN prog.code => Instr.op = "HALT"
  /\ phase' = "done"
  /\ UNCHANGED <<machine, surviving, outside>>

TooLong ==
  /\ phase = "run" /\ steps >= MaxSteps
  /\ Stop("steps") /\ UNCHANGED <<vars, surviving>>

\* Only a scan without an error leaves its variables behind.
EndScan ==
  /\ phase = "done"
  /\ kept' = IF err = "" THEN vars ELSE kept
  /\ phase' = "idle"
  /\ UNCHANGED <<machine, surviving, prog, now, scans>>

Init ==
  /\ prog \in Programs
  /\ phase = "idle" /\ kept = prog.init /\ vars = prog.init
  /\ pc = 1 /\ stack = <<>> /\ locals = NoLocals /\ lbase = 0 /\ calls = <<>>
  /\ steps = 0 /\ err = ""
  /\ blocks = [i \in DOMAIN prog.blocks |-> Fresh]
  /\ instances = [i \in 1 .. prog.instances |-> <<>>]
  /\ globals = [i \in DOMAIN Globals |-> Zero(Globals[i])]
  /\ now = 0 /\ scans = 0

Execute ==
  \/ Push \/ Dup \/ Pop \/ BinaryOp \/ UnaryOp
  \/ LoadVar \/ StoreVar \/ LoadGlobal \/ StoreGlobal \/ LoadArray \/ StoreArray
  \/ Jump \/ JumpIfFalse \/ JumpIfTrue
  \/ CallFunction \/ CallBlock \/ LoadField
  \/ Call \/ Return \/ LoadParam \/ StoreParam \/ LoadLocal \/ StoreLocal

Next == StartScan \/ Execute \/ Halt \/ TooLong \/ EndScan

Spec == Init /\ [][Next]_vmvars
-----------------------------------------------------------------------------
(* What a compiled program has to be like.  heights[a] is the height of the *)
(* operand stack before the instruction at a, above the frame it runs in,   *)
(* and -1 where no path leads; owner[a] is the function it belongs to, 0    *)
(* for the program itself.  The compiler promises this by construction and  *)
(* the machine relies on it: a pop below the frame, or a parameter above    *)
(* the top, reads what is not there.                                        *)

Loads == {"LOAD_VAR", "LOAD_GLOBAL", "LOAD_PARAM", "LOAD_LOCAL", "LOAD_FB_FIELD"}
Stores == {"STORE_VAR", "STORE_GLOBAL", "STORE_PARAM", "STORE_LOCAL"}
Branches2 == {"JMP_IF_FALSE", "JMP_IF_TRUE"}

Takes(p, i) == CASE i.op \in Stores \cup Branches2 \cup {"DUP", "POP", "UN", "LOAD_ARRAY", "RETURN"} -> 1
                 [] i.op \in {"BIN", "STORE_ARRAY"} -> 2
                 [] i.op = "BUILTIN" -> ArgCount(i.s)
                 [] i.op = "CALL" -> p.funs[i.n].params
                 [] OTHER -> 0
Gives(i) == CASE i.op = "DUP" -> 2
              [] i.op \in Loads \cup {"PUSH", "BIN", "UN", "LOAD_ARRAY", "BUILTIN", "CALL"} -> 1
              [] OTHER -> 0
Rise(p, i) == Gives(i) - Takes(p, i)

Successors(p, a) == CASE p.code[a].op \in {"HALT", "RETURN"} -> {}
                      [] p.code[a].op = "JMP" -> {p.code[a].n}
                      [] p.code[a].op \in Branches2 -> {a + 1, p.code[a].n}
                      [] OTHER -> {a + 1}

\* An instruction names only what there is; in function f it knows its frame.
Sound(p, i, f, height) ==
  CASE i.op \in {"LOAD_VAR", "STORE_VAR"} -> i.n \in DOMAIN p.types
    [] i.op \in {"LOAD_GLOBAL", "STORE_GLOBAL"} -> i.n \in DOMAIN Globals
    [] i.op \in {"LOAD_ARRAY", "STORE_ARRAY"} -> i.n .. i.n + i.m - 1 \subseteq DOMAIN p.types
    [] i.op = "LOAD_FB_FIELD" -> i.m \in DOMAIN p.blocks /\ i.s \in {"ET", "CV", "QD"}
    [] i.op = "BUILTIN" -> /\ i.s \in Blocks \cup PureFunctions \cup {"SCALE"}
                           /\ i.s \in Blocks => i.m \in DOMAIN p.blocks
    [] i.op = "CALL" -> i.n \in DOMAIN p.funs /\ i.m \in 0 .. p.instances
    [] i.op \in {"LOAD_PARAM", "STORE_PARAM"} ->
         f # 0 /\ i.n \in 1 .. p.funs[f].params /\ i.n + Takes(p, i) <= height
    [] i.op \in {"LOAD_LOCAL", "STORE_LOCAL"} -> f # 0 /\ i.n \in 1 .. p.funs[f].locals
    [] i.op = "RETURN" -> f # 0
    [] OTHER -> i.op \in {"PUSH", "DUP", "POP", "BIN", "UN", "JMP", "HALT"} \cup Branches2

\* The parts of a program fit together.
Shaped(p) ==
  /\ p.code \in Seq([op : STRING, s : STRING, n : Int, m : Int, k : Int]) /\ p.code # <<>>
  /\ p.heights \in [DOMAIN p.code -> Nat \cup {-1}]
  /\ p.owner \in [DOMAIN p.code -> 0 .. Len(p.funs)]
  /\ p.types \in Seq(Types) /\ DOMAIN p.init = DOMAIN p.types /\ p.inputs \subseteq DOMAIN p.types
  /\ p.funs \in Seq([addr : Nat, params : Nat, locals : Nat]) /\ p.instances \in Nat

VerifiedAt(p, a) ==
  /\ Sound(p, p.code[a], p.owner[a], p.heights[a])
  /\ Takes(p, p.code[a]) <= p.heights[a]
  /\ \A b \in Successors(p, a) :
       /\ b \in DOMAIN p.code
       /\ p.heights[b] = p.heights[a] + Rise(p, p.code[a])
       /\ p.owner[b] = p.owner[a]

Verified(p) ==
  /\ Shaped(p) /\ p.heights[1] = 0 /\ p.owner[1] = 0
  /\ \A f \in DOMAIN p.funs :
       /\ p.funs[f].addr \in DOMAIN p.code
       /\ p.heights[p.funs[f].addr] = p.funs[f].params
       /\ p.owner[p.funs[f].addr] = f
  /\ \A a \in DOMAIN p.code : p.heights[a] # -1 => VerifiedAt(p, a)

-----------------------------------------------------------------------------
\* The machine never takes an operand, a variable, a parameter or a jump target
\* that is not there: the checks of st_vm_pop_typed and of the instructions for
\* them, and the accesses that have none, are never reached with a bad operand.
Strays == {"underflow", "wild", "outside", "param", "jump", "index"}
NeverStrays == err \notin Strays
=============================================================================
