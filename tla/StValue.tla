------------------------------ MODULE StValue ------------------------------
(***************************************************************************)
(* Values of the Structured Text virtual machine and what its instructions *)
(* and builtin functions compute from them (src/src/st_vm.cpp,             *)
(* src/src/st_builtins.cpp).                                               *)
(*                                                                         *)
(* A value is [t, v]: the type the VM keeps in type_stack, and a number.   *)
(* INT has IntBits bits (16 in the code), DINT, DWORD and TIME have        *)
(* DIntBits (32).  A REAL is counted in steps of 1/RealUnit and has no     *)
(* rounding but that: the abstraction of float.                            *)
(*                                                                         *)
(* An operation is the set of its possible results: {} when it stops the   *)
(* program with an error, several where the code reads bytes of the union  *)
(* that nobody has written.                                                *)
(***************************************************************************)
EXTENDS Integers, Sequences

CONSTANTS IntBits, DIntBits, RealUnit

ASSUME WidthAssumption == /\ IntBits \in Nat /\ IntBits > 1
                          /\ DIntBits \in Nat /\ DIntBits > IntBits
                          /\ RealUnit \in Nat \ {0}

Types == {"BOOL", "INT", "DINT", "DWORD", "REAL", "TIME"}

Signed(n, bits) == ((n + 2^(bits-1)) % 2^bits) - 2^(bits-1)

IntMax == 2^(IntBits-1) - 1
IntMin == -(2^(IntBits-1))
DIntMax == 2^(DIntBits-1) - 1
DIntMin == -(2^(DIntBits-1))

Values ==
  [t : {"BOOL"}, v : 0 .. 1] \cup [t : {"INT"}, v : IntMin .. IntMax]
  \cup [t : {"DINT", "TIME"}, v : DIntMin .. DIntMax]
  \cup [t : {"DWORD"}, v : 0 .. (2^DIntBits-1)] \cup [t : {"REAL"}, v : Int]

Bool(b) == [t |-> "BOOL", v |-> IF b THEN 1 ELSE 0]
IntOf(n) == [t |-> "INT", v |-> Signed(n, IntBits)]
DIntOf(n) == [t |-> "DINT", v |-> Signed(n, DIntBits)]
DWordOf(n) == [t |-> "DWORD", v |-> n % 2^DIntBits]
RealOf(n) == [t |-> "REAL", v |-> n]

Clamped(n, lo, hi) == IF n < lo THEN lo ELSE IF n > hi THEN hi ELSE n

\* C division and remainder: towards zero, the sign of the dividend.
Quot(a, b) == IF (a >= 0) = (b > 0) THEN (IF a >= 0 THEN a ELSE -a) \div (IF b > 0 THEN b ELSE -b)
              ELSE -((IF a >= 0 THEN a ELSE -a) \div (IF b > 0 THEN b ELSE -b))
Rem(a, b) == a - b * Quot(a, b)

-----------------------------------------------------------------------------
\* Reading a value as another member of the union.

HasType(t, xs) == \E i \in DOMAIN xs : xs[i].t = t

\* int_val.  Of a BOOL only the low byte was written.
AsInts(x) ==
  CASE x.t = "BOOL" -> {Signed(x.v + n, IntBits) : n \in {0, 2^(IntBits-1)}}
    [] x.t = "REAL" -> {0, 1}
    [] OTHER        -> {Signed(x.v, IntBits)}

\* A 32-bit operand: dint_val or dword_val by type, int_val of any other type;
\* a TIME is such an other type (st_normalize_type is never called).
AsWide(x) == IF x.t \in {"DINT", "DWORD"} THEN {x.v} ELSE AsInts(x)

\* A float operand: whatever is neither REAL nor INT is read as dint_val.
AsReals(x) ==
  CASE x.t = "REAL" -> {x.v}
    [] x.t = "BOOL" -> {n * RealUnit : n \in AsInts(x)}
    [] OTHER        -> {Signed(x.v, DIntBits) * RealUnit}

\* bool_val: the low byte.
Truth(x) == IF x.t = "REAL" THEN BOOLEAN ELSE {x.v % 2^(IntBits \div 2) # 0}

-----------------------------------------------------------------------------
\* st_vm_convert_value: assignment, array stores and builtin arguments.

Converted(x, t) ==
  LET n == IF x.t = "REAL" THEN Quot(x.v, RealUnit) ELSE x.v
  IN CASE t = x.t               -> x
       [] t = "BOOL"            -> Bool(x.v # 0)
       [] t = "INT"             -> [t |-> t, v |-> Clamped(n, IntMin, IntMax)]
       [] t \in {"DINT", "TIME"} ->
            [t |-> t, v |-> IF x.t = "REAL" THEN Clamped(n, DIntMin, DIntMax)
                            ELSE Signed(n, DIntBits)]
       [] t = "DWORD" ->
            [t |-> t, v |-> IF x.t = "REAL" THEN Clamped(n, 0, 2^DIntBits - 1)
                            ELSE n % 2^DIntBits]
       [] t = "REAL"            -> RealOf(n * RealUnit)

-----------------------------------------------------------------------------
\* ADD, SUB and MUL: REAL if one is REAL, 32 bits if one has them, else 16.

Apply(op, a, b) == CASE op = "ADD" -> a + b [] op = "SUB" -> a - b [] op = "MUL" -> a * b
ApplyReal(op, a, b) == IF op = "MUL" THEN Quot(a * b, RealUnit) ELSE Apply(op, a, b)

Each(op(_, _), as, bs) == {op(a, b) : a \in as, b \in bs}

Arith(op, l, r) ==
  CASE HasType("BOOL", <<l, r>>) -> {}
    [] HasType("REAL", <<l, r>>) ->
         {RealOf(ApplyReal(op, a, b)) : a \in AsReals(l), b \in AsReals(r)}
    [] HasType("DINT", <<l, r>>) ->
         {DIntOf(Apply(op, a, b)) : a \in AsWide(l), b \in AsWide(r)}
    [] HasType("DWORD", <<l, r>>) ->
         {DWordOf(Apply(op, a, b)) : a \in AsWide(l), b \in AsWide(r)}
    [] OTHER -> {IntOf(Apply(op, a, b)) : a \in AsInts(l), b \in AsInts(r)}

\* ADD_CHECKED steps a FOR variable and fails where ADD would wrap.
AddChecked(l, r) ==
  LET wide(x) == IF x.t = "DINT" THEN {x.v} ELSE AsInts(x)
      within(lo, hi, s) == {n \in s : lo <= n /\ n <= hi}
      sums(as, bs) == Each(LAMBDA a, b : a + b, as, bs)
  IN CASE HasType("BOOL", <<l, r>>) -> {}
       [] HasType("REAL", <<l, r>>) ->
            {RealOf(n) : n \in sums(AsReals(l), AsReals(r))}
       [] HasType("DINT", <<l, r>>) ->
            {DIntOf(n) : n \in within(DIntMin, DIntMax, sums(wide(l), wide(r)))}
       [] HasType("DWORD", <<l, r>>) ->
            {DWordOf(n) : n \in within(0, 2^DIntBits - 1,
               Each(LAMBDA a, b : (a % 2^DIntBits) + (b % 2^DIntBits), AsWide(l), AsWide(r)))}
       [] OTHER ->
            {IntOf(n) : n \in within(IntMin, IntMax, sums(AsInts(l), AsInts(r)))}

\* DIV always gives a REAL.
Divide(l, r) ==
  LET real(x) == IF x.t = "DWORD" THEN {x.v * RealUnit} ELSE AsReals(x)
  IN IF HasType("BOOL", <<l, r>>) THEN {}
     ELSE {RealOf(Quot(p[1] * RealUnit, p[2])) :
             p \in {q \in real(l) \X real(r) : q[2] # 0}}

Modulo(l, r) ==
  LET over(as, bs) == {Rem(p[1], p[2]) : p \in {q \in as \X bs : q[2] # 0}}
      unsigned(x) == {n % 2^DIntBits : n \in AsWide(x)}
      signed(x) == {Signed(n, DIntBits) : n \in AsWide(x)}
  IN CASE HasType("BOOL", <<l, r>>)  -> {}
       [] HasType("DINT", <<l, r>>)  -> {DIntOf(n) : n \in over(signed(l), signed(r))}
       [] HasType("DWORD", <<l, r>>) -> {DWordOf(n) : n \in over(unsigned(l), unsigned(r))}
       [] OTHER                      -> {IntOf(n) : n \in over(AsInts(l), AsInts(r))}

\* The most negative number has no negation of its type: it becomes a REAL.
Negated(x) ==
  CASE x.t = "REAL"  -> {RealOf(-x.v)}
    [] x.t = "DINT"  -> {IF x.v = DIntMin THEN RealOf(-x.v * RealUnit) ELSE DIntOf(-x.v)}
    [] x.t = "DWORD" -> {DWordOf(-x.v)}
    [] OTHER -> {IF n = IntMin THEN RealOf(-n * RealUnit) ELSE IntOf(-n) : n \in AsInts(x)}

-----------------------------------------------------------------------------
\* AND, OR, XOR and NOT take BOOLs only (BUG-397).

Logic(op, l, r) ==
  IF l.t # "BOOL" \/ r.t # "BOOL" THEN {}
  ELSE {Bool(CASE op = "AND" -> l.v = 1 /\ r.v = 1
               [] op = "OR"  -> l.v = 1 \/ r.v = 1
               [] op = "XOR" -> l.v # r.v)}

Inverted(x) == IF x.t = "BOOL" THEN {Bool(x.v = 0)} ELSE {}

-----------------------------------------------------------------------------
\* Comparisons: as REAL, DINT, DWORD or INT, the first of them that occurs.

Holds(op, a, b) == CASE op = "EQ" -> a = b [] op = "NE" -> a # b [] op = "LT" -> a < b
                     [] op = "GT" -> a > b [] op = "LE" -> a <= b [] op = "GE" -> a >= b

Compare(op, l, r) ==
  LET as(read(_)) == {Bool(Holds(op, a, b)) : a \in read(l), b \in read(r)}
      signed(x) == {Signed(n, DIntBits) : n \in AsWide(x)}
      unsigned(x) == {n % 2^DIntBits : n \in AsWide(x)}
  IN CASE HasType("REAL", <<l, r>>)  -> as(AsReals)
       [] HasType("DINT", <<l, r>>)  -> as(signed)
       [] HasType("DWORD", <<l, r>>) -> as(unsigned)
       [] OTHER                      -> as(AsInts)

-----------------------------------------------------------------------------
\* SHL and SHR by int_val of the right operand, which must fit the left one.

Shift(op, l, r) ==
  LET bits == IF l.t \in {"DINT", "DWORD"} THEN DIntBits ELSE IntBits
      moved(a, n) == IF op = "SHL" THEN a * 2^n ELSE a \div 2^n
      typed(a) == CASE l.t = "DINT" -> DIntOf(a) [] l.t = "DWORD" -> DWordOf(a)
                    [] OTHER -> IntOf(a)
  IN {typed(moved(p[1], p[2])) :
        p \in {q \in AsWide(l) \X AsInts(r) : q[2] >= 0 /\ q[2] < bits}}

Binary(op, l, r) ==
  CASE op \in {"ADD", "SUB", "MUL"}                   -> Arith(op, l, r)
    [] op = "ADD_CHECKED"                             -> AddChecked(l, r)
    [] op = "DIV"                                     -> Divide(l, r)
    [] op = "MOD"                                     -> Modulo(l, r)
    [] op \in {"AND", "OR", "XOR"}                    -> Logic(op, l, r)
    [] op \in {"EQ", "NE", "LT", "GT", "LE", "GE"}    -> Compare(op, l, r)
    [] op \in {"SHL", "SHR"}                          -> Shift(op, l, r)

BinaryOps == {"ADD", "ADD_CHECKED", "SUB", "MUL", "DIV", "MOD", "AND", "OR", "XOR",
              "EQ", "NE", "LT", "GT", "LE", "GE", "SHL", "SHR"}

Unary(op, x) == IF op = "NEG" THEN Negated(x) ELSE Inverted(x)

-----------------------------------------------------------------------------
\* The builtin functions without memory.

\* st_builtin_param_type, arguments 1 and 2; "NONE" where the function looks at
\* the type itself.
ParamType(f, i) ==
  CASE f \in {"ROUND", "TRUNC", "FLOOR", "CEIL", "REAL_TO_INT"} /\ i = 1 -> "REAL"
    [] f \in {"INT_TO_REAL", "INT_TO_BOOL", "INT_TO_DWORD", "MUX"} /\ i = 1 -> "INT"
    [] f \in {"BIT_SET", "BIT_CLR", "BIT_TST"} /\ i <= 2 -> "INT"
    [] f \in {"BOOL_TO_INT", "SEL", "R_TRIG", "F_TRIG"} /\ i = 1 -> "BOOL"
    [] f = "DWORD_TO_INT" /\ i = 1 -> "DWORD"
    [] f \in {"TON", "TOF", "TP"} -> IF i = 1 THEN "BOOL" ELSE "DINT"
    [] f \in {"CTU", "CTD"} -> IF i <= 2 THEN "BOOL" ELSE "DINT"
    [] f = "CTUD" -> IF i <= 4 THEN "BOOL" ELSE "DINT"
    [] f \in {"SR", "RS"} -> "BOOL"
    [] OTHER -> "NONE"

\* Arguments keep TIME for DINT: the conversion sees no difference.
Argument(f, i, x) ==
  IF ParamType(f, i) = "NONE" THEN x ELSE Converted(x, ParamType(f, i))
Arguments(f, xs) == [i \in DOMAIN xs |-> Argument(f, i, xs[i])]

\* The type LIMIT, MIN, MAX and SUM work in; a DWORD counts for nothing.
Common(xs) == IF HasType("REAL", xs) THEN "REAL" ELSE IF HasType("DINT", xs) THEN "DINT" ELSE "INT"
Read(x, t) == CASE t = "REAL" -> AsReals(x)
                [] t = "DINT" -> IF x.t = "DINT" THEN {x.v} ELSE AsInts(x)
                [] OTHER      -> AsInts(x)
Typed(t, n) == CASE t = "REAL" -> RealOf(n) [] t = "DINT" -> DIntOf(n) [] OTHER -> IntOf(n)

Smaller(a, b) == IF a < b THEN a ELSE b
Larger(a, b) == IF a > b THEN a ELSE b

\* Two operands read in their common type.
Pairwise(op(_, _), xs) ==
  {Typed(Common(xs), op(a, b)) : a \in Read(xs[1], Common(xs)), b \in Read(xs[2], Common(xs))}

\* int_val under the label of the first argument, for LIMIT and ABS of it.
Labelled(t, n) == CASE t = "BOOL" -> Bool(n % 2^(IntBits \div 2) # 0)
                    [] t = "DWORD" -> DWordOf(n % 2^IntBits)
                    [] t = "TIME" -> [t |-> t, v |-> n] [] OTHER -> Typed(t, n)

Limit(xs) ==
  LET t == Common(xs)
      label == IF t = "INT" THEN xs[1].t ELSE t
  IN {Labelled(label, IF v < lo THEN lo ELSE IF v > hi THEN hi ELSE v) :
        lo \in Read(xs[1], t), v \in Read(xs[2], t), hi \in Read(xs[3], t)}

\* SEL and MUX hand one argument over unconverted and label it with the common
\* type: of other types the bytes are not computed here, two values stand for them.
Pick(xs, i) ==
  LET t == IF Common(xs) = "INT" THEN xs[1].t ELSE Common(xs)
  IN IF xs[i].t = t THEN {xs[i]} ELSE {Labelled(t, 0), Labelled(t, 1)}

Absolute(x) ==
  CASE x.t = "REAL" -> {RealOf(IF x.v < 0 THEN -x.v ELSE x.v)}
    [] x.t = "DINT" -> {DIntOf(IF x.v = DIntMin THEN DIntMax ELSE IF x.v < 0 THEN -x.v ELSE x.v)}
    [] OTHER -> {Labelled(x.t, IF n = IntMin THEN IntMax ELSE IF n < 0 THEN -n ELSE n) : n \in AsInts(x)}

\* Away from zero at one half (roundf), down, up.
RoundedTo(f, r) ==
  LET up == -((-r) \div RealUnit)
      down == r \div RealUnit
  IN CASE f = "FLOOR" -> down
       [] f = "CEIL"  -> up
       [] f = "ROUND" -> IF r >= 0 THEN (2 * r + RealUnit) \div (2 * RealUnit)
                         ELSE -((-2 * r + RealUnit) \div (2 * RealUnit))
       [] OTHER       -> Quot(r, RealUnit)

Bit(n, i) == (n \div 2^i) % 2

\* BIT_SET, BIT_CLR and BIT_TST of a bit of an INT, counted modulo its width.
BitOp(f, n, i) ==
  LET u == n % 2^IntBits
      k == i % IntBits
  IN CASE f = "BIT_TST" -> Bool(Bit(u, k) = 1)
       [] f = "BIT_SET" -> IntOf(u + (1 - Bit(u, k)) * 2^k)
       [] f = "BIT_CLR" -> IntOf(u - Bit(u, k) * 2^k)

\* ROL and ROR of the width of the first argument, by int_val of the second.
Rotated(f, x, n) ==
  LET bits == IF x.t \in {"DINT", "DWORD"} THEN DIntBits ELSE IntBits
      k == IF f = "ROL" THEN n % bits ELSE (-n) % bits
      turned(a) == ((a * 2^k) % 2^bits) + ((a % 2^bits) \div 2^(bits - k))
  IN {IF x.t = "DINT" THEN DIntOf(turned(a)) ELSE IF x.t = "DWORD" THEN DWordOf(turned(a))
      ELSE Labelled(x.t, Signed(turned(a), IntBits)) : a \in AsWide(x)}

Functions1 == {"ABS", "ROUND", "TRUNC", "FLOOR", "CEIL", "INT_TO_REAL", "REAL_TO_INT",
               "BOOL_TO_INT", "INT_TO_BOOL", "DWORD_TO_INT", "INT_TO_DWORD"}
Functions2 == {"MIN", "MAX", "SUM", "BIT_SET", "BIT_CLR", "BIT_TST", "ROL", "ROR"}
Functions3 == {"LIMIT", "SEL"}
Functions4 == {"MUX"}
PureFunctions == Functions1 \cup Functions2 \cup Functions3 \cup Functions4

\* st_vm_exec_call_builtin for a function without memory; xs are converted.
Pure(f, xs) ==
  CASE f = "ABS" -> Absolute(xs[1])
    [] f \in {"ROUND", "TRUNC", "FLOOR", "CEIL", "REAL_TO_INT"} ->
         {[t |-> "INT", v |-> Clamped(RoundedTo(f, xs[1].v), IntMin, IntMax)]}
    [] f = "INT_TO_REAL"  -> {RealOf(xs[1].v * RealUnit)}
    [] f = "BOOL_TO_INT"  -> {IntOf(xs[1].v)}
    [] f = "INT_TO_BOOL"  -> {Bool(xs[1].v # 0)}
    [] f = "DWORD_TO_INT" -> {[t |-> "INT", v |-> Clamped(xs[1].v, 0, IntMax)]}
    [] f = "INT_TO_DWORD" -> {DWordOf(xs[1].v)}
    [] f = "MIN" -> Pairwise(Smaller, xs)
    [] f = "MAX" -> Pairwise(Larger, xs)
    [] f = "SUM" -> Pairwise(LAMBDA a, b : a + b, xs)
    [] f \in {"BIT_SET", "BIT_CLR", "BIT_TST"} -> {BitOp(f, xs[1].v, xs[2].v)}
    [] f \in {"ROL", "ROR"} -> UNION {Rotated(f, xs[1], n) : n \in AsInts(xs[2])}
    [] f = "LIMIT" -> Limit(xs)
    [] f = "SEL" -> Pick(Tail(xs), IF xs[1].v = 1 THEN 2 ELSE 1)
    [] f = "MUX" -> Pick(Tail(xs), IF xs[1].v \in 1 .. 2 THEN xs[1].v + 1 ELSE 1)
=============================================================================
